-------------------------- MODULE FakeServerProofs --------------------------
(***************************************************************************)
(* Proofs that the fake docker server sends a container once for each      *)
(* change of its state, and that its requests take effect at one moment    *)
(* each: FakeServer implements ContainerLifecycle, for any number of       *)
(* requests served at the same time, containers and images.                *)
(***************************************************************************)
EXTENDS FakeServer, FiniteSetTheorems, SequenceTheorems, TLAPS

(* The inductive invariant.                                                *)

\* Every request is a record with the fields of Idle.
Shape ==
  /\ req = [p \in Procs |-> req[p]]
  /\ \A p \in Procs :
       req[p] = [op |-> req[p].op, id |-> req[p].id, pc |-> req[p].pc, index |-> req[p].index]

\* A handler that is past the look for its container, or notifies, has the id
\* of one that has been created; a removal has an index of the slice as it was.
Request(r) ==
  /\ r.pc \in {"find", "act", "remove", "notify"} => r.id \in used \intersect Ids
  /\ r.pc = "remove" \/ (r.pc = "act" /\ r.op = "remove") => r.index \in Nat \ {0}

Requests == \A p \in Procs : Request(req[p])

\* The slice has no container twice, and only those that have been created.
Slice ==
  /\ containers \in Seq(Ids)
  /\ \A i, j \in DOMAIN containers : containers[i] = containers[j] => i = j
  /\ \A i \in DOMAIN containers : containers[i] \in used

\* What a handler that holds iMut for writing is at.
ChangesImages(r) ==
  (r.pc = "begin" /\ r.op = "pull") \/ (r.pc = "act" /\ r.op = "commit") \/ r.pc = "rmi"

Locks ==
  /\ cLock = None \/ (cLock \in Procs /\ At(cLock, "notify"))
  /\ iLock = None \/ (iLock \in Procs /\ ChangesImages(req[iLock]))

ImageNames == {NoImage} \union { Image(c) : c \in Ids } \union ImageIds

Kept ==
  /\ running \in SUBSET Ids /\ paused \in SUBSET Ids
  /\ imgIDs \in [Tags -> ImageNames] /\ cChan \in BOOLEAN

Notifying(c) == { p \in Procs : At(p, "notify") /\ req[p].id = c }

Owed ==
  /\ owed = [c \in Ids |-> owed[c]]
  /\ \A c \in Ids : owed[c] = Cardinality(Notifying(c))

IInv == Shape /\ Requests /\ Slice /\ Locks /\ Kept /\ Owed

-----------------------------------------------------------------------------
(* Sequences.                                                              *)

LEMMA FrontElements ==
  ASSUME NEW S, NEW s \in Seq(S), s # <<>>
  PROVE  /\ Front(s) \in Seq(S) /\ Len(Front(s)) = Len(s) - 1
         /\ \A i \in 1..(Len(s) - 1) : Front(s)[i] = s[i]
<1>1. Len(s) \in Nat \ {0} /\ Len(s) - 1 \in Nat
  BY EmptySeq
<1>2. \A i \in 1..(Len(s) - 1) : s[i] \in S
  BY <1>1, ElementOfSeq
<1>3. /\ SubSeq(s, 1, Len(s) - 1) \in Seq(S)
      /\ Len(SubSeq(s, 1, Len(s) - 1)) = IF 1 <= Len(s) - 1 THEN (Len(s) - 1) - 1 + 1 ELSE 0
      /\ \A i \in 1..((Len(s) - 1) - 1 + 1) : SubSeq(s, 1, Len(s) - 1)[i] = s[1 + i - 1]
  BY <1>1, <1>2, SubSeqProperties
<1>4. (Len(s) - 1) - 1 + 1 = Len(s) - 1 /\ \A i \in 1..(Len(s) - 1) : 1 + i - 1 = i
  BY <1>1
<1> QED
  BY <1>1, <1>3, <1>4 DEF Front

\* Without the element at i, the others are there, once each.
LEMMA WithoutElements ==
  ASSUME NEW S, NEW s \in Seq(S), NEW i \in 1..Len(s),
         \A j, k \in DOMAIN s : s[j] = s[k] => j = k
  PROVE  LET t == WithoutIndex(s, i) IN
         /\ t \in Seq(S)
         /\ \A j, k \in DOMAIN t : t[j] = t[k] => j = k
         /\ ToSet(t) = ToSet(s) \ {s[i]}
<1> DEFINE n == Len(s)
           e == [s EXCEPT ![i] = Last(s)]
           t == Front(e)
<1>1. n \in Nat \ {0} /\ DOMAIN s = 1..n /\ i \in 1..n /\ n \in 1..n
  BY LenProperties
<1>2. Last(s) = s[n] /\ s[n] \in S
  BY <1>1, ElementOfSeq DEF Last
<1>3. e \in Seq(S) /\ Len(e) = n /\ \A j \in 1..n : e[j] = IF j = i THEN s[n] ELSE s[j]
  BY <1>1, <1>2, ExceptSeq
<1>4. e # <<>>
  BY <1>1, <1>3
<1>5. /\ t \in Seq(S) /\ Len(t) = n - 1
      /\ \A j \in 1..(n - 1) : t[j] = IF j = i THEN s[n] ELSE s[j]
  <2>1. t \in Seq(S) /\ Len(t) = n - 1 /\ \A j \in 1..(n - 1) : t[j] = e[j]
    BY <1>3, <1>4, FrontElements
  <2>2. \A j \in 1..(n - 1) : j \in 1..n
    BY <1>1
  <2> HIDE DEF t, e, n
  <2> QED
    BY <1>3, <2>1, <2>2
<1>6. DOMAIN t = 1..(n - 1)
  BY <1>1, <1>5, LenProperties
<1>7. WithoutIndex(s, i) = t
  BY <1>1 DEF WithoutIndex
<1> HIDE DEF t, e, n
<1>8. \A j, k \in DOMAIN t : t[j] = t[k] => j = k
  BY <1>1, <1>5, <1>6
<1>9. ToSet(t) = ToSet(s) \ {s[i]}
  <2>1. ASSUME NEW x \in ToSet(t)
        PROVE  x \in ToSet(s) \ {s[i]}
    <3>1. PICK j \in 1..(n - 1) : x = t[j]
      BY <1>6, <2>1 DEF ToSet
    <3> QED
      BY <1>1, <1>5, <3>1 DEF ToSet
  <2>2. ASSUME NEW x \in ToSet(s) \ {s[i]}
        PROVE  x \in ToSet(t)
    <3>1. PICK j \in 1..n : x = s[j] /\ j # i
      BY <1>1, <2>2 DEF ToSet
    <3>2. CASE j = n
      <4>1. i \in 1..(n - 1)
        BY <1>1, <3>1, <3>2
      <4>2. t[i] = x
        BY <1>5, <3>1, <3>2, <4>1
      <4> QED
        BY <1>6, <4>1, <4>2 DEF ToSet
    <3>3. CASE j # n
      <4>1. j \in 1..(n - 1)
        BY <1>1, <3>1, <3>3
      <4>2. t[j] = x
        BY <1>5, <3>1, <4>1
      <4> QED
        BY <1>6, <4>1, <4>2 DEF ToSet
    <3> QED
      BY <3>2, <3>3
  <2> QED
    BY <2>1, <2>2
<1> QED
  BY <1>5, <1>7, <1>8, <1>9

-----------------------------------------------------------------------------
(* What becomes of a request.                                              *)

Others(p) == \A q \in Procs : q # p => req'[q] = req[q]

LEMMA GoesRequest ==
  ASSUME Shape, NEW p \in Procs, NEW x, Goes(p, x)
  PROVE  /\ Shape' /\ Others(p)
         /\ req'[p].pc = x /\ req'[p].op = req[p].op /\ req'[p].id = req[p].id
         /\ req'[p].index = req[p].index
  BY DEF Shape, Goes, Others

LEMMA MovedRecord ==
  ASSUME NEW r, r = [op |-> r.op, id |-> r.id, pc |-> r.pc, index |-> r.index], NEW x, NEW i
  PROVE  [r EXCEPT !.pc = x, !.index = i] = [op |-> r.op, id |-> r.id, pc |-> x, index |-> i]
<1> DEFINE s == [op |-> r.op, id |-> r.id, pc |-> x, index |-> r.index]
<1>1. [r EXCEPT !.pc = x] = s
  OBVIOUS
<1>2. [s EXCEPT !.index = i] = [op |-> r.op, id |-> r.id, pc |-> x, index |-> i]
  OBVIOUS
<1>3. [r EXCEPT !.pc = x, !.index = i] = [[r EXCEPT !.pc = x] EXCEPT !.index = i]
  OBVIOUS
<1> HIDE DEF s
<1> QED
  BY <1>1, <1>2, <1>3

LEMMA MovesRequest ==
  ASSUME Shape, NEW p \in Procs, NEW x, NEW i,
         req' = [req EXCEPT ![p].pc = x, ![p].index = i]
  PROVE  /\ Shape' /\ Others(p)
         /\ req'[p].pc = x /\ req'[p].index = i
         /\ req'[p].op = req[p].op /\ req'[p].id = req[p].id
<1> DEFINE r == [op |-> req[p].op, id |-> req[p].id, pc |-> x, index |-> i]
<1>1. req[p] = [op |-> req[p].op, id |-> req[p].id, pc |-> req[p].pc, index |-> req[p].index]
  BY DEF Shape
<1>2. [req[p] EXCEPT !.pc = x, !.index = i] = r
  BY <1>1, MovedRecord
<1> HIDE DEF r
<1>3. req' = [req EXCEPT ![p] = [req[p] EXCEPT !.pc = x, !.index = i]]
  BY DEF Shape
<1>4. /\ req' = [q \in Procs |-> req'[q]] /\ req'[p] = r
      /\ \A q \in Procs : q # p => req'[q] = req[q]
  BY <1>2, <1>3 DEF Shape
<1> QED
  BY <1>4 DEF Shape, Others, r

LEMMA EndsRequest ==
  ASSUME Shape, NEW p \in Procs, Ends(p)
  PROVE  Shape' /\ Others(p) /\ req'[p] = Idle
  BY DEF Shape, Ends, Others, Idle

LEMMA NotifyRequest ==
  ASSUME Shape, NEW p \in Procs, NEW c, WillNotify(p, c)
  PROVE  Shape' /\ Others(p) /\ req'[p].pc = "notify" /\ req'[p].id = c /\ req'[p].op = "none"
  BY DEF Shape, WillNotify, Others, Idle

\* A step that leaves the containers alone and notifies nobody.
LEMMA QuietStep ==
  ASSUME IInv, NEW p \in Procs, Shape', Others(p), ~At(p, "notify"), req'[p].pc # "notify",
         Request(req[p])', UNCHANGED <<containers, running, used, cLock, notes>>,
         paused' \in SUBSET Ids, imgIDs' \in [Tags -> ImageNames],
         iLock' = None \/ (iLock' = iLock /\ iLock # p) \/ (iLock' = p /\ ChangesImages(req'[p]))
  PROVE  IInv'
<1> USE DEF notes
<1>1. Requests'
  BY DEF IInv, Requests, Request, Others
<1>2. Slice'
  BY DEF IInv, Slice
<1>3. Kept'
  BY DEF IInv, Kept, ImageNames
<1>4. Locks'
  <2>1. cLock = None \/ (cLock \in Procs /\ cLock # p /\ req'[cLock].pc = "notify")
    BY DEF IInv, Locks, At, Others
  <2>2. CASE iLock' = iLock /\ iLock # p
    BY <2>1, <2>2 DEF IInv, Locks, At, Others, ChangesImages
  <2>3. CASE iLock' = None \/ (iLock' = p /\ ChangesImages(req'[p]))
    BY <2>1, <2>3 DEF Locks, At, ChangesImages
  <2> QED
    BY <2>2, <2>3
<1>5. Owed'
  <2>1. ASSUME NEW c
        PROVE  Notifying(c)' = Notifying(c)
    BY DEF Notifying, At, Others
  <2> QED
    BY <2>1 DEF IInv, Owed
<1> QED
  BY <1>1, <1>2, <1>3, <1>4, <1>5 DEF IInv

LEMMA NotifyingFinite ==
  ASSUME NEW c
  PROVE  IsFiniteSet(Notifying(c)) /\ Cardinality(Notifying(c)) \in Nat
<1>1. Notifying(c) \in SUBSET Procs
  BY DEF Notifying
<1> QED
  BY <1>1, NamesAssumption, FS_Subset, FS_CardinalityType

\* A change of state is one notification more.
LEMMA OwedUp ==
  ASSUME Owed, NEW p \in Procs, Others(p), ~At(p, "notify"), NEW c \in Ids, Changed(c),
         req'[p].pc = "notify", req'[p].id = c
  PROVE  Owed'
<1>1. p \notin Notifying(c) /\ Notifying(c)' = Notifying(c) \union {p}
  BY DEF Notifying, At, Others
<1>2. Cardinality(Notifying(c) \union {p}) = Cardinality(Notifying(c)) + 1
  BY <1>1, NotifyingFinite, FS_AddElement
<1>3. ASSUME NEW d \in Ids, d # c
      PROVE  Notifying(d)' = Notifying(d)
  BY <1>3 DEF Notifying, At, Others
<1>4. owed' = [owed EXCEPT ![c] = owed[c] + 1] /\ owed = [d \in Ids |-> owed[d]]
  BY DEF Changed, Owed
<1>5. owed' = [d \in Ids |-> owed'[d]]
  BY <1>4
<1>6. ASSUME NEW d \in Ids
      PROVE  owed'[d] = Cardinality(Notifying(d)')
  <2>1. CASE d = c
    BY <1>1, <1>2, <1>4, <2>1 DEF Owed
  <2>2. CASE d # c
    BY <1>3, <1>4, <2>2 DEF Owed
  <2> QED
    BY <2>1, <2>2
<1> QED
  BY <1>5, <1>6 DEF Owed

LEMMA OwedDown ==
  ASSUME Owed, NEW p \in Procs, Others(p), At(p, "notify"), req[p].id \in Ids, Sent(req[p].id),
         req'[p].pc # "notify"
  PROVE  Owed'
<1> DEFINE c == req[p].id
<1>1. p \in Notifying(c) /\ { q \in Procs : At(q, "notify")' /\ req'[q].id = c } = Notifying(c) \ {p}
  BY DEF Notifying, At, Others
<1>2. Cardinality(Notifying(c) \ {p}) = Cardinality(Notifying(c)) - 1
  BY <1>1, NotifyingFinite, FS_RemoveElement
<1>3. ASSUME NEW d \in Ids, d # c
      PROVE  Notifying(d)' = Notifying(d)
  BY <1>3 DEF Notifying, At, Others
<1>4. owed' = [owed EXCEPT ![c] = owed[c] - 1] /\ owed = [d \in Ids |-> owed[d]]
  BY DEF Sent, Owed
<1>5. owed' = [d \in Ids |-> owed'[d]]
  BY <1>4
<1>6. ASSUME NEW d \in Ids
      PROVE  owed'[d] = Cardinality(Notifying(d)')
  <2>1. CASE d = c
    <3>1. Notifying(d)' = Notifying(c) \ {p}
      BY <1>1, <2>1 DEF Notifying
    <3> QED
      BY <1>2, <1>4, <2>1, <3>1 DEF Owed
  <2>2. CASE d # c
    BY <1>3, <1>4, <2>2 DEF Owed
  <2> QED
    BY <2>1, <2>2
<1> QED
  BY <1>5, <1>6 DEF Owed

\* A step that makes or changes container c and notifies.
LEMMA ChangeStep ==
  ASSUME IInv, NEW p \in Procs, NEW c, WillNotify(p, c), Changed(c), c \in used' \intersect Ids,
         req[p].pc \in {"act", "create"}, iLock # p, UNCHANGED <<paused, ivars, iLock, cChan>>,
         used \subseteq used', running' \in SUBSET Ids, Slice',
         cLock' = cLock \/ cLock' = p
  PROVE  IInv'
<1>1. /\ Shape' /\ Others(p)
      /\ req'[p].pc = "notify" /\ req'[p].id = c
  BY NotifyRequest DEF IInv
<1>2. Requests'
  BY <1>1 DEF IInv, Requests, Request, Others
<1>3. Kept'
  BY DEF IInv, Kept, ImageNames, ivars
<1>4. Locks'
  <2>1. cLock' = None \/ (cLock' \in Procs /\ req'[cLock'].pc = "notify")
    <3>1. CASE cLock' = p
      BY <1>1, <3>1
    <3>2. CASE cLock' = cLock
      BY <1>1, <3>2 DEF IInv, Locks, At, Others
    <3> QED
      BY <3>1, <3>2
  <2>2. iLock' = None \/ (iLock' \in Procs /\ ChangesImages(req'[iLock']))
    BY <1>1 DEF IInv, Locks, Others, ChangesImages
  <2> QED
    BY <2>1, <2>2 DEF Locks, At, ChangesImages
<1>5. Owed'
  BY <1>1, OwedUp DEF IInv, At
<1> QED
  BY <1>1, <1>2, <1>3, <1>4, <1>5 DEF IInv

-----------------------------------------------------------------------------
(* The actions.                                                            *)

LEMMA NotChanging ==
  ASSUME IInv, NEW p \in Procs, ~ChangesImages(req[p]) \/ iLock = None
  PROVE  iLock # p
  BY NamesAssumption DEF IInv, Locks

LEMMA InitIInv == Init => IInv
<1> SUFFICES ASSUME Init
             PROVE  IInv
  OBVIOUS
<1> USE DEF Init
<1>1. Shape
  BY DEF Shape, Idle
<1>2. Requests
  BY DEF Requests, Request, Idle
<1>3. Slice
  BY DEF Slice
<1>4. Locks
  BY DEF Locks
<1>5. Kept
  BY DEF Kept, ImageNames
<1>6. Owed
  <2>1. ASSUME NEW c \in Ids
        PROVE  Notifying(c) = {}
    BY DEF Notifying, At, Idle
  <2> QED
    BY <2>1, FS_EmptySet DEF Owed
<1> QED
  BY <1>1, <1>2, <1>3, <1>4, <1>5, <1>6 DEF IInv

LEMMA ServeStep ==
  ASSUME IInv, NEW p \in Procs, NEW op \in Ops, NEW id \in Args(op), ServeHTTP(p, op, id)
  PROVE  IInv'
<1> DEFINE r == [op |-> op, id |-> id, index |-> 0,
                 pc |-> IF op \in failing THEN "idle" ELSE IF op \in {"create", "pull", "push", "rmi"}
                        THEN "begin" ELSE "find"]
<1>1. req' = [req EXCEPT ![p] = r] /\ At(p, "idle") /\ UNCHANGED <<cvars, ivars, hvars, locks, notes>>
  BY DEF ServeHTTP
<1>2. Shape' /\ Others(p) /\ req'[p] = r
  BY <1>1 DEF IInv, Shape, Others
<1>3. r.pc = "find" => id \in used \intersect Ids
  <2>1. op \in AllOps
    BY OpsAssumption
  <2>2. r.pc = "find" => op \notin {"create", "pull", "push", "rmi"}
    OBVIOUS
  <2> QED
    BY <2>1, <2>2 DEF Args, AllOps
<1>4. Request(req[p])'
  BY <1>1, <1>2, <1>3 DEF Request, cvars
<1>5. iLock # p
  BY <1>1, NotChanging DEF At, ChangesImages
<1>6. req'[p].pc # "notify"
  BY <1>2
<1> QED
  BY <1>1, <1>2, <1>4, <1>5, <1>6, QuietStep DEF IInv, Kept, At, cvars, ivars, locks, notes

LEMMA FindStep ==
  ASSUME IInv, NEW p \in Procs, FindContainer(p)
  PROVE  IInv'
<1>1. At(p, "find") /\ UNCHANGED <<cvars, ivars, hvars, locks, notes>>
  BY DEF FindContainer
<1>2. CASE Ends(p)
  BY <1>1, <1>2, EndsRequest, NotChanging, QuietStep
     DEF IInv, Kept, Request, Idle, At, ChangesImages, cvars, ivars, locks, notes
<1>3. ASSUME NEW i \in DOMAIN containers, NEW x, NEW k,
             x = IF req[p].op = "look" THEN "idle" ELSE "act",
             k = IF req[p].op = "remove" THEN i ELSE 0,
             req' = [req EXCEPT ![p].pc = x, ![p].index = k]
      PROVE  IInv'
  <2>1. /\ Shape' /\ Others(p)
        /\ req'[p].pc = x /\ req'[p].index = k
        /\ req'[p].op = req[p].op /\ req'[p].id = req[p].id
    <3>1. Shape /\ req' = [req EXCEPT ![p].pc = x, ![p].index = k]
      BY <1>3 DEF IInv
    <3> QED
      BY <3>1, MovesRequest
  <2>2. i \in Nat \ {0}
    BY LenProperties DEF IInv, Slice
  <2>3. Request(req[p])'
    BY <1>1, <1>3, <2>1, <2>2 DEF IInv, Requests, Request, At, cvars
  <2>4. iLock # p /\ ~At(p, "notify")
    BY <1>1, NotChanging DEF At, ChangesImages
  <2>5. req'[p].pc # "notify"
    BY <1>3, <2>1
  <2> QED
    BY <1>1, <2>1, <2>3, <2>4, <2>5, QuietStep DEF IInv, Kept, cvars, ivars, locks, notes
<1>4. \/ Ends(p)
      \/ \E i \in DOMAIN containers :
           req' = [req EXCEPT ![p].pc = IF req[p].op = "look" THEN "idle" ELSE "act",
                              ![p].index = IF req[p].op = "remove" THEN i ELSE 0]
  BY DEF FindContainer
<1> QED
  BY <1>2, <1>3, <1>4

\* The handlers that only look, or pause a container.
LEMMA LookStep ==
  ASSUME IInv, NEW p \in Procs,
         \/ FindImage(p) \/ FindImageByID(p) \/ WaitContainer(p) \/ RemoveCheck(p) \/ PushImage(p)
         \/ PauseContainer(p) \/ UnpauseContainer(p)
  PROVE  IInv'
<1>1. /\ UNCHANGED <<containers, running, used, ivars, locks, notes>>
      /\ ~At(p, "notify") /\ paused' \in SUBSET Ids
  BY DEF FindImage, FindImageByID, WaitContainer, RemoveCheck, PushImage, PauseContainer,
         UnpauseContainer, cvars, At, IInv, Kept, Requests, Request
<1>2. iLock # p
  BY NotChanging DEF FindImage, FindImageByID, WaitContainer, RemoveCheck, PushImage, PauseContainer,
         UnpauseContainer, At, ChangesImages, CanReadI
<1>3. CASE Ends(p)
  BY <1>1, <1>2, <1>3, EndsRequest, QuietStep DEF IInv, Kept, Request, Idle, ivars, locks, notes
<1>4. ASSUME NEW pc \in {"create", "byID"}, Goes(p, pc)
      PROVE  IInv'
  BY <1>1, <1>2, <1>4, GoesRequest, QuietStep DEF IInv, Kept, Request, ivars, locks, notes
<1>5. CASE RemoveCheck(p) /\ Goes(p, "remove")
  <2>1. Request(req[p])'
    BY <1>1, <1>5, GoesRequest DEF IInv, Requests, Request, RemoveCheck, At
  <2> QED
    BY <1>1, <1>2, <1>5, <2>1, GoesRequest, QuietStep DEF IInv, Kept, ivars, locks, notes
<1> QED
  BY <1>3, <1>4, <1>5 DEF FindImage, FindImageByID, WaitContainer, RemoveCheck, PushImage,
     PauseContainer, UnpauseContainer

LEMMA CreateStep ==
  ASSUME IInv, NEW p \in Procs, CreateContainer(p)
  PROVE  IInv'
<1>1. PICK c \in FreshIds : /\ containers' = Append(containers, c)
                           /\ used' = used \union {c}
                           /\ WillNotify(p, c) /\ Changed(c)
  BY DEF CreateContainer
<1>2. c \in Ids /\ c \notin used
  BY DEF FreshIds
<1>3. Slice'
  <2>1. containers \in Seq(Ids)
    BY DEF IInv, Slice
  <2>2. /\ containers' \in Seq(Ids) /\ Len(containers') = Len(containers) + 1
        /\ \A i \in 1..Len(containers) : containers'[i] = containers[i]
        /\ containers'[Len(containers) + 1] = c
    BY <1>1, <1>2, <2>1, AppendProperties
  <2>3. /\ DOMAIN containers = 1..Len(containers) /\ Len(containers) \in Nat
        /\ DOMAIN containers' = 1..(Len(containers) + 1)
    BY <2>1, <2>2, LenProperties
  <2>4. \A i \in DOMAIN containers' : i \in DOMAIN containers \/ i = Len(containers) + 1
    BY <2>3
  <2>5. \A i \in DOMAIN containers : containers[i] \in used /\ containers'[i] = containers[i]
    BY <2>2, <2>3 DEF IInv, Slice
  <2>6. \A i \in DOMAIN containers' : containers'[i] \in used'
    BY <1>1, <2>2, <2>4, <2>5
  <2>7. \A i, j \in DOMAIN containers' : containers'[i] = containers'[j] => i = j
    BY <1>2, <2>2, <2>4, <2>5 DEF IInv, Slice
  <2> QED
    BY <2>2, <2>6, <2>7 DEF Slice
<1>4. req[p].pc = "create" /\ UNCHANGED <<running, paused, ivars, locks, cChan>>
  BY DEF CreateContainer, At
<1>5. iLock # p
  BY <1>4, NotChanging DEF ChangesImages
<1> QED
  BY <1>1, <1>2, <1>3, <1>4, <1>5, ChangeStep DEF IInv, Kept, locks

LEMMA StartStopStep ==
  ASSUME IInv, NEW p \in Procs, StartContainer(p) \/ StopContainer(p)
  PROVE  IInv'
<1>1. /\ req[p].pc = "act" /\ req[p].op \in {"start", "stop"}
      /\ UNCHANGED <<containers, paused, used, ivars, hvars, iLock, hLock, cChan>>
  BY DEF StartContainer, StopContainer, At
<1>2. iLock # p /\ req[p].id \in used \intersect Ids
  BY <1>1, NotChanging DEF ChangesImages, IInv, Requests, Request
<1>3. CASE Ends(p) /\ UNCHANGED <<running, owed, cLock>>
  BY <1>1, <1>2, <1>3, EndsRequest, QuietStep DEF IInv, Kept, Request, Idle, At, ivars, notes
<1>4. CASE /\ WillNotify(p, req[p].id) /\ Changed(req[p].id) /\ cLock' = p
           /\ running' \in {running \union {req[p].id}, running \ {req[p].id}}
  <2>1. Slice'
    BY <1>1 DEF IInv, Slice
  <2>2. running' \in SUBSET Ids
    BY <1>2, <1>4 DEF IInv, Kept
  <2> QED
    BY <1>1, <1>2, <1>4, <2>1, <2>2, ChangeStep
<1> QED
  BY <1>3, <1>4 DEF StartContainer, StopContainer

LEMMA NotifyStep ==
  ASSUME IInv, NEW p \in Procs, Notify(p)
  PROVE  IInv'
<1>1. /\ At(p, "notify") /\ cChan' = TRUE /\ Sent(req[p].id)
      /\ cLock' = IF cLock = p THEN None ELSE cLock
      /\ Ends(p) /\ UNCHANGED <<containers, running, paused, used, ivars, iLock>>
  BY DEF Notify, cvars
<1>2. Shape' /\ Others(p) /\ req'[p] = Idle
  BY <1>1, EndsRequest DEF IInv
<1>3. req[p].id \in Ids
  BY <1>1 DEF IInv, Requests, Request, At
<1>4. Owed'
  BY <1>1, <1>2, <1>3, OwedDown DEF IInv, Idle
<1>5. Requests' /\ Slice' /\ Kept'
  BY <1>1, <1>2 DEF IInv, Requests, Request, Slice, Kept, ImageNames, Others, Idle, ivars
<1>6. iLock # p
  BY <1>1, NotChanging DEF At, ChangesImages
<1>7. Locks'
  BY <1>1, <1>2, <1>6 DEF IInv, Locks, At, Others, ChangesImages
<1> QED
  BY <1>2, <1>4, <1>5, <1>7 DEF IInv

\* The removal of the container at the index that was found, if there is one.
LEMMA RemovedSlice ==
  ASSUME IInv, NEW p \in Procs, RemoveContainer(p)
  PROVE  /\ Slice'
         /\ \/ containers' = containers
            \/ \E c \in ToSet(containers) : ToSet(containers') = ToSet(containers) \ {c}
<1>1. /\ containers' = WithoutIndex(containers, req[p].index) /\ used' = used
      /\ req[p].index \in Nat \ {0}
  BY DEF RemoveContainer, IInv, Requests, Request, At
<1>2. /\ containers \in Seq(Ids)
      /\ \A i, j \in DOMAIN containers : containers[i] = containers[j] => i = j
      /\ \A i \in DOMAIN containers : containers[i] \in used
      /\ DOMAIN containers = 1..Len(containers) /\ Len(containers) \in Nat
  BY LenProperties DEF IInv, Slice
<1>3. CASE req[p].index > Len(containers)
  BY <1>1, <1>2, <1>3 DEF WithoutIndex, Slice
<1>4. CASE req[p].index \in 1..Len(containers)
  <2>1. /\ containers' \in Seq(Ids)
        /\ \A i, j \in DOMAIN containers' : containers'[i] = containers'[j] => i = j
        /\ ToSet(containers') = ToSet(containers) \ {containers[req[p].index]}
    BY <1>1, <1>2, <1>4, WithoutElements
  <2>2. \A i \in DOMAIN containers' : containers'[i] \in ToSet(containers)
    BY <2>1 DEF ToSet
  <2>3. \A i \in DOMAIN containers' : containers'[i] \in used'
    BY <1>1, <1>2, <2>2 DEF ToSet
  <2>4. containers[req[p].index] \in ToSet(containers)
    BY <1>2, <1>4 DEF ToSet
  <2> QED
    BY <2>1, <2>3, <2>4 DEF Slice
<1> QED
  BY <1>1, <1>2, <1>3, <1>4

LEMMA RemoveStep ==
  ASSUME IInv, NEW p \in Procs, RemoveContainer(p)
  PROVE  IInv'
<1>1. /\ At(p, "remove") /\ Ends(p)
      /\ UNCHANGED <<running, paused, used, ivars, hvars, locks, notes>>
  BY DEF RemoveContainer
<1>2. Shape' /\ Others(p) /\ req'[p] = Idle
  BY <1>1, EndsRequest DEF IInv
<1>3. iLock # p
  BY <1>1, NotChanging DEF At, ChangesImages
<1>4. Requests' /\ Kept'
  BY <1>1, <1>2 DEF IInv, Requests, Request, Kept, ImageNames, Others, Idle, ivars, notes
<1>5. Locks'
  BY <1>1, <1>2, <1>3 DEF IInv, Locks, At, Others, ChangesImages, locks
<1>6. Owed'
  <2>1. ASSUME NEW c
        PROVE  Notifying(c)' = Notifying(c)
    BY <1>1, <1>2 DEF Notifying, At, Others, Idle
  <2> QED
    BY <1>1, <2>1 DEF IInv, Owed, notes
<1> QED
  BY <1>2, <1>4, <1>5, <1>6, RemovedSlice DEF IInv

\* A step in which no request moves and the containers stay.
LEMMA StillStep ==
  ASSUME IInv, UNCHANGED <<containers, used, imgIDs, cLock, owed, req>>,
         running' \in SUBSET Ids, paused' \in SUBSET Ids, cChan' \in BOOLEAN,
         iLock' = iLock \/ (iLock' \in Procs /\ ChangesImages(req[iLock']))
  PROVE  IInv'
<1>1. Shape' /\ Requests' /\ Slice' /\ Kept'
  BY DEF IInv, Shape, Requests, Request, Slice, Kept, ImageNames
<1>2. Locks'
  BY DEF IInv, Locks, At, ChangesImages
<1>3. Owed'
  BY DEF IInv, Owed, Notifying, At
<1> QED
  BY <1>1, <1>2, <1>3 DEF IInv

LEMMA LockStep ==
  ASSUME IInv, NEW p \in Procs, LockImages(p)
  PROVE  IInv'
<1>1. UNCHANGED <<containers, running, paused, used, imgIDs, cLock, owed, cChan, req>>
  BY DEF LockImages, cvars, ivars, notes
<1>2. iLock' = p /\ ChangesImages(req[p])
  BY DEF LockImages, At, ChangesImages
<1> QED
  BY <1>1, <1>2, StillStep DEF IInv, Kept

\* The handlers that change the images, and let go of the lock.
LEMMA ImageStep ==
  ASSUME IInv, NEW p \in Procs,
         \/ \E t \in Tags \union {None} : CommitContainer(p, t)
         \/ RemoveImage(p)
  PROVE  IInv'
<1>1. /\ UNCHANGED <<containers, running, paused, used, cLock, notes>>
      /\ iLock' = None /\ Ends(p) /\ ~At(p, "notify")
  BY DEF CommitContainer, RemoveImage, cvars, At
<1>2. imgIDs' \in [Tags -> ImageNames]
  <2>1. imgIDs \in [Tags -> ImageNames]
    BY DEF IInv, Kept
  <2>2. CASE RemoveImage(p)
    BY <2>1, <2>2 DEF RemoveImage, ImageNames
  <2>3. ASSUME NEW t, CommitContainer(p, t)
        PROVE  imgIDs' \in [Tags -> ImageNames]
    <3>1. req[p].id \in Ids
      BY <2>3 DEF CommitContainer, At, IInv, Requests, Request
    <3> QED
      BY <2>1, <2>3, <3>1 DEF CommitContainer, ImageNames
  <2> QED
    BY <2>2, <2>3
<1>3. Shape' /\ Others(p) /\ req'[p] = Idle
  BY <1>1, EndsRequest DEF IInv
<1> QED
  BY <1>1, <1>2, <1>3, QuietStep DEF IInv, Kept, Request, Idle

LEMMA PullStep ==
  ASSUME IInv, NEW p \in Procs, PullImage(p)
  PROVE  IInv'
<1>1. PICK i \in ImageIds \ used : /\ imgIDs' = [imgIDs EXCEPT ![req[p].id] = i]
                                  /\ used' = used \union {i}
  BY DEF PullImage
<1>2. /\ UNCHANGED <<containers, running, paused, cLock, notes>>
      /\ iLock' = None /\ Ends(p) /\ ~At(p, "notify")
  BY DEF PullImage, At
<1>3. Shape' /\ Others(p) /\ req'[p] = Idle
  BY <1>2, EndsRequest DEF IInv
<1>4. Requests'
  BY <1>1, <1>3 DEF IInv, Requests, Request, Others, Idle
<1>5. Slice'
  BY <1>1, <1>2 DEF IInv, Slice
<1>6. Kept'
  BY <1>1, <1>2 DEF IInv, Kept, ImageNames, notes
<1>7. Locks'
  BY <1>2, <1>3 DEF IInv, Locks, At, Others
<1>8. Owed'
  <2>1. ASSUME NEW c
        PROVE  Notifying(c)' = Notifying(c)
    BY <1>2, <1>3 DEF Notifying, At, Others, Idle
  <2> QED
    BY <1>2, <2>1 DEF IInv, Owed, notes
<1> QED
  BY <1>3, <1>4, <1>5, <1>6, <1>7, <1>8 DEF IInv

LEMMA FindToRemoveStep ==
  ASSUME IInv, NEW p \in Procs, FindImageToRemove(p)
  PROVE  IInv'
<1>1. /\ At(p, "begin") /\ CanReadI
      /\ UNCHANGED <<containers, running, paused, used, imgIDs, iLock, cLock, notes>>
  BY DEF FindImageToRemove, cvars, ivars, locks
<1>2. \/ \E k : req' = [req EXCEPT ![p].pc = "rmi", ![p].index = k]
      \/ Ends(p)
  BY DEF FindImageToRemove
<1>3. CASE Ends(p)
  BY <1>1, <1>3, EndsRequest, QuietStep DEF IInv, Kept, Request, Idle, At, CanReadI
<1>4. ASSUME NEW k, req' = [req EXCEPT ![p].pc = "rmi", ![p].index = k]
      PROVE  IInv'
  <2>1. Shape
    BY DEF IInv
  <2>2. Shape' /\ Others(p) /\ req'[p].pc = "rmi"
    BY <1>4, <2>1, MovesRequest
  <2> QED
    BY <1>1, <2>2, QuietStep DEF IInv, Kept, Request, At, CanReadI
<1> QED
  BY <1>2, <1>3, <1>4

\* What the test does, and nothing.
LEMMA TestStep ==
  ASSUME IInv,
         \/ Drain \/ LockHandlers \/ ResetFailure
         \/ \E op \in Prepared : PrepareFailure(op) \/ CustomHandler(op)
         \/ \E c \in Ids : MutateContainer(c)
         \/ UNCHANGED vars
  PROVE  IInv'
<1>1. /\ UNCHANGED <<containers, used, imgIDs, iLock, cLock, owed, req>>
      /\ running' \in SUBSET Ids /\ paused' \in SUBSET Ids /\ cChan' \in BOOLEAN
  BY ZenonT(60) DEF Drain, LockHandlers, ResetFailure, PrepareFailure, CustomHandler, MutateContainer, vars,
     cvars, ivars, locks, notes, IInv, Kept
<1> QED
  BY <1>1, StillStep

LEMMA NextIInv == IInv /\ [Next]_vars => IInv'
<1> SUFFICES ASSUME IInv, [Next]_vars
             PROVE  IInv'
  OBVIOUS
<1>1. ASSUME NEW p \in Procs, Handle(p)
      PROVE  IInv'
  BY <1>1, FindStep, LookStep, CreateStep, StartStopStep, NotifyStep, RemoveStep, LockStep, ImageStep,
     PullStep, FindToRemoveStep DEF Handle
<1> QED
  BY <1>1, ServeStep, TestStep DEF Next

LEMMA SpecIInv == Spec => []IInv
  BY InitIInv, NextIInv, PTL DEF Spec

-----------------------------------------------------------------------------
(* The theorems.                                                           *)

\* The fake server sends a container once for each change of its state, also
\* when several requests change it at the same time.
THEOREM SpecNotifiedOnce == Spec => []NotifiedOnce
<1>1. IInv => NotifiedOnce
  BY DEF IInv, Slice, Locks, Kept, Owed, ChangesImages, ImageNames, Notifying, NotifiedOnce, TypeOK
<1> QED
  BY <1>1, SpecIInv, PTL

-----------------------------------------------------------------------------
(* The refinement: each action is one of ContainerLifecycle's, or leaves   *)
(* alone what that speaks of.                                              *)

LEMMA InitLifecycle == Init => L!Init
  BY DEF Init, L!Init, ToSet

LEMMA CreateRefines ==
  ASSUME IInv, NEW p \in Procs, CreateContainer(p)
  PROVE  L!Next
<1>1. PICK c \in FreshIds : /\ containers' = Append(containers, c)
                           /\ used' = used \union {c} /\ Changed(c)
  BY DEF CreateContainer
<1>2. c \in Ids /\ c \notin used /\ UNCHANGED <<running, paused>>
  BY DEF FreshIds, CreateContainer
<1>3. ToSet(containers') = ToSet(containers) \union {c}
  <2>1. containers \in Seq(Ids)
    BY DEF IInv, Slice
  <2>2. /\ containers' \in Seq(Ids) /\ Len(containers') = Len(containers) + 1
        /\ \A i \in 1..Len(containers) : containers'[i] = containers[i]
        /\ containers'[Len(containers) + 1] = c
    BY <1>1, <1>2, <2>1, AppendProperties
  <2>3. /\ DOMAIN containers = 1..Len(containers) /\ Len(containers) \in Nat
        /\ DOMAIN containers' = 1..(Len(containers) + 1)
    BY <2>1, <2>2, LenProperties
  <2>4. \A i \in DOMAIN containers : i \in DOMAIN containers' /\ containers'[i] = containers[i]
    BY <2>2, <2>3
  <2>5. \A i \in DOMAIN containers' : i \in DOMAIN containers \/ i = Len(containers) + 1
    BY <2>3
  <2>6. Len(containers) + 1 \in DOMAIN containers'
    BY <2>3
  <2> QED
    BY <2>2, <2>4, <2>5, <2>6 DEF ToSet
<1>4. L!Create(c)
  BY <1>1, <1>2, <1>3 DEF L!Create, L!Due, Changed
<1> QED
  BY <1>2, <1>4 DEF L!Next

LEMMA StartRefines ==
  ASSUME IInv, NEW p \in Procs, StartContainer(p) \/ StopContainer(p)
  PROVE  L!Next \/ UNCHANGED L!vars
<1> DEFINE c == req[p].id
<1>1. c \in used /\ c \in Ids /\ UNCHANGED <<containers, paused, used>>
  BY DEF StartContainer, StopContainer, IInv, Requests, Request, At
<1>2. CASE UNCHANGED <<running, owed>>
  BY <1>1, <1>2 DEF L!vars
<1>3. CASE c \notin running /\ running' = running \union {c} /\ Changed(c)
  <2>1. L!Start(c)
    BY <1>1, <1>3 DEF L!Start, L!Due, Changed
  <2> QED
    BY <1>1, <2>1 DEF L!Next
<1>4. CASE c \in running /\ running' = running \ {c} /\ Changed(c)
  <2>1. L!Stop(c)
    BY <1>1, <1>4 DEF L!Stop, L!Due, Changed
  <2> QED
    BY <1>1, <2>1 DEF L!Next
<1> QED
  BY <1>2, <1>3, <1>4 DEF StartContainer, StopContainer

\* Who notifies is owed one: there is something to be sent.
LEMMA NotifyRefines ==
  ASSUME IInv, NEW p \in Procs, Notify(p)
  PROVE  L!Next
<1> DEFINE c == req[p].id
<1>1. c \in Ids /\ At(p, "notify") /\ Sent(c) /\ UNCHANGED cvars
  BY DEF Notify, IInv, Requests, Request, At
<1>2. p \in Notifying(c)
  BY <1>1 DEF Notifying
<1>3. IsFiniteSet(Notifying(c)) /\ Cardinality(Notifying(c)) \in Nat
  BY NotifyingFinite
<1>4. Cardinality(Notifying(c)) # 0
  BY <1>2, <1>3, FS_EmptySet
<1>5. owed[c] = Cardinality(Notifying(c))
  BY <1>1 DEF IInv, Owed
<1>6. owed[c] > 0
  BY <1>3, <1>4, <1>5
<1>7. L!Send(c)
  BY <1>1, <1>6 DEF L!Send, Sent, cvars
<1> QED
  BY <1>1, <1>7 DEF L!Next

LEMMA PauseRefines ==
  ASSUME IInv, NEW p \in Procs, PauseContainer(p) \/ UnpauseContainer(p)
  PROVE  L!Next
<1>1. req[p].id \in used \intersect Ids
  BY DEF PauseContainer, UnpauseContainer, IInv, Requests, Request, At
<1>2. L!Pause(req[p].id)
  BY <1>1 DEF PauseContainer, UnpauseContainer, L!Pause, notes
<1> QED
  BY <1>1, <1>2 DEF L!Next

LEMMA RemoveRefines ==
  ASSUME IInv, NEW p \in Procs, RemoveContainer(p)
  PROVE  L!Next \/ UNCHANGED L!vars
<1>1. UNCHANGED <<running, paused, used, owed>>
  BY DEF RemoveContainer, notes
<1>2. CASE containers' = containers
  BY <1>1, <1>2 DEF L!vars
<1>3. ASSUME NEW c \in ToSet(containers), ToSet(containers') = ToSet(containers) \ {c}
      PROVE  L!Next
  <2>1. c \in Ids
    BY <1>3, ElementOfSeq DEF IInv, Slice, ToSet
  <2>2. L!Remove(c)
    BY <1>1, <1>3 DEF L!Remove
  <2> QED
    BY <2>1, <2>2 DEF L!Next
<1> QED
  BY <1>2, <1>3, RemovedSlice

LEMMA MutateRefines ==
  ASSUME NEW c \in Ids, MutateContainer(c)
  PROVE  L!Next
<1>1. c \in ToSet(containers) /\ UNCHANGED <<containers, used, owed>>
  BY DEF MutateContainer, notes
<1>2. running' \in {running \union {c}, running \ {c}} /\ paused' \in {paused \union {c}, paused \ {c}}
  BY DEF MutateContainer
<1>3. L!Mutate(c)
  BY <1>1, <1>2 DEF L!Mutate
<1> QED
  BY <1>3 DEF L!Next

\* The id of an image is none of a container.
LEMMA PullRefines ==
  ASSUME NEW p \in Procs, PullImage(p)
  PROVE  UNCHANGED L!vars
<1>1. /\ UNCHANGED <<containers, running, paused, owed>>
      /\ \E i \in ImageIds : used' = used \union {i}
  BY DEF PullImage, notes
<1>2. used' \intersect Ids = used \intersect Ids
  BY <1>1, NamesAssumption
<1> QED
  BY <1>1, <1>2 DEF L!vars

LEMMA OtherHandlers ==
  ASSUME NEW p \in Procs,
         \/ FindContainer(p) \/ FindImage(p) \/ FindImageByID(p) \/ WaitContainer(p) \/ RemoveCheck(p)
         \/ \E t \in Tags \union {None} : CommitContainer(p, t)
         \/ LockImages(p) \/ PushImage(p) \/ FindImageToRemove(p) \/ RemoveImage(p)
  PROVE  UNCHANGED L!vars
<1>1. UNCHANGED <<containers, running, paused, used, owed>>
  BY ZenonT(60) DEF FindContainer, FindImage, FindImageByID, WaitContainer, RemoveCheck, CommitContainer,
     LockImages, PushImage, FindImageToRemove, RemoveImage, cvars, notes
<1> QED
  BY <1>1 DEF L!vars

LEMMA TestRefines ==
  ASSUME \/ \E p \in Procs, op \in Ops : \E id \in Args(op) : ServeHTTP(p, op, id)
         \/ Drain \/ LockHandlers \/ ResetFailure
         \/ \E op \in Prepared : PrepareFailure(op) \/ CustomHandler(op)
         \/ UNCHANGED vars
  PROVE  UNCHANGED L!vars
<1>1. UNCHANGED <<containers, running, paused, used, owed>>
  BY ZenonT(60) DEF ServeHTTP, Drain, LockHandlers, ResetFailure, PrepareFailure, CustomHandler, vars, cvars,
     notes
<1> QED
  BY <1>1 DEF L!vars

LEMMA NextLifecycle == IInv /\ [Next]_vars => [L!Next]_(L!vars)
<1> SUFFICES ASSUME IInv, [Next]_vars
             PROVE  L!Next \/ UNCHANGED L!vars
  OBVIOUS
<1>1. ASSUME NEW p \in Procs, Handle(p)
      PROVE  L!Next \/ UNCHANGED L!vars
  BY <1>1, CreateRefines, StartRefines, NotifyRefines, PauseRefines, RemoveRefines, PullRefines,
     OtherHandlers DEF Handle
<1> QED
  BY <1>1, MutateRefines, TestRefines DEF Next

\* Every behaviour of the server is one of ContainerLifecycle: its requests take
\* effect at one moment each, however the handlers interleave.
THEOREM SpecLifecycle == Spec => Lifecycle
<1>1. Init => L!Init
  BY InitLifecycle
<1>2. IInv /\ [Next]_vars => [L!Next]_(L!vars)
  BY NextLifecycle
<1> QED
  BY <1>1, <1>2, SpecIInv, PTL DEF Spec, Lifecycle, L!Spec
=============================================================================
