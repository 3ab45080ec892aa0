----------------------------- MODULE FakeServer -----------------------------
(***************************************************************************)
(* The fake docker server of go-dockerclient (testing/server.go), with     *)
(* requests served by goroutines of their own.  Its containers and images  *)
(* are slices under two RWMutexes, a third one is held for reading during  *)
(* every request.  A handler finds a container, lets go of the lock and    *)
(* takes it again to change something: these are separate steps.           *)
(***************************************************************************)
EXTENDS Integers, Sequences, FiniteSets, SequencesExt

CONSTANTS
  Procs,      \* goroutines that serve requests
  Ids,        \* what generateID gives for containers
  ImageIds,   \* and for images
  Tags,       \* names of images
  Ops,        \* the requests that are made
  Prepared,   \* those for which the test prepares a failure or a handler
  MaxImages,  \* bound on the images
  Env         \* a subset of Disturbances

Disturbances ==
  { "custom",     \* CustomHandler is called
    "failure",    \* PrepareFailure and ResetFailure
    "mutate" }    \* MutateContainer

AllOps ==
  {"create", "start", "stop", "pause", "unpause", "wait", "look", "remove",
   "commit", "pull", "push", "rmi"}

None == "none"

\* The ids of containers and images differ; None is no goroutine.
ASSUME NamesAssumption == Ids \intersect ImageIds = {} /\ IsFiniteSet(Procs) /\ None \notin Procs

ASSUME OpsAssumption == Ops \subseteq AllOps /\ Prepared \subseteq Ops /\ Env \subseteq Disturbances

VARIABLES
  containers,        \* the slice
  running, paused,   \* State of the containers, those removed included
  images, imgIDs,    \* a slice; tag -> image or None
  failing, custom,   \* requests to be refused; those with a handler given
  cLock, iLock, hLock,  \* who has called Lock of cMut, iMut, handlerMutex
  cChan,             \* whether a container is in the channel, which the test makes with room for one
  req,               \* what each goroutine is at
  used,              \* history: what generateID has given
  owed               \* history: changes of state less those sent, per container

cvars == <<containers, running, paused, used>>
ivars == <<images, imgIDs>>
hvars == <<failing, custom>>
locks == <<cLock, iLock, hLock>>
notes == <<cChan, owed>>
vars == <<cvars, ivars, hvars, locks, notes, req>>

NoImage == <<>>
Image(id) == <<"img", id>>   \* of commitContainer

Idle == [op |-> "none", id |-> NoImage, pc |-> "idle", index |-> 0]

Init ==
  /\ containers = <<>> /\ running = {} /\ paused = {} /\ used = {}
  /\ images = <<>> /\ imgIDs = [t \in Tags |-> NoImage]
  /\ failing = {} /\ custom = {}
  /\ cLock = None /\ iLock = None /\ hLock = None
  /\ cChan = FALSE /\ owed = [c \in Ids |-> 0]
  /\ req = [p \in Procs |-> Idle]

-----------------------------------------------------------------------------

At(p, pc) == req[p].pc = pc
Goes(p, pc) == req' = [req EXCEPT ![p].pc = pc]
Ends(p) == req' = [req EXCEPT ![p] = Idle]
WillNotify(p, c) == req' = [req EXCEPT ![p] = [Idle EXCEPT !.id = c, !.pc = "notify"]]

\* The lock is held across steps by a handler that notifies, and for reading
\* by findImage.
CanLockC == cLock = None
FindingImage == { p \in Procs : At(p, "byID") }
CanReadI == iLock = None

Changed(c) == owed' = [owed EXCEPT ![c] = @ + 1]
Sent(c) == owed' = [owed EXCEPT ![c] = @ - 1]

-----------------------------------------------------------------------------
(* Slips: what a plausible mistake would do.                               *)

\* The state is checked before Lock and not after.
StartContainerUnchecked(p) ==
  /\ At(p, "act") /\ req[p].op = "start" /\ CanLockC
  /\ running' = running \union {req[p].id}
  /\ Changed(req[p].id)
  /\ cLock' = p /\ WillNotify(p, req[p].id)
  /\ UNCHANGED <<containers, paused, used, ivars, hvars, iLock, hLock, cChan>>

\* notify with select and default.
NotifyIfRoom(p) ==
  /\ At(p, "notify")
  /\ \/ /\ ~cChan /\ cChan' = TRUE
        /\ Sent(req[p].id)
     \/ cChan /\ UNCHANGED <<cChan, owed>>
  /\ cLock' = IF cLock = p THEN None ELSE cLock
  /\ Ends(p)
  /\ UNCHANGED <<cvars, ivars, hvars, iLock, hLock>>

\* break without RUnlock: no writer ever gets the lock again.
WaitContainerLocked(p) ==
  /\ At(p, "act") /\ req[p].op = "wait" /\ CanLockC
  /\ req[p].id \notin running
  /\ cLock' = p
  /\ Ends(p)
  /\ UNCHANGED <<cvars, ivars, hvars, iLock, hLock, notes>>

-----------------------------------------------------------------------------
(* ServeHTTP and handlerWrapper.                                           *)

\* Bounds on what is made.
Promised(op) == Cardinality({ q \in Procs : req[q].op = op })

ServeHTTP(p, op, id) ==
  /\ At(p, "idle") /\ hLock = None
  /\ op \notin custom
  /\ op = "create" => Promised("create") < Cardinality(Ids \ used)
  /\ op = "pull" => Promised("pull") < Cardinality(ImageIds \ used)
  /\ op = "commit" => Len(images) + Promised("commit") < MaxImages
  /\ req' = [req EXCEPT ![p] =
       [op |-> op, id |-> id, index |-> 0,
        pc |-> IF op \in failing THEN "idle" ELSE IF op \in {"create", "pull", "push", "rmi"}
               THEN "begin" ELSE "find"]]
  /\ UNCHANGED <<cvars, ivars, hvars, locks, notes>>

\* findContainer
FindContainer(p) ==
  /\ At(p, "find") /\ CanLockC
  /\ \/ \E i \in DOMAIN containers :
          /\ containers[i] = req[p].id
          /\ req' = [req EXCEPT ![p].pc = IF req[p].op = "look" THEN "idle" ELSE "act",
                                ![p].index = IF req[p].op = "remove" THEN i ELSE 0]
     \/ req[p].id \notin ToSet(containers) /\ Ends(p)
  /\ UNCHANGED <<cvars, ivars, hvars, locks, notes>>

-----------------------------------------------------------------------------
(* The handlers.                                                           *)

FreshIds == Ids \ used

\* findImage: a tag, or on to findImageByID with the lock still held.
FindImage(p) ==
  /\ At(p, "begin") /\ req[p].op = "create" /\ CanReadI
  /\ Goes(p, IF req[p].id \in Tags /\ imgIDs[req[p].id] # NoImage THEN "create" ELSE "byID")
  /\ UNCHANGED <<cvars, ivars, hvars, locks, notes>>

FindImageByID(p) ==
  /\ At(p, "byID") /\ CanReadI
  /\ IF req[p].id \in ToSet(images) THEN Goes(p, "create") ELSE Ends(p)
  /\ UNCHANGED <<cvars, ivars, hvars, locks, notes>>

\* The notification comes after Unlock.
CreateContainer(p) ==
  /\ At(p, "create") /\ CanLockC
  /\ \E c \in FreshIds :
       /\ containers' = Append(containers, c)
       /\ used' = used \union {c}
       /\ WillNotify(p, c)
       /\ Changed(c)
  /\ UNCHANGED <<running, paused, ivars, hvars, locks, cChan>>

StartContainer(p) ==
  /\ At(p, "act") /\ req[p].op = "start" /\ CanLockC
  /\ \/ /\ req[p].id \notin running
        /\ running' = running \union {req[p].id}
        /\ Changed(req[p].id)
        /\ cLock' = p /\ WillNotify(p, req[p].id)
     \/ /\ req[p].id \in running
        /\ Ends(p)
        /\ UNCHANGED <<running, owed, cLock>>
  /\ UNCHANGED <<containers, paused, used, ivars, hvars, iLock, hLock, cChan>>

StopContainer(p) ==
  /\ At(p, "act") /\ req[p].op = "stop" /\ CanLockC
  /\ \/ /\ req[p].id \in running
        /\ running' = running \ {req[p].id}
        /\ Changed(req[p].id)
        /\ cLock' = p /\ WillNotify(p, req[p].id)
     \/ /\ req[p].id \notin running
        /\ Ends(p)
        /\ UNCHANGED <<running, owed, cLock>>
  /\ UNCHANGED <<containers, paused, used, ivars, hvars, iLock, hLock, cChan>>

\* s.cChan <- container, with cMut locked but for create.
Notify(p) ==
  /\ At(p, "notify") /\ ~cChan
  /\ cChan' = TRUE
  /\ Sent(req[p].id)
  /\ cLock' = IF cLock = p THEN None ELSE cLock
  /\ Ends(p)
  /\ UNCHANGED <<cvars, ivars, hvars, iLock, hLock>>

PauseContainer(p) ==
  /\ At(p, "act") /\ req[p].op = "pause" /\ CanLockC
  /\ paused' = paused \union {req[p].id}
  /\ Ends(p)
  /\ UNCHANGED <<containers, running, used, ivars, hvars, locks, notes>>

UnpauseContainer(p) ==
  /\ At(p, "act") /\ req[p].op = "unpause" /\ CanLockC
  /\ paused' = paused \ {req[p].id}
  /\ Ends(p)
  /\ UNCHANGED <<containers, running, used, ivars, hvars, locks, notes>>

\* It looks once every millisecond.
WaitContainer(p) ==
  /\ At(p, "act") /\ req[p].op = "wait" /\ CanLockC
  /\ req[p].id \notin running
  /\ Ends(p)
  /\ UNCHANGED <<cvars, ivars, hvars, locks, notes>>

\* s.containers[index].State.Running, without the lock; an index out of range
\* ends the handler.
RemoveCheck(p) ==
  /\ At(p, "act") /\ req[p].op = "remove"
  /\ IF req[p].index <= Len(containers) /\ containers[req[p].index] \notin running
       THEN Goes(p, "remove") ELSE Ends(p)
  /\ UNCHANGED <<cvars, ivars, hvars, locks, notes>>

\* The last element takes the place of the one at index.
WithoutIndex(s, i) ==
  IF i > Len(s) THEN s ELSE Front([s EXCEPT ![i] = Last(s)])

RemoveContainer(p) ==
  /\ At(p, "remove") /\ CanLockC
  /\ containers' = WithoutIndex(containers, req[p].index)
  /\ Ends(p)
  /\ UNCHANGED <<running, paused, used, ivars, hvars, locks, notes>>

\* Writers of iMut wait for the readers.
LockImages(p) ==
  /\ CanReadI
  /\ \/ At(p, "begin") /\ req[p].op = "pull"
     \/ At(p, "act") /\ req[p].op = "commit"
     \/ At(p, "rmi")
  /\ iLock' = p
  /\ UNCHANGED <<cvars, ivars, hvars, cLock, hLock, notes, req>>

HasLockI(p) == iLock = p /\ FindingImage = {}

\* The image is appended even if it is there already; t is "repo", if any.
CommitContainer(p, t) ==
  /\ At(p, "act") /\ HasLockI(p)
  /\ images' = Append(images, Image(req[p].id))
  /\ imgIDs' = [x \in Tags |-> IF x = t THEN Image(req[p].id) ELSE imgIDs[x]]
  /\ iLock' = None /\ Ends(p)
  /\ UNCHANGED <<cvars, hvars, cLock, hLock, notes>>

\* Also buildImage, when the archive has a Dockerfile.
PullImage(p) ==
  /\ At(p, "begin") /\ HasLockI(p)
  /\ \E i \in ImageIds \ used :
       /\ images' = Append(images, i)
       /\ imgIDs' = [imgIDs EXCEPT ![req[p].id] = i]
       /\ used' = used \union {i}
  /\ iLock' = None /\ Ends(p)
  /\ UNCHANGED <<containers, running, paused, hvars, cLock, hLock, notes>>

PushImage(p) ==
  /\ At(p, "begin") /\ req[p].op = "push" /\ CanReadI
  /\ Ends(p)
  /\ UNCHANGED <<cvars, ivars, hvars, locks, notes>>

\* findImageByID for what the tag names; the tag is kept in the request.
FindImageToRemove(p) ==
  /\ At(p, "begin") /\ req[p].op = "rmi" /\ CanReadI
  /\ LET id == IF req[p].id \in Tags /\ imgIDs[req[p].id] # NoImage
               THEN imgIDs[req[p].id] ELSE req[p].id
     IN IF id \in ToSet(images)
          THEN req' = [req EXCEPT ![p].pc = "rmi",
                         ![p].index = CHOOSE i \in DOMAIN images :
                            images[i] = id /\ \A j \in 1..(i - 1) : images[j] # id]
          ELSE Ends(p)
  /\ UNCHANGED <<cvars, ivars, hvars, locks, notes>>

RemoveImage(p) ==
  /\ At(p, "rmi") /\ HasLockI(p)
  /\ images' = WithoutIndex(images, req[p].index)
  /\ imgIDs' = IF req[p].index > Len(images) THEN imgIDs
               ELSE [t \in Tags |-> IF t = req[p].id THEN NoImage ELSE imgIDs[t]]
  /\ iLock' = None /\ Ends(p)
  /\ UNCHANGED <<cvars, hvars, cLock, hLock, notes>>

-----------------------------------------------------------------------------
(* What the test that uses the server does.                                *)

Drain ==
  /\ cChan
  /\ cChan' = FALSE
  /\ UNCHANGED <<cvars, ivars, hvars, locks, owed, req>>

\* Bound: one preparation at a time, made before the first container.
Unprepared == failing = {} /\ custom = {} /\ used = {}

PrepareFailure(op) ==
  /\ "failure" \in Env /\ Unprepared
  /\ failing' = {op}
  /\ UNCHANGED <<cvars, ivars, custom, locks, notes, req>>

ResetFailure ==
  /\ failing # {}
  /\ failing' = {}
  /\ UNCHANGED <<cvars, ivars, custom, locks, notes, req>>

\* CustomHandler waits for every request.
LockHandlers ==
  /\ "custom" \in Env /\ hLock = None /\ Unprepared
  /\ hLock' = "test"
  /\ UNCHANGED <<cvars, ivars, hvars, cLock, iLock, notes, req>>

CustomHandler(op) ==
  /\ hLock = "test" /\ \A p \in Procs : At(p, "idle")
  /\ custom' = {op}
  /\ hLock' = None
  /\ UNCHANGED <<cvars, ivars, failing, cLock, iLock, notes, req>>

\* The whole State is replaced; no lock is taken, nobody notified.
MutateContainer(c) ==
  /\ "mutate" \in Env /\ c \in ToSet(containers)
  /\ running' \in {running \union {c}, running \ {c}}
  /\ paused' \in {paused \union {c}, paused \ {c}}
  /\ UNCHANGED <<containers, used, ivars, hvars, locks, notes, req>>

Args(op) ==
  CASE op = "create"           -> Tags \union ToSet(images)
    [] op \in {"pull", "push"} -> Tags
    [] op = "rmi"              -> Tags \union ToSet(images)
    [] OTHER                   -> used \intersect Ids

Handle(p) ==
  \/ FindContainer(p) \/ FindImage(p) \/ FindImageByID(p)
  \/ CreateContainer(p) \/ StartContainer(p) \/ StopContainer(p) \/ Notify(p)
  \/ PauseContainer(p) \/ UnpauseContainer(p) \/ WaitContainer(p)
  \/ RemoveCheck(p) \/ RemoveContainer(p)
  \/ \E t \in Tags \union {None} : CommitContainer(p, t)
  \/ LockImages(p) \/ PullImage(p) \/ PushImage(p)
  \/ FindImageToRemove(p) \/ RemoveImage(p)

Next ==
  \/ \E p \in Procs, op \in Ops : \E id \in Args(op) : ServeHTTP(p, op, id)
  \/ \E p \in Procs : Handle(p)
  \/ Drain \/ LockHandlers \/ ResetFailure
  \/ \E op \in Prepared : PrepareFailure(op) \/ CustomHandler(op)
  \/ \E c \in Ids : MutateContainer(c)

Spec == Init /\ [][Next]_vars

-----------------------------------------------------------------------------
(* Properties.                                                             *)

\* Every variable keeps to its type; a lock is held only by who is at work.
TypeOK ==
  /\ containers \in Seq(Ids) /\ running \subseteq Ids /\ paused \subseteq Ids
  /\ \A i, j \in DOMAIN containers : containers[i] = containers[j] => i = j
  /\ imgIDs \in [Tags -> {NoImage} \union { Image(c) : c \in Ids } \union ImageIds]
  /\ cLock = None \/ (cLock \in Procs /\ At(cLock, "notify"))
  /\ iLock = None \/ (iLock \in Procs /\ req[iLock].pc \in {"begin", "act", "rmi"})
  /\ cChan \in BOOLEAN

\* "The fake server will send containers in the channel whenever the container
\* changes its state, via the HTTP API" (testing/server.go:57): once for each
\* change, also when several requests change it at the same time.  The variables
\* keep to their types, and a lock is held only by who is at work.
NotifiedOnce ==
  /\ TypeOK
  /\ \A c \in Ids :
       owed[c] = Cardinality({ p \in Procs : At(p, "notify") /\ req[p].id = c })

\* Requests take effect at one moment each, however the handlers interleave: of
\* two that want to start a container, one does and is notified, the other is
\* refused; a removal takes away one container, and its id never comes back.
L == INSTANCE ContainerLifecycle WITH created <- used \intersect Ids, present <- ToSet(containers), due <- owed

Lifecycle == L!Spec

\* findImage keeps the lock for reading and wants it again, behind a writer.
FindImageStuck == FindingImage # {} /\ iLock # None

\* No handler keeps a lock, or waits for one that is never let go: when nothing can
\* go on and the channel is empty, requests are left only because they wait for a
\* container that runs, or because findImage blocks itself and a writer.
Answered ==
  (\A p \in Procs : ~ENABLED Handle(p)) /\ ~cChan =>
    FindImageStuck \/ \A p \in Procs : At(p, "idle") \/ (req[p].op = "wait" /\ req[p].id \in running)
=============================================================================
