-------------------------- MODULE DockerRunProofs --------------------------
(***************************************************************************)
(* Proofs that a docker run that has waited returns the exit code of its   *)
(* container, that signals reach a container in the order they were sent,  *)
(* and that no empty --cidfile is left behind: for any number of commands, *)
(* whatever their flags and whatever goes wrong.                           *)
(***************************************************************************)
EXTENDS DockerRun, SequenceTheorems, TLAPS

(* The inductive invariant.  It is about each command by itself, but for   *)
(* the file that commands may share.                                       *)

Labels ==
  {"stat", "cidCreate", "create", "retry", "pull", "cid", "select", "inspect", "start", "errCh", "wait",
   "waitExit", "exit", "delete", "defers", "finish", "done"}

\* Every variable but the file has a value for each command.
Functions ==
  /\ scene \in Scenarios
  /\ pc = [r \in Cmds |-> pc[r]] /\ ret = [r \in Cmds |-> ret[r]]
  /\ hijacked = [r \in Cmds |-> hijacked[r]] /\ errCh = [r \in Cmds |-> errCh[r]]
  /\ hj = [r \in Cmds |-> hj[r]] /\ conn = [r \in Cmds |-> conn[r]]
  /\ sigc = [r \in Cmds |-> sigc[r]] /\ sent = [r \in Cmds |-> sent[r]]
  /\ box = [r \in Cmds |-> box[r]]

\* What a container is like.
IsBox(b) ==
  /\ b = [state |-> b.state, code |-> b.code, wrote |-> b.wrote, seen |-> b.seen, got |-> b.got]
  /\ b.state \in {"none", "created", "running", "dead", "exited", "gone"} /\ b.code \in Codes
  /\ b.got \in Seq(Signals \union {"KILL"})

Types(r) ==
  /\ pc[r] \in Labels /\ ret[r] \in Codes \union {None, Failed, NoCode}
  /\ hijacked[r] \in {"open", "sending", "taken", "closed"} /\ errCh[r] \in {None, "nil", Failed}
  /\ hj[r] \in {None, "dial", "ask", "started", "spawn", "copy", "end", "fail", "gone"}
  /\ conn[r] \in {None, "asked", "answered", "attached", "ended", "closed"}
  /\ sigc[r] \in Seq(Signals) /\ sent[r] \in Seq(Signals)
  /\ IsBox(box[r])

Over == {None, "end", "fail", "gone"}
Unstarted == {"stat", "cidCreate", "create", "retry", "pull", "cid"}

\* A docker run that is past its start has a container, and tells of the end of
\* the hijack by closing the channel; the other commands wait for the end itself.
Hijacks(r) ==
  /\ errCh[r] # None => hj[r] = "gone"
  /\ pc[r] = "inspect" => hj[r] = None
  /\ pc[r] \in {"delete", "defers", "finish", "done"} => ret[r] # None
  /\ kind[r] = "none" => pc[r] = "done" /\ hj[r] = None
  /\ kind[r] = "run" =>
       /\ pc[r] \in Unstarted => hj[r] = None /\ hijacked[r] = "open"
       /\ pc[r] = "cid" \/ hj[r] # None => box[r].state # "none"
       /\ hijacked[r] = "closed" \/ pc[r] = "done" => hj[r] \in Over
       /\ hj[r] # "spawn" /\ pc[r] # "inspect"
  /\ kind[r] \in {"start", "attach"} =>
       /\ pc[r] \notin Unstarted \union {"select"}
       /\ pc[r] \in {"wait", "waitExit", "exit", "delete", "defers", "finish", "done"} => hj[r] \in {None, "gone"}

\* With --rm, the connection for the code was refused.
NotTold(r) == Is(r, "rm") /\ ret[r] = NoCode /\ "call" \in scene.faults

\* A docker run that follows the output knows at each step that its container has
\* come to its end, and its code.
Codings(r) ==
  kind[r] = "run" /\ Is(r, "out") =>
    /\ pc[r] = "wait" => Is(r, "rm")
    /\ pc[r] = "waitExit" => ~Is(r, "rm")
    /\ pc[r] = "exit" => Is(r, "rm") \/ Is(r, "tty")
    /\ pc[r] \in {"exit", "delete"} /\ Is(r, "rm") => box[r].state \in {"exited", "gone"}
    /\ pc[r] = "delete" => Is(r, "rm") /\ (ret[r] = box[r].code \/ NotTold(r))
    /\ pc[r] \in {"defers", "finish", "done"} /\ ret[r] # Failed =>
         /\ Is(r, "rm") \/ ~Is(r, "tty") => ret[r] = box[r].code \/ NotTold(r)
         /\ Is(r, "rm") => box[r].state = "gone"

\* What a container got is part of the signals, the first n of them, in order.
Got(got, all, n) ==
  \E of \in [DOMAIN got -> 1..n] :
    /\ \A i, j \in DOMAIN got : i < j => of[i] < of[j]
    /\ \A i \in DOMAIN got : got[i] = SentAs(all[of[i]])

\* The channel has the last of the signals; the rest have been forwarded.
Signalling(all, chan, got) ==
  /\ Len(chan) <= Len(all)
  /\ \A k \in 1..Len(chan) : chan[k] = all[Len(all) - Len(chan) + k]
  /\ Got(got, all, Len(all) - Len(chan))

Mine(r) == Types(r) /\ Hijacks(r) /\ Codings(r) /\ Signalling(sent[r], sigc[r], box[r].got)

Writing == {"create", "retry", "pull", "cid", "defers", "finish"}

\* An empty file has been made by a command that is going to write it or to remove it.
File ==
  /\ file \in Cmds \union {"absent", "empty"}
  /\ file = "empty" =>
       \E r \in Cmds : Is(r, "cid") /\ pc[r] \in Writing

IInv == Functions /\ (\A r \in Cmds : Mine(r)) /\ File

-----------------------------------------------------------------------------
(* A step of one command leaves the others alone.                          *)

Same(q) ==
  /\ pc'[q] = pc[q] /\ ret'[q] = ret[q] /\ hijacked'[q] = hijacked[q] /\ errCh'[q] = errCh[q]
  /\ hj'[q] = hj[q] /\ conn'[q] = conn[q] /\ sigc'[q] = sigc[q] /\ sent'[q] = sent[q]
  /\ box'[q] = box[q]

Framed(r) == Functions' /\ scene' = scene /\ \A q \in Cmds : q # r => Same(q)

LEMMA SameMine ==
  ASSUME NEW q, Mine(q), scene' = scene, Same(q)
  PROVE  Mine(q)'
<1>1. Types(q)'
  BY DEF Mine, Types, Same
<1>2. Hijacks(q)'
  BY DEF Mine, Hijacks, Same, kind
<1>3. Codings(q)'
  BY DEF Mine, Codings, NotTold, Same, kind, flags, Is
<1>4. Signalling(sent[q], sigc[q], box[q].got)'
  BY DEF Mine, Same
<1> QED
  BY <1>1, <1>2, <1>3, <1>4 DEF Mine

LEMMA FramedStep ==
  ASSUME IInv, NEW r \in Cmds, Framed(r), Mine(r)', File'
  PROVE  IInv'
<1>1. ASSUME NEW q \in Cmds
      PROVE  Mine(q)'
  <2>1. CASE q = r
    BY <2>1
  <2>2. CASE q # r
    BY <2>2, SameMine DEF IInv, Framed
  <2> QED
    BY <2>1, <2>2
<1> QED
  BY <1>1 DEF IInv, Framed

\* The file is left alone by a step of one who is not at it, or stays at it.
LEMMA FileKept ==
  ASSUME IInv, NEW r \in Cmds, Framed(r), file' = file, pc[r] \in Writing => pc'[r] \in Writing
  PROVE  File'
<1>1. CASE file # "empty"
  BY <1>1 DEF IInv, File
<1>2. CASE file = "empty"
  <2>1. PICK q \in Cmds : Is(q, "cid") /\ pc[q] \in Writing
    BY <1>2 DEF IInv, File
  <2>2. Is(q, "cid")' /\ pc'[q] \in Writing
    BY <2>1 DEF Framed, Same, Is, flags
  <2> QED
    BY <2>2 DEF IInv, File
<1> QED
  BY <1>1, <1>2

-----------------------------------------------------------------------------
(* A container's fields.                                                   *)

LEMMA BoxState ==
  ASSUME NEW b, IsBox(b), NEW s \in {"created", "running", "dead", "exited", "gone"}
  PROVE  LET d == [b EXCEPT !.state = s] IN
         IsBox(d) /\ d.state = s /\ d.code = b.code /\ d.got = b.got
  BY DEF IsBox

LEMMA BoxGot ==
  ASSUME NEW b, IsBox(b), NEW g \in Seq(Signals \union {"KILL"})
  PROVE  LET d == [b EXCEPT !.got = g] IN
         IsBox(d) /\ d.state = b.state /\ d.code = b.code /\ d.got = g
  BY DEF IsBox

LEMMA BoxStarted ==
  ASSUME NEW b, IsBox(b), NEW c \in Codes
  PROVE  LET d == [b EXCEPT !.state = "running", !.code = c] IN
         IsBox(d) /\ d.state = "running" /\ d.got = b.got
<1> DEFINE e == [b EXCEPT !.state = "running"]
           d == [e EXCEPT !.code = c]
<1>1. IsBox(e) /\ e.state = "running" /\ e.got = b.got
  BY BoxState
<1> HIDE DEF e
<1>2. IsBox(d) /\ d.state = "running" /\ d.got = b.got
  BY <1>1 DEF IsBox
<1> HIDE DEF d
<1>3. [b EXCEPT !.state = "running", !.code = c] = d
  BY DEF d, e
<1> QED
  BY <1>2, <1>3

LEMMA BoxWrote ==
  ASSUME NEW b, IsBox(b), NEW w \in BOOLEAN
  PROVE  LET d == [b EXCEPT !.wrote = w] IN
         IsBox(d) /\ d.state = b.state /\ d.code = b.code /\ d.got = b.got
  BY DEF IsBox

LEMMA BoxSeen ==
  ASSUME NEW b, IsBox(b), NEW w \in BOOLEAN
  PROVE  LET d == [b EXCEPT !.seen = w] IN
         IsBox(d) /\ d.state = b.state /\ d.code = b.code /\ d.got = b.got
  BY DEF IsBox

-----------------------------------------------------------------------------
(* Steps of one command, by what they change.                              *)

\* Where nothing is written that a signal is about.
LEMMA StillSignalling ==
  ASSUME NEW r, Mine(r), sigc'[r] = sigc[r], sent'[r] = sent[r], box'[r].got = box[r].got
  PROVE  Signalling(sent[r], sigc[r], box[r].got)'
  BY DEF Mine

OtherBoxes(r) == box' = [q \in Cmds |-> box'[q]] /\ \A q \in Cmds : q # r => box'[q] = box[q]

LEMMA Becoming ==
  ASSUME IInv, NEW r \in Cmds, NEW s \in {"created", "running", "dead", "exited", "gone"},
         box' = [box EXCEPT ![r].state = s]
  PROVE  /\ OtherBoxes(r) /\ IsBox(box'[r])
         /\ box'[r].state = s /\ box'[r].code = box[r].code /\ box'[r].got = box[r].got
<1> DEFINE d == [box[r] EXCEPT !.state = s]
<1>1. IsBox(box[r])
  BY DEF IInv, Mine, Types
<1>2. IsBox(d) /\ d.state = s /\ d.code = box[r].code /\ d.got = box[r].got
  BY <1>1, BoxState
<1>3. OtherBoxes(r) /\ box'[r] = d
  BY DEF IInv, Functions, OtherBoxes
<1> HIDE DEF d
<1> QED
  BY <1>2, <1>3

\* Goes and Returns, and nothing else changes.
LEMMA CliFramed ==
  ASSUME IInv, NEW r \in Cmds, NEW x, NEW v, scene' = scene,
         pc' = [pc EXCEPT ![r] = x], ret' = [ret EXCEPT ![r] = v] \/ (ret' = ret /\ v = ret[r]),
         UNCHANGED <<hijacked, errCh, hj, conn, sigs, box>>
  PROVE  /\ Framed(r) /\ pc'[r] = x /\ ret'[r] = v
         /\ UNCHANGED <<hijacked[r], errCh[r], hj[r], conn[r], sigc[r], sent[r], box[r]>>
  BY DEF IInv, Functions, Framed, Same, sigs

LEMMA CidStatStep ==
  ASSUME IInv, NEW r \in Cmds, CidStat(r)
  PROVE  IInv'
<1>1. /\ pc[r] = "stat" /\ UNCHANGED <<scene, hijacked, errCh, hj, conn, sigs, box, file>>
      /\ \/ pc' = [pc EXCEPT ![r] = "done"] /\ ret' = [ret EXCEPT ![r] = Failed]
         \/ pc' = [pc EXCEPT ![r] = "cidCreate"] /\ ret' = ret
  BY DEF CidStat, At, Goes, chans, streams
<1>2. /\ Framed(r)
      /\ UNCHANGED <<hijacked[r], errCh[r], hj[r], conn[r], sigc[r], sent[r], box[r]>>
      /\ \/ pc'[r] = "done" /\ ret'[r] = Failed
         \/ pc'[r] = "cidCreate" /\ ret'[r] = ret[r]
  BY <1>1, CliFramed
<1>3. Types(r)'
  BY <1>2 DEF IInv, Mine, Types, Labels
<1>4. Hijacks(r)'
  BY <1>1, <1>2, ScenariosAssumption DEF IInv, Functions, Framed, Mine, Hijacks, Unstarted, Over, kind, Kinds, Failed, None
<1>5. Codings(r)'
  BY <1>2 DEF IInv, Framed, Mine, Codings, NotTold, kind, flags, Is
<1>6. File'
  BY <1>1, <1>2, FileKept DEF Writing
<1> QED
  BY <1>2, <1>3, <1>4, <1>5, <1>6, StillSignalling, FramedStep DEF IInv, Mine

LEMMA CidCreateStep ==
  ASSUME IInv, NEW r \in Cmds, CidCreate(r)
  PROVE  IInv'
<1>1. /\ pc[r] = "cidCreate" /\ UNCHANGED <<scene, ret, hijacked, errCh, hj, conn, sigs, box>>
      /\ pc' = [pc EXCEPT ![r] = "create"] /\ file' = IF Is(r, "cid") THEN "empty" ELSE file
  BY DEF CidCreate, At, Goes, chans, streams
<1>2. /\ Framed(r) /\ pc'[r] = "create" /\ ret'[r] = ret[r]
      /\ UNCHANGED <<hijacked[r], errCh[r], hj[r], conn[r], sigc[r], sent[r], box[r]>>
  BY <1>1, CliFramed
<1>3. Types(r)'
  BY <1>2 DEF IInv, Mine, Types, Labels
<1>4. Hijacks(r)'
  BY <1>1, <1>2 DEF IInv, Framed, Mine, Hijacks, Unstarted, kind
<1>5. Codings(r)'
  BY <1>2 DEF IInv, Framed, Mine, Codings, NotTold, kind, flags, Is
<1>6. File'
  <2>1. CASE Is(r, "cid")
    <3>1. Is(r, "cid")' /\ pc'[r] \in Writing /\ file' = "empty"
      BY <1>1, <1>2, <2>1 DEF Is, flags, Framed, Writing
    <3> QED
      BY <3>1 DEF File
  <2>2. CASE ~Is(r, "cid")
    BY <1>1, <1>2, <2>2, FileKept DEF Writing
  <2> QED
    BY <2>1, <2>2
<1> QED
  BY <1>2, <1>3, <1>4, <1>5, <1>6, StillSignalling, FramedStep DEF IInv, Mine

LEMMA CreateStep ==
  ASSUME IInv, NEW r \in Cmds, Create(r)
  PROVE  IInv'
<1>1. /\ pc[r] \in {"create", "retry"} /\ UNCHANGED <<scene, hijacked, errCh, hj, conn, sigs, file>>
      /\ \/ ret' = ret /\ pc' = [pc EXCEPT ![r] = "cid"] /\ box' = [box EXCEPT ![r].state = "created"]
         \/ ret' = ret /\ pc' = [pc EXCEPT ![r] = "pull"] /\ box' = box
         \/ ret' = [ret EXCEPT ![r] = Failed] /\ pc' = [pc EXCEPT ![r] = "defers"] /\ box' = box
  BY DEF Create, At, Goes, Becomes, CallFails, Returns, chans, streams
<1>2. CASE box' = box
  <2>1. /\ Framed(r)
        /\ UNCHANGED <<hijacked[r], errCh[r], hj[r], conn[r], sigc[r], sent[r], box[r]>>
        /\ \/ pc'[r] = "pull" /\ ret'[r] = ret[r]
           \/ pc'[r] = "defers" /\ ret'[r] = Failed
           \/ pc'[r] = "cid" /\ ret'[r] = ret[r] /\ box'[r].state = "created"
    BY <1>1, <1>2 DEF IInv, Functions, Framed, Same, sigs, Mine, Types, IsBox
  <2>2. Types(r)'
    BY <2>1 DEF IInv, Mine, Types, Labels
  <2>3. Hijacks(r)'
    BY <1>1, <2>1 DEF IInv, Framed, Mine, Hijacks, Unstarted, Over, kind, Failed, None
  <2>4. Codings(r)'
    BY <2>1 DEF IInv, Framed, Mine, Codings, NotTold, kind, flags, Is
  <2>5. File'
    BY <1>1, <2>1, FileKept DEF Writing
  <2> QED
    BY <2>1, <2>2, <2>3, <2>4, <2>5, StillSignalling, FramedStep DEF IInv, Mine
<1>3. CASE ret' = ret /\ pc' = [pc EXCEPT ![r] = "cid"] /\ box' = [box EXCEPT ![r].state = "created"]
  <2>1. OtherBoxes(r) /\ IsBox(box'[r]) /\ box'[r].state = "created" /\ box'[r].got = box[r].got
    BY <1>3, Becoming
  <2>2. /\ Framed(r) /\ pc'[r] = "cid"
        /\ UNCHANGED <<ret[r], hijacked[r], errCh[r], hj[r], conn[r], sigc[r], sent[r]>>
    BY <1>1, <1>3, <2>1 DEF IInv, Functions, Framed, Same, sigs, OtherBoxes
  <2>3. Types(r)'
    BY <2>1, <2>2 DEF IInv, Mine, Types, Labels
  <2>4. Hijacks(r)'
    BY <1>1, <2>1, <2>2 DEF IInv, Framed, Mine, Hijacks, Unstarted, kind
  <2>5. Codings(r)'
    BY <2>2 DEF Codings
  <2>6. File'
    BY <1>1, <2>2, FileKept DEF Writing
  <2> QED
    BY <2>1, <2>2, <2>3, <2>4, <2>5, <2>6, StillSignalling, FramedStep DEF IInv, Mine
<1> QED
  BY <1>1, <1>2, <1>3

LEMMA PullStep ==
  ASSUME IInv, NEW r \in Cmds, PullImage(r)
  PROVE  IInv'
<1>1. /\ pc[r] = "pull" /\ UNCHANGED <<scene, hijacked, errCh, hj, conn, sigs, box, file>>
      /\ \/ pc' = [pc EXCEPT ![r] = "retry"] /\ ret' = ret
         \/ pc' = [pc EXCEPT ![r] = "defers"] /\ ret' = [ret EXCEPT ![r] = Failed]
  BY DEF PullImage, At, Goes, CallFails, Returns, chans, streams
<1>2. /\ Framed(r)
      /\ UNCHANGED <<hijacked[r], errCh[r], hj[r], conn[r], sigc[r], sent[r], box[r]>>
      /\ \/ pc'[r] = "retry" /\ ret'[r] = ret[r]
         \/ pc'[r] = "defers" /\ ret'[r] = Failed
  BY <1>1, CliFramed
<1>3. Types(r)'
  BY <1>2 DEF IInv, Mine, Types, Labels
<1>4. Hijacks(r)'
  BY <1>1, <1>2 DEF IInv, Framed, Mine, Hijacks, Unstarted, Over, kind, Failed, None
<1>5. Codings(r)'
  BY <1>2 DEF IInv, Framed, Mine, Codings, NotTold, kind, flags, Is
<1>6. File'
  BY <1>1, <1>2, FileKept DEF Writing
<1> QED
  BY <1>2, <1>3, <1>4, <1>5, <1>6, StillSignalling, FramedStep DEF IInv, Mine

\* The one who writes the file leaves a whole one.
LEMMA CidWriteStep ==
  ASSUME IInv, NEW r \in Cmds, CidWrite(r)
  PROVE  IInv'
<1>1. /\ pc[r] = "cid" /\ UNCHANGED <<scene, ret, errCh, conn, sigs, box>>
      /\ pc' = [pc EXCEPT ![r] = "select"] /\ file' = IF Is(r, "cid") THEN r ELSE file
      /\ \/ hj' = [hj EXCEPT ![r] = "dial"] /\ hijacked' = hijacked
         \/ hj' = hj /\ hijacked' = [hijacked EXCEPT ![r] = "closed"]
  BY DEF CidWrite, At, Goes
<1>2. /\ Framed(r) /\ pc'[r] = "select"
      /\ UNCHANGED <<ret[r], errCh[r], conn[r], sigc[r], sent[r], box[r]>>
      /\ \/ hj'[r] = "dial" /\ hijacked'[r] = hijacked[r]
         \/ hj'[r] = hj[r] /\ hijacked'[r] = "closed"
  BY <1>1 DEF IInv, Functions, Framed, Same, sigs
<1>3. Types(r)'
  BY <1>2 DEF IInv, Mine, Types, Labels
<1>4. Hijacks(r)'
  BY <1>1, <1>2, ScenariosAssumption DEF IInv, Functions, Framed, Mine, Hijacks, Unstarted, Over, kind, Kinds, None
<1>5. Codings(r)'
  BY <1>2 DEF Codings
<1>6. File'
  <2>1. CASE Is(r, "cid")
    BY <1>1, <2>1, CmdsAssumption DEF File
  <2>2. CASE ~Is(r, "cid")
    <3>1. CASE file # "empty"
      BY <1>1, <2>2, <3>1 DEF IInv, File
    <3>2. CASE file = "empty"
      <4>1. PICK q \in Cmds : Is(q, "cid") /\ pc[q] \in Writing
        BY <3>2 DEF IInv, File
      <4>2. q # r
        BY <2>2, <4>1
      <4>3. Is(q, "cid")' /\ pc'[q] \in Writing
        BY <1>2, <4>1, <4>2 DEF Framed, Same, Is, flags
      <4> QED
        BY <1>1, <2>2, <4>3 DEF IInv, File
    <3> QED
      BY <3>1, <3>2
  <2> QED
    BY <2>1, <2>2
<1> QED
  BY <1>2, <1>3, <1>4, <1>5, <1>6, StillSignalling, FramedStep DEF IInv, Mine

LEMMA SelectStep ==
  ASSUME IInv, NEW r \in Cmds, Select(r)
  PROVE  IInv'
<1>1. /\ pc[r] = "select" /\ UNCHANGED <<scene, hj, conn, sigs, box, file>>
      /\ \/ /\ pc' = [pc EXCEPT ![r] = "start"] /\ ret' = ret
            /\ \/ hijacked' = [hijacked EXCEPT ![r] = "taken"] /\ errCh' = errCh
               \/ UNCHANGED <<hijacked, errCh>>
               \/ errCh' = [errCh EXCEPT ![r] = None] /\ hijacked' = hijacked
         \/ /\ pc' = [pc EXCEPT ![r] = "defers"] /\ ret' = [ret EXCEPT ![r] = Failed]
            /\ errCh' = [errCh EXCEPT ![r] = None] /\ hijacked' = hijacked
  BY DEF Select, At, Goes, Returns, chans, streams
<1>2. /\ Framed(r)
      /\ UNCHANGED <<hj[r], conn[r], sigc[r], sent[r], box[r]>>
      /\ errCh'[r] \in {errCh[r], None} /\ hijacked'[r] \in {hijacked[r], "taken"}
      /\ pc'[r] = "start" \/ (pc'[r] = "defers" /\ ret'[r] = Failed)
      /\ ret'[r] \in {ret[r], Failed}
  BY <1>1 DEF IInv, Functions, Framed, Same, sigs
<1>3. Types(r)'
  BY <1>2 DEF IInv, Mine, Types, Labels
<1>4. Hijacks(r)'
  BY <1>1, <1>2 DEF IInv, Framed, Mine, Hijacks, Unstarted, Over, kind, Failed, None
<1>5. Codings(r)'
  BY <1>2 DEF IInv, Framed, Mine, Codings, NotTold, kind, flags, Is
<1>6. File'
  BY <1>1, <1>2, FileKept DEF Writing
<1> QED
  BY <1>2, <1>3, <1>4, <1>5, <1>6, StillSignalling, FramedStep DEF IInv, Mine

LEMMA InspectStep ==
  ASSUME IInv, NEW r \in Cmds, Inspect(r)
  PROVE  IInv'
<1>1. /\ pc[r] = "inspect" /\ UNCHANGED <<scene, hijacked, errCh, conn, sigs, box, file>>
      /\ \/ /\ pc' = [pc EXCEPT ![r] = "defers"] /\ ret' = [ret EXCEPT ![r] = Failed] /\ hj' = hj
         \/ /\ \E x \in {"errCh", "start"} : pc' = [pc EXCEPT ![r] = x]
            /\ ret' = ret /\ hj' = [hj EXCEPT ![r] = "dial"]
  BY DEF Inspect, At, Goes, CallFails, Returns, chans
<1>2. /\ Framed(r)
      /\ UNCHANGED <<hijacked[r], errCh[r], conn[r], sigc[r], sent[r], box[r]>>
      /\ \/ pc'[r] = "defers" /\ ret'[r] = Failed /\ hj'[r] = hj[r]
         \/ pc'[r] \in {"errCh", "start"} /\ ret'[r] = ret[r] /\ hj'[r] = "dial"
  BY <1>1 DEF IInv, Functions, Framed, Same, sigs
<1>3. Types(r)'
  BY <1>2 DEF IInv, Mine, Types, Labels
<1>4. Hijacks(r)'
  BY <1>1, <1>2 DEF IInv, Framed, Mine, Hijacks, Unstarted, kind, Failed, None
<1>5. Codings(r)'
  BY <1>2 DEF IInv, Framed, Mine, Codings, NotTold, kind, flags, Is
<1>6. File'
  BY <1>1, <1>2, FileKept DEF Writing
<1> QED
  BY <1>2, <1>3, <1>4, <1>5, <1>6, StillSignalling, FramedStep DEF IInv, Mine
-----------------------------------------------------------------------------
(* From the start of the container to the end of the command.              *)

LEMMA StartStep ==
  ASSUME IInv, NEW r \in Cmds, Start(r) \/ CmdStart(r)
  PROVE  IInv'
<1>1. /\ pc[r] = "start"
      /\ UNCHANGED <<scene, hijacked, errCh, hj, sigs, file>>
  BY DEF Start, CmdStart, Started, At, Goes, Returns, chans, streams
<1>2. CASE \E c \in Codes : /\ box' = [box EXCEPT ![r].state = "running", ![r].code = c]
                            /\ pc' = [pc EXCEPT ![r] = "errCh"] /\ UNCHANGED <<ret, conn>>
  <2>1. PICK c \in Codes : box' = [box EXCEPT ![r].state = "running", ![r].code = c]
    BY <1>2
  <2> DEFINE d == [box[r] EXCEPT !.state = "running", !.code = c]
  <2>2. IsBox(box[r])
    BY DEF IInv, Mine, Types
  <2>3. IsBox(d) /\ d.state = "running" /\ d.got = box[r].got
    BY <2>2, BoxStarted
  <2>4. OtherBoxes(r) /\ box'[r] = d
    BY <2>1 DEF IInv, Functions, OtherBoxes
  <2> HIDE DEF d
  <2>5. IsBox(box'[r]) /\ box'[r].state = "running" /\ box'[r].got = box[r].got
    BY <2>3, <2>4
  <2>6. /\ Framed(r) /\ pc'[r] = "errCh"
        /\ UNCHANGED <<ret[r], hijacked[r], errCh[r], hj[r], conn[r], sigc[r], sent[r]>>
    BY <1>1, <1>2, <2>4 DEF IInv, Functions, Framed, Same, sigs, OtherBoxes
  <2>7. Types(r)'
    BY <2>5, <2>6 DEF IInv, Mine, Types, Labels
  <2>8. Hijacks(r)'
    BY <1>1, <2>5, <2>6 DEF IInv, Framed, Mine, Hijacks, Unstarted, kind
  <2>9. Codings(r)'
    BY <2>6 DEF Codings
  <2>10. File'
    BY <1>1, <2>6, FileKept DEF Writing
  <2> QED
    BY <2>5, <2>6, <2>7, <2>8, <2>9, <2>10, StillSignalling, FramedStep DEF IInv, Mine
<1>3. CASE /\ UNCHANGED <<box, conn>> /\ ret' = [ret EXCEPT ![r] = Failed]
           /\ \/ pc' = [pc EXCEPT ![r] = "defers"] /\ kind[r] = "run"
              \/ pc' = [pc EXCEPT ![r] = "errCh"]
  <2>1. /\ Framed(r) /\ ret'[r] = Failed
        /\ UNCHANGED <<hijacked[r], errCh[r], hj[r], conn[r], sigc[r], sent[r], box[r]>>
        /\ (pc'[r] = "defers" /\ kind[r] = "run") \/ pc'[r] = "errCh"
    BY <1>1, <1>3 DEF IInv, Functions, Framed, Same, sigs
  <2>2. Types(r)'
    BY <2>1 DEF IInv, Mine, Types, Labels
  <2>3. Hijacks(r)'
    BY <1>1, <2>1 DEF IInv, Framed, Mine, Hijacks, Unstarted, kind, Failed, None
  <2>4. Codings(r)'
    BY <2>1 DEF Codings
  <2>5. File'
    BY <1>1, <2>1, FileKept DEF Writing
  <2> QED
    BY <2>1, <2>2, <2>3, <2>4, <2>5, StillSignalling, FramedStep DEF IInv, Mine
<1>4. \/ \E c \in Codes : /\ box' = [box EXCEPT ![r].state = "running", ![r].code = c]
                          /\ pc' = [pc EXCEPT ![r] = "errCh"] /\ UNCHANGED <<ret, conn>>
      \/ /\ UNCHANGED <<box, conn>> /\ ret' = [ret EXCEPT ![r] = Failed]
         /\ \/ pc' = [pc EXCEPT ![r] = "defers"] /\ kind[r] = "run"
            \/ pc' = [pc EXCEPT ![r] = "errCh"]
  BY ZenonT(60) DEF Start, CmdStart, Started, NotStarted, Goes, Returns, streams
<1> QED
  BY <1>2, <1>3, <1>4

\* The streams have ended, so the hijack has, for a command that has one.
LEMMA WaitStreamsStep ==
  ASSUME IInv, NEW r \in Cmds, WaitStreams(r)
  PROVE  IInv'
<1>1. /\ pc[r] = "errCh" /\ UNCHANGED <<scene, hijacked, hj, conn, sigs, box, file>>
      /\ errCh' = [errCh EXCEPT ![r] = None]
  BY DEF WaitStreams, At, Goes, Returns, streams
<1>2. Is(r, "out") => errCh[r] # None
  BY DEF WaitStreams, Attached
<1>3. \/ pc' = [pc EXCEPT ![r] = "defers"] /\ ret' = [ret EXCEPT ![r] = Failed]
      \/ kind[r] = "attach" /\ pc' = [pc EXCEPT ![r] = "exit"] /\ ret' = ret
      \/ /\ kind[r] = "start" \/ ~Is(r, "out")
         /\ pc' = [pc EXCEPT ![r] = "defers"] /\ ret' = [ret EXCEPT ![r] = "0"]
      \/ pc' = [pc EXCEPT ![r] = AfterStreams(r)] /\ ret' = ret
  BY DEF WaitStreams, Goes, Returns
<1>4. /\ Framed(r) /\ errCh'[r] = None
      /\ UNCHANGED <<hijacked[r], hj[r], conn[r], sigc[r], sent[r], box[r]>>
      /\ \/ pc'[r] = "defers" /\ ret'[r] = Failed
         \/ kind[r] = "attach" /\ pc'[r] = "exit" /\ ret'[r] = ret[r]
         \/ (kind[r] = "start" \/ ~Is(r, "out")) /\ pc'[r] = "defers" /\ ret'[r] = "0"
         \/ pc'[r] = AfterStreams(r) /\ ret'[r] = ret[r]
  BY <1>1, <1>3 DEF IInv, Functions, Framed, Same, sigs
<1>5. /\ AfterStreams(r) \in {"wait", "exit", "waitExit"}
      /\ AfterStreams(r) = "wait" => Is(r, "rm")
      /\ AfterStreams(r) = "exit" => ~Is(r, "rm") /\ Is(r, "tty")
      /\ AfterStreams(r) = "waitExit" => ~Is(r, "rm")
  BY DEF AfterStreams
<1>6. kind[r] \in {"start", "attach"} => hj[r] = "gone"
  <2>1. kind[r] \in {"start", "attach"} => "out" \in flags[r]
    BY ScenariosAssumption DEF IInv, Functions, kind, flags
  <2> QED
    BY <1>2, <2>1 DEF IInv, Mine, Hijacks, Is
<1>7. Types(r)'
  BY <1>4, <1>5, CodesAssumption DEF IInv, Mine, Types, Labels
<1>8. Hijacks(r)'
  BY <1>1, <1>4, <1>5, <1>6, CodesAssumption DEF IInv, Framed, Mine, Hijacks, Unstarted, Over, kind, Failed, None
<1>9. Codings(r)'
  BY <1>1, <1>4, <1>5 DEF IInv, Framed, Mine, Codings, NotTold, kind, flags, Is
<1>10. File'
  BY <1>1, <1>4, FileKept DEF Writing
<1> QED
  BY <1>4, <1>7, <1>8, <1>9, <1>10, StillSignalling, FramedStep DEF IInv, Mine

LEMMA WaitForExitStep ==
  ASSUME IInv, NEW r \in Cmds, WaitForExit(r)
  PROVE  IInv'
<1>1. /\ pc[r] \in {"wait", "waitExit"} /\ UNCHANGED <<scene, hijacked, errCh, hj, conn, sigs, box, file>>
      /\ \/ /\ pc[r] = "wait" /\ box[r].state = "exited"
            /\ pc' = [pc EXCEPT ![r] = "exit"] /\ ret' = ret
         \/ /\ pc[r] = "waitExit"
            /\ pc' = [pc EXCEPT ![r] = "defers"] /\ ret' = [ret EXCEPT ![r] = box[r].code]
         \/ pc' = [pc EXCEPT ![r] = "defers"] /\ ret' = [ret EXCEPT ![r] = Failed]
  BY DEF WaitForExit, At, Goes, CallFails, Returns, chans, streams
<1>2. /\ Framed(r)
      /\ UNCHANGED <<hijacked[r], errCh[r], hj[r], conn[r], sigc[r], sent[r], box[r]>>
      /\ \/ pc[r] = "wait" /\ box[r].state = "exited" /\ pc'[r] = "exit" /\ ret'[r] = ret[r]
         \/ pc[r] = "waitExit" /\ pc'[r] = "defers" /\ ret'[r] = box[r].code
         \/ pc'[r] = "defers" /\ ret'[r] = Failed
  BY <1>1, CliFramed
<1>3. box[r].code \in Codes
  BY DEF IInv, Mine, Types, IsBox
<1>4. Types(r)'
  BY <1>2, <1>3 DEF IInv, Mine, Types, Labels
<1>5. Hijacks(r)'
  BY <1>1, <1>2, <1>3, CodesAssumption DEF IInv, Framed, Mine, Hijacks, Unstarted, kind, Failed, None
<1>6. Codings(r)'
  BY <1>1, <1>2 DEF IInv, Framed, Mine, Codings, NotTold, kind, flags, Is
<1>7. File'
  BY <1>1, <1>2, FileKept DEF Writing
<1> QED
  BY <1>2, <1>4, <1>5, <1>6, <1>7, StillSignalling, FramedStep DEF IInv, Mine
\* The code is asked for when the container has come to its end, or with a
\* terminal, when it may not be recorded yet.
LEMMA GetExitCodeStep ==
  ASSUME IInv, NEW r \in Cmds, GetExitCode(r)
  PROVE  IInv'
<1>1. /\ pc[r] = "exit" /\ UNCHANGED <<scene, hijacked, errCh, hj, conn, sigs, box, file>>
      /\ \/ \E code \in CodeTold(r) :
              \/ Is(r, "rm") /\ pc' = [pc EXCEPT ![r] = "delete"] /\ ret' = [ret EXCEPT ![r] = code]
              \/ ~Is(r, "rm") /\ pc' = [pc EXCEPT ![r] = "defers"] /\ ret' = [ret EXCEPT ![r] = code]
         \/ pc' = [pc EXCEPT ![r] = "defers"] /\ ret' = [ret EXCEPT ![r] = Failed]
  BY DEF GetExitCode, At, CallFails, Returns, chans, streams
<1>2. /\ Framed(r)
      /\ UNCHANGED <<hijacked[r], errCh[r], hj[r], conn[r], sigc[r], sent[r], box[r]>>
      /\ \/ \E code \in CodeTold(r) :
              \/ Is(r, "rm") /\ pc'[r] = "delete" /\ ret'[r] = code
              \/ ~Is(r, "rm") /\ pc'[r] = "defers" /\ ret'[r] = code
         \/ pc'[r] = "defers" /\ ret'[r] = Failed
  BY <1>1, CliFramed
<1>3. ASSUME NEW code \in CodeTold(r)
      PROVE  /\ code \in Codes \union {NoCode} /\ code # None
             /\ code = NoCode => "call" \in scene.faults
             /\ box[r].state \in {"exited", "gone"} => code \in {box[r].code, NoCode}
  <2>1. box[r].code \in Codes /\ "0" \in Codes /\ None \notin Codes /\ NoCode \notin Codes
    BY CodesAssumption DEF IInv, Mine, Types, IsBox
  <2> QED
    BY <1>3, <2>1 DEF CodeTold, NoCode, None
<1>4. Types(r)'
  BY <1>2, <1>3 DEF IInv, Mine, Types, Labels
<1>5. Hijacks(r)'
  BY <1>1, <1>2, <1>3 DEF IInv, Framed, Mine, Hijacks, Unstarted, kind, Failed, None
<1>6. Codings(r)'
  <2>1. Codings(r) /\ UNCHANGED <<kind, flags, scene>>
    BY <1>2 DEF IInv, Mine, Framed, kind, flags
  <2> QED
    BY <1>1, <1>2, <1>3, <2>1 DEF Codings, NotTold, Is
<1>7. File'
  BY <1>1, <1>2, FileKept DEF Writing
<1> QED
  BY <1>2, <1>4, <1>5, <1>6, <1>7, StillSignalling, FramedStep DEF IInv, Mine

LEMMA DeleteStep ==
  ASSUME IInv, NEW r \in Cmds, Delete(r)
  PROVE  IInv'
<1>1. /\ pc[r] = "delete" /\ UNCHANGED <<scene, hijacked, errCh, hj, conn, sigs, file>>
      /\ pc' = [pc EXCEPT ![r] = "defers"]
      /\ \/ box' = [box EXCEPT ![r].state = "gone"] /\ ret' = [ret EXCEPT ![r] = ret[r]]
         \/ box' = box /\ ret' = [ret EXCEPT ![r] = Failed]
  BY DEF Delete, At, Becomes, CallFails, Returns, chans, streams
<1>2. /\ OtherBoxes(r) /\ IsBox(box'[r]) /\ box'[r].code = box[r].code /\ box'[r].got = box[r].got
      /\ \/ box' = [box EXCEPT ![r].state = "gone"] /\ box'[r].state = "gone"
         \/ box' = box
  <2>1. CASE box' = box
    BY <2>1 DEF IInv, Functions, OtherBoxes, Mine, Types
  <2>2. CASE box' = [box EXCEPT ![r].state = "gone"]
    BY <2>2, Becoming
  <2> QED
    BY <1>1, <2>1, <2>2
<1>3. /\ Framed(r) /\ pc'[r] = "defers"
      /\ UNCHANGED <<hijacked[r], errCh[r], hj[r], conn[r], sigc[r], sent[r]>>
  BY <1>1, <1>2 DEF IInv, Functions, Framed, Same, sigs, OtherBoxes
<1>4. \/ ret'[r] = ret[r] /\ box'[r].state = "gone"
      \/ ret'[r] = Failed /\ box'[r] = box[r]
  <2>1. CASE box' = [box EXCEPT ![r].state = "gone"] /\ ret' = [ret EXCEPT ![r] = ret[r]]
    BY <2>1, Becoming DEF IInv, Functions
  <2>2. CASE box' = box /\ ret' = [ret EXCEPT ![r] = Failed]
    BY <2>2 DEF IInv, Functions
  <2> QED
    BY <1>1, <2>1, <2>2
<1>5. Types(r)'
  BY <1>2, <1>3, <1>4 DEF IInv, Mine, Types, Labels
<1>6. Hijacks(r)'
  BY <1>1, <1>3, <1>4 DEF IInv, Framed, Mine, Hijacks, Unstarted, kind, Failed, None
<1>7. Codings(r)'
  BY <1>1, <1>2, <1>3, <1>4 DEF IInv, Framed, Mine, Codings, NotTold, kind, flags, Is
<1>8. File'
  BY <1>1, <1>3, FileKept DEF Writing
<1> QED
  BY <1>2, <1>3, <1>5, <1>6, <1>7, <1>8, StillSignalling, FramedStep DEF IInv, Mine

LEMMA CloseStep ==
  ASSUME IInv, NEW r \in Cmds, Close(r)
  PROVE  IInv'
<1>1. /\ pc[r] = "defers" /\ UNCHANGED <<scene, ret, hijacked, errCh, hj, sigs, box, file>>
      /\ pc' = [pc EXCEPT ![r] = "finish"]
      /\ conn' = [conn EXCEPT ![r] = IF hijacked[r] = "taken" THEN "closed" ELSE @]
  BY DEF Close, At, Goes, chans
<1>2. /\ Framed(r) /\ pc'[r] = "finish" /\ conn'[r] \in {conn[r], "closed"}
      /\ UNCHANGED <<ret[r], hijacked[r], errCh[r], hj[r], sigc[r], sent[r], box[r]>>
  BY <1>1 DEF IInv, Functions, Framed, Same, sigs
<1>3. Types(r)'
  BY <1>2 DEF IInv, Mine, Types, Labels
<1>4. Hijacks(r)'
  BY <1>1, <1>2 DEF IInv, Framed, Mine, Hijacks, Unstarted, kind
<1>5. Codings(r)'
  BY <1>1, <1>2 DEF IInv, Framed, Mine, Codings, NotTold, kind, flags, Is
<1>6. File'
  BY <1>1, <1>2, FileKept DEF Writing
<1> QED
  BY <1>2, <1>3, <1>4, <1>5, <1>6, StillSignalling, FramedStep DEF IInv, Mine

\* The hijack has ended, and the file, if still empty, is removed.
LEMMA FinishStep ==
  ASSUME IInv, NEW r \in Cmds, Finish(r)
  PROVE  IInv'
<1>1. /\ pc[r] = "finish" /\ UNCHANGED <<scene, ret, hijacked, errCh, hj, conn, sigs, box>>
      /\ pc' = [pc EXCEPT ![r] = "done"]
      /\ kind[r] = "run" /\ box[r].state # "none" => hijacked[r] = "closed"
      /\ file' = IF Is(r, "cid") /\ file = "empty" THEN "absent" ELSE file
  BY DEF Finish, At, Goes, chans, streams
<1>2. /\ Framed(r) /\ pc'[r] = "done" /\ ret'[r] = ret[r]
      /\ UNCHANGED <<hijacked[r], errCh[r], hj[r], conn[r], sigc[r], sent[r], box[r]>>
  BY <1>1, CliFramed
<1>3. Types(r)'
  BY <1>2 DEF IInv, Mine, Types, Labels
<1>4. Hijacks(r)'
  <2>1. kind[r] = "run" => hj[r] \in Over
    BY <1>1 DEF IInv, Mine, Hijacks, Over
  <2> QED
    BY <1>1, <1>2, <2>1 DEF IInv, Framed, Mine, Hijacks, Unstarted, kind
<1>5. Codings(r)'
  BY <1>1, <1>2 DEF IInv, Framed, Mine, Codings, NotTold, kind, flags, Is
<1>6. File'
  <2>1. CASE file' = "empty"
    <3>1. file = "empty" /\ ~Is(r, "cid")
      BY <1>1, <2>1
    <3>2. PICK q \in Cmds : Is(q, "cid") /\ pc[q] \in Writing
      BY <3>1 DEF IInv, File
    <3>3. q # r
      BY <3>1, <3>2
    <3>4. Is(q, "cid")' /\ pc'[q] \in Writing
      BY <1>2, <3>2, <3>3 DEF Framed, Same, Is, flags
    <3> QED
      BY <2>1, <3>4 DEF File
  <2>2. CASE file' # "empty"
    BY <1>1, <2>2 DEF IInv, File
  <2> QED
    BY <2>1, <2>2
<1> QED
  BY <1>2, <1>3, <1>4, <1>5, <1>6, StillSignalling, FramedStep DEF IInv, Mine
-----------------------------------------------------------------------------
(* The goroutine in hijack.                                                *)

\* A step in which the command's own goroutine is not the one that moves, and its
\* container gets no signal.
LEMMA AsideStep ==
  ASSUME IInv, NEW r \in Cmds, Framed(r), Types(r)', Hijacks(r)', UNCHANGED <<pc, ret, sigc, sent, file>>,
         box'[r].got = box[r].got,
         \/ box'[r].state = box[r].state /\ box'[r].code = box[r].code
         \/ box[r].state \notin {"exited", "gone"} /\ box'[r].code = box[r].code
         \/ box'[r].state = "gone" /\ box'[r].code = box[r].code
  PROVE  IInv'
<1>1. Codings(r)'
  BY DEF IInv, Framed, Mine, Codings, NotTold, kind, flags, Is
<1>2. File'
  BY FileKept
<1> QED
  BY <1>1, <1>2, StillSignalling, FramedStep DEF IInv, Mine

LEMMA HijackSteps ==
  ASSUME IInv, NEW r \in Cmds, HijackStep(r)
  PROVE  IInv'
<1>1. UNCHANGED <<scene, pc, ret, sigc, sent, box, file>>
  BY DEF HijackStep, Dial, Hijack, Spawn, HijackEnds, GoSends, cli, sigs
<1>2. \/ /\ hj[r] = "dial"
         /\ \/ hj' = [hj EXCEPT ![r] = "ask"] /\ conn' = [conn EXCEPT ![r] = "asked"] /\ hijacked' = hijacked
            \/ hj' = [hj EXCEPT ![r] = "fail"] /\ hijacked' = [hijacked EXCEPT ![r] = "closed"] /\ conn' = conn
         /\ errCh' = errCh
      \/ /\ hj[r] = "ask" /\ UNCHANGED <<conn, errCh>>
         /\ \/ hj' = [hj EXCEPT ![r] = "started"] /\ hijacked' = [hijacked EXCEPT ![r] = "sending"]
            \/ kind[r] # "run" /\ hj' = [hj EXCEPT ![r] = "spawn"] /\ hijacked' = hijacked
      \/ /\ hj[r] = "spawn" \/ (hj[r] = "started" /\ hijacked[r] = "taken")
         /\ hj' = [hj EXCEPT ![r] = "copy"] /\ UNCHANGED <<conn, errCh, hijacked>>
      \/ /\ hj[r] = "copy" /\ hj' = [hj EXCEPT ![r] = "end"] /\ errCh' = errCh
         /\ hijacked' = [hijacked EXCEPT ![r] = "closed"] /\ conn' = [conn EXCEPT ![r] = "closed"]
      \/ /\ hj[r] \in {"end", "fail"} /\ hj' = [hj EXCEPT ![r] = "gone"] /\ UNCHANGED <<conn, hijacked>>
         /\ errCh' = [errCh EXCEPT ![r] = IF hj[r] = "end" THEN "nil" ELSE Failed]
  BY ZenonT(60) DEF HijackStep, Dial, Hijack, Spawn, HijackEnds, GoSends, chans
<1>3. /\ Framed(r) /\ UNCHANGED <<pc[r], ret[r], sigc[r], sent[r], box[r]>>
      /\ \/ /\ hj[r] = "dial" /\ errCh'[r] = errCh[r]
            /\ \/ hj'[r] = "ask" /\ conn'[r] = "asked" /\ hijacked'[r] = hijacked[r]
               \/ hj'[r] = "fail" /\ hijacked'[r] = "closed" /\ conn'[r] = conn[r]
         \/ /\ hj[r] = "ask" /\ UNCHANGED <<conn[r], errCh[r]>>
            /\ \/ hj'[r] = "started" /\ hijacked'[r] = "sending"
               \/ kind[r] # "run" /\ hj'[r] = "spawn" /\ hijacked'[r] = hijacked[r]
         \/ /\ hj[r] = "spawn" \/ (hj[r] = "started" /\ hijacked[r] = "taken")
            /\ hj'[r] = "copy" /\ UNCHANGED <<conn[r], errCh[r], hijacked[r]>>
         \/ /\ hj[r] = "copy" /\ hj'[r] = "end" /\ errCh'[r] = errCh[r]
            /\ hijacked'[r] = "closed" /\ conn'[r] = "closed"
         \/ /\ hj[r] \in {"end", "fail"} /\ hj'[r] = "gone" /\ UNCHANGED <<conn[r], hijacked[r]>>
            /\ errCh'[r] \in {"nil", Failed}
  BY <1>1, <1>2 DEF IInv, Functions, Framed, Same
<1>4. Types(r)'
  BY <1>3 DEF IInv, Mine, Types
<1>5. Hijacks(r)'
  BY <1>3, ScenariosAssumption DEF IInv, Framed, Functions, Mine, Hijacks, Unstarted, Over, kind, Kinds, None
<1> QED
  BY <1>1, <1>3, <1>4, <1>5, AsideStep

\* The streams, and the end of the input: of no interest to the invariant.
LEMMA StreamSteps ==
  ASSUME IInv, NEW r \in Cmds, ReceiveStdout(r) \/ SendStdin(r) \/ EndOfInput(r)
  PROVE  IInv'
<1>1. UNCHANGED <<scene, pc, ret, hijacked, errCh, hj, conn, sigc, sent, box, file>>
  BY DEF ReceiveStdout, SendStdin, EndOfInput, cli, chans, sigs
<1>2. Framed(r) /\ Same(r)
  BY <1>1 DEF IInv, Functions, Framed, Same
<1>3. Types(r)' /\ Hijacks(r)'
  BY <1>2, SameMine DEF IInv, Mine, Framed
<1> QED
  BY <1>1, <1>2, <1>3, AsideStep DEF Same

-----------------------------------------------------------------------------
(* The daemon.                                                             *)

LEMMA AnswerStep ==
  ASSUME IInv, NEW r \in Cmds, Answer(r) \/ AttachJob(r)
  PROVE  IInv'
<1>1. /\ UNCHANGED <<scene, pc, ret, hijacked, errCh, hj, sigc, sent, box, file>>
      /\ \E x \in {"answered", "attached", "ended"} : conn' = [conn EXCEPT ![r] = x]
  BY DEF Answer, AttachJob, cli, chans, sigs
<1>2. /\ Framed(r) /\ conn'[r] \in {"answered", "attached", "ended"}
      /\ UNCHANGED <<pc[r], ret[r], hijacked[r], errCh[r], hj[r], sigc[r], sent[r], box[r]>>
  BY <1>1 DEF IInv, Functions, Framed, Same
<1>3. Types(r)'
  BY <1>2 DEF IInv, Mine, Types
<1>4. Hijacks(r)'
  BY <1>2 DEF IInv, Mine, Framed, Hijacks, kind
<1> QED
  BY <1>1, <1>2, <1>3, <1>4, AsideStep

LEMMA OutputStep ==
  ASSUME IInv, NEW r \in Cmds, Output(r)
  PROVE  IInv'
<1> DEFINE done == TRUE
           attached == conn[r] = "attached"
           e == [box[r] EXCEPT !.wrote = done]
           d == [e EXCEPT !.seen = attached]
<1>1. /\ UNCHANGED <<scene, pc, ret, hijacked, errCh, hj, conn, sigc, sent, file>>
      /\ box' = [box EXCEPT ![r].wrote = done, ![r].seen = attached]
  BY DEF Output, cli, chans, streams, sigs
<1>2. done \in BOOLEAN /\ attached \in BOOLEAN
  OBVIOUS
<1> HIDE DEF done, attached, e, d
<1>3. IsBox(e) /\ e.state = box[r].state /\ e.code = box[r].code /\ e.got = box[r].got
  <2>1. IsBox(box[r])
    BY DEF IInv, Mine, Types
  <2> QED
    BY <1>2, <2>1, BoxWrote DEF e
<1>4. IsBox(d) /\ d.state = e.state /\ d.code = e.code /\ d.got = e.got
  BY <1>2, <1>3, BoxSeen DEF d
<1>5. OtherBoxes(r) /\ box'[r] = d
  BY <1>1 DEF IInv, Functions, OtherBoxes, e, d
<1>6. Framed(r) /\ UNCHANGED <<pc[r], ret[r], hijacked[r], errCh[r], hj[r], conn[r], sigc[r], sent[r]>>
  BY <1>1, <1>5 DEF IInv, Functions, Framed, Same, OtherBoxes
<1>7. IsBox(box'[r]) /\ box'[r].state = box[r].state /\ box'[r].code = box[r].code /\ box'[r].got = box[r].got
  BY <1>3, <1>4, <1>5
<1>8. Types(r)'
  BY <1>6, <1>7 DEF IInv, Mine, Types
<1>9. Hijacks(r)'
  BY <1>6, <1>7 DEF IInv, Mine, Framed, Hijacks, kind
<1> QED
  BY <1>1, <1>6, <1>7, <1>8, <1>9, AsideStep

LEMMA EndSteps ==
  ASSUME IInv, NEW r \in Cmds, Dies(r) \/ Recorded(r) \/ RemovedByHand(r)
  PROVE  IInv'
<1>1. /\ UNCHANGED <<scene, pc, ret, hijacked, errCh, hj, sigc, sent, file>>
      /\ conn' = conn \/ conn' = [conn EXCEPT ![r] = IF @ = "attached" THEN "ended" ELSE @]
      /\ \/ box' = [box EXCEPT ![r].state = "dead"] /\ box[r].state = "running"
         \/ box' = [box EXCEPT ![r].state = "exited"] /\ box[r].state = "dead"
         \/ box' = [box EXCEPT ![r].state = "gone"]
  BY DEF Dies, Recorded, RemovedByHand, Becomes, cli, chans, streams, sigs
<1>2. /\ OtherBoxes(r) /\ IsBox(box'[r]) /\ box'[r].code = box[r].code /\ box'[r].got = box[r].got
      /\ \/ box[r].state \notin {"exited", "gone"} /\ box'[r].state # "none"
         \/ box'[r].state = "gone"
  BY <1>1, Becoming
<1>3. /\ Framed(r) /\ conn'[r] \in {conn[r], "ended"}
      /\ UNCHANGED <<pc[r], ret[r], hijacked[r], errCh[r], hj[r], sigc[r], sent[r]>>
  BY <1>1, <1>2 DEF IInv, Functions, Framed, Same, OtherBoxes
<1>4. Types(r)'
  BY <1>2, <1>3 DEF IInv, Mine, Types
<1>5. Hijacks(r)'
  BY <1>2, <1>3 DEF IInv, Mine, Framed, Hijacks, kind
<1> QED
  BY <1>1, <1>2, <1>3, <1>4, <1>5, AsideStep
-----------------------------------------------------------------------------
(* Signals.                                                                *)

LEMMA Difference ==
  ASSUME NEW a \in Nat, NEW b \in Nat, b <= a
  PROVE  a - b \in Nat /\ a - b <= a
  OBVIOUS

LEMMA NoSignals == Signalling(<<>>, <<>>, <<>>)
<1> DEFINE of == [i \in DOMAIN <<>> |-> 0]
<1>1. of \in [DOMAIN <<>> -> 1..0]
  OBVIOUS
<1>2. Got(<<>>, <<>>, 0)
  <2>1. DOMAIN <<>> = {}
    OBVIOUS
  <2> HIDE DEF of
  <2> QED
    BY <1>1, <2>1 DEF Got
<1> QED
  BY <1>2 DEF Signalling

LEMMA MoreSignals ==
  ASSUME NEW all \in Seq(Signals), NEW chan \in Seq(Signals), NEW got \in Seq(Signals \union {"KILL"}),
         Signalling(all, chan, got), NEW s \in Signals
  PROVE  Signalling(Append(all, s), Append(chan, s), got)
<1> DEFINE al == Append(all, s)
           ch == Append(chan, s)
           n == Len(all) - Len(chan)
<1>1. /\ al \in Seq(Signals) /\ Len(al) = Len(all) + 1 /\ al[Len(all) + 1] = s
      /\ \A i \in 1..Len(all) : al[i] = all[i]
  BY AppendProperties
<1>2. /\ ch \in Seq(Signals) /\ Len(ch) = Len(chan) + 1 /\ ch[Len(chan) + 1] = s
      /\ \A i \in 1..Len(chan) : ch[i] = chan[i]
  BY AppendProperties
<1>3. Len(all) \in Nat /\ Len(chan) \in Nat /\ Len(chan) <= Len(all) /\ n \in Nat /\ n <= Len(all)
  BY LenProperties DEF Signalling
<1>4. PICK of \in [DOMAIN got -> 1..n] :
        /\ \A i, j \in DOMAIN got : i < j => of[i] < of[j]
        /\ \A i \in DOMAIN got : got[i] = SentAs(all[of[i]])
  BY DEF Signalling, Got
<1>5. \A k \in 1..Len(chan) : chan[k] = all[n + k]
  BY DEF Signalling
<1> HIDE DEF al, ch, n
<1>6. Len(al) - Len(ch) = n
  BY <1>1, <1>2, <1>3 DEF n
<1>7. ASSUME NEW k \in 1..Len(ch)
      PROVE  ch[k] = al[n + k]
  <2>1. CASE k \in 1..Len(chan)
    <3>1. n + k \in 1..Len(all)
      BY <1>3, <2>1 DEF n
    <3> QED
      BY <1>1, <1>2, <1>5, <2>1, <3>1
  <2>2. CASE k = Len(chan) + 1
    <3>1. n + k = Len(all) + 1
      BY <1>3, <2>2 DEF n
    <3> QED
      BY <1>1, <1>2, <2>2, <3>1
  <2> QED
    BY <1>2, <1>3, <2>1, <2>2
<1>8. \A i \in DOMAIN got : al[of[i]] = all[of[i]]
  <2>1. \A k \in 1..n : k \in 1..Len(all)
    BY <1>3
  <2> QED
    BY <1>1, <1>4, <2>1
<1>9. Got(got, al, n)
  BY <1>4, <1>8 DEF Got
<1>10. Signalling(al, ch, got)
  <2>1. Len(ch) <= Len(al)
    BY <1>1, <1>2, <1>3
  <2>2. \A k \in 1..Len(ch) : ch[k] = al[Len(al) - Len(ch) + k]
    BY <1>6, <1>7
  <2>3. Got(got, al, Len(al) - Len(ch))
    BY <1>6, <1>9
  <2> QED
    BY <2>1, <2>2, <2>3 DEF Signalling
<1> QED
  BY <1>10 DEF al, ch

LEMMA LessSignals ==
  ASSUME NEW all \in Seq(Signals), NEW chan \in Seq(Signals), NEW got \in Seq(Signals \union {"KILL"}),
         Signalling(all, chan, got), chan # <<>>
  PROVE  /\ Signalling(all, Tail(chan), got)
         /\ Signalling(all, Tail(chan), Append(got, SentAs(Head(chan))))
<1> DEFINE ch == Tail(chan)
           n == Len(all) - Len(chan)
           s == SentAs(Head(chan))
           gt == Append(got, s)
<1>1. /\ ch \in Seq(Signals) /\ Len(chan) \in Nat /\ Len(chan) >= 1 /\ Len(ch) = Len(chan) - 1
      /\ \A k \in 1..(Len(chan) - 1) : ch[k] = chan[k + 1]
      /\ Head(chan) = chan[1] /\ Head(chan) \in Signals
  BY HeadTailProperties, ElementOfSeq, LenProperties, EmptySeq
<1>2. Len(all) \in Nat /\ Len(chan) <= Len(all) /\ n \in Nat
  BY <1>1, LenProperties DEF Signalling
<1>3. PICK of \in [DOMAIN got -> 1..n] :
        /\ \A i, j \in DOMAIN got : i < j => of[i] < of[j]
        /\ \A i \in DOMAIN got : got[i] = SentAs(all[of[i]])
  BY DEF Signalling, Got
<1>4. \A k \in 1..Len(chan) : chan[k] = all[n + k]
  BY DEF Signalling
<1>5. /\ gt \in Seq(Signals \union {"KILL"}) /\ Len(gt) = Len(got) + 1 /\ gt[Len(got) + 1] = s
      /\ \A i \in 1..Len(got) : gt[i] = got[i]
  <2>1. s \in Signals \union {"KILL"}
    BY <1>1 DEF SentAs
  <2> HIDE DEF s
  <2> QED
    BY <2>1, AppendProperties
<1>6. Len(got) \in Nat /\ DOMAIN got = 1..Len(got) /\ DOMAIN gt = 1..(Len(got) + 1)
  BY <1>5, LenProperties
<1>7. Head(chan) = all[n + 1]
  BY <1>1, <1>4
<1> HIDE DEF ch, n, s, gt
<1>8. Len(all) - Len(ch) = n + 1
  BY <1>1, <1>2 DEF n
<1>9. \A k \in 1..Len(ch) : ch[k] = all[Len(all) - Len(ch) + k]
  <2> TAKE k \in 1..Len(ch)
  <2>1. k \in 1..(Len(chan) - 1) /\ k + 1 \in 1..Len(chan)
    BY <1>1
  <2>2. n + 1 + k = n + (k + 1)
    BY <1>2, <2>1
  <2> QED
    BY <1>1, <1>4, <1>8, <2>1, <2>2
<1>10. Got(got, all, n + 1)
  <2>1. of \in [DOMAIN got -> 1..(n + 1)]
    <3>1. \A k \in 1..n : k \in 1..(n + 1)
      BY <1>2
    <3> QED
      BY <1>3, <3>1
  <2> QED
    BY <1>3, <2>1 DEF Got
<1>11. Got(gt, all, n + 1)
  <2> DEFINE og == [i \in DOMAIN gt |-> IF i = Len(got) + 1 THEN n + 1 ELSE of[i]]
  <2>1. \A i \in DOMAIN gt : i # Len(got) + 1 => i \in DOMAIN got
    BY <1>6
  <2>2. \A i \in DOMAIN got : of[i] \in 1..n
    BY <1>3
  <2>3. og \in [DOMAIN gt -> 1..(n + 1)]
    <3>1. \A k \in 1..n : k \in 1..(n + 1)
      BY <1>2
    <3>2. n + 1 \in 1..(n + 1)
      BY <1>2
    <3> QED
      BY <2>1, <2>2, <3>1, <3>2
  <2>4. ASSUME NEW i \in DOMAIN gt, NEW j \in DOMAIN gt, i < j
        PROVE  og[i] < og[j]
    <3>1. i # Len(got) + 1
      BY <1>6, <2>4
    <3>2. i \in DOMAIN got /\ og[i] = of[i] /\ of[i] \in 1..n
      BY <2>1, <2>2, <3>1
    <3>3. CASE j = Len(got) + 1
      BY <1>2, <3>2, <3>3
    <3>4. CASE j # Len(got) + 1
      BY <1>3, <2>1, <2>4, <3>2, <3>4
    <3> QED
      BY <3>3, <3>4
  <2>5. ASSUME NEW i \in DOMAIN gt
        PROVE  gt[i] = SentAs(all[og[i]])
    <3>1. CASE i = Len(got) + 1
      BY <1>5, <1>7, <3>1 DEF s
    <3>2. CASE i # Len(got) + 1
      BY <1>3, <1>5, <1>6, <2>1, <3>2
    <3> QED
      BY <3>1, <3>2
  <2> HIDE DEF og
  <2> QED
    BY <2>3, <2>4, <2>5 DEF Got
<1>12. Len(ch) <= Len(all)
  BY <1>1, <1>2
<1>13. Signalling(all, ch, got) /\ Signalling(all, ch, gt)
  BY <1>8, <1>9, <1>10, <1>11, <1>12 DEF Signalling
<1> QED
  BY <1>13 DEF ch, gt, s
\* A step that is about the signals only.
LEMMA SignalsStep ==
  ASSUME IInv, NEW r \in Cmds, Framed(r), UNCHANGED <<pc, ret, hijacked, errCh, hj, conn, file>>,
         IsBox(box'[r]), box'[r].state = box[r].state, box'[r].code = box[r].code,
         sigc'[r] \in Seq(Signals), sent'[r] \in Seq(Signals),
         Signalling(sent'[r], sigc'[r], box'[r].got)
  PROVE  IInv'
<1>1. Types(r)'
  BY DEF IInv, Mine, Types
<1>2. Hijacks(r)'
  BY DEF IInv, Mine, Framed, Hijacks, kind
<1>3. Codings(r)'
  BY DEF IInv, Framed, Mine, Codings, NotTold, kind, flags, Is
<1>4. File'
  BY FileKept
<1> QED
  BY <1>1, <1>2, <1>3, <1>4, FramedStep DEF Mine

LEMMA SignalStep ==
  ASSUME IInv, NEW r \in Cmds, NEW s \in Signals, Signal(r, s)
  PROVE  IInv'
<1>1. /\ UNCHANGED <<scene, pc, ret, hijacked, errCh, hj, conn, box, file>>
      /\ sigc' = [sigc EXCEPT ![r] = Append(@, s)] /\ sent' = [sent EXCEPT ![r] = Append(@, s)]
  BY DEF Signal, cli, chans, streams
<1>2. /\ Framed(r) /\ box'[r] = box[r]
      /\ sigc'[r] = Append(sigc[r], s) /\ sent'[r] = Append(sent[r], s)
  BY <1>1 DEF IInv, Functions, Framed, Same
<1>3. /\ sigc[r] \in Seq(Signals) /\ sent[r] \in Seq(Signals) /\ IsBox(box[r])
      /\ box[r].got \in Seq(Signals \union {"KILL"}) /\ Signalling(sent[r], sigc[r], box[r].got)
  BY DEF IInv, Mine, Types, IsBox
<1>4. sigc'[r] \in Seq(Signals) /\ sent'[r] \in Seq(Signals)
  BY <1>2, <1>3, AppendProperties
<1>5. Signalling(sent'[r], sigc'[r], box'[r].got)
  BY <1>2, <1>3, MoreSignals
<1> QED
  BY <1>1, <1>2, <1>3, <1>4, <1>5, SignalsStep

LEMMA ForwardStep ==
  ASSUME IInv, NEW r \in Cmds, Forward(r)
  PROVE  IInv'
<1> DEFINE g == Append(box[r].got, SentAs(Head(sigc[r])))
<1>1. /\ UNCHANGED <<scene, pc, ret, hijacked, errCh, hj, conn, sent, file>> /\ sigc[r] # <<>>
      /\ sigc' = [sigc EXCEPT ![r] = Tail(@)]
      /\ box' = box \/ box' = [box EXCEPT ![r].got = Append(@, SentAs(Head(sigc[r])))]
  BY DEF Forward, KillBox, cli, chans, streams
<1>2. /\ sigc[r] \in Seq(Signals) /\ sent[r] \in Seq(Signals) /\ IsBox(box[r])
      /\ box[r].got \in Seq(Signals \union {"KILL"}) /\ Signalling(sent[r], sigc[r], box[r].got)
  BY DEF IInv, Mine, Types, IsBox
<1>3. Tail(sigc[r]) \in Seq(Signals) /\ Head(sigc[r]) \in Signals
  BY <1>1, <1>2, HeadTailProperties
<1>4. g \in Seq(Signals \union {"KILL"})
  <2>1. SentAs(Head(sigc[r])) \in Signals \union {"KILL"}
    BY <1>3 DEF SentAs
  <2> QED
    BY <1>2, <2>1, AppendProperties
<1>5. Signalling(sent[r], Tail(sigc[r]), box[r].got) /\ Signalling(sent[r], Tail(sigc[r]), g)
  BY <1>1, <1>2, LessSignals
<1>6. CASE box' = box
  <2>1. Framed(r) /\ UNCHANGED <<sent[r], box[r]>> /\ sigc'[r] = Tail(sigc[r])
    BY <1>1, <1>6 DEF IInv, Functions, Framed, Same
  <2> QED
    BY <1>1, <1>2, <1>3, <1>5, <2>1, SignalsStep
<1>7. CASE box' = [box EXCEPT ![r].got = Append(@, SentAs(Head(sigc[r])))]
  <2> DEFINE d == [box[r] EXCEPT !.got = g]
  <2>1. box' = [box EXCEPT ![r].got = g]
    BY <1>7 DEF IInv, Functions
  <2> HIDE DEF g
  <2>2. IsBox(d) /\ d.state = box[r].state /\ d.code = box[r].code /\ d.got = g
    BY <1>2, <1>4, BoxGot
  <2>3. OtherBoxes(r) /\ box'[r] = d
    BY <2>1 DEF IInv, Functions, OtherBoxes
  <2> HIDE DEF d
  <2>4. Framed(r) /\ sent'[r] = sent[r] /\ sigc'[r] = Tail(sigc[r])
    BY <1>1, <2>3 DEF IInv, Functions, Framed, Same, OtherBoxes
  <2>5. /\ IsBox(box'[r]) /\ box'[r].state = box[r].state /\ box'[r].code = box[r].code
        /\ box'[r].got = g
    BY <2>2, <2>3
  <2>6. sigc'[r] \in Seq(Signals) /\ sent'[r] \in Seq(Signals) /\ Signalling(sent'[r], sigc'[r], box'[r].got)
    BY <1>2, <1>3, <1>5, <2>4, <2>5
  <2> QED
    BY <1>1, <2>4, <2>5, <2>6, SignalsStep
<1> QED
  BY <1>1, <1>6, <1>7

-----------------------------------------------------------------------------
(* The invariant.                                                          *)

LEMMA InitIInv == Init => IInv
<1> SUFFICES ASSUME Init
             PROVE  IInv
  OBVIOUS
<1>1. Functions
  BY DEF Init, Functions
<1>2. File
  BY DEF Init, File
<1>3. ASSUME NEW r \in Cmds
      PROVE  Mine(r)
  <2>1. kind[r] \in Kinds
    BY ScenariosAssumption DEF Init, kind
  <2>2. /\ pc[r] = CASE kind[r] = "run" -> "stat" [] kind[r] = "none" -> "done" [] OTHER -> "inspect"
        /\ ret[r] = IF kind[r] = "none" THEN "0" ELSE None
        /\ hijacked[r] = "open" /\ errCh[r] = None /\ hj[r] = None /\ conn[r] = None
        /\ sigc[r] = <<>> /\ sent[r] = <<>>
    BY DEF Init
  <2> DEFINE st == CASE kind[r] = "start" -> "exited" [] kind[r] = "attach" -> "running" [] OTHER -> "none"
  <2>3. st \in {"exited", "running", "none"}
    OBVIOUS
  <2>4. box[r] = [state |-> st, code |-> "0", wrote |-> FALSE, seen |-> FALSE, got |-> <<>>]
    BY DEF Init, NoBox
  <2> HIDE DEF st
  <2>5. IsBox(box[r]) /\ box[r].got = <<>>
    BY <2>3, <2>4, CodesAssumption DEF IsBox
  <2>6. Types(r)
    BY <2>1, <2>2, <2>5, CodesAssumption DEF Types, Labels, Kinds
  <2>7. Hijacks(r)
    BY <2>1, <2>2, CodesAssumption DEF Hijacks, Unstarted, Over, Kinds, None
  <2>8. Codings(r)
    BY <2>1, <2>2 DEF Codings
  <2> QED
    BY <2>2, <2>5, <2>6, <2>7, <2>8, NoSignals DEF Mine
<1> QED
  BY <1>1, <1>2, <1>3 DEF IInv

LEMMA IdleStep ==
  ASSUME IInv, UNCHANGED vars
  PROVE  IInv'
<1>1. UNCHANGED <<scene, pc, ret, hijacked, errCh, hj, conn, sigc, sent, box, file>>
  BY DEF vars, cli, chans, streams, sigs
<1>2. Functions' /\ File'
  BY <1>1 DEF IInv, Functions, File, Is, flags
<1>3. ASSUME NEW r \in Cmds
      PROVE  Mine(r)'
  BY <1>1, SameMine DEF IInv, Same
<1> QED
  BY <1>2, <1>3 DEF IInv

LEMMA NextIInv == IInv /\ [Next]_vars => IInv'
<1> SUFFICES ASSUME IInv, [Next]_vars
             PROVE  IInv'
  OBVIOUS
<1>1. ASSUME NEW r \in Cmds, CliStep(r)
      PROVE  IInv'
  BY <1>1, CidStatStep, CidCreateStep, CreateStep, PullStep, CidWriteStep, SelectStep, InspectStep, StartStep,
     WaitStreamsStep, WaitForExitStep, GetExitCodeStep, DeleteStep, CloseStep, FinishStep DEF CliStep
<1>2. ASSUME NEW r \in Cmds, DaemonStep(r)
      PROVE  IInv'
  BY <1>2, AnswerStep, OutputStep, EndSteps DEF DaemonStep
<1> QED
  BY <1>1, <1>2, HijackSteps, StreamSteps, SignalStep, ForwardStep, EndSteps, IdleStep DEF Next

LEMMA SpecIInv == Spec => []IInv
  BY InitIInv, NextIInv, PTL DEF Spec

-----------------------------------------------------------------------------
(* The theorems.                                                           *)

\* A docker run that has waited returns the code of its container, or with --rm, when
\* the connection for the code was refused, -1; and with --rm, when it does not fail,
\* nothing is left of the container.
THEOREM SpecRunTellsTheCode == Spec => []RunTellsTheCode
<1>1. IInv => RunTellsTheCode
  BY DEF IInv, Mine, Codings, NotTold, RunTellsTheCode, At
<1> QED
  BY <1>1, SpecIInv, PTL

\* The container gets the signals in the order the user sent them.
THEOREM SpecSignalsInOrder == Spec => []SignalsInOrder
<1>1. IInv => SignalsInOrder
  <2> SUFFICES ASSUME IInv, NEW r \in Cmds
               PROVE  \E of \in [DOMAIN box[r].got -> DOMAIN sent[r]] :
                        /\ \A i, j \in DOMAIN box[r].got : i < j => of[i] < of[j]
                        /\ \A i \in DOMAIN box[r].got : box[r].got[i] = SentAs(sent[r][of[i]])
    BY DEF SignalsInOrder
  <2> DEFINE n == Len(sent[r]) - Len(sigc[r])
  <2>1. Got(box[r].got, sent[r], n)
    BY DEF IInv, Mine, Signalling
  <2>2. /\ DOMAIN sent[r] = 1..Len(sent[r]) /\ Len(sent[r]) \in Nat /\ Len(sigc[r]) \in Nat
        /\ Len(sigc[r]) <= Len(sent[r])
    BY LenProperties DEF IInv, Mine, Types, Signalling
  <2>3. n <= Len(sent[r]) /\ n \in Nat
    BY <2>2, Difference
  <2> HIDE DEF n
  <2>4. \A k \in 1..n : k \in DOMAIN sent[r]
    BY <2>2, <2>3
  <2> QED
    BY <2>1, <2>4 DEF Got
<1> QED
  BY <1>1, SpecIInv, PTL

\* No empty --cidfile is left behind by commands that have come to their end.
THEOREM SpecNoEmptyCidFile == Spec => []NoEmptyCidFile
<1>1. IInv => TypeOK
  <2> SUFFICES ASSUME IInv
               PROVE  TypeOK
    OBVIOUS
  <2>1. /\ ret \in [Cmds -> Codes \union {None, Failed, NoCode}]
        /\ hijacked \in [Cmds -> {"open", "sending", "taken", "closed"}]
        /\ errCh \in [Cmds -> {None, "nil", Failed}]
        /\ conn \in [Cmds -> {None, "asked", "answered", "attached", "ended", "closed"}]
        /\ sigc \in [Cmds -> Seq(Signals)]
    BY DEF IInv, Functions, Mine, Types
  <2>2. ASSUME NEW r \in Cmds, At(r, "done")
        PROVE  ret[r] # None /\ hj[r] \in Over
    <3>1. kind[r] \in Kinds
      BY ScenariosAssumption DEF IInv, Functions, kind
    <3> QED
      BY <2>2, <3>1 DEF IInv, Mine, Hijacks, At, Over, Kinds
  <2> QED
    BY <2>1, <2>2 DEF TypeOK, IInv, File, Over
<1>2. IInv => NoEmptyCidFile
  BY <1>1 DEF IInv, File, Writing, At, NoEmptyCidFile
<1> QED
  BY <1>2, SpecIInv, PTL
=============================================================================
