--------------------------- MODULE LogPipeProofs ---------------------------
(***************************************************************************)
(* Proofs that only the end of a container's log can be missing from the   *)
(* journal, and that without failures no line is there twice, for any      *)
(* command lines and any number of lines and starts.  What a command line  *)
(* is parsed to does not matter: only that it is parsed before the rest.   *)
(***************************************************************************)
EXTENDS LogPipe, TLAPS

\* Before the first start of a container nothing has been written.
Begins ==
  pc \in {"parse", "refused"} => box.state = "none" /\ journal = Nowhere

\* The goroutine copies from the beginning of the log.
FromTheStart == pipe \in {"none", "call"} => copied = 0

\* A line comes at least as often as the next, and more often where the goroutine
\* is between them.
Ordered ==
  \A l, m \in Lines : l < m =>
    journal[l] >= journal[m] /\ (l <= copied /\ copied < m => journal[l] > journal[m])

\* Lines the goroutine of this start has yet to get to, and those that it or one
\* of the next start has.
Unwritten(l) == pc \in {"output", "notify"} \/ (pipe \in {"call", "copy"} /\ l > copied)
Due(l) == pc = "run" \/ Unwritten(l)

\* Each start brings a line once at most.
OncePerRun ==
  \A l \in Lines : journal[l] <= runs /\ (Due(l) => journal[l] < runs)

\* The container of an earlier start is not taken over once it has ended.
Fresh == c.Rm \/ c.Name = ""

\* Without disturbances a unit that has not got through has left no container
\* running, and what is run under no name, or with --rm, has a log of its own.
OwnLog ==
  calm =>
    /\ pc \in {"run", "failed"} => box.state # "running"
    /\ pc \notin {"parse", "refused"} /\ Fresh =>
         \A l \in Lines : journal[l] <= 1 /\ (Unwritten(l) => journal[l] = 0)

IInv == TypeOK /\ Begins /\ FromTheStart /\ Ordered /\ OncePerRun /\ OwnLog

-----------------------------------------------------------------------------

LEMMA FreshSame ==
  ASSUME UNCHANGED c
  PROVE  Fresh' = Fresh
  BY DEF Fresh

LEMMA InitIInv == Init => IInv
<1> SUFFICES ASSUME Init
             PROVE  IInv
  OBVIOUS
<1>1. TypeOK /\ journal = Nowhere
  BY BoundsAssumption DEF Init, TypeOK, NoBox, Nowhere, Lines
<1> QED
  BY <1>1, BoundsAssumption
     DEF Init, IInv, Begins, FromTheStart, Ordered, OncePerRun, Due, Unwritten, OwnLog, NoBox,
         Nowhere, Lines

\* A step that leaves the journal as it is, and after which no line is to come
\* that was not to come before.
LEMMA NothingWritten ==
  ASSUME IInv, TypeOK', Begins', UNCHANGED <<c, journal, runs>>,
         copied' \in {0, copied}, pipe' \in {"none", "call"} => copied' = 0,
         \A l \in Lines : Unwritten(l)' => Unwritten(l),
         pc' # "run", pc \in {"parse", "refused"} => pc' \in {"parse", "refused"},
         calm' => calm /\ (pc' = "failed" => box'.state # "running")
  PROVE  IInv'
<1>1. Ordered'
  BY DEF IInv, TypeOK, Ordered, Lines
<1>2. OncePerRun'
  BY DEF IInv, OncePerRun, Due
<1>3. OwnLog'
  BY FreshSame DEF IInv, OwnLog
<1> QED
  BY <1>1, <1>2, <1>3 DEF IInv, FromTheStart

-----------------------------------------------------------------------------
(* mainWithArgs.                                                           *)

LEMMA ParseContextStep ==
  ASSUME IInv, ParseContext
  PROVE  IInv'
<1>1. /\ pc = "parse" /\ pc' \in {"run", "refused"}
      /\ UNCHANGED <<pipe, copied, runs, box, journal, calm>>
  BY DEF ParseContext, Goes, goroutine, host
<1>2. journal' = Nowhere /\ box'.state = "none"
  BY <1>1 DEF IInv, Begins
<1>3. TypeOK'
  BY <1>1 DEF IInv, TypeOK
<1> QED
  BY <1>1, <1>2, <1>3, BoundsAssumption
     DEF IInv, TypeOK, Begins, FromTheStart, Ordered, OncePerRun, Due, Unwritten, OwnLog, Nowhere,
         Lines

LEMMA RunContainerStep ==
  ASSUME IInv, RunContainer
  PROVE  IInv'
<1>1. pc = "run" /\ UNCHANGED <<c, runs, calm>>
  BY DEF RunContainer, unit
<1>2. CASE TakesOver
  <2>1. pc' = "notify" /\ box' = [box EXCEPT !.state = "running"] /\ UNCHANGED <<journal, pipe, copied>>
    BY <1>2 DEF RunContainer, Goes, goroutine
  <2>2. calm => ~Fresh
    BY <1>1, <1>2 DEF IInv, OwnLog, TakesOver, Fresh
  <2>3. TypeOK'
    BY <1>1, <2>1 DEF IInv, TypeOK
  <2>4. OncePerRun'
    BY <1>1, <2>1 DEF IInv, OncePerRun, Due
  <2>5. Ordered' /\ FromTheStart' /\ Begins'
    BY <1>1, <2>1 DEF IInv, Ordered, FromTheStart, Begins
  <2>6. OwnLog'
    BY <1>1, <2>1, <2>2 DEF OwnLog, Fresh
  <2> QED
    BY <2>3, <2>4, <2>5, <2>6 DEF IInv
<1>3. CASE ~TakesOver /\ ~c.Args.ok
  <2>1. pc' = "failed" /\ pipe' = "none" /\ copied' = 0 /\ UNCHANGED <<box, journal>>
    BY <1>3 DEF RunContainer, Ends, host
  <2>2. TypeOK'
    BY <1>1, <2>1, BoundsAssumption DEF IInv, TypeOK
  <2> QED
    BY <1>1, <2>1, <2>2, NothingWritten DEF IInv, Begins, OwnLog, Unwritten
<1>4. CASE ~TakesOver /\ c.Args.ok
  <2>1. /\ pc' \in {"notify", "output"} /\ box' = NewBox /\ journal' = Nowhere
        /\ UNCHANGED <<pipe, copied>>
    BY <1>4 DEF RunContainer, Goes, goroutine
  <2>2. TypeOK'
    BY <1>1, <2>1, BoundsAssumption DEF IInv, TypeOK, NewBox, Nowhere, Lines
  <2>3. copied' = 0
    BY <1>1, <2>1 DEF IInv, TypeOK, FromTheStart
  <2>4. \A l \in Lines : journal'[l] = 0
    BY <2>1 DEF Nowhere
  <2>5. Ordered'
    BY <2>3, <2>4 DEF Ordered, Lines
  <2>6. OncePerRun'
    BY <1>1, <2>4, BoundsAssumption DEF IInv, TypeOK, OncePerRun
  <2>7. OwnLog'
    BY <2>1, <2>4 DEF OwnLog
  <2> QED
    BY <2>1, <2>2, <2>3, <2>5, <2>6, <2>7 DEF IInv, Begins, FromTheStart
<1> QED
  BY <1>2, <1>3, <1>4

LEMMA NotifyStep ==
  ASSUME IInv, OutputEnds \/ Notify
  PROVE  IInv'
<1>1. pc \in {"output", "notify"} /\ copied' = 0 /\ UNCHANGED <<c, runs, box, journal, calm>>
  BY DEF OutputEnds, Notify, Ends, unit, host
<1>2. \/ pc' = "inspect" /\ pipe' \in {"call", "over"}
      \/ pc' = "failed" /\ pipe' = "none" /\ box.state # "running"
  BY DEF OutputEnds, Notify, Ends
<1>3. TypeOK'
  BY <1>1, <1>2, BoundsAssumption DEF IInv, TypeOK
<1> QED
  BY <1>1, <1>2, <1>3, NothingWritten DEF Begins, Unwritten

\* The goroutine goes on beside keepAlive.
LEMMA KeepAliveStep ==
  ASSUME IInv, KeepAlive \/ WaitContainer
  PROVE  IInv'
<1>1. pc \in {"inspect", "wait"} /\ UNCHANGED <<c, runs, box, journal, calm>>
  BY DEF KeepAlive, WaitContainer, unit, host
<1>2. \/ pc' \in {"inspect", "wait", "rm"} /\ UNCHANGED <<pipe, copied>>
      \/ pc' = "failed" /\ pipe' = "none" /\ copied' = 0 /\ box.state = "none"
  BY <1>1 DEF KeepAlive, WaitContainer, Goes, Ends, goroutine, IInv, TypeOK
<1>3. TypeOK'
  BY <1>1, <1>2, BoundsAssumption DEF IInv, TypeOK
<1> QED
  BY <1>1, <1>2, <1>3, NothingWritten DEF IInv, Begins, FromTheStart, Unwritten

LEMMA RmContainerStep ==
  ASSUME IInv, RmContainer
  PROVE  IInv'
<1>1. /\ pc = "rm" /\ pc' \in {"done", "failed"} /\ pipe' = "none" /\ copied' = 0
      /\ pc' = "failed" => c.Rm
      /\ box' = (IF c.Rm THEN [box EXCEPT !.state = "none"] ELSE box)
      /\ UNCHANGED <<c, runs, journal, calm>>
  BY DEF RmContainer, Ends, unit
<1>2. TypeOK' /\ (pc' = "failed" => box'.state = "none")
  BY <1>1, BoundsAssumption DEF IInv, TypeOK
<1> QED
  BY <1>1, <1>2, NothingWritten DEF Begins, Unwritten

LEMMA CallFailsStep ==
  ASSUME IInv, CallFails
  PROVE  IInv'
<1>1. /\ calm' \in {calm, FALSE} /\ ~calm' /\ UNCHANGED <<c, runs, box, journal>>
      /\ \/ pc = "wait" /\ pc' = "inspect" /\ UNCHANGED <<pipe, copied>>
         \/ /\ pc \in {"run", "notify", "inspect", "rm"}
            /\ pc' = "failed" /\ pipe' = "none" /\ copied' = 0
  BY DEF CallFails, Goes, Ends, goroutine, unit, host
<1>2. TypeOK'
  <2>1. calm' \in BOOLEAN
    BY <1>1 DEF IInv, TypeOK
  <2> QED
    BY <1>1, <2>1, BoundsAssumption DEF IInv, TypeOK
<1> QED
  BY <1>1, <1>2, NothingWritten DEF IInv, Begins, FromTheStart, Unwritten

-----------------------------------------------------------------------------
(* pipeLogs.                                                               *)

LEMMA PipeLogsStep ==
  ASSUME IInv, PipeLogs \/ LogsFail \/ LogsEnd
  PROVE  IInv'
<1>1. /\ pipe \in {"call", "copy"} /\ pipe' \in {"copy", "over"}
      /\ calm' \in {calm, FALSE} /\ UNCHANGED <<c, runs, pc, copied, box, journal>>
  BY DEF PipeLogs, LogsFail, LogsEnd, unit, host
<1>2. TypeOK'
  BY <1>1 DEF IInv, TypeOK
<1> QED
  BY <1>1, <1>2, NothingWritten DEF IInv, TypeOK, Begins, Unwritten, OwnLog

\* The line comes once more, which makes it as frequent as the one before it at
\* most: that one has been copied by this start, and this one has not.
LEMMA CopyLineStep ==
  ASSUME IInv, CopyLine
  PROVE  IInv'
<1> DEFINE next == copied + 1
<1>1. /\ pipe = "copy" /\ copied < box.lines /\ copied' = next
      /\ journal' = [journal EXCEPT ![next] = journal[next] + 1]
      /\ UNCHANGED <<c, runs, pc, pipe, box, calm>>
  BY DEF CopyLine, unit
<1>2. copied \in Nat /\ next \in Lines /\ pc \in {"inspect", "wait", "rm"}
  BY <1>1, BoundsAssumption DEF IInv, TypeOK, Lines
<1>3. Unwritten(next) /\ Due(next)
  BY <1>1, <1>2 DEF Due, Unwritten
<1>4. \A l \in Lines : journal[l] \in Nat /\ journal'[l] = IF l = next THEN journal[l] + 1 ELSE journal[l]
  BY <1>1, <1>2, BoundsAssumption DEF IInv, TypeOK
<1>5. journal[next] < runs /\ runs <= MaxRuns /\ runs \in Nat
  BY <1>2, <1>3, BoundsAssumption DEF IInv, TypeOK, OncePerRun
<1>6. TypeOK'
  BY <1>1, <1>2, <1>4, <1>5, BoundsAssumption DEF IInv, TypeOK, Lines
<1>7. Ordered'
  BY <1>1, <1>2, <1>4 DEF IInv, Ordered, Lines
<1>8. OncePerRun'
  BY <1>1, <1>2, <1>4, <1>5 DEF IInv, OncePerRun, Due, Unwritten, Lines
<1>9. OwnLog'
  BY <1>1, <1>2, <1>3, <1>4, FreshSame DEF IInv, OwnLog, Unwritten, Lines
<1> QED
  BY <1>1, <1>2, <1>6, <1>7, <1>8, <1>9 DEF IInv, Begins, FromTheStart

-----------------------------------------------------------------------------
(* The container, systemd and people.                                      *)

LEMMA ContainerStep ==
  ASSUME IInv, WriteLine \/ Exit \/ ByHand
  PROVE  IInv'
<1>1. /\ box.state # "none" /\ UNCHANGED <<c, runs, pc, pipe, copied, journal>>
      /\ calm' \in {calm, FALSE} /\ (calm' => box.state = "running")
      /\ \/ box.lines < MaxLines /\ box' = [box EXCEPT !.lines = box.lines + 1]
         \/ \E s \in {"none", "running", "exited"} : box' = [box EXCEPT !.state = s]
  BY DEF WriteLine, Exit, ByHand, unit, goroutine
<1>2. TypeOK'
  <2>1. calm' \in BOOLEAN
    BY <1>1 DEF IInv, TypeOK
  <2> QED
    BY <1>1, <2>1, BoundsAssumption DEF IInv, TypeOK
<1>3. Begins' /\ Ordered' /\ OncePerRun' /\ FromTheStart'
  BY <1>1 DEF IInv, Begins, Ordered, OncePerRun, Due, Unwritten, FromTheStart
<1>4. OwnLog'
  BY <1>1, FreshSame DEF IInv, OwnLog, Unwritten
<1> QED
  BY <1>2, <1>3, <1>4 DEF IInv

LEMMA KillStep ==
  ASSUME IInv, Kill
  PROVE  IInv'
<1>1. /\ pc \notin {"parse", "refused"} /\ pc' = "failed"
      /\ pipe' = "none" /\ copied' = 0 /\ calm' \in {calm, FALSE} /\ ~calm'
      /\ box' = box \/ box' = [box EXCEPT !.state = "exited"]
      /\ UNCHANGED <<c, runs, journal>>
  BY DEF Kill, Ends, unit
<1>2. TypeOK'
  <2>1. calm' \in BOOLEAN
    BY <1>1 DEF IInv, TypeOK
  <2> QED
    BY <1>1, <2>1, BoundsAssumption DEF IInv, TypeOK
<1> QED
  BY <1>1, <1>2, NothingWritten DEF Begins, Unwritten

LEMMA RestartStep ==
  ASSUME IInv, Restart
  PROVE  IInv'
<1>1. /\ pc \in {"failed", "done"} /\ pc' = "run" /\ runs < MaxRuns /\ runs' = runs + 1
      /\ pc = "done" => box.state # "running"
      /\ UNCHANGED <<c, pipe, copied, box, journal, calm>>
  BY DEF Restart, Goes, goroutine, host
<1>2. TypeOK'
  <2>1. calm' \in BOOLEAN
    BY <1>1 DEF IInv, TypeOK
  <2> QED
    BY <1>1, <2>1, BoundsAssumption DEF IInv, TypeOK
<1>3. OncePerRun'
  BY <1>1, BoundsAssumption DEF IInv, TypeOK, OncePerRun
<1>4. OwnLog'
  BY <1>1, FreshSame DEF IInv, TypeOK, OwnLog, Unwritten
<1> QED
  BY <1>1, <1>2, <1>3, <1>4 DEF IInv, Begins, FromTheStart, Ordered

LEMMA NextIInv == IInv /\ [Next]_vars => IInv'
<1> SUFFICES ASSUME IInv, [Next]_vars
             PROVE  IInv'
  OBVIOUS
<1>1. CASE UNCHANGED vars
  BY <1>1, FreshSame DEF vars, unit, goroutine, host, IInv, TypeOK, Begins, FromTheStart, Ordered,
      OncePerRun,
              Due, Unwritten, OwnLog
<1> QED
  BY <1>1, ParseContextStep, RunContainerStep, NotifyStep, KeepAliveStep, RmContainerStep, CallFailsStep,
     PipeLogsStep, CopyLineStep, ContainerStep, KillStep, RestartStep DEF Next, Main, Pipe

LEMMA SpecIInv == Spec => []IInv
  BY InitIInv, NextIInv, PTL DEF Spec

\* No line is missing from the journal before one that is there.
THEOREM SpecOnlyTheEndIsLost == Spec => []OnlyTheEndIsLost
<1>1. IInv => OnlyTheEndIsLost
  BY BoundsAssumption DEF IInv, Ordered, OnlyTheEndIsLost, Lines
<1> QED
  BY <1>1, SpecIInv, PTL

\* With --rm, or without a name, no line is there twice while nothing fails and
\* nobody interferes.
THEOREM SpecLinesOnce == Spec => []LinesOnce
<1>1. IInv => LinesOnce
  <2> SUFFICES ASSUME IInv, calm, Fresh, NEW l \in Lines
               PROVE  journal[l] <= 1
    BY DEF LinesOnce, Fresh
  <2>1. CASE pc \in {"parse", "refused"}
    <3>1. journal[l] = 0
      BY <2>1 DEF IInv, Begins, Nowhere
    <3> QED
      BY <3>1
  <2>2. CASE pc \notin {"parse", "refused"}
    BY <2>2 DEF IInv, OwnLog
  <2> QED
    BY <2>1, <2>2
<1> QED
  BY <1>1, SpecIInv, PTL
=============================================================================
