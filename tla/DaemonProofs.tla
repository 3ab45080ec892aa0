---------------------------- MODULE DaemonProofs ----------------------------
(***************************************************************************)
(* Proofs about the docker daemon.  Of its engine: the counter of jobs is  *)
(* exact, shutdown handlers are called once, and the jobs counted before   *)
(* Shutdown are over when they are, for any number of jobs, handlers and   *)
(* calls.  Of the listeners of its API, which share nothing with it but    *)
(* the process: no connection is handled before the daemon is installed,   *)
(* for any set of addresses.                                               *)
(***************************************************************************)
EXTENDS Engine, ApiStartup, FiniteSetTheorems, SequenceTheorems, TLAPS

Active == { d \in Downs : down[d] \in {"wait", "hooks", "waitHooks"} }

\* At most one call of Shutdown is at work, and it is the first one that calls
\* the handlers.
OneShutdown ==
  /\ ~shutdown => /\ \A d \in Downs : down[d] = "none"
                  /\ \A h \in Hooks : hook[h].called = 0
  /\ \A d, e \in Active : d = e
  /\ \A d \in Downs : down[d] \in {"wait", "hooks"} =>
       \A h \in Hooks : hook[h].called = 0
  /\ \A h \in Hooks : hook[h].called \in {0, 1}

\* An early job has been counted, and Run refuses it a second time.
EarlyCounted ==
  /\ early # {} => shutdown
  /\ \A r \in early : name[r] # ServeApiJob /\ run[r] \notin {"none", "add"}

Busy(r) == run[r] \in {"guard", "handler", "close"}

EarlyOver ==
  \A d \in Downs : down[d] \in {"hooks", "waitHooks"} =>
    \A r \in early : ~Busy(r)

IInv == TypeOK /\ TasksExact /\ OneShutdown /\ EarlyCounted /\ EarlyOver

-----------------------------------------------------------------------------
(* The counter.                                                            *)

LEMMA CountedFinite ==
  IsFiniteSet(Counted) /\ Cardinality(Counted) \in Nat
<1>1. Counted \subseteq Runs
  BY DEF Counted
<1> QED
  BY <1>1, RunsAssumption, FS_Subset, FS_CardinalityType

\* One job more, or one less, is counted as one.
LEMMA CountUp ==
  ASSUME NEW r \in Runs, r \notin Counted, Counted' = Counted \union {r},
         TasksExact, tasks' = tasks + 1
  PROVE  TasksExact'
<1>1. Cardinality(Counted \union {r}) = Cardinality(Counted) + 1
  BY CountedFinite, FS_AddElement
<1> QED
  BY <1>1 DEF TasksExact

LEMMA CountDown ==
  ASSUME NEW r \in Runs, r \in Counted, Counted' = Counted \ {r},
         TasksExact, tasks' = tasks - 1
  PROVE  TasksExact'
<1>1. Cardinality(Counted \ {r}) = Cardinality(Counted) - 1
  BY CountedFinite, FS_RemoveElement
<1> QED
  BY <1>1 DEF TasksExact

LEMMA CountSame ==
  ASSUME Counted' = Counted, TasksExact, tasks' = tasks
  PROVE  TasksExact'
  BY DEF TasksExact

\* The counter is positive while a job is counted.
LEMMA CountZero ==
  ASSUME TasksExact, tasks = 0
  PROVE  Counted = {}
  BY CountedFinite, FS_EmptySet DEF TasksExact

\* Leaving a job takes it from the counter.
LEMMA LeaveTasks ==
  ASSUME TypeOK, TasksExact, NEW r \in Runs, Busy(r), Done(r),
         NEW l \in {"failed", "returned"}, run' = [run EXCEPT ![r] = l],
         UNCHANGED name
  PROVE  TasksExact' /\ tasks' \in Nat
<1>1. CASE name[r] = ServeApiJob
  <2>1. Counted' = Counted
    BY <1>1 DEF Counted, TypeOK, Busy
  <2> QED
    BY <1>1, <2>1, CountSame DEF Done, TypeOK
<1>2. CASE name[r] # ServeApiJob
  <2>1. r \in Counted
    BY <1>2 DEF Counted, Busy
  <2>2. Counted' = Counted \ {r}
    BY DEF Counted, TypeOK
  <2>3. TasksExact'
    BY <1>2, <2>1, <2>2, CountDown DEF Done
  <2>4. tasks # 0
    BY <2>1, CountZero
  <2> QED
    BY <1>2, <2>3, <2>4 DEF Done, TypeOK
<1> QED
  BY <1>1, <1>2

-----------------------------------------------------------------------------
(* The steps.                                                              *)

LEMMA InitInv == Init => IInv
<1> SUFFICES ASSUME Init PROVE IInv
  OBVIOUS
<1>1. Counted = {}
  BY DEF Init, Counted
<1>2. TypeOK
  BY EnvAssumption DEF Init, TypeOK, RunLabels, DownLabels, NoHandler
<1>3. TasksExact
  BY <1>1, FS_EmptySet DEF Init, TasksExact
<1>4. OneShutdown /\ EarlyCounted /\ EarlyOver
  BY DEF Init, OneShutdown, Active, EarlyCounted, EarlyOver
<1> QED
  BY <1>2, <1>3, <1>4 DEF IInv

\* Steps that touch neither a run nor the shutdown keep everything.
LEMMA QuietStep ==
  ASSUME IInv, TypeOK',
         UNCHANGED <<shutdown, tasks, run, name, down, early>>,
         UNCHANGED hook \/ \E h \in Hooks : HookReturns(h)
  PROVE  IInv'
<1>1. TasksExact'
  BY CountSame DEF IInv, Counted
<1>2. \A h \in Hooks : hook'[h].called = hook[h].called
  BY DEF HookReturns, IInv, TypeOK
<1>3. OneShutdown'
  BY <1>2 DEF IInv, OneShutdown, Active
<1>4. EarlyCounted' /\ EarlyOver'
  BY DEF IInv, EarlyCounted, EarlyOver, Busy
<1> QED
  BY <1>1, <1>3, <1>4 DEF IInv

\* Of a step of one job, only this job need be looked at.
LEMMA RunInv ==
  ASSUME IInv, TypeOK', TasksExact',
         UNCHANGED <<shutdown, onShutdown, down, hook, early>>,
         NEW r \in Runs, NEW l, run' = [run EXCEPT ![r] = l],
         UNCHANGED name \/ run[r] = "none",
         \A q \in Runs : q # r => name'[q] = name[q],
         r \in early => l \notin {"none", "add"} /\ (Busy(r)' => Busy(r))
  PROVE  IInv'
<1>1. OneShutdown'
  BY DEF IInv, OneShutdown, Active
<1>2. EarlyCounted'
  BY DEF IInv, EarlyCounted, TypeOK
<1>3. EarlyOver'
  <2> SUFFICES ASSUME NEW d \in Downs, down[d] \in {"hooks", "waitHooks"},
                      NEW q \in early
               PROVE  ~Busy(q)'
    BY DEF EarlyOver
  <2>1. ~Busy(q) /\ q \in Runs
    BY DEF IInv, EarlyOver, TypeOK
  <2> QED
    BY <2>1 DEF Busy, IInv, TypeOK
<1> QED
  BY <1>1, <1>2, <1>3 DEF IInv

\* Of a step of Shutdown that leaves the jobs alone, only the order matters.
LEMMA DownInv ==
  ASSUME IInv, TypeOK', OneShutdown', EarlyCounted',
         UNCHANGED <<tasks, run, name>>, EarlyOver'
  PROVE  IInv'
  BY CountSame DEF IInv, Counted

LEMMA TypeStep ==
  TypeOK /\ [Next]_vars /\ (\A r \in Runs : Busy(r) /\ name[r] # ServeApiJob => tasks # 0)
    => TypeOK'
<1> SUFFICES ASSUME TypeOK, [Next]_vars,
                    \A r \in Runs : Busy(r) /\ name[r] # ServeApiJob => tasks # 0
             PROVE  TypeOK'
  OBVIOUS
<1> USE DEF TypeOK, RunLabels, DownLabels, NoHandler, jobVars
<1>1. ASSUME NEW n \in Names, Register(n) PROVE TypeOK'
  BY <1>1 DEF Register
<1>2. ASSUME NEW n \in Names, NEW r \in Runs, Job(r, n) PROVE TypeOK'
  BY <1>2 DEF Job
<1>3. CASE RegisterCatchall
  BY <1>3 DEF RegisterCatchall
<1>4. ASSUME NEW r \in Runs, RunStep(r) \/ Again(r) PROVE TypeOK'
  <2>1. CASE Check(r)
    BY <2>1 DEF Check
  <2>2. CASE Count(r)
    BY <2>2 DEF Count
  <2>3. CASE Guard(r)
    BY <2>3 DEF Guard, Done, Busy
  <2>4. CASE Handled(r)
    BY <2>4 DEF Handled
  <2>5. CASE Returns(r)
    BY <2>5 DEF Returns, Done, Busy
  <2>6. CASE Again(r)
    BY <2>6 DEF Again
  <2> QED
    BY <1>4, <2>1, <2>2, <2>3, <2>4, <2>5, <2>6 DEF RunStep
<1>5. ASSUME NEW h \in Hooks, OnShutdown(h) \/ HookReturns(h) PROVE TypeOK'
  BY <1>5 DEF OnShutdown, HookReturns
<1>6. ASSUME NEW d \in Downs, ShutdownBegin(d) \/ ShutdownStep(d) PROVE TypeOK'
  <2>1. CASE ShutdownBegin(d)
    BY <2>1 DEF ShutdownBegin, Counted
  <2>2. CASE JobsDone(d)
    BY <2>2 DEF JobsDone
  <2>3. CASE CallHooks(d)
    BY <2>3 DEF CallHooks
  <2>4. CASE HooksDone(d)
    BY <2>4 DEF HooksDone
  <2> QED
    BY <1>6, <2>1, <2>2, <2>3, <2>4 DEF ShutdownStep
<1>7. CASE UNCHANGED vars
  BY <1>7 DEF vars
<1> QED
  BY <1>1, <1>2, <1>3, <1>4, <1>5, <1>6, <1>7 DEF Next

LEMMA NextInv == IInv /\ [Next]_vars => IInv'
<1> SUFFICES ASSUME IInv, [Next]_vars PROVE IInv'
  OBVIOUS
<1>0. TypeOK'
  <2>1. \A r \in Runs : Busy(r) /\ name[r] # ServeApiJob => tasks # 0
    BY CountZero DEF IInv, Counted, Busy
  <2> QED
    BY <2>1, TypeStep DEF IInv
<1> USE <1>0
<1>1. ASSUME NEW n \in Names, Register(n) PROVE IInv'
  BY <1>1, QuietStep DEF Register, jobVars
<1>2. ASSUME NEW n \in Names, NEW r \in Runs, Job(r, n) PROVE IInv'
  <2>1. TasksExact'
    <3>1. Counted' = Counted
      BY <1>2 DEF Job, Counted, IInv, TypeOK
    <3> QED
      BY <1>2, <3>1, CountSame DEF Job, IInv
  <2>2. r \notin early
    BY <1>2 DEF Job, IInv, EarlyCounted
  <2>3. \A q \in Runs : q # r => name'[q] = name[q]
    BY <1>2 DEF Job, IInv, TypeOK
  <2> QED
    BY <1>2, <2>1, <2>2, <2>3, RunInv DEF Job
<1>3. CASE RegisterCatchall
  BY <1>3, QuietStep DEF RegisterCatchall, jobVars
<1>4. ASSUME NEW r \in Runs, Check(r) PROVE IInv'
  <2>1. TasksExact'
    <3>1. Counted' = Counted
      BY <1>4 DEF Check, Counted, IInv, TypeOK, jobVars
    <3> QED
      BY <1>4, <3>1, CountSame DEF Check, IInv
  <2>2. CASE shutdown
    BY <1>4, <2>1, <2>2, RunInv DEF Check, jobVars, Busy, IInv, TypeOK
  <2>3. CASE ~shutdown
    <3>1. r \notin early
      BY <2>3 DEF IInv, EarlyCounted
    <3> QED
      BY <1>4, <2>1, <2>3, <3>1, RunInv DEF Check, jobVars
  <2> QED
    BY <2>2, <2>3
<1>5. ASSUME NEW r \in Runs, Count(r) PROVE IInv'
  <2>1. r \notin early
    BY <1>5 DEF Count, IInv, EarlyCounted
  <2>2. TasksExact'
    <3>1. CASE name[r] = ServeApiJob
      <4>1. Counted' = Counted
        BY <1>5, <3>1 DEF Count, Counted, IInv, TypeOK, jobVars
      <4> QED
        BY <1>5, <3>1, <4>1, CountSame DEF Count, IInv
    <3>2. CASE name[r] # ServeApiJob
      <4>1. r \notin Counted /\ Counted' = Counted \union {r}
        BY <1>5, <3>2 DEF Count, Counted, IInv, TypeOK, jobVars
      <4> QED
        BY <1>5, <3>2, <4>1, CountUp DEF Count, IInv
    <3> QED
      BY <3>1, <3>2
  <2> QED
    BY <1>5, <2>1, <2>2, RunInv DEF Count, jobVars
<1>6. ASSUME NEW r \in Runs, Guard(r) PROVE IInv'
  <2>1. CASE end[r]
    <3>1. TasksExact'
      BY <1>6, <2>1, LeaveTasks DEF Guard, Busy, IInv, jobVars
    <3> QED
      BY <1>6, <2>1, <3>1, RunInv DEF Guard, jobVars, Busy
  <2>2. CASE ~end[r]
    <3>1. Counted' = Counted
      BY <1>6, <2>2 DEF Guard, Counted, IInv, TypeOK, jobVars
    <3>2. TasksExact'
      BY <1>6, <2>2, <3>1, CountSame DEF Guard, IInv
    <3> QED
      BY <1>6, <2>2, <3>2, RunInv DEF Guard, jobVars, Busy
  <2> QED
    BY <2>1, <2>2
<1>7. ASSUME NEW r \in Runs, Handled(r) PROVE IInv'
  <2>1. Counted' = Counted
    BY <1>7 DEF Handled, Counted, IInv, TypeOK
  <2>2. TasksExact'
    BY <1>7, <2>1, CountSame DEF Handled, IInv
  <2> QED
    BY <1>7, <2>2, RunInv DEF Handled, Busy
<1>8. ASSUME NEW r \in Runs, Returns(r) PROVE IInv'
  <2>1. TasksExact'
    BY <1>8, LeaveTasks DEF Returns, Busy, IInv, jobVars
  <2>2. Busy(r)' => Busy(r)
    BY <1>8 DEF Returns, Busy
  <2> QED
    BY <1>8, <2>1, <2>2, RunInv DEF Returns, jobVars
<1>9. ASSUME NEW r \in Runs, Again(r) PROVE IInv'
  <2>1. Counted' = Counted
    BY <1>9 DEF Again, Counted, IInv, TypeOK, jobVars
  <2>2. TasksExact'
    BY <1>9, <2>1, CountSame DEF Again, IInv
  <2>3. ~Busy(r)'
    BY <1>9 DEF Again, Busy, IInv, TypeOK
  <2> QED
    BY <1>9, <2>2, <2>3, RunInv DEF Again, jobVars
<1>10. ASSUME NEW h \in Hooks, OnShutdown(h) PROVE IInv'
  BY <1>10, QuietStep DEF OnShutdown, jobVars
<1>11. ASSUME NEW h \in Hooks, HookReturns(h) PROVE IInv'
  BY <1>11, QuietStep DEF HookReturns, jobVars
<1>12. ASSUME NEW d \in Downs, ShutdownBegin(d) PROVE IInv'
  <2>1. OneShutdown'
    BY <1>12 DEF ShutdownBegin, IInv, OneShutdown, Active, TypeOK
  <2>2. EarlyCounted'
    BY <1>12 DEF ShutdownBegin, IInv, EarlyCounted, Counted, jobVars
  <2>3. EarlyOver'
    BY <1>12 DEF ShutdownBegin, IInv, EarlyOver, OneShutdown, Busy, TypeOK
  <2> QED
    BY <1>12, <2>1, <2>2, <2>3, DownInv DEF ShutdownBegin, jobVars
<1>13. ASSUME NEW d \in Downs, JobsDone(d) PROVE IInv'
  <2>1. OneShutdown'
    BY <1>13 DEF JobsDone, IInv, OneShutdown, Active, TypeOK
  <2>2. EarlyCounted'
    BY <1>13 DEF JobsDone, IInv, EarlyCounted, jobVars
  <2>3. early' = {} \/ (early' = early /\ \A r \in early : ~Busy(r))
    BY <1>13, CountZero DEF JobsDone, IInv, EarlyCounted, Counted, Busy, TypeOK
  <2>4. EarlyOver'
    BY <1>13, <2>3 DEF JobsDone, EarlyOver, Busy
  <2> QED
    BY <1>13, <2>1, <2>2, <2>4, DownInv DEF JobsDone, jobVars
<1>14. ASSUME NEW d \in Downs, CallHooks(d) PROVE IInv'
  <2>1. \A h \in Hooks : hook[h].called = 0
    BY <1>14 DEF CallHooks, IInv, OneShutdown
  <2>2. \A h \in Hooks : hook'[h].called \in {0, 1}
    BY <1>14, <2>1 DEF CallHooks, IInv, TypeOK
  <2>3. shutdown
    BY <1>14 DEF CallHooks, IInv, OneShutdown
  <2>4. \A e \in Downs : down'[e] \notin {"wait", "hooks"}
    BY <1>14 DEF CallHooks, IInv, OneShutdown, Active, TypeOK
  <2>5. Active' = Active
    BY <1>14 DEF CallHooks, Active, IInv, TypeOK
  <2>6. OneShutdown'
    BY <1>14, <2>2, <2>3, <2>4, <2>5 DEF CallHooks, IInv, OneShutdown
  <2>7. EarlyCounted'
    BY <1>14 DEF CallHooks, IInv, EarlyCounted, jobVars
  <2>8. EarlyOver'
    BY <1>14 DEF CallHooks, IInv, EarlyOver, Busy, TypeOK
  <2> QED
    BY <1>14, <2>6, <2>7, <2>8, DownInv DEF CallHooks, jobVars
<1>15. ASSUME NEW d \in Downs, HooksDone(d) PROVE IInv'
  <2>1. OneShutdown'
    BY <1>15 DEF HooksDone, IInv, OneShutdown, Active, TypeOK
  <2>2. EarlyCounted'
    BY <1>15 DEF HooksDone, IInv, EarlyCounted, jobVars
  <2>3. EarlyOver'
    BY <1>15 DEF HooksDone, IInv, EarlyOver, Busy, TypeOK
  <2> QED
    BY <1>15, <2>1, <2>2, <2>3, DownInv DEF HooksDone, jobVars
<1>16. CASE UNCHANGED vars
  BY <1>16, QuietStep DEF vars, jobVars
<1> QED
  BY <1>1, <1>2, <1>3, <1>4, <1>5, <1>6, <1>7, <1>8, <1>9, <1>10, <1>11, <1>12,
     <1>13, <1>14, <1>15, <1>16 DEF Next, RunStep, ShutdownStep

LEMMA Inductive == Spec => []IInv
<1>1. Init => IInv
  BY InitInv
<1>2. IInv /\ [Next]_vars => IInv'
  BY NextInv
<1> QED
  BY <1>1, <1>2, PTL DEF Spec

-----------------------------------------------------------------------------
(* The theorems.                                                           *)

\* Every variable keeps to its type; the counter never drops below zero.
THEOREM EngineTypeCorrect == Spec => []TypeOK
<1>1. IInv => TypeOK
  BY DEF IInv
<1> QED
  BY <1>1, Inductive, PTL

\* The counter Shutdown waits for is that of the jobs being run.
THEOREM CountsJobs == Spec => []TasksExact
<1>1. IInv => TasksExact
  BY DEF IInv
<1> QED
  BY <1>1, Inductive, PTL

\* However many goroutines call Shutdown, its handlers are called once.
THEOREM CallsHooksOnce == Spec => []HooksOnce
<1>1. IInv => HooksOnce
  BY DEF IInv, OneShutdown, HooksOnce, TypeOK
<1> QED
  BY <1>1, Inductive, PTL

\* Shutdown calls them when the jobs it has counted are over, unless it has waited
\* for five seconds.
THEOREM JobsBeforeHooks == Spec => []EarlyJobsFirst
<1>1. IInv => EarlyJobsFirst
  BY DEF IInv, EarlyOver, EarlyJobsFirst, Busy
<1> QED
  BY <1>1, Inductive, PTL

-----------------------------------------------------------------------------
(* The listeners.                                                          *)

Places ==
  {"none", "begin", "mask", "listen", "unmask", "unmaskFailed", "failed", "secure", "held", "wait",
   "serving", "over"}

Types ==
  /\ lock \in {"nil", "made", "closed"} /\ umask \in {"normal", "0777"}
  /\ at \in [Addrs -> Places] /\ oldmask \in [Addrs -> {"normal", "0777"}]
  /\ serveapi \in {"no", "running", "error"} /\ ready \in BOOLEAN

Over == { a \in Addrs : at[a] = "over" }

\* A goroutine that has returned has sent one error; none runs before the job.
Results ==
  /\ chErrors \in Seq(Addrs) /\ Len(chErrors) <= Cardinality(Over)
  /\ serveapi = "no" => chErrors = <<>> /\ \A a \in Addrs : at[a] = "none"

\* The lock is closed by acceptconnections only, and a goroutine for a socket of
\* systemd's never makes one of its own.
Gate ==
  /\ installed \in BOOLEAN
  /\ lock = "closed" => installed
  /\ \A a \in Addrs : at[a] = "serving" /\ (a \in Fd \/ BufferRequests) => installed
  /\ \A a \in Fd : at[a] \in {"none", "begin", "wait", "serving", "over"}

GateInv == Types /\ Results /\ Gate

-----------------------------------------------------------------------------

LEMMA OverFinite ==
  /\ IsFiniteSet(Over) /\ Cardinality(Over) \in Nat
  /\ Cardinality(Over) <= Cardinality(Addrs)
<1>1. Over \in SUBSET Addrs
  BY DEF Over
<1> QED
  BY <1>1, ProtocolAssumption, FS_Subset, FS_CardinalityType

LEMMA InitGateInv == ApiInit => GateInv
<1> SUFFICES ASSUME ApiInit
             PROVE  GateInv
  OBVIOUS
<1>1. Types
  BY DEF ApiInit, Types, Places
<1>2. Results
  BY OverFinite DEF ApiInit, Results
<1>3. Gate
  BY DEF ApiInit, Gate, Addrs
<1> QED
  BY <1>1, <1>2, <1>3 DEF GateInv

\* A goroutine goes to a place where it has not returned, and serves only what
\* may be served.
LEMMA MoveStep ==
  ASSUME GateInv, NEW a \in Addrs, NEW x \in Places \ {"over"},
         Move(a, x), at[a] \notin {"none", "over"},
         UNCHANGED <<lock, chErrors, serveapi, installed, ready>>,
         umask' \in {"normal", "0777"}, oldmask' \in [Addrs -> {"normal", "0777"}],
         x = "serving" /\ (a \in Fd \/ BufferRequests) => installed,
         a \in Fd => x \in {"none", "begin", "wait", "serving", "over"}
  PROVE  GateInv'
<1>1. at' = [b \in Addrs |-> IF b = a THEN x ELSE at[b]]
  BY DEF Move, GateInv, Types
<1>2. Types'
  BY <1>1 DEF GateInv, Types
<1>3. Over' = Over
  BY <1>1 DEF Over
<1>4. Results'
  BY <1>1, <1>3 DEF GateInv, Results
<1>5. Gate'
  BY <1>1 DEF GateInv, Gate, Addrs
<1> QED
  BY <1>2, <1>4, <1>5 DEF GateInv

LEMMA FailsStep ==
  ASSUME GateInv, NEW a \in Addrs, at[a] \notin {"none", "over"}, Fails(a)
  PROVE  GateInv'
<1>1. /\ at' = [b \in Addrs |-> IF b = a THEN "over" ELSE at[b]]
      /\ chErrors' = Append(chErrors, a)
      /\ UNCHANGED <<lock, umask, oldmask, serveapi, installed, ready>>
  BY DEF Fails, Move, GateInv, Types
<1>2. Types'
  BY <1>1 DEF GateInv, Types, Places
<1>3. Over' = Over \union {a} /\ a \notin Over
  BY <1>1 DEF Over
<1>4. Cardinality(Over') = Cardinality(Over) + 1
  BY <1>3, OverFinite, FS_AddElement DEF GateInv
<1>5. chErrors' \in Seq(Addrs) /\ Len(chErrors') = Len(chErrors) + 1 /\ Len(chErrors) \in Nat
  BY <1>1, AppendProperties DEF GateInv, Results
<1>6. Results'
  BY <1>1, <1>4, <1>5, OverFinite DEF GateInv, Results
<1>7. Gate'
  BY <1>1 DEF GateInv, Gate, Addrs
<1> QED
  BY <1>2, <1>6, <1>7 DEF GateInv

-----------------------------------------------------------------------------
(* The actions.                                                            *)

LEMMA StepStep ==
  ASSUME GateInv, NEW a \in Addrs, Step(a) \/ Serve(a)
  PROVE  GateInv'
<1>2. CASE at[a] \notin {"none", "over"} /\ Fails(a)
  BY <1>2, FailsStep
<1>3. CASE Begin(a) /\ ~Fails(a)
  <2>1. /\ at[a] = "begin" /\ UNCHANGED <<lock, umask, oldmask, chErrors, serveapi, installed, ready>>
        /\ Move(a, CASE a \in Fd -> "wait" [] a \in Unix -> "mask" [] OTHER -> "listen")
    BY <1>3 DEF Begin
  <2>2. \/ a \in Fd /\ Move(a, "wait")
        \/ a \in Unix /\ a \notin Fd /\ Move(a, "mask")
        \/ a \notin Unix /\ a \notin Fd /\ Move(a, "listen")
    BY <2>1, ProtocolAssumption
  <2> QED
    BY <2>1, <2>2, MoveStep DEF GateInv, Types, Places
<1>4. CASE Mask(a)
  <2>1. a \notin Fd /\ at[a] = "mask" /\ Move(a, "listen") /\ umask' = "0777"
    BY <1>4 DEF Mask, GateInv, Gate
  <2>2. oldmask' \in [Addrs -> {"normal", "0777"}]
    BY <1>4 DEF Mask, GateInv, Types
  <2> QED
    BY <1>4, <2>1, <2>2, MoveStep DEF Mask, Places
<1>5. CASE Listen(a)
  <2>1. /\ a \notin Fd /\ at[a] = "listen"
        /\ UNCHANGED <<lock, umask, oldmask, chErrors, serveapi, installed, ready>>
        /\ \E x \in {"unmask", "unmaskFailed", "secure", "failed"} : Move(a, x)
    BY <1>5 DEF Listen, GateInv, Gate
  <2> QED
    BY <2>1, MoveStep DEF GateInv, Types, Places
<1>6. CASE Unmask(a)
  <2>1. /\ a \notin Fd /\ at[a] \in {"unmask", "unmaskFailed"}
        /\ UNCHANGED <<lock, oldmask, chErrors, serveapi, installed, ready>> /\ umask' = oldmask[a]
        /\ \E x \in {"secure", "failed"} : Move(a, x)
    BY <1>6 DEF Unmask, GateInv, Gate
  <2> QED
    BY <2>1, MoveStep DEF GateInv, Types, Places
<1>7. CASE Secure(a) /\ ~Fails(a)
  <2>1. /\ a \notin Fd /\ at[a] = "secure"
        /\ UNCHANGED <<lock, umask, oldmask, chErrors, serveapi, installed, ready>>
        /\ \E x \in {"held", "serving"} : Move(a, x) /\ (x = "serving" => ~BufferRequests)
    BY <1>7 DEF Secure, GateInv, Gate
  <2> QED
    BY <2>1, MoveStep DEF GateInv, Types, Places
<1>8. CASE Accept(a) \/ ServeFd(a)
  <2>1. /\ at[a] \in {"held", "wait"} /\ Move(a, "serving") /\ installed
        /\ UNCHANGED <<lock, umask, oldmask, chErrors, serveapi, installed, ready>>
    BY <1>8 DEF Accept, ServeFd, GateInv, Gate
  <2> QED
    BY <2>1, MoveStep DEF GateInv, Types, Places
<1> QED
  BY <1>2, <1>3, <1>4, <1>5, <1>6, <1>7, <1>8 DEF Step, Serve, Begin,
      Secure, Failed

LEMMA ServeApiStep ==
  ASSUME GateInv, ServeApi
  PROVE  GateInv'
<1>1. Types' /\ Gate'
  BY DEF ServeApi, GateInv, Types, Places, Gate, Addrs
<1>2. Results'
  <2>1. chErrors' = <<>> /\ serveapi' = "running"
    BY DEF ServeApi, GateInv, Results
  <2> QED
    BY <2>1, OverFinite DEF Results, ServeApi, GateInv, Over
<1> QED
  BY <1>1, <1>2 DEF GateInv

LEMMA TakeErrorStep ==
  ASSUME GateInv, TakeError
  PROVE  GateInv'
<1>1. Types' /\ Gate'
  BY DEF TakeError, GateInv, Types, Gate
<1>2. Results'
  <2>1. chErrors \in Seq(Addrs) /\ chErrors # <<>>
    BY DEF TakeError, GateInv, Results
  <2>2. /\ chErrors' \in Seq(Addrs) /\ Len(chErrors') = Len(chErrors) - 1
        /\ Len(chErrors) \in Nat /\ Len(chErrors') \in Nat
    BY <2>1, HeadTailProperties DEF TakeError
  <2>3. Over' = Over
    BY DEF TakeError, Over
  <2> QED
    BY <2>2, <2>3, OverFinite DEF TakeError, GateInv, Results
<1> QED
  BY <1>1, <1>2 DEF GateInv

LEMMA DaemonStep ==
  ASSUME GateInv, AcceptConnections \/ SdNotify \/ UNCHANGED apiVars
  PROVE  GateInv'
<1>1. UNCHANGED <<at, umask, oldmask, chErrors, serveapi>>
  BY DEF AcceptConnections, SdNotify, apiVars
<1>2. Types' /\ Gate'
  BY <1>1 DEF AcceptConnections, SdNotify, apiVars, GateInv, Types, Gate
<1>3. Results'
  BY <1>1 DEF GateInv, Results, Over
<1> QED
  BY <1>2, <1>3 DEF GateInv

LEMMA NextGateInv == GateInv /\ [ApiNext]_apiVars => GateInv'
  BY StepStep, ServeApiStep, TakeErrorStep, DaemonStep DEF ApiNext

LEMMA SpecGateInv == ApiSpec => []GateInv
  BY InitGateInv, NextGateInv, PTL DEF ApiSpec

\* A socket of systemd's, or a listener that holds connections back, serves only
\* when the daemon has run acceptconnections.
THEOREM SpecNotBeforeInstalled == ApiSpec => []NotBeforeInstalled
<1>1. GateInv => NotBeforeInstalled
  <2> SUFFICES ASSUME GateInv
               PROVE  NotBeforeInstalled
    OBVIOUS
  <2>1. Len(chErrors) <= Cardinality(Addrs)
    <3>1. Cardinality(Addrs) \in Nat
      BY ProtocolAssumption, FS_CardinalityType
    <3>2. Len(chErrors) \in Nat
      BY LenProperties DEF GateInv, Results
    <3> QED
      BY <3>1, <3>2, OverFinite DEF GateInv, Results
  <2> QED
    BY <2>1 DEF GateInv, Types, Places, Gate, NotBeforeInstalled, ApiTypeOK
<1> QED
  BY <1>1, SpecGateInv, PTL
=============================================================================
