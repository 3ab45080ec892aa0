------------------------------- MODULE Engine -------------------------------
(***************************************************************************)
(* The engine of docker (engine/engine.go, engine/job.go): goroutines run  *)
(* jobs while others register shutdown handlers and shut the engine down.  *)
(* The sections under eng.l are one step each; what lies between them is   *)
(* not atomic.                                                             *)
(***************************************************************************)
EXTENDS Integers, FiniteSets

CONSTANTS
  Runs,        \* calls of Job(...).Run(), each in a goroutine of its own
  Names,       \* names of jobs
  ServeApiJob, \* "serveapi"
  Downs,       \* calls of Shutdown
  Hooks,       \* shutdown handlers
  Env          \* a subset of Disturbances

Disturbances ==
  { "slow",   \* a job takes more than the 5 seconds that Shutdown waits
    "stuck" } \* a shutdown handler takes more than the 10 seconds

ASSUME RunsAssumption == IsFiniteSet(Runs)

ASSUME EnvAssumption == Env \subseteq Disturbances /\ ServeApiJob \in Names

VARIABLES
  handlers, catchall,  \* names that have one; whether there is a catchall
  shutdown, tasks, onShutdown,
  run,     \* what a call of Run is at
  name, handler, end,  \* Name, handler and end of the job of a run
  down,    \* what a call of Shutdown is at
  hook,    \* hook -> how often called, and how often it has returned
  early    \* history: the runs counted when shutdown was set, while they are waited for

jobVars == <<name, handler, end>>
vars == <<handlers, catchall, shutdown, tasks, onShutdown, run, jobVars, down, hook, early>>

NoHandler == "nil"

Init ==
  /\ handlers = {} /\ catchall = FALSE
  /\ shutdown = FALSE /\ tasks = 0 /\ onShutdown = {}
  /\ run = [r \in Runs |-> "none"]
  /\ name = [r \in Runs |-> ServeApiJob]
  /\ handler = [r \in Runs |-> NoHandler]
  /\ end = [r \in Runs |-> FALSE]
  /\ down = [d \in Downs |-> "none"]
  /\ hook = [h \in Hooks |-> [called |-> 0, returned |-> 0]]
  /\ early = {}

\* The runs between tasks.Add and the deferred tasks.Done.
Counted == { r \in Runs : /\ run[r] \in {"guard", "handler", "close"}
                          /\ name[r] # ServeApiJob }

-----------------------------------------------------------------------------
(* Slips: what a plausible mistake would do.                               *)

\* return before the deferred Done is set up.
GuardUncounted(r) ==
  /\ run[r] = "guard"
  /\ run' = [run EXCEPT ![r] = IF end[r] THEN "failed"
                               ELSE IF handler[r] = NoHandler THEN "close" ELSE "handler"]
  /\ UNCHANGED <<handlers, catchall, shutdown, tasks, onShutdown, jobVars, down, hook, early>>

\* shutdown is read and set in two sections.
ShutdownBeginRepeats(d) ==
  /\ down[d] = "none"
  /\ shutdown' = TRUE
  /\ down' = [down EXCEPT ![d] = "wait"]
  /\ early' = Counted
  /\ UNCHANGED <<handlers, catchall, tasks, onShutdown, run, jobVars, hook>>

\* The handlers are called without waiting for the jobs.
JobsDoneAtOnce(d) ==
  /\ down[d] = "wait"
  /\ down' = [down EXCEPT ![d] = "hooks"]
  /\ UNCHANGED <<handlers, catchall, shutdown, tasks, onShutdown, run, jobVars, hook, early>>

\* There is no timeout for shutdown handlers.
HooksDoneAll(d) ==
  /\ down[d] = "waitHooks"
  /\ \A h \in Hooks : hook[h].returned = hook[h].called
  /\ down' = [down EXCEPT ![d] = "returned"]
  /\ UNCHANGED <<handlers, catchall, shutdown, tasks, onShutdown, run, jobVars, hook, early>>

-----------------------------------------------------------------------------
(* Register, Job and Run.                                                  *)

Register(n) ==
  /\ n \notin handlers
  /\ handlers' = handlers \union {n}
  /\ UNCHANGED <<catchall, shutdown, tasks, onShutdown, run, jobVars, down, hook, early>>

RegisterCatchall ==
  /\ ~catchall /\ catchall' = TRUE
  /\ UNCHANGED <<handlers, shutdown, tasks, onShutdown, run, jobVars, down, hook, early>>

\* What handles the job is settled when it is made.
Job(r, n) ==
  /\ run[r] = "none"
  /\ name' = [name EXCEPT ![r] = n]
  /\ handler' = [handler EXCEPT ![r] =
       IF n \in handlers THEN "own" ELSE IF catchall THEN "catchall" ELSE NoHandler]
  /\ run' = [run EXCEPT ![r] = "made"]
  /\ UNCHANGED <<handlers, catchall, shutdown, tasks, onShutdown, end, down, hook, early>>

\* if job.Eng.IsShutdown()
Check(r) ==
  /\ run[r] = "made"
  /\ run' = [run EXCEPT ![r] = IF shutdown THEN "refused" ELSE "add"]
  /\ UNCHANGED <<handlers, catchall, shutdown, tasks, onShutdown, jobVars, down, hook, early>>

Count(r) ==
  /\ run[r] = "add"
  /\ tasks' = IF name[r] = ServeApiJob THEN tasks ELSE tasks + 1
  /\ run' = [run EXCEPT ![r] = "guard"]
  /\ UNCHANGED <<handlers, catchall, shutdown, onShutdown, jobVars, down, hook, early>>

\* The deferred tasks.Done.
Done(r) == tasks' = IF name[r] = ServeApiJob THEN tasks ELSE tasks - 1

\* if !job.end.IsZero(), and whether there is a handler.
Guard(r) ==
  /\ run[r] = "guard"
  /\ IF end[r]
       THEN run' = [run EXCEPT ![r] = "failed"] /\ Done(r)
       ELSE /\ run' = [run EXCEPT ![r] = IF handler[r] = NoHandler THEN "close" ELSE "handler"]
            /\ UNCHANGED tasks
  /\ UNCHANGED <<handlers, catchall, shutdown, onShutdown, jobVars, down, hook, early>>

Handled(r) ==
  /\ run[r] = "handler"
  /\ end' = [end EXCEPT ![r] = TRUE]
  /\ run' = [run EXCEPT ![r] = "close"]
  /\ UNCHANGED <<handlers, catchall, shutdown, tasks, onShutdown, name, handler, down, hook, early>>

\* Stdout, Stderr and Stdin are closed.
Returns(r) ==
  /\ run[r] = "close"
  /\ Done(r)
  /\ run' = [run EXCEPT ![r] = "returned"]
  /\ UNCHANGED <<handlers, catchall, shutdown, onShutdown, jobVars, down, hook, early>>

\* Run is called on the same job again.
Again(r) ==
  /\ run[r] = "returned"
  /\ run' = [run EXCEPT ![r] = "made"]
  /\ UNCHANGED <<handlers, catchall, shutdown, tasks, onShutdown, jobVars, down, hook, early>>

-----------------------------------------------------------------------------
(* OnShutdown and Shutdown.                                                *)

OnShutdown(h) ==
  /\ h \notin onShutdown
  /\ onShutdown' = onShutdown \union {h}
  /\ UNCHANGED <<handlers, catchall, shutdown, tasks, run, jobVars, down, hook, early>>

\* The second call returns at once.
ShutdownBegin(d) ==
  /\ down[d] = "none"
  /\ shutdown' = TRUE
  /\ IF shutdown THEN down' = [down EXCEPT ![d] = "returned"] /\ UNCHANGED early
                 ELSE down' = [down EXCEPT ![d] = "wait"] /\ early' = Counted
  /\ UNCHANGED <<handlers, catchall, tasks, onShutdown, run, jobVars, hook>>

\* tasksDone, or five seconds.
JobsDone(d) ==
  /\ down[d] = "wait"
  /\ \/ tasks = 0 /\ UNCHANGED early
     \/ "slow" \in Env /\ early' = {}
  /\ down' = [down EXCEPT ![d] = "hooks"]
  /\ UNCHANGED <<handlers, catchall, shutdown, tasks, onShutdown, run, jobVars, hook>>

\* for _, h := range eng.onShutdown
CallHooks(d) ==
  /\ down[d] = "hooks"
  /\ hook' = [h \in Hooks |-> IF h \in onShutdown THEN [hook[h] EXCEPT !.called = @ + 1]
                                                  ELSE hook[h]]
  /\ down' = [down EXCEPT ![d] = "waitHooks"]
  /\ UNCHANGED <<handlers, catchall, shutdown, tasks, onShutdown, run, jobVars, early>>

HookReturns(h) ==
  /\ hook[h].returned < hook[h].called
  /\ hook' = [hook EXCEPT ![h].returned = @ + 1]
  /\ UNCHANGED <<handlers, catchall, shutdown, tasks, onShutdown, run, jobVars, down, early>>

\* done, or ten seconds.
HooksDone(d) ==
  /\ down[d] = "waitHooks"
  /\ "stuck" \in Env \/ \A h \in Hooks : hook[h].returned = hook[h].called
  /\ down' = [down EXCEPT ![d] = "returned"]
  /\ UNCHANGED <<handlers, catchall, shutdown, tasks, onShutdown, run, jobVars, hook, early>>

RunStep(r) == Check(r) \/ Count(r) \/ Guard(r) \/ Handled(r) \/ Returns(r)

ShutdownStep(d) == JobsDone(d) \/ CallHooks(d) \/ HooksDone(d)

Next ==
  \/ \E n \in Names : Register(n) \/ \E r \in Runs : Job(r, n)
  \/ RegisterCatchall
  \/ \E r \in Runs : RunStep(r) \/ Again(r)
  \/ \E h \in Hooks : OnShutdown(h) \/ HookReturns(h)
  \/ \E d \in Downs : ShutdownBegin(d) \/ ShutdownStep(d)

Spec == Init /\ [][Next]_vars

\* Shutdown goes on, by its timers if need be; nothing is assumed of the
\* handlers of jobs when "slow", of those of Shutdown when "stuck".
FairSpec ==
  /\ Spec
  /\ \A d \in Downs : WF_vars(ShutdownStep(d))
  /\ "slow" \in Env \/ \A r \in Runs : WF_vars(RunStep(r))
  /\ "stuck" \in Env \/ \A h \in Hooks : WF_vars(HookReturns(h))

-----------------------------------------------------------------------------
(* Properties.                                                             *)

RunLabels == {"none", "made", "add", "guard", "handler", "close", "returned", "refused", "failed"}
DownLabels == {"none", "wait", "hooks", "waitHooks", "returned"}

\* Every variable keeps to its type.
TypeOK ==
  /\ handlers \subseteq Names /\ catchall \in BOOLEAN
  /\ shutdown \in BOOLEAN /\ tasks \in Nat /\ onShutdown \subseteq Hooks
  /\ run \in [Runs -> RunLabels]
  /\ name \in [Runs -> Names]
  /\ handler \in [Runs -> {NoHandler, "own", "catchall"}]
  /\ end \in [Runs -> BOOLEAN]
  /\ down \in [Downs -> DownLabels]
  /\ hook \in [Hooks -> [called : Nat, returned : Nat]]
  /\ early \subseteq Runs

\* The counter Shutdown waits for is that of the jobs being run, whichever way
\* Run leaves: through the end, a missing handler or a job run before.
TasksExact == tasks = Cardinality(Counted)

\* A shutdown handler is called at most once, and only after the engine has
\* begun to refuse jobs, however many goroutines call Shutdown.
HooksOnce ==
  \A h \in Hooks : hook[h].called <= 1 /\ (hook[h].called = 1 => shutdown)

\* A job that was counted when Shutdown began is over before the shutdown
\* handlers are called, unless five seconds have passed.
EarlyJobsFirst ==
  \A d \in Downs : down[d] \in {"hooks", "waitHooks"} =>
    \A r \in early : run[r] \notin {"guard", "handler", "close"}

\* "It returns when all handlers complete, or after 15 seconds, whichever
\* happens first" (engine/engine.go:151), whatever jobs and handlers do.
ShutdownReturns == \A d \in Downs : down[d] = "wait" ~> down[d] = "returned"
=============================================================================
