------------------------------- MODULE Service -------------------------------
(***************************************************************************)
(* Service units run by systemd with systemd-docker as their ExecStart,    *)
(* on a docker daemon that people use by hand as well.                     *)
(***************************************************************************)
EXTENDS SystemdDocker

-----------------------------------------------------------------------------
(* systemd.                                                                *)

MainGone(u) ==
  IF mainPid[u] = Self THEN ~Running(u) ELSE mainPid[u] \notin alive

\* The main process is gone; or READY=1 is overdue (TimeoutStartSec of
\* Type=notify) and systemd-docker has ended.
GivesUp(u) == MainGone(u) \/ (opts[u].socket /\ ~ready[u] /\ ~Running(u))

\* systemd gives up, or someone stops the unit: everything in the unit's
\* cgroup is killed, the docker client and the container's process too.
StopUnit(u) ==
  /\ GivesUp(u) \/ "stop" \in Env
  /\ \/ Running(u)
     \/ dpc[u] # "idle"
     \/ \E p \in alive : cgroup[p] = u
  /\ pc' = [pc EXCEPT ![u] = IF Running(u) THEN "failed" ELSE @]
  /\ dpc' = [dpc EXCEPT ![u] = "idle"]
  /\ alive' = { p \in alive : cgroup[p] # u }
  /\ UNCHANGED <<ctr, home, cgroup, opts, Args, target, Id, Pid, toldVars>>

\* Restart=always, or systemctl start: mainWithArgs begins.  The unit file may
\* have been edited since the last start.
StartUnit(u) ==
  /\ ~Running(u) /\ dpc[u] = "idle" /\ MainGone(u)
  /\ "leave" \in Env \/ \A p \in alive : cgroup[p] # u
  /\ Args' \in { [Args EXCEPT ![u] = v] :
                   v \in {Args[u], Args[u] + 1} \intersect 1..MaxArgs }
  /\ Goto(u, IF opts[u].named THEN "lookup" ELSE "launch")
  /\ target' = [target EXCEPT ![u] = NoId]
  /\ Id' = [Id EXCEPT ![u] = NoId]
  /\ Pid' = [Pid EXCEPT ![u] = NoPid]
  /\ mainPid' = [mainPid EXCEPT ![u] = Self]
  /\ ready' = [ready EXCEPT ![u] = FALSE]
  /\ UNCHANGED <<daemonVars, opts, dpc, pidFile>>

-----------------------------------------------------------------------------
(* Containers and the docker CLI.                                          *)

Die(p) ==
  /\ ProcessEnds(p)
  /\ UNCHANGED <<opts, Args, procVars, toldVars>>

Reap(id) ==
  /\ ReapContainer(id)
  /\ UNCHANGED <<opts, Args, procVars, toldVars>>

\* With --notify the container sends READY=1; systemd accepts it from the
\* processes of the unit's cgroup.
ContainerReady(u, p) ==
  /\ opts[u].notify
  /\ p \in alive /\ cgroup[p] = u
  /\ ready' = [ready EXCEPT ![u] = TRUE]
  /\ UNCHANGED <<daemonVars, opts, Args, procVars, mainPid, pidFile>>

CliStart(id) ==
  /\ "start" \in Env
  /\ BootContainer(id, HeldPids)
  /\ UNCHANGED <<opts, Args, procVars, toldVars>>

CliRemove(id) ==
  /\ "rm" \in Env
  /\ RemoveContainer(id)
  /\ UNCHANGED <<opts, Args, procVars, toldVars>>

CliRun(id, u) ==
  /\ "run" \in Env
  /\ CreateContainer(id, u, NoUnit, 0, HeldIds)
  /\ UNCHANGED <<opts, Args, procVars, toldVars>>

-----------------------------------------------------------------------------

Next ==
  \/ \E u \in Units :
       Step(u) \/ ChildStep(u) \/ CallFails(u) \/ Kill(u)
       \/ StopUnit(u) \/ StartUnit(u)
  \/ \E p \in Pids : Die(p)
  \/ \E id \in Ids : Reap(id) \/ CliStart(id) \/ CliRemove(id)
  \/ \E u \in Units, p \in Pids : ContainerReady(u, p)
  \/ \E u \in Units, id \in Ids : CliRun(id, u)

Spec == Init /\ [][Next]_vars

(* The program and docker run are sequential processes that the kernel runs; *)
(* systemd cleans up after a main process that is gone or a start that takes *)
(* too long, and starts the unit again (Restart=always,                      *)
(* example/nginx.service:9); the daemon waits for the containers it started. *)
Fairness ==
  /\ \A u \in Units : /\ WF_vars(Step(u))
                      /\ WF_vars(ChildStep(u))
                      /\ WF_vars(GivesUp(u) /\ StopUnit(u))
                      /\ WF_vars(StartUnit(u))
  /\ \A id \in Ids : WF_vars(Reap(id))

FairSpec == Spec /\ Fairness

\* The steps that remain when nothing fails and nobody interferes any more.
Calm ==
  \/ \E u \in Units : \/ Step(u)
                      \/ ChildStep(u)
                      \/ StartUnit(u)
                      \/ GivesUp(u) /\ StopUnit(u)
                      \/ \E p \in Pids : ContainerReady(u, p)
  \/ \E id \in Ids : Reap(id)

-----------------------------------------------------------------------------
(* Properties.                                                             *)

\* What systemd sees of the units.
S == INSTANCE Supervision WITH
       Procs <- Pids, Nobody <- NoUnit, NoProc <- NoPid,
       unit <- [p \in alive |-> cgroup[p]], main <- mainPid, file <- pidFile,
       busy <- { u \in Units : Running(u) }

\* The units supervise as systemd needs it, whatever happens by hand, fails or is
\* killed: only its own program takes a process into a unit, and nothing takes one
\* out; MAINPID is a process inside, is told once and taken back only when that
\* process is gone; READY=1 and the pid file follow it; and what a unit's program
\* removes runs in no other unit (main.go:148-188, 391-453, 495-524).
Supervises == S!Spec

\* What keepAlive is about: the container c.Id, until it is no longer running.
Supervising(u) == pc[u] \in {"inspect", "wait"}

MadeBy(u) == { id \in Ids : Exists(id) /\ ctr[id].by = u }

\* The variables keep to their types, and systemd never follows a main process
\* outside the unit's own cgroup, or it would lose track of the container:
\* moveCgroups comes before MAINPID, and nobody else takes the process away
\* (main.go:538-546, README.md:79).
TrackedByUnit ==
  /\ TypeOK
  /\ \A u \in Units : mainPid[u] \in alive => cgroup[mainPid[u]] = u

\* The process announced with MAINPID is one of the container c.Id, although
\* c.Id and c.Pid come from different calls and the name may have changed
\* hands between them; and READY=1 from systemd-docker comes after it
\* (main.go:162-183, 227, 431-446).
AnnouncedProcess ==
  \A u \in Units :
    /\ mainPid[u] # Self => home[mainPid[u]] = Id[u]
    /\ ready[u] /\ ~opts[u].notify => mainPid[u] # Self

\* While keepAlive watches a running container, what systemd and the pid file
\* were told is the process the daemon runs for it (main.go:486-509; "every-
\* thing should just stay in sync", README.md:6).
SyncWhileSupervised ==
  \A u \in Units :
    Supervising(u) /\ Exists(Id[u]) /\ ctr[Id[u]].status = "running" =>
      /\ opts[u].socket => mainPid[u] = ctr[Id[u]].pid
      /\ opts[u].pidFile => pidFile[u] = ctr[Id[u]].pid

\* systemd-docker removes with Force, but what it removes is not running:
\* both removals follow an inspection that said so (main.go:162-170, 495-524;
\* "If it exists and is stopped, it will be deleted", README.md:54).
RemovesOnlyStopped ==
  [][\A u \in Units, id \in Ids :
       pc'[u] # pc[u] /\ ctr[id].status = "running"
         => Exists(id)']_vars

\* With --rm a stopped container is never started again with the arguments of
\* an older ExecStart (main.go:166-187, README.md:54).
RmNeverRevives ==
  [][\A u \in Units, id \in Ids :
       (/\ opts[u].rm
        /\ pc'[u] # pc[u] \/ dpc'[u] # dpc[u]
        /\ ctr[id].status # "running"
        /\ ctr'[id].status = "running")
       => ctr[id].args = Args[u]]_vars

\* However often a named unit fails and restarts, it leaves one container at
\* most (main.go:148-188; unnamed containers get orphaned, README.md:52).
NoOrphans ==
  \A u \in Units : opts[u].named =>
    \A i, j \in MadeBy(u) : i = j

\* What a unit's systemd-docker and its docker run do never touches another
\* unit's container or process, although they name, start, remove and move
\* containers with the same calls (main.go:154, 167, 173, 398, 521).
Isolation ==
  [][\A u \in Units : pc'[u] # pc[u] \/ dpc'[u] # dpc[u] =>
       /\ \A id \in Ids : ctr'[id] # ctr[id] /\ Exists(id) =>
            ctr[id].name = u \/ ctr[id].by = u
       /\ \A p \in alive : cgroup[p] \notin {u, NoUnit} =>
            p \in alive' /\ cgroup'[p] = cgroup[p]
    ]_vars

\* An invocation with --name and --rm that ends without an error leaves none
\* (main.go:560-565; "really deleted each time", README.md:52).
RmLeavesNothing ==
  \A u \in Units :
    pc[u] = "done" /\ opts[u].rm /\ opts[u].named => MadeBy(u) = {}

\* The unit's service is up and systemd follows it.
Served(u) ==
  \E id \in Named(u) :
    /\ ctr[id].status = "running" /\ ctr[id].pid \in alive
    /\ cgroup[ctr[id].pid] = u
    /\ mainPid[u] = ctr[id].pid
    /\ opts[u].notify \/ ready[u]

\* Whatever has failed, been killed, removed or started by hand at whatever
\* moment: once that is over, and calls succeed, the unit with --name ends up
\* with its container running, in its cgroup, and as its main process, for
\* good ("restart a failed service", README.md:3-6).
Recovers ==
  <>[][Calm]_vars =>
    \A u \in Units : opts[u].named /\ opts[u].socket => <>[]Served(u)

=============================================================================
