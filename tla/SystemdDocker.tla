---------------------------- MODULE SystemdDocker ----------------------------
(***************************************************************************)
(* The systemd-docker process of each service unit (main.go), from         *)
(* mainWithArgs to its exit, and the docker run child it starts.           *)
(*                                                                         *)
(* A unit runs at most one systemd-docker process; pc[u] names the call it *)
(* makes next.  Every call that leaves the process (an API request, a read *)
(* of /proc or of a cgroup file, a datagram to systemd) is an action of    *)
(* its own, because anything can happen between two of them.               *)
(***************************************************************************)
EXTENDS DockerHost

CONSTANTS
  Self,         \* os.Getpid() of systemd-docker
  Invocations,  \* the option combinations the units may use
  Env           \* which disturbances happen, a subset of Disturbances

Option == [named : BOOLEAN, rm : BOOLEAN, logs : BOOLEAN,
           notify : BOOLEAN, socket : BOOLEAN, pidFile : BOOLEAN]

Disturbances ==
  { "call",   \* a call systemd-docker or docker makes returns an error
    "kill",   \* systemd-docker alone is killed
    "stop",   \* systemd stops the unit: its whole cgroup is killed
    "leave",  \* KillMode=process: a restart leaves the cgroup's processes
    "start",  \* docker start/restart by hand, or a docker restart policy
    "rm",     \* docker rm -f by hand
    "run" }   \* docker run --name by hand, with a unit's name

\* setupEnvironment clears Notify when there is no notification socket.
Invocation == { o \in Option : o.notify => o.socket }

ASSUME InvocationsAssumption == Invocations \subseteq Invocation

ASSUME SelfAssumption == Self \notin Pids \union {NoPid}

ASSUME EnvAssumption == Env \subseteq Disturbances

VARIABLES
  opts,     \* the options of the unit's systemd-docker
  Args,     \* the version of the arguments it passes to docker run
  pc,       \* what it does next
  dpc,      \* what its docker run child does next
  target,   \* the id in a local variable of the lookup or of docker run
  Id,       \* c.Id; NoId is the empty string
  Pid,      \* c.Pid; NoPid is 0
  (* what it has told the outside *)
  mainPid,  \* the process systemd takes for the unit's main process
  ready,    \* systemd has received READY=1
  pidFile   \* the content of the pid file

toldVars == <<mainPid, ready, pidFile>>
procVars == <<pc, dpc, target, Id, Pid>>
vars == <<ctr, home, alive, cgroup, opts, Args, pc, dpc, target, Id, Pid,
          mainPid, ready, pidFile>>

\* The ids and pids that a process, systemd or a file still has.
HeldIds  == { target[u] : u \in Units } \union { Id[u] : u \in Units }
HeldPids == { Pid[u] : u \in Units } \union { mainPid[u] : u \in Units }
              \union { pidFile[u] : u \in Units }

-----------------------------------------------------------------------------
(* The control flow of mainWithArgs.                                       *)

Exited  == {"off", "done", "failed"}
Child   == {"idle", "create", "start", "ok", "err"}
Labels  == Exited \union
  {"lookup", "removeOld", "startOld", "reinspect", "launch", "docker",
   "getPid", "cgroups", "procs", "statPid", "writePid", "notify", "mainPid",
   "recheck", "ready", "pidFile", "inspect", "wait", "remove"}

Running(u) == pc[u] \notin Exited

NameOf(u) == IF opts[u].named THEN u ELSE NoUnit

Goto(u, l) == pc' = [pc EXCEPT ![u] = l]

AfterPidFile(u) == IF opts[u].logs \/ opts[u].rm THEN "inspect" ELSE "done"

\* (slip) notify's early return without a socket skips the pid file too.
AfterNotifyOfSocket(u) ==
  IF opts[u].pidFile /\ opts[u].socket THEN "pidFile" ELSE AfterPidFile(u)

AfterNotify(u) == IF opts[u].pidFile THEN "pidFile" ELSE AfterPidFile(u)

\* (slip) rmContainer looks at Logs.
AfterKeepAliveOfLogs(u) ==
  IF opts[u].rm /\ opts[u].logs THEN "remove" ELSE "done"

AfterKeepAlive(u) == IF opts[u].rm THEN "remove" ELSE "done"

Init ==
  /\ HostInit
  /\ opts \in [Units -> Invocations]
  /\ Args = [u \in Units |-> 1]
  /\ pc = [u \in Units |-> "off"]
  /\ dpc = [u \in Units |-> "idle"]
  /\ target = [u \in Units |-> NoId]
  /\ Id = [u \in Units |-> NoId]
  /\ Pid = [u \in Units |-> NoPid]
  /\ mainPid = [u \in Units |-> Self]
  /\ ready = [u \in Units |-> FALSE]
  /\ pidFile = [u \in Units |-> NoPid]

\* The answers to InspectContainer(c.Name): none of `found', a running one of
\* them, or one that does not run, with which it goes on at `stopped'.
Inspected(u, found, stopped) ==
  /\ pc[u] = "lookup"
  /\ \/ found = {} /\ Goto(u, "launch") /\ UNCHANGED <<target, Id, Pid>>
     \/ \E id \in found :
          /\ ctr[id].status = "running"
          /\ Id' = [Id EXCEPT ![u] = id]
          /\ Pid' = [Pid EXCEPT ![u] = ctr[id].pid]
          /\ Goto(u, "cgroups")
          /\ UNCHANGED target
     \/ \E id \in found :
          /\ ctr[id].status # "running"
          /\ target' = [target EXCEPT ![u] = id]
          /\ Goto(u, stopped)
          /\ UNCHANGED <<Id, Pid>>
  /\ UNCHANGED <<daemonVars, opts, Args, dpc, toldVars>>

-----------------------------------------------------------------------------
(* Slips: actions as a plausible mistake in main.go would have them.  No   *)
(* action of the program uses them; each shows that a property of module   *)
(* Service notices the mistake.                                            *)

\* lookupNamedContainer does not look at c.Rm.
LookupInspectIgnoringRm(u) == Inspected(u, Named(u), "startOld")

\* It leaves a stopped container to docker run.
LookupInspectNotRemoving(u) ==
  Inspected(u, Named(u), IF opts[u].rm THEN "launch" ELSE "startOld")

\* It takes a container whose name only begins like c.Name.
LookupInspectByPrefix(u) ==
  Inspected(u, { id \in Ids : Exists(id) /\ ctr[id].name # NoUnit },
            IF opts[u].rm THEN "removeOld" ELSE "startOld")

\* parseContext takes --name out of the arguments, as it does with --rm.
DockerCreateUnnamed(u) ==
  /\ dpc[u] = "create"
  /\ \E id \in Ids :
       /\ CreateContainer(id, NoUnit, u, Args[u], HeldIds)
       /\ target' = [target EXCEPT ![u] = id]
       /\ dpc' = [dpc EXCEPT ![u] = "start"]
  /\ UNCHANGED <<opts, Args, pc, Id, Pid, toldVars>>

\* pidDied is asked the wrong way round.
MoveStatPidInverted(u) ==
  /\ pc[u] = "statPid"
  /\ Goto(u, IF Pid[u] \in alive THEN "notify" ELSE "writePid")
  /\ UNCHANGED <<daemonVars, opts, Args, dpc, target, Id, Pid, toldVars>>

\* notify sends READY=1 first.
NotifyCheckReadyFirst(u) ==
  /\ pc[u] = "notify"
  /\ Goto(u, IF Pid[u] \notin alive THEN "failed"
             ELSE IF opts[u].socket THEN "ready" ELSE AfterNotify(u))
  /\ UNCHANGED <<daemonVars, opts, Args, dpc, target, Id, Pid, toldVars>>

\* Its second question to pidDied is the wrong way round: MAINPID is taken back
\* from a container that runs.
NotifyRecheckInverted(u) ==
  /\ pc[u] = "recheck"
  /\ \/ /\ Pid[u] \in alive
        /\ mainPid' = [mainPid EXCEPT ![u] = Self]
        /\ Goto(u, "failed")
     \/ /\ Pid[u] \notin alive
        /\ Goto(u, IF opts[u].notify THEN AfterNotify(u) ELSE "ready")
        /\ UNCHANGED mainPid
  /\ UNCHANGED <<daemonVars, opts, Args, dpc, target, Id, Pid, ready, pidFile>>

\* keepAlive takes the end of WaitContainer for the end of the container.
KeepAliveWaitOnce(u) ==
  /\ pc[u] = "wait"
  /\ ctr[Id[u]].status # "running" \/ "call" \in Env
  /\ Goto(u, AfterKeepAlive(u))
  /\ UNCHANGED <<daemonVars, opts, Args, dpc, target, Id, Pid, toldVars>>

-----------------------------------------------------------------------------
(* lookupNamedContainer.                                                   *)

LookupInspect(u) ==
  Inspected(u, Named(u), IF opts[u].rm THEN "removeOld" ELSE "startOld")

\* RemoveContainer(Force): its error, NoSuchContainer too, ends the program.
LookupRemove(u) ==
  /\ pc[u] = "removeOld"
  /\ \/ RemoveContainer(target[u]) /\ Goto(u, "launch")
     \/ ~Exists(target[u]) /\ Goto(u, "failed") /\ UNCHANGED daemonVars
  /\ UNCHANGED <<opts, Args, dpc, target, Id, Pid, toldVars>>

LookupStart(u) ==
  /\ pc[u] = "startOld"
  /\ \/ StartContainer(target[u], HeldPids) /\ Goto(u, "reinspect")
     \/ ~Exists(target[u]) /\ Goto(u, "failed") /\ UNCHANGED daemonVars
  /\ UNCHANGED <<opts, Args, dpc, target, Id, Pid, toldVars>>

\* The second InspectContainer goes by name again; runContainer then gives up
\* on a pid of 0.
LookupReinspect(u) ==
  /\ pc[u] = "reinspect"
  /\ \/ /\ Named(u) = {}
        /\ Goto(u, "failed")
        /\ UNCHANGED <<Id, Pid>>
     \/ \E id \in Named(u) :
          /\ Id' = [Id EXCEPT ![u] = id]
          /\ Pid' = [Pid EXCEPT ![u] = ctr[id].pid]
          /\ Goto(u, IF ctr[id].pid = NoPid THEN "failed" ELSE "cgroups")
  /\ UNCHANGED <<daemonVars, opts, Args, dpc, target, toldVars>>

-----------------------------------------------------------------------------
(* launchContainer, and the docker run child it starts.                    *)

Launch(u) ==
  /\ pc[u] = "launch"
  /\ Goto(u, "docker")
  /\ dpc' = [dpc EXCEPT ![u] = "create"]
  /\ UNCHANGED <<daemonVars, opts, Args, target, Id, Pid, toldVars>>

DockerCreate(u) ==
  /\ dpc[u] = "create"
  /\ \/ \E id \in Ids :
          /\ CreateContainer(id, NameOf(u), u, Args[u], HeldIds)
          /\ target' = [target EXCEPT ![u] = id]
          /\ dpc' = [dpc EXCEPT ![u] = "start"]
     \/ /\ \/ opts[u].named /\ Named(u) # {}
           \/ \A id \in Ids : Exists(id) \/ id \in HeldIds
        /\ dpc' = [dpc EXCEPT ![u] = "err"]
        /\ UNCHANGED <<daemonVars, target>>
  /\ UNCHANGED <<opts, Args, pc, Id, Pid, toldVars>>

DockerStart(u) ==
  /\ dpc[u] = "start"
  /\ \/ StartContainer(target[u], HeldPids) /\ dpc' = [dpc EXCEPT ![u] = "ok"]
     \/ /\ ~Exists(target[u])
        /\ dpc' = [dpc EXCEPT ![u] = "err"]
        /\ UNCHANGED daemonVars
  /\ UNCHANGED <<opts, Args, pc, target, Id, Pid, toldVars>>

\* ReadAll of the child's output, then Wait.  (What a failed child printed
\* is in c.Id too, but the program ends without a further look at it.)
DockerExits(u) ==
  /\ pc[u] = "docker"
  /\ \/ /\ dpc[u] = "ok"
        /\ Id' = [Id EXCEPT ![u] = target[u]]
        /\ Goto(u, "getPid")
     \/ /\ dpc[u] = "err"
        /\ Goto(u, "failed")
        /\ UNCHANGED Id
  /\ dpc' = [dpc EXCEPT ![u] = "idle"]
  /\ UNCHANGED <<daemonVars, opts, Args, target, Pid, toldVars>>

GetContainerPid(u) ==
  /\ pc[u] = "getPid"
  /\ \/ /\ Exists(Id[u]) /\ ctr[Id[u]].pid # NoPid
        /\ Pid' = [Pid EXCEPT ![u] = ctr[Id[u]].pid]
        /\ Goto(u, "cgroups")
     \/ /\ ~Exists(Id[u]) \/ ctr[Id[u]].pid = NoPid
        /\ Goto(u, "failed")
        /\ UNCHANGED Pid
  /\ UNCHANGED <<daemonVars, opts, Args, dpc, target, Id, toldVars>>

-----------------------------------------------------------------------------
(* moveCgroups, for a container of one process.                            *)

\* /proc/<c.Pid>/cgroup; the move is skipped when the paths are equal.
MoveReadCgroups(u) ==
  /\ pc[u] = "cgroups"
  /\ \/ Pid[u] \notin alive /\ Goto(u, "failed")
     \/ Pid[u] \in alive /\ cgroup[Pid[u]] = u /\ Goto(u, "notify")
     \/ Pid[u] \in alive /\ cgroup[Pid[u]] # u /\ Goto(u, "procs")
  /\ UNCHANGED <<daemonVars, opts, Args, dpc, target, Id, Pid, toldVars>>

\* cgroup.procs of the container's cgroup.  With its last process gone it is
\* empty and nothing is moved, until the daemon removes it: then it is an error.
MoveListPids(u) ==
  /\ pc[u] = "procs"
  /\ \/ Pid[u] \in alive /\ Goto(u, "statPid")
     \/ Pid[u] \notin alive /\ \E l \in {"notify", "failed"} : Goto(u, l)
  /\ UNCHANGED <<daemonVars, opts, Args, dpc, target, Id, Pid, toldVars>>

MoveStatPid(u) ==
  /\ pc[u] = "statPid"
  /\ Goto(u, IF Pid[u] \in alive THEN "writePid" ELSE "notify")
  /\ UNCHANGED <<daemonVars, opts, Args, dpc, target, Id, Pid, toldVars>>

\* Writing the pid of a process that has died since is an error.
MoveWritePid(u) ==
  /\ pc[u] = "writePid"
  /\ \/ /\ Pid[u] \in alive
        /\ cgroup' = [cgroup EXCEPT ![Pid[u]] = u]
        /\ Goto(u, "notify")
     \/ /\ Pid[u] \notin alive
        /\ Goto(u, "failed")
        /\ UNCHANGED cgroup
  /\ UNCHANGED <<ctr, home, alive, opts, Args, dpc, target, Id, Pid, toldVars>>

-----------------------------------------------------------------------------
(* notify and pidFile.                                                     *)

NotifyCheck(u) ==
  /\ pc[u] = "notify"
  /\ Goto(u, IF Pid[u] \notin alive THEN "failed"
             ELSE IF opts[u].socket THEN "mainPid" ELSE AfterNotify(u))
  /\ UNCHANGED <<daemonVars, opts, Args, dpc, target, Id, Pid, toldVars>>

NotifyMainPid(u) ==
  /\ pc[u] = "mainPid"
  /\ mainPid' = [mainPid EXCEPT ![u] = Pid[u]]
  /\ Goto(u, "recheck")
  /\ UNCHANGED <<daemonVars, opts, Args, dpc, target, Id, Pid, ready, pidFile>>

\* A container that died meanwhile: take MAINPID back, whatever
\* becomes of the datagram, and fail.
NotifyRecheck(u) ==
  /\ pc[u] = "recheck"
  /\ \/ /\ Pid[u] \notin alive
        /\ \/ mainPid' = [mainPid EXCEPT ![u] = Self]
           \/ "call" \in Env /\ UNCHANGED mainPid
        /\ Goto(u, "failed")
     \/ /\ Pid[u] \in alive
        /\ Goto(u, IF opts[u].notify THEN AfterNotify(u) ELSE "ready")
        /\ UNCHANGED mainPid
  /\ UNCHANGED <<daemonVars, opts, Args, dpc, target, Id, Pid, ready, pidFile>>

NotifyReady(u) ==
  /\ pc[u] = "ready"
  /\ ready' = [ready EXCEPT ![u] = TRUE]
  /\ Goto(u, AfterNotify(u))
  /\ UNCHANGED <<daemonVars, opts, Args, dpc, target, Id, Pid, mainPid, pidFile>>

WritePidFile(u) ==
  /\ pc[u] = "pidFile"
  /\ pidFile' = [pidFile EXCEPT ![u] = Pid[u]]
  /\ Goto(u, AfterPidFile(u))
  /\ UNCHANGED <<daemonVars, opts, Args, dpc, target, Id, Pid, mainPid, ready>>

-----------------------------------------------------------------------------
(* keepAlive and rmContainer.                                              *)

KeepAliveInspect(u) ==
  /\ pc[u] = "inspect"
  /\ Goto(u, IF ~Exists(Id[u]) THEN "failed"
             ELSE IF ctr[Id[u]].status = "running" THEN "wait"
             ELSE AfterKeepAlive(u))
  /\ UNCHANGED <<daemonVars, opts, Args, dpc, target, Id, Pid, toldVars>>

\* WaitContainer blocks while the container runs; its errors are ignored.
KeepAliveWait(u) ==
  /\ pc[u] = "wait"
  /\ ctr[Id[u]].status # "running" \/ "call" \in Env
  /\ Goto(u, "inspect")
  /\ UNCHANGED <<daemonVars, opts, Args, dpc, target, Id, Pid, toldVars>>

RmContainer(u) ==
  /\ pc[u] = "remove"
  /\ \/ RemoveContainer(Id[u]) /\ Goto(u, "done")
     \/ ~Exists(Id[u]) /\ Goto(u, "failed") /\ UNCHANGED daemonVars
  /\ UNCHANGED <<opts, Args, dpc, target, Id, Pid, toldVars>>

-----------------------------------------------------------------------------
(* Errors and kills.                                                       *)

\* Every other error a call of mainWithArgs returns ends the program; what
\* the call was about stays as it is (an error after the daemon has done what
\* it was asked for leaves the same state as that and a Kill).
CallFails(u) ==
  /\ "call" \in Env
  /\ \/ /\ pc[u] \in {"lookup", "removeOld", "startOld", "reinspect", "launch",
                      "docker", "getPid", "cgroups", "procs", "writePid", "mainPid",
                      "ready", "pidFile", "inspect", "remove"}
                     \union (IF opts[u].socket THEN {"notify"} ELSE {})
        /\ Goto(u, "failed")
        /\ UNCHANGED dpc
     \/ /\ dpc[u] \in {"create", "start"}
        /\ dpc' = [dpc EXCEPT ![u] = "err"]
        /\ UNCHANGED pc
  /\ UNCHANGED <<daemonVars, opts, Args, target, Id, Pid, toldVars>>

\* Only systemd-docker dies: a docker run child goes on.
Kill(u) ==
  /\ "kill" \in Env
  /\ Running(u)
  /\ Goto(u, "failed")
  /\ UNCHANGED <<daemonVars, opts, Args, dpc, target, Id, Pid, toldVars>>

-----------------------------------------------------------------------------
\* One step of systemd-docker itself.
Step(u) ==
  \/ LookupInspect(u) \/ LookupRemove(u) \/ LookupStart(u) \/ LookupReinspect(u)
  \/ Launch(u) \/ DockerExits(u) \/ GetContainerPid(u)
  \/ MoveReadCgroups(u) \/ MoveListPids(u) \/ MoveStatPid(u) \/ MoveWritePid(u)
  \/ NotifyCheck(u) \/ NotifyMainPid(u) \/ NotifyRecheck(u) \/ NotifyReady(u)
  \/ WritePidFile(u)
  \/ KeepAliveInspect(u) \/ KeepAliveWait(u) \/ RmContainer(u)

\* One step of its docker run child.
ChildStep(u) == DockerCreate(u) \/ DockerStart(u)

TypeOK ==
  /\ HostTypeOK
  /\ opts \in [Units -> Invocations]
  /\ Args \in [Units -> 1..MaxArgs]
  /\ pc \in [Units -> Labels]
  /\ dpc \in [Units -> Child]
  /\ target \in [Units -> Ids \union {NoId}]
  /\ Id \in [Units -> Ids \union {NoId}]
  /\ Pid \in [Units -> Pids \union {NoPid}]
  /\ mainPid \in [Units -> Pids \union {Self}]
  /\ ready \in [Units -> BOOLEAN]
  /\ pidFile \in [Units -> Pids \union {NoPid}]
=============================================================================
