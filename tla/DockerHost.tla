----------------------------- MODULE DockerHost -----------------------------
(***************************************************************************)
(* The docker daemon and the kernel, as far as systemd-docker uses them:   *)
(* containers and their one process, the daemon's record of it, /proc and  *)
(* the cgroup a process is in.  None of this code is in main.go; it is     *)
(* modelled from the calls main.go makes (go-dockerclient, docker run,     *)
(* /proc/<pid>, cgroup.procs) and from what it does with the answers.      *)
(***************************************************************************)
EXTENDS Naturals

CONSTANTS
  Units,        \* service units; `--name %n' gives the container this name
  Ids,          \* container ids: as many as the daemon has room for
  Pids,         \* process ids
  NoUnit,       \* no name / not created by a unit / not in a unit's cgroup
  NoId,         \* no container
  NoPid,        \* State.Pid of a container that is not up
  MaxArgs       \* bound: how many versions of a unit's ExecStart there are

ASSUME HostAssumption ==
  /\ NoUnit \notin Units
  /\ NoId \notin Ids
  /\ NoPid \notin Pids
  /\ MaxArgs \in Nat \ {0}

VARIABLES
  ctr,      \* id -> its status, name, creator, arguments and State.Pid
  home,     \* pid -> the container it was last given to a process of
  alive,    \* the pids with a /proc entry
  cgroup    \* pid -> the unit whose cgroup it is in (NoUnit: /docker/<id>)

daemonVars == <<ctr, home, alive, cgroup>>

Status == {"none", "created", "running", "exited"}

Container == [status : Status, name : Units \union {NoUnit},
              by : Units \union {NoUnit}, args : 0..MaxArgs,
              pid : Pids \union {NoPid}]

Exists(id) == ctr[id].status # "none"

Named(u) == { id \in Ids : Exists(id) /\ ctr[id].name = u }

NoContainer == [status |-> "none", name |-> NoUnit,
                by |-> NoUnit, args |-> 0, pid |-> NoPid]

HostTypeOK ==
  /\ ctr \in [Ids -> Container]
  /\ home \in [Pids -> Ids \union {NoId}]
  /\ alive \subseteq Pids
  /\ cgroup \in [Pids -> Units \union {NoUnit}]

HostInit ==
  /\ ctr = [id \in Ids |-> NoContainer]
  /\ home = [p \in Pids |-> NoId]
  /\ alive = {}
  /\ cgroup = [p \in Pids |-> NoUnit]

-----------------------------------------------------------------------------
(* What the daemon does for a request.  Ids and pids are reused, but never *)
(* one that somebody still holds (`held'): the time between reading a pid  *)
(* and using it is short against the kernel's wrap-around.                 *)

\* POST /containers/create?name=n: a name belongs to one container at most.
CreateContainer(id, n, unit, args, held) ==
  /\ ~Exists(id) /\ id \notin held
  /\ n # NoUnit => Named(n) = {}
  /\ ctr' = [ctr EXCEPT ![id] = [status |-> "created", name |-> n,
                                 by |-> unit, args |-> args, pid |-> NoPid]]
  /\ UNCHANGED <<home, alive, cgroup>>

\* The daemon starts a container: a new process, in the container's cgroup.
BootContainer(id, held) ==
  /\ ctr[id].status \in {"created", "exited"}
  /\ \E p \in Pids \ held :
       /\ p \notin alive
       /\ \A i \in Ids : ctr[i].pid # p
       /\ ctr' = [ctr EXCEPT ![id].status = "running", ![id].pid = p]
       /\ home' = [home EXCEPT ![p] = id]
       /\ alive' = alive \union {p}
       /\ cgroup' = [cgroup EXCEPT ![p] = NoUnit]

\* POST /containers/<id>/start: 304, which the clients take for success, when
\* the daemon believes the container is running.
StartContainer(id, held) ==
  \/ BootContainer(id, held)
  \/ ctr[id].status = "running" /\ UNCHANGED daemonVars

\* DELETE /containers/<id>?force=1: kills what still runs.
RemoveContainer(id) ==
  /\ Exists(id)
  /\ ctr' = [ctr EXCEPT ![id].status = "none", ![id].pid = NoPid]
  /\ alive' = alive \ {ctr[id].pid}
  /\ UNCHANGED <<home, cgroup>>

-----------------------------------------------------------------------------
(* What happens by itself.                                                 *)

\* A container's process ends, by itself or by docker stop or kill.
ProcessEnds(p) ==
  /\ p \in alive
  /\ alive' = alive \ {p}
  /\ UNCHANGED <<ctr, home, cgroup>>

\* The daemon notices, some time later.
ReapContainer(id) ==
  /\ ctr[id].status = "running" /\ ctr[id].pid \notin alive
  /\ ctr' = [ctr EXCEPT ![id].status = "exited", ![id].pid = NoPid]
  /\ UNCHANGED <<home, alive, cgroup>>
=============================================================================
