----------------------------- MODULE CgroupMove -----------------------------
(***************************************************************************)
(* moveCgroups of main.go for a container of several processes in several  *)
(* cgroup hierarchies, while these processes fork and exit.  Module        *)
(* SystemdDocker has it for one process and one hierarchy.                 *)
(*                                                                         *)
(* The processes of the container are the main one, c.Pid, and those it    *)
(* has forked; they are in the same pid namespace, so they all end with    *)
(* it.  A path is told apart as far as the code does: "root" is `/',       *)
(* "unit" the path of the unit and "docker" that of the container.         *)
(***************************************************************************)
EXTENDS Naturals

CONSTANTS
  Hierarchies,  \* the keys of /proc/<pid>/cgroup
  Systemd,      \* name=systemd: where systemd looks for a unit's processes
  Procs,        \* process ids
  Main,         \* c.Pid
  Selections,   \* what may be given with --cgroups; {} for nothing, or `all'
  Env           \* what happens besides: a subset of Disturbances

Disturbances ==
  { "fork",   \* a process of the container forks
    "exit",   \* a process of the container ends
    "call",   \* opening, reading or writing a file fails
    "retry" } \* systemd cleans up after a failure and starts the unit again

ASSUME SystemdAssumption == Systemd \in Hierarchies

ASSUME MainAssumption == Main \in Procs

ASSUME DisturbancesAssumption == Env \subseteq Disturbances

Paths == {"root", "unit", "docker"}

VARIABLES
  (* what it finds *)
  Cgroups,  \* c.Cgroups
  own,      \* hierarchy -> the path of systemd-docker itself
  base,     \* hierarchy -> the path docker gave the container
  alive,    \* the processes of the container
  cg,       \* process -> hierarchy -> its path
  (* its local variables *)
  pc,       \* what it does next
  todo,     \* the hierarchies of ns it has yet to look at
  hier,     \* nsName
  pids,     \* the rest of the pids read from cgroup.procs
  pid,      \* the one it has found in /proc
  seen,     \* history: hierarchy -> the living ones of all pids read
  quiet     \* history: nothing has forked, and this is the first attempt

paramVars == <<Cgroups, own, base, quiet>>
hostVars  == <<alive, cg>>
localVars == <<todo, hier, pids, pid, seen>>
vars == <<Cgroups, own, base, alive, cg, pc, todo, hier, pids, pid, seen, quiet>>

Labels == {"read", "next", "stat", "write", "done", "failed"}

Busy == pc \in {"read", "next", "stat", "write"}

\* ns without the names that /proc/<pid>/cgroup does not have.
Chosen == IF Cgroups = {} THEN Hierarchies ELSE Cgroups \intersect Hierarchies

\* The hierarchies in which the container is to be moved.
Wanted == { h \in Chosen : base[h] = "docker" }

Init ==
  /\ Cgroups \in Selections
  /\ own \in { f \in [Hierarchies -> {"root", "unit"}] : f[Systemd] = "unit" }
  /\ base \in [Hierarchies -> {"root", "docker"}]
  /\ alive \in { S \in SUBSET Procs : Main \in S }
  /\ cg = [p \in Procs |-> base]
  /\ pc = "read"
  /\ todo = {}
  /\ hier = Systemd
  /\ pids = {}
  /\ pid = Main
  /\ seen = [h \in Hierarchies |-> {}]
  /\ quiet = TRUE

-----------------------------------------------------------------------------
(* Slips: what a plausible mistake in moveCgroups would do (see module     *)
(* SystemdDocker).  The program is below.                                  *)

\* The processes in the container's cgroup of a hierarchy.
InDocker(h) == { p \in alive : cg[p][h] = "docker" }

\* --cgroups is not looked at.
ReadCgroupsOfAll ==
  /\ pc = "read" /\ Main \in alive
  /\ todo' = { h \in Hierarchies : cg[Main][h] \notin {own[h], "root"} }
  /\ pc' = "next"
  /\ UNCHANGED <<paramVars, hostVars, hier, pids, pid, seen>>

\* A container in `/' is not left out.
ReadCgroupsOfRoot ==
  /\ pc = "read" /\ Main \in alive
  /\ todo' = { h \in Chosen : cg[Main][h] # own[h] }
  /\ pc' = "next"
  /\ UNCHANGED <<paramVars, hostVars, hier, pids, pid, seen>>

\* Only c.Pid is moved.
ListPidsOfMain(h) ==
  /\ pc = "next" /\ h \in todo
  /\ todo' = todo \ {h} /\ hier' = h
  /\ pids' = {Main} /\ seen' = [seen EXCEPT ![h] = {Main}]
  /\ pc' = "stat"
  /\ UNCHANGED <<paramVars, hostVars, pid>>

\* break in place of continue.
StatPidBreak(p) ==
  /\ pc = "stat" /\ p \in pids
  /\ \/ p \in alive /\ pids' = pids \ {p} /\ pid' = p /\ pc' = "write"
     \/ p \notin alive /\ pids' = {} /\ UNCHANGED <<pid, pc>>
  /\ UNCHANGED <<paramVars, hostVars, todo, hier, seen>>

\* return moved, nil inside the outer loop.
NextHierarchyReturns ==
  /\ pc = "stat" /\ pids = {}
  /\ pc' = "done"
  /\ UNCHANGED <<paramVars, hostVars, localVars>>

\* cgroup.procs is read again until it is empty.
WritePidRelisting ==
  /\ pc = "write"
  /\ pc' = "stat"
  /\ cg' = [cg EXCEPT ![pid][hier] = IF pid \in alive THEN own[hier] ELSE @]
  /\ pids' = InDocker(hier) \ {pid}
  /\ UNCHANGED <<paramVars, alive, todo, hier, pid, seen>>

-----------------------------------------------------------------------------
(* The program.                                                            *)

\* getCgroupsForPid of itself and of c.Pid.  A hierarchy in which the two
\* paths are equal, or the container's is `/', is left out.
ReadCgroups ==
  /\ pc = "read"
  /\ \/ /\ Main \in alive
        /\ todo' = { h \in Chosen : cg[Main][h] \notin {own[h], "root"} }
        /\ pc' = "next"
     \/ /\ Main \notin alive
        /\ pc' = "failed"
        /\ UNCHANGED todo
  /\ UNCHANGED <<paramVars, hostVars, hier, pids, pid, seen>>

\* getCgroupPids of the next hierarchy; ns is in map order, or as given.
\* A cgroup without processes may be gone already.
ListPids(h) ==
  /\ pc = "next" /\ h \in todo
  /\ \/ /\ todo' = todo \ {h}
        /\ hier' = h
        /\ pids' = InDocker(h)
        /\ seen' = [seen EXCEPT ![h] = InDocker(h)]
        /\ pc' = "stat"
     \/ /\ InDocker(h) = {}
        /\ pc' = "failed"
        /\ UNCHANGED <<todo, hier, pids, seen>>
  /\ UNCHANGED <<paramVars, hostVars, pid>>

\* pidDied: on to the next pid.
StatPid(p) ==
  /\ pc = "stat" /\ p \in pids
  /\ pids' = pids \ {p}
  /\ \/ p \in alive /\ pid' = p /\ pc' = "write"
     \/ p \notin alive /\ UNCHANGED <<pid, pc>>
  /\ UNCHANGED <<paramVars, hostVars, todo, hier, seen>>

NextHierarchy ==
  /\ pc = "stat" /\ pids = {}
  /\ pc' = "next"
  /\ UNCHANGED <<paramVars, hostVars, localVars>>

\* The pid of a process that has ended is an error; that of a zombie is not,
\* and nothing happens.
WritePid ==
  /\ pc = "write"
  /\ \/ /\ pid \in alive
        /\ cg' = [cg EXCEPT ![pid][hier] = own[hier]]
        /\ pc' = "stat"
     \/ /\ pid \notin alive
        /\ pc' \in {"stat", "failed"}
        /\ UNCHANGED cg
  /\ UNCHANGED <<paramVars, alive, localVars>>

Return ==
  /\ pc = "next" /\ todo = {}
  /\ pc' = "done"
  /\ UNCHANGED <<paramVars, hostVars, localVars>>

CallFails ==
  /\ "call" \in Env
  /\ \/ pc \in {"read", "write"}
     \/ pc = "next" /\ todo # {}
  /\ pc' = "failed"
  /\ UNCHANGED <<paramVars, hostVars, localVars>>

Step ==
  \/ ReadCgroups \/ \E h \in Hierarchies : ListPids(h)
  \/ \E p \in Procs : StatPid(p)
  \/ NextHierarchy \/ WritePid \/ Return \/ CallFails

-----------------------------------------------------------------------------
(* Its surroundings.                                                       *)

\* A child is where its parent is.  A pid on its way through moveCgroups is
\* not given to another process.
Fork(p, child) ==
  /\ "fork" \in Env
  /\ p \in alive
  /\ child \notin alive \union pids \union {pid, Main}
  /\ alive' = alive \union {child}
  /\ cg' = [cg EXCEPT ![child] = cg[p]]
  /\ quiet' = FALSE
  /\ UNCHANGED <<Cgroups, own, base, pc, localVars>>

\* Processes end, and with the main process all of them.
End(gone) ==
  /\ alive' = alive \ gone
  /\ seen' = [h \in Hierarchies |-> seen[h] \ gone]
  /\ UNCHANGED cg

Exit(p) ==
  /\ "exit" \in Env
  /\ p \in alive
  /\ End(IF p = Main THEN alive ELSE {p})
  /\ UNCHANGED <<paramVars, pc, todo, hier, pids, pid>>

\* systemd-docker has failed: systemd kills what is in the unit's cgroup of
\* name=systemd.  When the container outlives that, the next start finds it
\* running and moves it once more.
Retry ==
  /\ "retry" \in Env
  /\ pc = "failed" /\ Main \in alive /\ cg[Main][Systemd] # "unit"
  /\ alive' = { p \in alive : cg[p][Systemd] # "unit" }
  /\ pc' = "read"
  /\ todo' = {} /\ hier' = Systemd /\ pids' = {} /\ pid' = Main
  /\ seen' = [h \in Hierarchies |-> {}]
  /\ quiet' = FALSE
  /\ UNCHANGED <<Cgroups, own, base, cg>>

Next ==
  \/ Step
  \/ \E p, child \in Procs : Fork(p, child)
  \/ \E p \in Procs : Exit(p)
  \/ Retry

Spec == Init /\ [][Next]_vars

\* moveCgroups is a loop over files: none of its calls blocks.
FairSpec == Spec /\ WF_vars(Step)

-----------------------------------------------------------------------------
(* Properties.                                                             *)

\* Every variable has its type; only hierarchies in which the container has a
\* cgroup of its own, and that --cgroups selects, are ever on the list.
TypeOK ==
  /\ Cgroups \in Selections
  /\ own \in [Hierarchies -> {"root", "unit"}]
  /\ base \in [Hierarchies -> {"root", "docker"}]
  /\ alive \subseteq Procs
  /\ cg \in [Procs -> [Hierarchies -> Paths]]
  /\ pc \in Labels
  /\ todo \subseteq Wanted
  /\ hier \in Hierarchies
  /\ pids \subseteq Procs
  /\ pid \in Procs
  /\ seen \in [Hierarchies -> SUBSET Procs]
  /\ quiet \in BOOLEAN

\* When moveCgroups has returned without an error, c.Pid, which notify is about
\* to announce, is in the unit in every selected hierarchy, whatever earlier
\* attempts have left behind and however often an entry was skipped.
MainMoved ==
  pc = "done" /\ Main \in alive => \A h \in Wanted : cg[Main][h] = own[h]

\* It has then moved every process that was in cgroup.procs and still lives:
\* none is passed over because another one ended while it was at it.
SnapshotMoved ==
  pc = "done" => \A h \in Hierarchies : \A p \in seen[h] : cg[p][h] = own[h]

\* It has moved the whole container (README.md:79: "the container processes are
\* moved from the Docker cgroups to the system unit cgroups.  By default all
\* application cgroups will be moved"), unless something has forked meanwhile or
\* an earlier attempt has failed: these two are all that leaves a process behind.
AllMoved ==
  pc = "done" /\ quiet => \A p \in alive : \A h \in Wanted : cg[p][h] = own[h]

\* A process changes its cgroup only from the container's to the unit's, in one
\* hierarchy at a time, and only in a selected one (README.md:82-84).
OnlySelected ==
  [][ \A p \in alive \intersect alive' :
        cg'[p] # cg[p] =>
          \E h \in Wanted : /\ cg[p][h] = "docker"
                            /\ cg'[p] = [cg[p] EXCEPT ![h] = own[h]] ]_vars

\* moveCgroups ends even if the container never stops forking: it does not look
\* at cgroup.procs a second time.
Terminates == Busy ~> ~Busy

\* It is a takeover of the container into the unit.
Members == { p \in alive : \A h \in Wanted : cg[p][h] = own[h] }

T == INSTANCE Takeover WITH
       live <- alive, member <- Members, phase <- IF Busy THEN "moving" ELSE pc

TakesOver == T!Spec
=============================================================================
