---------------------------- MODULE ServiceProofs ----------------------------
(***************************************************************************)
(* What module Service promises for every number of units, containers and  *)
(* processes and every set of invocations: the types; that systemd follows *)
(* one process of the unit's own container inside the unit's own cgroup;   *)
(* that a unit has one container, and --rm leaves none and revives none;   *)
(* that units do not touch each other's; as long as nobody starts          *)
(* containers by hand, that what is removed does not run and what is       *)
(* supervised is what systemd was told of; and that all of it implements   *)
(* module Supervision, what systemd may rely on.                           *)
(***************************************************************************)
EXTENDS Service, TLAPS

-----------------------------------------------------------------------------
(* The docker daemon.                                                      *)

\* Its record of containers and the kernel's processes fit together, and a
\* name belongs to one container.
HostInv ==
  /\ HostTypeOK
  /\ \A id \in Ids : /\ ctr[id].status = "running" => ctr[id].pid # NoPid
                     /\ ctr[id].pid # NoPid => home[ctr[id].pid] = id
  /\ \A i, j \in Ids :
       Exists(i) /\ Exists(j) /\ ctr[i].name = ctr[j].name
         /\ ctr[i].name # NoUnit => i = j

\* What the daemon does for a request keeps HostInv.
LEMMA CreateContainerHost ==
  ASSUME HostInv, NEW id \in Ids, NEW n \in Units \union {NoUnit},
         NEW unit \in Units \union {NoUnit}, NEW args \in 0..MaxArgs, NEW held,
         CreateContainer(id, n, unit, args, held)
  PROVE  HostInv'
  <1>1. HostTypeOK'
    BY DEF HostInv, HostTypeOK, CreateContainer, Container, Status
  <1>2. ctr'[id] = [status |-> "created", name |-> n, by |-> unit,
                    args |-> args, pid |-> NoPid]
    BY DEF HostInv, HostTypeOK, CreateContainer
  <1>3. \A i \in Ids \ {id} : ctr'[i] = ctr[i]
    BY DEF HostInv, HostTypeOK, CreateContainer
  <1>4. QED
    BY <1>1, <1>2, <1>3 DEF HostInv, CreateContainer, Named, Exists

LEMMA BootContainerHost ==
  ASSUME HostInv, NEW id \in Ids, NEW held, BootContainer(id, held)
  PROVE  HostInv'
  <1>1. PICK p \in Pids \ held :
          /\ \A i \in Ids : ctr[i].pid # p
          /\ ctr' = [ctr EXCEPT ![id].status = "running", ![id].pid = p]
          /\ home' = [home EXCEPT ![p] = id]
          /\ alive' = alive \union {p}
          /\ cgroup' = [cgroup EXCEPT ![p] = NoUnit]
    BY DEF BootContainer
  <1>2. ctr[id] \in Container
    BY DEF HostInv, HostTypeOK
  <1>3. ctr'[id] = [ctr[id] EXCEPT !.status = "running", !.pid = p]
    BY <1>1 DEF HostInv, HostTypeOK
  <1>4. \A i \in Ids \ {id} : ctr'[i] = ctr[i]
    BY <1>1 DEF HostInv, HostTypeOK
  <1>5. /\ ctr'[id].status = "running" /\ ctr'[id].pid = p
        /\ ctr'[id].name = ctr[id].name
        /\ ctr'[id] \in Container
    BY <1>2, <1>3 DEF Container, Status
  <1>6. DOMAIN ctr' = Ids /\ ctr' = [i \in Ids |-> ctr'[i]]
    BY <1>1 DEF HostInv, HostTypeOK
  <1>7. HostTypeOK'
    BY <1>1, <1>4, <1>5, <1>6 DEF HostInv, HostTypeOK
  <1>8. home'[p] = id /\ \A q \in Pids \ {p} : home'[q] = home[q]
    BY <1>1 DEF HostInv, HostTypeOK
  <1>9. p # NoPid /\ Exists(id)
    BY HostAssumption DEF BootContainer, Exists
  <1>10. \A i \in Ids : ctr[i].pid \in Pids \union {NoPid}
    BY DEF HostInv, HostTypeOK, Container
  <1>11. \A i \in Ids : /\ ctr'[i].status = "running" => ctr'[i].pid # NoPid
                        /\ ctr'[i].pid # NoPid => home'[ctr'[i].pid] = i
    <2> TAKE i \in Ids
    <2>1. CASE i = id
      BY <2>1, <1>5, <1>8, <1>9
    <2>2. CASE i # id
      <3>1. ctr'[i] = ctr[i] /\ ctr[i].pid # p
        BY <2>2, <1>1, <1>4
      <3>2. ctr[i].pid # NoPid => home'[ctr[i].pid] = home[ctr[i].pid]
        BY <3>1, <1>8, <1>10
      <3>3. QED
        BY <3>1, <3>2 DEF HostInv
    <2>3. QED
      BY <2>1, <2>2
  <1>12. \A i, j \in Ids :
          Exists(i)' /\ Exists(j)' /\ ctr'[i].name = ctr'[j].name
            /\ ctr'[i].name # NoUnit => i = j
    BY <1>4, <1>5, <1>9 DEF HostInv, Exists
  <1>13. QED
    BY <1>7, <1>11, <1>12 DEF HostInv

LEMMA StartContainerHost ==
  ASSUME HostInv, NEW id \in Ids, NEW held, StartContainer(id, held)
  PROVE  HostInv'
  <1>1. CASE BootContainer(id, held)
    BY <1>1, BootContainerHost
  <1>2. CASE UNCHANGED daemonVars
    BY <1>2 DEF HostInv, HostTypeOK, Exists, daemonVars
  <1>3. QED
    BY <1>1, <1>2 DEF StartContainer

LEMMA RemoveContainerHost ==
  ASSUME HostInv, NEW id \in Ids, RemoveContainer(id)
  PROVE  HostInv'
  <1>1. ctr[id] \in Container
    BY DEF HostInv, HostTypeOK
  <1>2. ctr'[id] = [ctr[id] EXCEPT !.status = "none", !.pid = NoPid]
    BY DEF HostInv, HostTypeOK, RemoveContainer
  <1>3. \A i \in Ids \ {id} : ctr'[i] = ctr[i]
    BY DEF HostInv, HostTypeOK, RemoveContainer
  <1>4. /\ ctr'[id].status = "none" /\ ctr'[id].pid = NoPid
        /\ ctr'[id] \in Container
    BY <1>1, <1>2 DEF Container, Status
  <1>5. DOMAIN ctr' = Ids /\ ctr' = [i \in Ids |-> ctr'[i]]
    BY DEF HostInv, HostTypeOK, RemoveContainer
  <1>6. HostTypeOK'
    BY <1>3, <1>4, <1>5 DEF HostInv, HostTypeOK, RemoveContainer
  <1>7. \A i \in Ids : /\ ctr'[i].status = "running" => ctr'[i].pid # NoPid
                       /\ ctr'[i].pid # NoPid => home'[ctr'[i].pid] = i
    BY <1>3, <1>4 DEF HostInv, RemoveContainer
  <1>8. \A i, j \in Ids :
          Exists(i)' /\ Exists(j)' /\ ctr'[i].name = ctr'[j].name
            /\ ctr'[i].name # NoUnit => i = j
    BY <1>3, <1>4 DEF HostInv, Exists
  <1>9. QED
    BY <1>6, <1>7, <1>8 DEF HostInv

LEMMA ReapContainerHost ==
  ASSUME HostInv, NEW id \in Ids, ReapContainer(id)
  PROVE  HostInv'
  <1>1. ctr[id] \in Container
    BY DEF HostInv, HostTypeOK
  <1>2. ctr'[id] = [ctr[id] EXCEPT !.status = "exited", !.pid = NoPid]
    BY DEF HostInv, HostTypeOK, ReapContainer
  <1>3. \A i \in Ids \ {id} : ctr'[i] = ctr[i]
    BY DEF HostInv, HostTypeOK, ReapContainer
  <1>4. /\ ctr'[id].status = "exited" /\ ctr'[id].pid = NoPid
        /\ ctr'[id].name = ctr[id].name
        /\ ctr'[id] \in Container
    BY <1>1, <1>2 DEF Container, Status
  <1>5. DOMAIN ctr' = Ids /\ ctr' = [i \in Ids |-> ctr'[i]]
    BY DEF HostInv, HostTypeOK, ReapContainer
  <1>6. HostTypeOK'
    BY <1>3, <1>4, <1>5 DEF HostInv, HostTypeOK, ReapContainer
  <1>7. Exists(id)
    BY DEF ReapContainer, Exists
  <1>8. \A i \in Ids : /\ ctr'[i].status = "running" => ctr'[i].pid # NoPid
                       /\ ctr'[i].pid # NoPid => home'[ctr'[i].pid] = i
    BY <1>3, <1>4 DEF HostInv, ReapContainer
  <1>9. \A i, j \in Ids :
          Exists(i)' /\ Exists(j)' /\ ctr'[i].name = ctr'[j].name
            /\ ctr'[i].name # NoUnit => i = j
    BY <1>3, <1>4, <1>7 DEF HostInv, Exists
  <1>10. QED
    BY <1>6, <1>8, <1>9 DEF HostInv

\* A process that ends, or is moved, changes nothing in it.
LEMMA SameContainersHost ==
  ASSUME HostInv, UNCHANGED <<ctr, home>>, alive' \subseteq alive,
         cgroup' \in [Pids -> Units \union {NoUnit}]
  PROVE  HostInv'
  BY DEF HostInv, HostTypeOK, Exists

-----------------------------------------------------------------------------
(* Types of the program.  GetContainerPid and NotifyMainPid are well typed *)
(* only because the program does not get there without an id and a pid.    *)

Looking  == {"lookup", "removeOld", "startOld", "reinspect"}
Fetching == Looking \union {"launch", "docker", "getPid"}
Holding  == {"cgroups", "procs", "statPid", "writePid", "notify", "mainPid",
             "recheck", "ready", "pidFile", "inspect", "wait", "remove"}

\* What c.Id, c.Pid and the local id are at each point of the program.
Control(u) ==
  /\ pc[u] \in Looking => opts[u].named
  /\ pc[u] \in Looking \ {"lookup"} => target[u] # NoId
  /\ dpc[u] \in {"start", "ok"} => target[u] # NoId
  /\ pc[u] \in Fetching => Pid[u] = NoPid /\ mainPid[u] = Self
  /\ pc[u] \in Holding \union {"getPid"} => Id[u] # NoId
  /\ pc[u] \in Holding => Pid[u] # NoPid

TypeInv == HostInv /\ TypeOK /\ \A u \in Units : Control(u)

\* A step of unit u leaves the program state of the other units alone.
OthersSame(u) ==
  /\ opts' = opts
  /\ \A v \in Units \ {u} :
       /\ pc'[v] = pc[v] /\ dpc'[v] = dpc[v] /\ target'[v] = target[v]
       /\ Id'[v] = Id[v] /\ Pid'[v] = Pid[v] /\ mainPid'[v] = mainPid[v]
       /\ ready'[v] = ready[v]

LEMMA StepOthersSame ==
  ASSUME TypeOK, NEW u \in Units, Step(u)
  PROVE  OthersSame(u)
  <1> USE DEF OthersSame, TypeOK, Goto, toldVars
  <1>1. CASE LookupInspect(u) \/ LookupRemove(u) \/ LookupStart(u) \/ LookupReinspect(u)
    BY <1>1 DEF LookupInspect, Inspected, LookupRemove, LookupStart, LookupReinspect
  <1>2. CASE Launch(u) \/ DockerExits(u) \/ GetContainerPid(u)
    BY <1>2 DEF Launch, DockerExits, GetContainerPid
  <1>3. CASE MoveReadCgroups(u) \/ MoveListPids(u) \/ MoveStatPid(u) \/ MoveWritePid(u)
    BY <1>3 DEF MoveReadCgroups, MoveListPids, MoveStatPid, MoveWritePid
  <1>4. CASE NotifyCheck(u) \/ NotifyMainPid(u) \/ NotifyRecheck(u) \/ NotifyReady(u)
             \/ WritePidFile(u)
    BY <1>4 DEF NotifyCheck, NotifyMainPid, NotifyRecheck, NotifyReady, WritePidFile
  <1>5. CASE KeepAliveInspect(u) \/ KeepAliveWait(u) \/ RmContainer(u)
    BY <1>5 DEF KeepAliveInspect, KeepAliveWait, RmContainer
  <1>6. QED
    BY <1>1, <1>2, <1>3, <1>4, <1>5 DEF Step

LEMMA ControlOfOthers ==
  ASSUME NEW u \in Units, OthersSame(u), \A v \in Units : Control(v)
  PROVE  \A v \in Units \ {u} : Control(v)'
  BY DEF OthersSame, Control

\* The labels that the program goes on to.
LEMMA AfterLabels ==
  ASSUME NEW u
  PROVE  /\ AfterPidFile(u) \in {"inspect", "done"}
         /\ AfterNotify(u) \in {"pidFile", "inspect", "done"}
         /\ AfterKeepAlive(u) \in {"remove", "done"}
  BY DEF AfterPidFile, AfterNotify, AfterKeepAlive

LEMMA GotoType ==
  ASSUME NEW u \in Units, TypeOK, NEW l \in Labels, Goto(u, l)
  PROVE  pc' \in [Units -> Labels] /\ pc'[u] = l
  BY DEF TypeOK, Goto

\* The initial states are well typed.
LEMMA InitTypeInv == Init => TypeInv
  <1> SUFFICES ASSUME Init PROVE TypeInv
    OBVIOUS
  <1>1. HostInv
    BY HostAssumption
    DEF Init, HostInit, HostInv, HostTypeOK, NoContainer, Container, Status, Exists
  <1>2. TypeOK
    BY <1>1, HostAssumption, SelfAssumption
    DEF HostInv, Init, TypeOK, Labels, Exited, Child
  <1>3. \A u \in Units : Control(u)
    BY DEF Init, Control, Looking, Fetching, Holding
  <1>4. QED
    BY <1>1, <1>2, <1>3 DEF TypeInv

\* Every step of systemd-docker keeps the types.
LEMMA StepTypeInv ==
  ASSUME TypeInv, NEW u \in Units, Step(u)
  PROVE  TypeInv'
  <1>o. \A v \in Units \ {u} : Control(v)'
    BY StepOthersSame, ControlOfOthers DEF TypeInv
  <1> SUFFICES HostInv' /\ TypeOK' /\ Control(u)'
    BY <1>o DEF TypeInv
  <1>h. UNCHANGED daemonVars => HostInv'
    BY DEF TypeInv, HostInv, HostTypeOK, Exists, daemonVars
  <1>l. \A l \in Labels : Goto(u, l) => pc' \in [Units -> Labels] /\ pc'[u] = l
    BY GotoType DEF TypeInv
  <1>c. \A id \in Ids : /\ ctr[id].pid \in Pids \union {NoPid}
                        /\ ctr[id].status = "running" => ctr[id].pid # NoPid
    BY DEF TypeInv, HostInv, HostTypeOK, Container
  <1>u. TypeOK /\ Control(u) /\ HostInv
    BY DEF TypeInv
  <1>t. HostInv' => HostTypeOK'
    BY DEF HostInv
  <1>s. Self # NoPid /\ NoId \notin Ids /\ NoPid \notin Pids
    BY SelfAssumption, HostAssumption
  <1> USE DEF toldVars, Labels, Exited, Looking, Fetching, Holding
  <1>1. CASE LookupInspect(u)
    <2>1. HostInv'
      BY <1>1, <1>h DEF LookupInspect, Inspected
    <2>2. TypeOK'
      BY <1>1, <2>1, <1>t, <1>l, <1>u, <1>c, <1>s DEF LookupInspect, Inspected, Named, TypeOK, Control
    <2>3. Control(u)'
      BY <1>1, <1>l, <1>u, <1>c, <1>s DEF LookupInspect, Inspected, Named, TypeOK, Control
    <2>4. QED
      BY <2>1, <2>2, <2>3
  <1>2. CASE LookupRemove(u)
    <2>1. HostInv'
      BY <1>2, <1>h, <1>u, RemoveContainerHost DEF LookupRemove, TypeOK, Control
    <2>2. TypeOK'
      BY <1>2, <2>1, <1>t, <1>l, <1>u, <1>c, <1>s DEF LookupRemove, TypeOK, Control
    <2>3. Control(u)'
      BY <1>2, <1>l, <1>u, <1>c, <1>s DEF LookupRemove, TypeOK, Control
    <2>4. QED
      BY <2>1, <2>2, <2>3
  <1>3. CASE LookupStart(u)
    <2>1. HostInv'
      BY <1>3, <1>h, <1>u, StartContainerHost DEF LookupStart, TypeOK, Control
    <2>2. TypeOK'
      BY <1>3, <2>1, <1>t, <1>l, <1>u, <1>c, <1>s DEF LookupStart, TypeOK, Control
    <2>3. Control(u)'
      BY <1>3, <1>l, <1>u, <1>c, <1>s DEF LookupStart, TypeOK, Control
    <2>4. QED
      BY <2>1, <2>2, <2>3
  <1>4. CASE LookupReinspect(u)
    <2>1. HostInv'
      BY <1>4, <1>h DEF LookupReinspect
    <2>2. TypeOK'
      BY <1>4, <2>1, <1>t, <1>l, <1>u, <1>c, <1>s DEF LookupReinspect, Named, TypeOK, Control
    <2>3. Control(u)'
      BY <1>4, <1>l, <1>u, <1>c, <1>s DEF LookupReinspect, Named, TypeOK, Control
    <2>4. QED
      BY <2>1, <2>2, <2>3
  <1>5. CASE Launch(u)
    <2>1. HostInv'
      BY <1>5, <1>h DEF Launch
    <2>2. TypeOK'
      BY <1>5, <2>1, <1>t, <1>l, <1>u, <1>c, <1>s DEF Launch, Child, TypeOK, Control
    <2>3. Control(u)'
      BY <1>5, <1>l, <1>u, <1>c, <1>s DEF Launch, Child, TypeOK, Control
    <2>4. QED
      BY <2>1, <2>2, <2>3
  <1>6. CASE DockerExits(u)
    <2>1. HostInv'
      BY <1>6, <1>h DEF DockerExits
    <2>2. TypeOK'
      BY <1>6, <2>1, <1>t, <1>l, <1>u, <1>c, <1>s DEF DockerExits, Child, TypeOK, Control
    <2>3. Control(u)'
      BY <1>6, <1>l, <1>u, <1>c, <1>s DEF DockerExits, Child, TypeOK, Control
    <2>4. QED
      BY <2>1, <2>2, <2>3
  <1>7. CASE GetContainerPid(u)
    <2>1. HostInv'
      BY <1>7, <1>h DEF GetContainerPid
    <2>2. TypeOK'
      BY <1>7, <2>1, <1>t, <1>l, <1>u, <1>c, <1>s DEF GetContainerPid, TypeOK, Control
    <2>3. Control(u)'
      BY <1>7, <1>l, <1>u, <1>c, <1>s DEF GetContainerPid, TypeOK, Control
    <2>4. QED
      BY <2>1, <2>2, <2>3
  <1>8. CASE MoveReadCgroups(u)
    <2>1. HostInv'
      BY <1>8, <1>h DEF MoveReadCgroups
    <2>2. TypeOK'
      BY <1>8, <2>1, <1>t, <1>l, <1>u, <1>c, <1>s DEF MoveReadCgroups, TypeOK, Control
    <2>3. Control(u)'
      BY <1>8, <1>l, <1>u, <1>c, <1>s DEF MoveReadCgroups, TypeOK, Control
    <2>4. QED
      BY <2>1, <2>2, <2>3
  <1>9. CASE MoveListPids(u)
    <2>1. HostInv'
      BY <1>9, <1>h DEF MoveListPids
    <2>2. TypeOK'
      BY <1>9, <2>1, <1>t, <1>l, <1>u, <1>c, <1>s DEF MoveListPids, TypeOK, Control
    <2>3. Control(u)'
      BY <1>9, <1>l, <1>u, <1>c, <1>s DEF MoveListPids, TypeOK, Control
    <2>4. QED
      BY <2>1, <2>2, <2>3
  <1>10. CASE MoveStatPid(u)
    <2>1. HostInv'
      BY <1>10, <1>h DEF MoveStatPid
    <2>2. TypeOK'
      BY <1>10, <2>1, <1>t, <1>l, <1>u, <1>c, <1>s DEF MoveStatPid, TypeOK, Control
    <2>3. Control(u)'
      BY <1>10, <1>l, <1>u, <1>c, <1>s DEF MoveStatPid, TypeOK, Control
    <2>4. QED
      BY <2>1, <2>2, <2>3
  <1>11. CASE MoveWritePid(u)
    <2>1. HostInv'
      BY <1>11, <1>u, SameContainersHost DEF MoveWritePid, HostInv, HostTypeOK
    <2>2. TypeOK'
      BY <1>11, <2>1, <1>t, <1>l, <1>u, <1>c, <1>s DEF MoveWritePid, TypeOK, Control
    <2>3. Control(u)'
      BY <1>11, <1>l, <1>u, <1>c, <1>s DEF MoveWritePid, TypeOK, Control
    <2>4. QED
      BY <2>1, <2>2, <2>3
  <1>12. CASE NotifyCheck(u)
    <2>1. HostInv'
      BY <1>12, <1>h DEF NotifyCheck
    <2>2. TypeOK'
      BY <1>12, <2>1, <1>t, <1>l, <1>u, <1>c, <1>s, AfterLabels DEF NotifyCheck, TypeOK, Control
    <2>3. Control(u)'
      BY <1>12, <1>l, <1>u, <1>c, <1>s, AfterLabels DEF NotifyCheck, TypeOK, Control
    <2>4. QED
      BY <2>1, <2>2, <2>3
  <1>13. CASE NotifyMainPid(u)
    <2>1. HostInv'
      BY <1>13, <1>h DEF NotifyMainPid
    <2>2. TypeOK'
      BY <1>13, <2>1, <1>t, <1>l, <1>u, <1>c, <1>s DEF NotifyMainPid, TypeOK, Control
    <2>3. Control(u)'
      BY <1>13, <1>l, <1>u, <1>c, <1>s DEF NotifyMainPid, TypeOK, Control
    <2>4. QED
      BY <2>1, <2>2, <2>3
  <1>14. CASE NotifyRecheck(u)
    <2>1. HostInv'
      BY <1>14, <1>h DEF NotifyRecheck
    <2>2. TypeOK'
      BY <1>14, <2>1, <1>t, <1>l, <1>u, <1>c, <1>s, AfterLabels DEF NotifyRecheck, TypeOK, Control
    <2>3. Control(u)'
      BY <1>14, <1>l, <1>u, <1>c, <1>s, AfterLabels DEF NotifyRecheck, TypeOK, Control
    <2>4. QED
      BY <2>1, <2>2, <2>3
  <1>15. CASE NotifyReady(u)
    <2>1. HostInv'
      BY <1>15, <1>h DEF NotifyReady
    <2>2. TypeOK'
      BY <1>15, <2>1, <1>t, <1>l, <1>u, <1>c, <1>s, AfterLabels DEF NotifyReady, TypeOK, Control
    <2>3. Control(u)'
      BY <1>15, <1>l, <1>u, <1>c, <1>s, AfterLabels DEF NotifyReady, TypeOK, Control
    <2>4. QED
      BY <2>1, <2>2, <2>3
  <1>16. CASE WritePidFile(u)
    <2>1. HostInv'
      BY <1>16, <1>h DEF WritePidFile
    <2>2. TypeOK'
      BY <1>16, <2>1, <1>t, <1>l, <1>u, <1>c, <1>s, AfterLabels DEF WritePidFile, TypeOK, Control
    <2>3. Control(u)'
      BY <1>16, <1>l, <1>u, <1>c, <1>s, AfterLabels DEF WritePidFile, TypeOK, Control
    <2>4. QED
      BY <2>1, <2>2, <2>3
  <1>17. CASE KeepAliveInspect(u)
    <2>1. HostInv'
      BY <1>17, <1>h DEF KeepAliveInspect
    <2>2. TypeOK'
      BY <1>17, <2>1, <1>t, <1>l, <1>u, <1>c, <1>s, AfterLabels DEF KeepAliveInspect, TypeOK, Control
    <2>3. Control(u)'
      BY <1>17, <1>l, <1>u, <1>c, <1>s, AfterLabels DEF KeepAliveInspect, TypeOK, Control
    <2>4. QED
      BY <2>1, <2>2, <2>3
  <1>18. CASE KeepAliveWait(u)
    <2>1. HostInv'
      BY <1>18, <1>h DEF KeepAliveWait
    <2>2. TypeOK'
      BY <1>18, <2>1, <1>t, <1>l, <1>u, <1>c, <1>s DEF KeepAliveWait, TypeOK, Control
    <2>3. Control(u)'
      BY <1>18, <1>l, <1>u, <1>c, <1>s DEF KeepAliveWait, TypeOK, Control
    <2>4. QED
      BY <2>1, <2>2, <2>3
  <1>19. CASE RmContainer(u)
    <2>1. HostInv'
      BY <1>19, <1>h, <1>u, RemoveContainerHost DEF RmContainer, TypeOK, Control
    <2>2. TypeOK'
      BY <1>19, <2>1, <1>t, <1>l, <1>u, <1>c, <1>s DEF RmContainer, TypeOK, Control
    <2>3. Control(u)'
      BY <1>19, <1>l, <1>u, <1>c, <1>s DEF RmContainer, TypeOK, Control
    <2>4. QED
      BY <2>1, <2>2, <2>3
  <1>q. QED
    BY <1>1, <1>2, <1>3, <1>4, <1>5, <1>6, <1>7, <1>8, <1>9, <1>10, <1>11, <1>12, <1>13, <1>14, <1>15, <1>16, <1>17, <1>18, <1>19 DEF Step

\* Of its docker run child, of errors and kills, and of systemd, too.
LEMMA UnitOthersSame ==
  ASSUME TypeOK, NEW u \in Units,
         ChildStep(u) \/ CallFails(u) \/ Kill(u) \/ StopUnit(u) \/ StartUnit(u)
  PROVE  OthersSame(u)
  <1> USE DEF OthersSame, TypeOK, Goto, toldVars
  <1>1. CASE ChildStep(u)
    BY <1>1 DEF ChildStep, DockerCreate, DockerStart
  <1>2. CASE CallFails(u) \/ Kill(u)
    BY <1>2 DEF CallFails, Kill
  <1>3. CASE StopUnit(u)
    BY <1>3 DEF StopUnit
  <1>4. CASE StartUnit(u)
    BY <1>4 DEF StartUnit
  <1>5. QED
    BY <1>1, <1>2, <1>3, <1>4

LEMMA UnitTypeInv ==
  ASSUME TypeInv, NEW u \in Units,
         ChildStep(u) \/ CallFails(u) \/ Kill(u) \/ StopUnit(u) \/ StartUnit(u)
  PROVE  TypeInv'
  <1>u. TypeOK /\ Control(u) /\ HostInv
    BY DEF TypeInv
  <1>o. \A v \in Units \ {u} : Control(v)'
    BY <1>u, UnitOthersSame, ControlOfOthers DEF TypeInv
  <1> SUFFICES HostInv' /\ TypeOK' /\ Control(u)'
    BY <1>o DEF TypeInv
  <1>h. UNCHANGED daemonVars => HostInv'
    BY DEF TypeInv, HostInv, HostTypeOK, Exists, daemonVars
  <1>l. \A l \in Labels : Goto(u, l) => pc' \in [Units -> Labels] /\ pc'[u] = l
    BY GotoType DEF TypeInv
  <1>t. HostInv' => HostTypeOK'
    BY DEF HostInv
  <1>s. NoId \notin Ids /\ NoUnit \notin Units /\ MaxArgs \in Nat
    BY HostAssumption
  <1> USE DEF toldVars, Labels, Exited, Looking, Fetching, Holding
  <1>1. CASE DockerCreate(u)
    <2>1. HostInv'
      <3>1. Args[u] \in 0..MaxArgs /\ NameOf(u) \in Units \union {NoUnit}
        BY <1>u, <1>s DEF TypeOK, NameOf
      <3>2. QED
        BY <1>1, <1>h, <1>u, <3>1, CreateContainerHost DEF DockerCreate
    <2>2. TypeOK'
      BY <1>1, <2>1, <1>t, <1>l, <1>u, <1>s DEF DockerCreate, TypeOK, Control, Child
    <2>3. Control(u)'
      BY <1>1, <1>l, <1>u, <1>s DEF DockerCreate, TypeOK, Control, Child
    <2>4. QED
      BY <2>1, <2>2, <2>3
  <1>2. CASE DockerStart(u)
    <2>1. HostInv'
      BY <1>2, <1>h, <1>u, StartContainerHost DEF DockerStart, TypeOK, Control
    <2>2. TypeOK'
      BY <1>2, <2>1, <1>t, <1>l, <1>u, <1>s DEF DockerStart, TypeOK, Control, Child
    <2>3. Control(u)'
      BY <1>2, <1>l, <1>u, <1>s DEF DockerStart, TypeOK, Control, Child
    <2>4. QED
      BY <2>1, <2>2, <2>3
  <1>3. CASE CallFails(u)
    <2>1. HostInv'
      BY <1>3, <1>h DEF CallFails
    <2>2. TypeOK'
      BY <1>3, <2>1, <1>t, <1>l, <1>u, <1>s DEF CallFails, TypeOK, Control, Child
    <2>3. Control(u)'
      BY <1>3, <1>l, <1>u, <1>s DEF CallFails, TypeOK, Control, Child
    <2>4. QED
      BY <2>1, <2>2, <2>3
  <1>4. CASE Kill(u)
    <2>1. HostInv'
      BY <1>4, <1>h DEF Kill
    <2>2. TypeOK'
      BY <1>4, <2>1, <1>t, <1>l, <1>u, <1>s DEF Kill, TypeOK, Control, Child
    <2>3. Control(u)'
      BY <1>4, <1>l, <1>u, <1>s DEF Kill, TypeOK, Control, Child
    <2>4. QED
      BY <2>1, <2>2, <2>3
  <1>5. CASE StopUnit(u)
    <2>1. HostInv'
      BY <1>5, <1>u, SameContainersHost DEF StopUnit, HostInv, HostTypeOK
    <2>2. TypeOK'
      BY <1>5, <2>1, <1>t, <1>l, <1>u, <1>s DEF StopUnit, Running, TypeOK, Control, Child
    <2>3. Control(u)'
      BY <1>5, <1>l, <1>u, <1>s DEF StopUnit, Running, TypeOK, Control, Child
    <2>4. QED
      BY <2>1, <2>2, <2>3
  <1>6. CASE StartUnit(u)
    <2>1. HostInv'
      BY <1>6, <1>h DEF StartUnit
    <2>2. TypeOK'
      BY <1>6, <2>1, <1>t, <1>l, <1>u, <1>s DEF StartUnit, TypeOK, Control, Child
    <2>3. Control(u)'
      BY <1>6, <1>l, <1>u, <1>s DEF StartUnit, TypeOK, Control, Child
    <2>4. QED
      BY <2>1, <2>2, <2>3
  <1>7. QED
    BY <1>1, <1>2, <1>3, <1>4, <1>5, <1>6 DEF ChildStep

\* What containers and people do changes no unit's program state.
ProgramSame == UNCHANGED <<opts, Args, procVars, mainPid, pidFile>>

HostStep ==
  \/ \E p \in Pids : Die(p)
  \/ \E id \in Ids : Reap(id) \/ CliStart(id) \/ CliRemove(id)
  \/ \E u \in Units, p \in Pids : ContainerReady(u, p)
  \/ \E u \in Units, id \in Ids : CliRun(id, u)

LEMMA HostStepTypeInv ==
  ASSUME TypeInv, HostStep
  PROVE  TypeInv' /\ ProgramSame
  <1>1. HostInv'
    <2>h. UNCHANGED daemonVars => HostInv'
      BY DEF TypeInv, HostInv, HostTypeOK, Exists, daemonVars
    <2>1. ASSUME NEW p \in Pids, Die(p) PROVE HostInv'
      BY <2>1, SameContainersHost DEF Die, ProcessEnds, TypeInv, HostInv, HostTypeOK
    <2>2. ASSUME NEW id \in Ids, Reap(id) \/ CliStart(id) \/ CliRemove(id)
          PROVE  HostInv'
      BY <2>2, ReapContainerHost, BootContainerHost, RemoveContainerHost
      DEF Reap, CliStart, CliRemove, TypeInv
    <2>3. ASSUME NEW u \in Units, NEW p \in Pids, ContainerReady(u, p)
          PROVE  HostInv'
      BY <2>3, <2>h DEF ContainerReady
    <2>4. ASSUME NEW u \in Units, NEW id \in Ids, CliRun(id, u)
          PROVE  HostInv'
      <3>1. 0 \in 0..MaxArgs
        BY HostAssumption
      <3>2. QED
        BY <2>4, <3>1, CreateContainerHost DEF CliRun, TypeInv
    <2>5. QED
      BY <2>1, <2>2, <2>3, <2>4 DEF HostStep
  <1>2. ProgramSame
    BY DEF HostStep, ProgramSame, Die, Reap, CliStart, CliRemove, ContainerReady,
           CliRun, toldVars, procVars
  <1>3. ready' \in [Units -> BOOLEAN]
    BY DEF HostStep, Die, Reap, CliStart, CliRemove, ContainerReady,
           CliRun, toldVars, TypeInv, TypeOK
  <1>4. TypeOK'
    BY <1>1, <1>2, <1>3 DEF TypeInv, TypeOK, HostInv, ProgramSame, procVars
  <1>5. \A u \in Units : Control(u)'
    BY <1>2 DEF TypeInv, Control, ProgramSame, procVars
  <1>6. QED
    BY <1>1, <1>2, <1>4, <1>5 DEF TypeInv

LEMMA StutterTypeInv ==
  ASSUME TypeInv, UNCHANGED vars
  PROVE  TypeInv'
  BY DEF TypeInv, TypeOK, HostInv, HostTypeOK, Exists, Control, vars

\* Every step keeps the types.
LEMMA NextTypeInv == TypeInv /\ [Next]_vars => TypeInv'
  <1> SUFFICES ASSUME TypeInv, [Next]_vars PROVE TypeInv'
    OBVIOUS
  <1>1. ASSUME NEW u \in Units, Step(u) PROVE TypeInv'
    BY <1>1, StepTypeInv
  <1>2. ASSUME NEW u \in Units,
               ChildStep(u) \/ CallFails(u) \/ Kill(u) \/ StopUnit(u) \/ StartUnit(u)
        PROVE  TypeInv'
    BY <1>2, UnitTypeInv
  <1>3. CASE HostStep
    BY <1>3, HostStepTypeInv
  <1>4. CASE UNCHANGED vars
    BY <1>4, StutterTypeInv
  <1>5. QED
    BY <1>1, <1>2, <1>3, <1>4 DEF Next, HostStep

LEMMA SpecTypeInv == Spec => []TypeInv
  BY InitTypeInv, NextTypeInv, PTL DEF Spec

\* Every variable keeps to its type: ids, pids and labels of main.go, and the
\* main process systemd is told of is a process or systemd-docker itself.
THEOREM TypeCorrect == Spec => []TypeOK
  BY SpecTypeInv, PTL DEF TypeInv

-----------------------------------------------------------------------------
(* The unit and its container.                                             *)

\* The container is one that unit u may have: it has the unit's name or, when
\* the unit uses none, was created by it without one.
Owns(u, id) ==
  IF opts[u].named THEN ctr[id].name = u
                   ELSE ctr[id].name = NoUnit /\ ctr[id].by = u

Moved   == {"notify", "mainPid", "recheck", "ready", "pidFile", "inspect",
            "wait", "remove"}
Unready == Fetching \union {"cgroups", "procs", "statPid", "writePid", "notify",
                            "mainPid", "recheck", "ready"}

\* c.Id is the unit's, c.Pid is a process of c.Id, the main process is c.Pid,
\* and where the program has got past the move that process is in the cgroup.
Tracks(u) ==
  /\ target[u] # NoId => Owns(u, target[u])
  /\ Id[u] # NoId => Owns(u, Id[u])
  /\ Pid[u] # NoPid => Id[u] # NoId /\ home[Pid[u]] = Id[u]
  /\ mainPid[u] # Self => Pid[u] # NoPid /\ mainPid[u] = Pid[u]
  /\ pc[u] \in Moved /\ Pid[u] \in alive => cgroup[Pid[u]] = u
  /\ mainPid[u] \in alive => cgroup[mainPid[u]] = u
  /\ pc[u] \in {"recheck", "ready"} => mainPid[u] # Self
  /\ pc[u] \in Unready /\ ~opts[u].notify => ~ready[u]
  /\ ready[u] /\ ~opts[u].notify => mainPid[u] # Self

Inv == TypeInv /\ \A u \in Units : Tracks(u)

\* What is asked of the daemon and the kernel changes neither the owner of an
\* id nor the home, cgroup or death of a pid that some unit holds.
HeldSame ==
  /\ \A id \in HeldIds \intersect Ids :
       ctr'[id].name = ctr[id].name /\ ctr'[id].by = ctr[id].by
  /\ \A p \in HeldPids \intersect Pids :
       home'[p] = home[p] /\ cgroup'[p] = cgroup[p] /\ (p \in alive' => p \in alive)

\* Nor does it create a container or change who made or names one.
SameOwners ==
  \A id \in Ids : /\ ctr'[id].name = ctr[id].name /\ ctr'[id].by = ctr[id].by
                  /\ Exists(id)' => Exists(id)

LEMMA UnchangedHeldSame ==
  ASSUME UNCHANGED <<ctr, home, cgroup>>, alive' \subseteq alive
  PROVE  HeldSame /\ SameOwners
  BY DEF HeldSame, SameOwners, Exists

LEMMA CreateContainerHeldSame ==
  ASSUME HostInv, NEW id \in Ids, NEW n, NEW unit, NEW args,
         CreateContainer(id, n, unit, args, HeldIds)
  PROVE  /\ HeldSame
         /\ ctr'[id].name = n /\ ctr'[id].by = unit
         /\ \A i \in Ids \ {id} : ctr'[i] = ctr[i]
  BY DEF HostInv, HostTypeOK, CreateContainer, HeldSame

LEMMA BootContainerHeldSame ==
  ASSUME HostInv, NEW id \in Ids, BootContainer(id, HeldPids)
  PROVE  HeldSame /\ SameOwners
  <1>1. PICK p \in Pids \ HeldPids :
          /\ ctr' = [ctr EXCEPT ![id].status = "running", ![id].pid = p]
          /\ home' = [home EXCEPT ![p] = id]
          /\ alive' = alive \union {p}
          /\ cgroup' = [cgroup EXCEPT ![p] = NoUnit]
    BY DEF BootContainer
  <1>2. ctr[id] \in Container
    BY DEF HostInv, HostTypeOK
  <1>3. ctr'[id] = [ctr[id] EXCEPT !.status = "running", !.pid = p]
    BY <1>1 DEF HostInv, HostTypeOK
  <1>4. ctr'[id].name = ctr[id].name /\ ctr'[id].by = ctr[id].by
    BY <1>2, <1>3 DEF Container
  <1>5. \A i \in Ids \ {id} : ctr'[i] = ctr[i]
    BY <1>1 DEF HostInv, HostTypeOK
  <1>6. QED
    <2>1. HeldSame
      BY <1>1, <1>4, <1>5 DEF HostInv, HostTypeOK, HeldSame
    <2>2. Exists(id)
      BY DEF BootContainer, Exists
    <2>3. QED
      BY <1>4, <1>5, <2>1, <2>2 DEF SameOwners, Exists

LEMMA StartContainerHeldSame ==
  ASSUME HostInv, NEW id \in Ids, StartContainer(id, HeldPids)
  PROVE  HeldSame /\ SameOwners
  BY BootContainerHeldSame, UnchangedHeldSame DEF StartContainer, daemonVars

LEMMA RemoveContainerHeldSame ==
  ASSUME HostInv, NEW id \in Ids, RemoveContainer(id)
  PROVE  HeldSame /\ SameOwners
  <1>1. ctr[id] \in Container
    BY DEF HostInv, HostTypeOK
  <1>2. ctr'[id] = [ctr[id] EXCEPT !.status = "none", !.pid = NoPid]
    BY DEF HostInv, HostTypeOK, RemoveContainer
  <1>3. ctr'[id].name = ctr[id].name /\ ctr'[id].by = ctr[id].by
    BY <1>1, <1>2 DEF Container
  <1>4. \A i \in Ids \ {id} : ctr'[i] = ctr[i]
    BY DEF HostInv, HostTypeOK, RemoveContainer
  <1>5. QED
    BY <1>3, <1>4 DEF RemoveContainer, HeldSame, SameOwners, Exists

LEMMA ReapContainerHeldSame ==
  ASSUME HostInv, NEW id \in Ids, ReapContainer(id)
  PROVE  HeldSame /\ SameOwners
  <1>1. ctr[id] \in Container
    BY DEF HostInv, HostTypeOK
  <1>2. ctr'[id] = [ctr[id] EXCEPT !.status = "exited", !.pid = NoPid]
    BY DEF HostInv, HostTypeOK, ReapContainer
  <1>3. ctr'[id].name = ctr[id].name /\ ctr'[id].by = ctr[id].by
    BY <1>1, <1>2 DEF Container
  <1>4. \A i \in Ids \ {id} : ctr'[i] = ctr[i]
    BY DEF HostInv, HostTypeOK, ReapContainer
  <1>5. QED
    BY <1>3, <1>4 DEF ReapContainer, HeldSame, SameOwners, Exists

\* A unit keeps track through whatever leaves its own state and what it holds,
\* also when its program ends or is still before the move.
LEMMA TracksKept ==
  ASSUME Inv, HeldSame, NEW v \in Units,
         opts'[v] = opts[v],
         \/ pc'[v] = pc[v] \/ pc'[v] \in Exited
         \/ pc[v] \in Fetching /\ pc'[v] \in Fetching,
         target'[v] = target[v],
         Id'[v] = Id[v], Pid'[v] = Pid[v], mainPid'[v] = mainPid[v],
         ready'[v] /\ ~opts[v].notify => ready[v], TypeOK'
  PROVE  Tracks(v)'
  <1>1. /\ target[v] \in HeldIds /\ Id[v] \in HeldIds
        /\ Pid[v] \in HeldPids /\ mainPid[v] \in HeldPids
    BY DEF HeldIds, HeldPids
  <1>2. /\ target[v] \in Ids \union {NoId} /\ Id[v] \in Ids \union {NoId}
        /\ Pid[v] \in Pids \union {NoPid} /\ mainPid[v] \in Pids \union {Self}
        /\ alive' \subseteq Pids
    BY DEF Inv, TypeInv, TypeOK, HostTypeOK
  <1>3. Tracks(v)
    BY DEF Inv
  <1>4. /\ target[v] # NoId => Owns(v, target[v])'
        /\ Id[v] # NoId => Owns(v, Id[v])'
    BY <1>1, <1>2, <1>3 DEF HeldSame, Tracks, Owns
  <1>5. Pid[v] # NoPid => Id[v] # NoId /\ home'[Pid[v]] = Id[v]
    BY <1>1, <1>2, <1>3 DEF HeldSame, Tracks
  <1>6. pc'[v] \in Moved /\ Pid[v] \in alive' => cgroup'[Pid[v]] = v
    BY <1>1, <1>2, <1>3 DEF HeldSame, Tracks, Moved, Fetching, Looking, Exited
  <1>7. mainPid[v] \in alive' => cgroup'[mainPid[v]] = v
    BY <1>1, <1>2, <1>3 DEF HeldSame, Tracks
  <1>8. /\ pc'[v] \in {"recheck", "ready"} => mainPid[v] # Self
        /\ pc'[v] \in Unready => pc[v] \in Unready
    BY <1>3 DEF Tracks, Unready, Fetching, Looking, Exited
  <1>9. QED
    BY <1>3, <1>4, <1>5, <1>6, <1>7, <1>8 DEF Tracks

LEMMA OthersTrack ==
  ASSUME Inv, TypeInv', HeldSame, NEW u \in Units, OthersSame(u)
  PROVE  \A v \in Units \ {u} : Tracks(v)'
  BY TracksKept DEF OthersSame, TypeInv

\* No process is held by two units.
LEMMA OneHolder ==
  ASSUME Inv, NEW u \in Units, NEW v \in Units, Pid[u] # NoPid, Pid[u] = Pid[v]
  PROVE  u = v
  <1>1. Id[u] = Id[v] /\ Owns(u, Id[u]) /\ Owns(v, Id[v])
    BY DEF Inv, Tracks
  <1>2. QED
    BY <1>1, HostAssumption DEF Owns

\* The process the program has moved is in the unit's cgroup, and nobody's
\* else has been moved.
LEMMA MoveWritePidTracks ==
  ASSUME Inv, TypeInv', NEW u \in Units, MoveWritePid(u)
  PROVE  \A v \in Units : Tracks(v)'
  <1> SUFFICES ASSUME NEW v \in Units PROVE Tracks(v)'
    OBVIOUS
  <1>t. TypeOK /\ Tracks(v) /\ Tracks(u) /\ Control(u) /\ Control(v)
    BY DEF Inv, TypeInv
  <1>1. Pid[u] # NoPid
    BY <1>t DEF MoveWritePid, Control, Holding
  <1>2. cgroup' = cgroup \/ cgroup' = [cgroup EXCEPT ![Pid[u]] = u]
    BY DEF MoveWritePid
  <1>3. CASE v = u
    <2>1. pc'[u] \in {"notify", "failed"}
      BY <1>t DEF MoveWritePid, Goto, TypeOK
    <2>2. pc'[u] = "notify" => Pid[u] \in Pids /\ cgroup'[Pid[u]] = u
      <3>1. pc'[u] = "notify" => /\ cgroup' = [cgroup EXCEPT ![Pid[u]] = u]
                                /\ Pid[u] \in alive
        BY <1>t DEF MoveWritePid, Goto, TypeOK
      <3>2. QED
        BY <3>1, <1>t DEF TypeOK, HostTypeOK
    <2>3. mainPid[u] # Self => mainPid[u] = Pid[u]
      BY <1>t DEF Tracks
    <2>4. mainPid[u] \in alive => cgroup'[mainPid[u]] = u
      BY <1>t, <1>2 DEF Tracks, TypeOK, HostTypeOK
    <2>5. ~opts[u].notify => ~ready[u]
      BY <1>t DEF MoveWritePid, Tracks, Unready
    <2>6. QED
      BY <1>3, <1>t, <2>1, <2>2, <2>4, <2>5
      DEF MoveWritePid, Tracks, Owns, Moved, Unready, Fetching, Looking, toldVars
  <1>4. CASE v # u
    <2>1. pc'[v] = pc[v]
      BY <1>t, <1>4 DEF MoveWritePid, Goto, TypeOK
    <2>2. Pid[v] # NoPid => Pid[v] # Pid[u]
      BY <1>1, <1>4, OneHolder
    <2>3. Pid[v] \in Pids => cgroup'[Pid[v]] = cgroup[Pid[v]]
      BY <1>t, <1>2, <2>2, HostAssumption DEF TypeOK, HostTypeOK
    <2>4. Pid[v] \in alive => cgroup'[Pid[v]] = cgroup[Pid[v]]
      BY <1>t, <2>3 DEF TypeOK, HostTypeOK
    <2>5. mainPid[v] \in alive => cgroup'[mainPid[v]] = v
      BY <1>t, <2>4, SelfAssumption DEF TypeOK, HostTypeOK, Tracks
    <2>6. QED
      BY <1>t, <2>1, <2>4, <2>5 DEF MoveWritePid, Tracks, Owns, toldVars
  <1>5. QED
    BY <1>3, <1>4

\* Every step of systemd-docker keeps track.
LEMMA StepTracks ==
  ASSUME Inv, TypeInv', NEW u \in Units, Step(u)
  PROVE  \A v \in Units : Tracks(v)'
  <1>t. TypeOK /\ HostInv /\ Tracks(u) /\ Control(u) /\ HostTypeOK
    BY DEF Inv, TypeInv, TypeOK
  <1>o. OthersSame(u)
    BY <1>t, StepOthersSame
  <1>h. HeldSame /\ Tracks(u)' => \A v \in Units : Tracks(v)'
    BY <1>o, OthersTrack
  <1>s. UNCHANGED daemonVars => HeldSame
    BY UnchangedHeldSame DEF daemonVars
  <1>l. \A l \in Labels : Goto(u, l) => pc'[u] = l
    BY <1>t, GotoType
  <1>c. \A id \in Ids : /\ ctr[id].status = "running" => ctr[id].pid # NoPid
                        /\ ctr[id].pid # NoPid => home[ctr[id].pid] = id
                        /\ ctr[id].pid \in Pids \union {NoPid}
    BY <1>t DEF HostInv, HostTypeOK, Container
  <1>n. Self \notin Pids /\ Self # NoPid /\ NoPid \notin Pids /\ NoId \notin Ids
    BY SelfAssumption, HostAssumption
  <1>d. alive \subseteq Pids
    BY <1>t DEF HostTypeOK
  <1> USE DEF toldVars, Labels, Exited, Looking, Fetching, Holding, Moved, Unready
  <1>1. CASE LookupInspect(u)
    <2>1. HeldSame
      BY <1>1, <1>s DEF LookupInspect, Inspected, Named
    <2>2. Tracks(u)'
      BY <1>1, <1>t, <1>l, <1>c, <1>n, <1>d
      DEF LookupInspect, Inspected, Named, TypeOK, Control, Tracks, Owns, daemonVars
    <2>3. QED
      BY <2>1, <2>2, <1>h
  <1>2. CASE LookupRemove(u)
    <2>1. HeldSame
      <3>1. target[u] \in Ids
        BY <1>2, <1>t DEF LookupRemove, TypeOK, Control
      <3>2. QED
        BY <1>2, <1>t, <1>s, <3>1, RemoveContainerHeldSame DEF LookupRemove
    <2>2. Tracks(u)'
      <3>1. /\ opts'[u] = opts[u] /\ target'[u] = target[u] /\ Id'[u] = Id[u]
            /\ Pid'[u] = Pid[u] /\ mainPid'[u] = mainPid[u] /\ ready'[u] = ready[u]
        BY <1>2 DEF LookupRemove
      <3>2. \/ pc'[u] \in Exited
            \/ pc[u] \in Fetching /\ pc'[u] \in Fetching
        BY <1>2, <1>t DEF LookupRemove, Goto, TypeOK
      <3>3. QED
        BY <2>1, <3>1, <3>2, TracksKept DEF TypeInv
    <2>3. QED
      BY <2>1, <2>2, <1>h
  <1>3. CASE LookupStart(u)
    <2>1. HeldSame
      <3>1. target[u] \in Ids
        BY <1>3, <1>t DEF LookupStart, TypeOK, Control
      <3>2. QED
        BY <1>3, <1>t, <1>s, <3>1, StartContainerHeldSame DEF LookupStart
    <2>2. Tracks(u)'
      <3>1. /\ opts'[u] = opts[u] /\ target'[u] = target[u] /\ Id'[u] = Id[u]
            /\ Pid'[u] = Pid[u] /\ mainPid'[u] = mainPid[u] /\ ready'[u] = ready[u]
        BY <1>3 DEF LookupStart
      <3>2. \/ pc'[u] \in Exited
            \/ pc[u] \in Fetching /\ pc'[u] \in Fetching
        BY <1>3, <1>t DEF LookupStart, Goto, TypeOK
      <3>3. QED
        BY <2>1, <3>1, <3>2, TracksKept DEF TypeInv
    <2>3. QED
      BY <2>1, <2>2, <1>h
  <1>4. CASE LookupReinspect(u)
    <2>1. HeldSame
      BY <1>4, <1>s DEF LookupReinspect, Named
    <2>2. Tracks(u)'
      BY <1>4, <1>t, <1>l, <1>c, <1>n, <1>d
      DEF LookupReinspect, Named, TypeOK, Control, Tracks, Owns, daemonVars
    <2>3. QED
      BY <2>1, <2>2, <1>h
  <1>5. CASE Launch(u)
    <2>1. HeldSame
      BY <1>5, <1>s DEF Launch
    <2>2. Tracks(u)'
      BY <1>5, <1>t, <1>l, <1>c, <1>n, <1>d
      DEF Launch, TypeOK, Control, Tracks, Owns, daemonVars
    <2>3. QED
      BY <2>1, <2>2, <1>h
  <1>6. CASE DockerExits(u)
    <2>1. HeldSame
      BY <1>6, <1>s DEF DockerExits
    <2>2. Tracks(u)'
      BY <1>6, <1>t, <1>l, <1>c, <1>n, <1>d
      DEF DockerExits, TypeOK, Control, Tracks, Owns, daemonVars
    <2>3. QED
      BY <2>1, <2>2, <1>h
  <1>7. CASE GetContainerPid(u)
    <2>1. HeldSame
      BY <1>7, <1>s DEF GetContainerPid
    <2>2. Tracks(u)'
      BY <1>7, <1>t, <1>l, <1>c, <1>n, <1>d
      DEF GetContainerPid, TypeOK, Control, Tracks, Owns, daemonVars
    <2>3. QED
      BY <2>1, <2>2, <1>h
  <1>8. CASE MoveReadCgroups(u)
    <2>1. HeldSame
      BY <1>8, <1>s DEF MoveReadCgroups
    <2>2. Tracks(u)'
      BY <1>8, <1>t, <1>l, <1>c, <1>n, <1>d
      DEF MoveReadCgroups, TypeOK, Control, Tracks, Owns, daemonVars
    <2>3. QED
      BY <2>1, <2>2, <1>h
  <1>9. CASE MoveListPids(u) \/ MoveStatPid(u)
    <2>1. HeldSame
      BY <1>9, <1>s DEF MoveListPids, MoveStatPid
    <2>2. Tracks(u)'
      BY <1>9, <1>t, <1>l, <1>c, <1>n, <1>d
      DEF MoveListPids, MoveStatPid, TypeOK, Control, Tracks, Owns, daemonVars
    <2>3. QED
      BY <2>1, <2>2, <1>h
  <1>10. CASE NotifyCheck(u)
    <2>1. HeldSame
      BY <1>10, <1>s DEF NotifyCheck
    <2>2. Tracks(u)'
      BY <1>10, <1>t, <1>l, <1>c, <1>n, <1>d, AfterLabels
      DEF NotifyCheck, TypeOK, Control, Tracks, Owns, daemonVars
    <2>3. QED
      BY <2>1, <2>2, <1>h
  <1>11. CASE NotifyMainPid(u)
    <2>1. HeldSame
      BY <1>11, <1>s DEF NotifyMainPid
    <2>2. Tracks(u)'
      BY <1>11, <1>t, <1>l, <1>c, <1>n, <1>d
      DEF NotifyMainPid, TypeOK, Control, Tracks, Owns, daemonVars
    <2>3. QED
      BY <2>1, <2>2, <1>h
  <1>12. CASE NotifyRecheck(u)
    <2>1. HeldSame
      BY <1>12, <1>s DEF NotifyRecheck
    <2>2. Tracks(u)'
      BY <1>12, <1>t, <1>l, <1>c, <1>n, <1>d, AfterLabels
      DEF NotifyRecheck, TypeOK, Control, Tracks, Owns, daemonVars
    <2>3. QED
      BY <2>1, <2>2, <1>h
  <1>13. CASE NotifyReady(u)
    <2>1. HeldSame
      BY <1>13, <1>s DEF NotifyReady
    <2>2. Tracks(u)'
      BY <1>13, <1>t, <1>l, <1>c, <1>n, <1>d, AfterLabels
      DEF NotifyReady, TypeOK, Control, Tracks, Owns, daemonVars
    <2>3. QED
      BY <2>1, <2>2, <1>h
  <1>14. CASE WritePidFile(u)
    <2>1. HeldSame
      BY <1>14, <1>s DEF WritePidFile
    <2>2. Tracks(u)'
      BY <1>14, <1>t, <1>l, <1>c, <1>n, <1>d, AfterLabels
      DEF WritePidFile, TypeOK, Control, Tracks, Owns, daemonVars
    <2>3. QED
      BY <2>1, <2>2, <1>h
  <1>15. CASE KeepAliveInspect(u) \/ KeepAliveWait(u)
    <2>1. HeldSame
      BY <1>15, <1>s DEF KeepAliveInspect, KeepAliveWait
    <2>2. Tracks(u)'
      BY <1>15, <1>t, <1>l, <1>c, <1>n, <1>d, AfterLabels
      DEF KeepAliveInspect, KeepAliveWait, TypeOK, Control, Tracks, Owns, daemonVars
    <2>3. QED
      BY <2>1, <2>2, <1>h
  <1>16. CASE RmContainer(u)
    <2>1. HeldSame
      <3>1. Id[u] \in Ids
        BY <1>16, <1>t DEF RmContainer, TypeOK, Control
      <3>2. QED
        BY <1>16, <1>t, <1>s, <3>1, RemoveContainerHeldSame DEF RmContainer
    <2>2. Tracks(u)'
      <3>1. /\ opts'[u] = opts[u] /\ target'[u] = target[u] /\ Id'[u] = Id[u]
            /\ Pid'[u] = Pid[u] /\ mainPid'[u] = mainPid[u] /\ ready'[u] = ready[u]
        BY <1>16 DEF RmContainer
      <3>2. \/ pc'[u] \in Exited
            \/ pc[u] \in Fetching /\ pc'[u] \in Fetching
        BY <1>16, <1>t DEF RmContainer, Goto, TypeOK
      <3>3. QED
        BY <2>1, <3>1, <3>2, TracksKept DEF TypeInv
    <2>3. QED
      BY <2>1, <2>2, <1>h
  <1>17. CASE MoveWritePid(u)
    BY <1>17, MoveWritePidTracks
  <1>q. QED
    BY <1>1, <1>2, <1>3, <1>4, <1>5, <1>6, <1>7, <1>8, <1>9, <1>10, <1>11, <1>12, <1>13, <1>14, <1>15, <1>16, <1>17 DEF Step

LEMMA UnitTracks ==
  ASSUME Inv, TypeInv', NEW u \in Units,
         ChildStep(u) \/ CallFails(u) \/ Kill(u) \/ StopUnit(u) \/ StartUnit(u)
  PROVE  \A v \in Units : Tracks(v)'
  <1>t. TypeOK /\ HostInv /\ Tracks(u) /\ Control(u) /\ HostTypeOK
    BY DEF Inv, TypeInv, TypeOK
  <1>h. HeldSame /\ Tracks(u)' => \A v \in Units : Tracks(v)'
    BY <1>t, UnitOthersSame, OthersTrack
  <1>s. UNCHANGED daemonVars => HeldSame
    BY UnchangedHeldSame DEF daemonVars
  <1>k. ASSUME HeldSame, UNCHANGED <<opts, target, Id, Pid, mainPid, ready>>,
               pc'[u] = pc[u] \/ pc'[u] \in Exited
        PROVE  Tracks(u)'
    BY <1>k, TracksKept DEF TypeInv
  <1>1. CASE DockerCreate(u)
    <2>1. HeldSame
      BY <1>1, <1>t, <1>s, CreateContainerHeldSame DEF DockerCreate
    <2>2. CASE UNCHANGED <<daemonVars, target>>
      BY <1>1, <2>1, <2>2, <1>k, <1>h DEF DockerCreate, toldVars
    <2>3. CASE ~UNCHANGED <<daemonVars, target>>
      <3>1. PICK id \in Ids :
              /\ CreateContainer(id, NameOf(u), u, Args[u], HeldIds)
              /\ target' = [target EXCEPT ![u] = id]
        BY <1>1, <2>3 DEF DockerCreate
      <3>2. Owns(u, target[u])'
        <4>1. ctr'[id].name = NameOf(u) /\ ctr'[id].by = u /\ target'[u] = id
          BY <1>t, <3>1, CreateContainerHeldSame DEF TypeOK
        <4>2. opts' = opts
          BY <1>1 DEF DockerCreate
        <4>3. QED
          BY <4>1, <4>2 DEF Owns, NameOf
      <3>3. Id[u] # NoId => Owns(u, Id[u])'
        <4>1. Id[u] \in Ids \union {NoId} /\ Id[u] \in HeldIds
          BY <1>t DEF TypeOK, HeldIds
        <4>2. opts' = opts /\ Id' = Id
          BY <1>1 DEF DockerCreate
        <4>3. QED
          BY <1>t, <2>1, <4>1, <4>2 DEF HeldSame, Owns, Tracks
      <3>4. UNCHANGED <<home, alive, cgroup>>
        BY <3>1 DEF CreateContainer
      <3>5. UNCHANGED <<opts, pc, Id, Pid, mainPid, ready>>
        BY <1>1 DEF DockerCreate, toldVars
      <3>6. QED
        BY <1>t, <3>2, <3>3, <3>4, <3>5, <1>h, <2>1 DEF Tracks
    <2>4. QED
      BY <2>1, <2>2, <2>3, <1>h
  <1>2. CASE DockerStart(u)
    <2>1. target[u] \in Ids
      BY <1>2, <1>t DEF DockerStart, TypeOK, Control
    <2>2. HeldSame
      BY <1>2, <1>t, <1>s, <2>1, StartContainerHeldSame DEF DockerStart
    <2>3. QED
      BY <1>2, <2>2, <1>k, <1>h DEF DockerStart, toldVars
  <1>3. CASE CallFails(u) \/ Kill(u)
    <2>1. HeldSame
      BY <1>3, <1>s DEF CallFails, Kill
    <2>2. pc'[u] = pc[u] \/ pc'[u] \in Exited
      BY <1>3, <1>t DEF CallFails, Kill, Goto, Exited, TypeOK
    <2>3. QED
      BY <1>3, <2>1, <2>2, <1>k, <1>h DEF CallFails, Kill, toldVars
  <1>4. CASE StopUnit(u)
    <2>1. HeldSame
      BY <1>4, UnchangedHeldSame DEF StopUnit
    <2>2. pc'[u] = pc[u] \/ pc'[u] \in Exited
      BY <1>4, <1>t DEF StopUnit, Exited, TypeOK
    <2>3. QED
      BY <1>4, <2>1, <2>2, <1>k, <1>h DEF StopUnit, toldVars
  <1>5. CASE StartUnit(u)
    <2>1. HeldSame
      BY <1>5, <1>s DEF StartUnit
    <2>2. /\ target'[u] = NoId /\ Id'[u] = NoId /\ Pid'[u] = NoPid
          /\ mainPid'[u] = Self /\ ready'[u] = FALSE
          /\ pc'[u] \in {"lookup", "launch"}
      BY <1>5, <1>t DEF StartUnit, Goto, TypeOK
    <2>3. alive' \subseteq Pids
      BY <1>5, <1>t DEF StartUnit, daemonVars, HostTypeOK
    <2>4. Tracks(u)'
      BY <2>2, <2>3, SelfAssumption DEF Tracks, Moved
    <2>5. QED
      BY <2>1, <2>4, <1>h
  <1>6. QED
    BY <1>1, <1>2, <1>3, <1>4, <1>5 DEF ChildStep

LEMMA HostStepTracks ==
  ASSUME Inv, TypeInv', HostStep
  PROVE  \A v \in Units : Tracks(v)'
  <1>1. HeldSame
    <2>1. ASSUME NEW p \in Pids, Die(p) PROVE HeldSame
      BY <2>1, UnchangedHeldSame DEF Die, ProcessEnds
    <2>2. ASSUME NEW id \in Ids, Reap(id) \/ CliStart(id) \/ CliRemove(id)
          PROVE  HeldSame
      BY <2>2, ReapContainerHeldSame, BootContainerHeldSame, RemoveContainerHeldSame
      DEF Reap, CliStart, CliRemove, Inv, TypeInv
    <2>3. ASSUME NEW u \in Units, NEW p \in Pids, ContainerReady(u, p)
          PROVE  HeldSame
      BY <2>3, UnchangedHeldSame DEF ContainerReady, daemonVars
    <2>4. ASSUME NEW u \in Units, NEW id \in Ids, CliRun(id, u)
          PROVE  HeldSame
      BY <2>4, CreateContainerHeldSame DEF CliRun, Inv, TypeInv
    <2>5. QED
      BY <2>1, <2>2, <2>3, <2>4 DEF HostStep
  <1>2. ProgramSame
    BY HostStepTypeInv DEF Inv
  <1>3. \A v \in Units : ready'[v] /\ ~opts[v].notify => ready[v]
    BY DEF HostStep, Die, Reap, CliStart, CliRemove, ContainerReady,
           CliRun, toldVars, Inv, TypeInv, TypeOK
  <1>4. QED
    BY <1>1, <1>2, <1>3, TracksKept DEF ProgramSame, procVars, TypeInv

LEMMA InitInv == Init => Inv
  <1> SUFFICES ASSUME Init PROVE Inv
    OBVIOUS
  <1>1. ASSUME NEW u \in Units PROVE Tracks(u)
    BY DEF Init, HostInit, Tracks, Moved
  <1>2. QED
    BY <1>1, InitTypeInv DEF Inv

LEMMA NextInv == Inv /\ [Next]_vars => Inv'
  <1> SUFFICES ASSUME Inv, [Next]_vars PROVE Inv'
    OBVIOUS
  <1>0. TypeInv'
    BY NextTypeInv DEF Inv
  <1> SUFFICES \A v \in Units : Tracks(v)'
    BY <1>0 DEF Inv
  <1>1. ASSUME NEW u \in Units, Step(u) PROVE \A v \in Units : Tracks(v)'
    BY <1>0, <1>1, StepTracks
  <1>2. ASSUME NEW u \in Units,
               ChildStep(u) \/ CallFails(u) \/ Kill(u) \/ StopUnit(u) \/ StartUnit(u)
        PROVE  \A v \in Units : Tracks(v)'
    BY <1>0, <1>2, UnitTracks
  <1>3. CASE HostStep
    BY <1>0, <1>3, HostStepTracks
  <1>4. CASE UNCHANGED vars
    BY <1>4 DEF vars, Inv, Tracks, Owns
  <1>5. QED
    BY <1>1, <1>2, <1>3, <1>4 DEF Next, HostStep

LEMMA SpecInv == Spec => []Inv
  BY InitInv, NextInv, PTL DEF Spec

\* systemd never follows a main process outside the unit's own cgroup: the
\* move comes before MAINPID on every path, and no other unit or restarted
\* container takes the process away (main.go:538-546).
THEOREM MainProcessTracked == Spec => []TrackedByUnit
  <1>1. Inv => TrackedByUnit
    BY DEF Inv, TypeInv, Tracks, TrackedByUnit
  <1>2. QED
    BY <1>1, SpecInv, PTL

\* The process announced with MAINPID belongs to the container c.Id, whatever
\* happened between the calls that c.Id and c.Pid come from, and READY=1 is
\* sent after MAINPID (main.go:162-183, 227, 431-446).
THEOREM MainProcessOfContainer == Spec => []AnnouncedProcess
  <1>1. Inv => AnnouncedProcess
    BY DEF Inv, Tracks, AnnouncedProcess
  <1>2. QED
    BY <1>1, SpecInv, PTL

-----------------------------------------------------------------------------
(* Orphans.                                                                *)

\* A container made by a unit that uses --name has that name.
MadeNamed ==
  \A u \in Units, id \in Ids :
    opts[u].named /\ Exists(id) /\ ctr[id].by = u => ctr[id].name = u

LEMMA SameOwnersMadeNamed ==
  ASSUME MadeNamed, SameOwners, opts' = opts
  PROVE  MadeNamed'
  BY DEF MadeNamed, SameOwners

LEMMA CreateMadeNamed ==
  ASSUME MadeNamed, HostInv, NEW id \in Ids, NEW n, NEW unit, NEW args,
         CreateContainer(id, n, unit, args, HeldIds), opts' = opts,
         unit \in Units => n = NameOf(unit)
  PROVE  MadeNamed'
  <1>1. /\ ctr'[id].name = n /\ ctr'[id].by = unit
        /\ \A i \in Ids \ {id} : ctr'[i] = ctr[i]
    BY CreateContainerHeldSame
  <1>2. QED
    BY <1>1 DEF MadeNamed, NameOf, Exists

LEMMA NextMadeNamed == Inv /\ MadeNamed /\ [Next]_vars => MadeNamed'
  <1> SUFFICES ASSUME Inv, MadeNamed, [Next]_vars PROVE MadeNamed'
    OBVIOUS
  <1>t. TypeOK /\ HostInv /\ HostTypeOK
    BY DEF Inv, TypeInv, TypeOK
  <1>s. UNCHANGED daemonVars => SameOwners
    BY UnchangedHeldSame DEF daemonVars
  <1>k. SameOwners /\ opts' = opts => MadeNamed'
    BY SameOwnersMadeNamed
  <1>1. ASSUME NEW u \in Units, Step(u) PROVE MadeNamed'
    <2>1. opts' = opts
      BY <1>t, <1>1, StepOthersSame DEF OthersSame
    <2>i. Control(u)
      BY DEF Inv, TypeInv
    <2>2. CASE LookupRemove(u)
      <3>1. target[u] \in Ids
        BY <2>2, <2>i, <1>t DEF LookupRemove, Control, TypeOK, Looking
      <3>2. QED
        BY <2>1, <2>2, <3>1, <1>t, <1>s, <1>k, RemoveContainerHeldSame DEF LookupRemove
    <2>3. CASE LookupStart(u)
      <3>1. target[u] \in Ids
        BY <2>3, <2>i, <1>t DEF LookupStart, Control, TypeOK, Looking
      <3>2. QED
        BY <2>1, <2>3, <3>1, <1>t, <1>s, <1>k, StartContainerHeldSame DEF LookupStart
    <2>4. CASE RmContainer(u)
      <3>1. Id[u] \in Ids
        BY <2>4, <2>i, <1>t DEF RmContainer, Control, TypeOK, Holding
      <3>2. QED
        BY <2>1, <2>4, <3>1, <1>t, <1>s, <1>k, RemoveContainerHeldSame DEF RmContainer
    <2>5. CASE MoveWritePid(u)
      BY <2>1, <2>5, <1>k DEF MoveWritePid, SameOwners, Exists
    <2>6. CASE ~(LookupRemove(u) \/ LookupStart(u) \/ RmContainer(u) \/ MoveWritePid(u))
      <3>1. UNCHANGED daemonVars
        BY <1>1, <2>6
        DEF Step, LookupInspect, Inspected, LookupReinspect, Launch, DockerExits,
            GetContainerPid, MoveReadCgroups, MoveListPids, MoveStatPid, NotifyCheck,
            NotifyMainPid, NotifyRecheck, NotifyReady, WritePidFile, KeepAliveInspect,
            KeepAliveWait
      <3>2. QED
        BY <3>1, <2>1, <1>s, <1>k
    <2>7. QED
      BY <2>2, <2>3, <2>4, <2>5, <2>6
  <1>2. ASSUME NEW u \in Units,
               ChildStep(u) \/ CallFails(u) \/ Kill(u) \/ StopUnit(u) \/ StartUnit(u)
        PROVE  MadeNamed'
    <2>1. opts' = opts
      BY <1>t, <1>2, UnitOthersSame DEF OthersSame
    <2>2. CASE DockerCreate(u)
      BY <2>1, <2>2, <1>t, <1>s, <1>k, CreateMadeNamed DEF DockerCreate
    <2>3. CASE DockerStart(u)
      <3>1. target[u] \in Ids
        BY <2>3, <1>t DEF DockerStart, Control, TypeOK, Inv, TypeInv
      <3>2. QED
        BY <2>1, <2>3, <3>1, <1>t, <1>s, <1>k, StartContainerHeldSame DEF DockerStart
    <2>4. CASE CallFails(u) \/ Kill(u) \/ StartUnit(u)
      BY <2>1, <2>4, <1>s, <1>k DEF CallFails, Kill, StartUnit
    <2>5. CASE StopUnit(u)
      BY <2>1, <2>5, <1>k, UnchangedHeldSame DEF StopUnit
    <2>6. QED
      BY <1>2, <2>2, <2>3, <2>4, <2>5 DEF ChildStep
  <1>3. CASE HostStep
    <2>1. opts' = opts
      BY <1>3, HostStepTypeInv DEF Inv, ProgramSame
    <2>2. ASSUME NEW p \in Pids, Die(p) PROVE MadeNamed'
      BY <2>1, <2>2, <1>k, UnchangedHeldSame DEF Die, ProcessEnds
    <2>3. ASSUME NEW id \in Ids, Reap(id) \/ CliStart(id) \/ CliRemove(id)
          PROVE  MadeNamed'
      BY <2>1, <2>3, <1>t, <1>k, ReapContainerHeldSame, BootContainerHeldSame,
         RemoveContainerHeldSame DEF Reap, CliStart, CliRemove
    <2>4. ASSUME NEW u \in Units, NEW p \in Pids, ContainerReady(u, p)
          PROVE  MadeNamed'
      BY <2>1, <2>4, <1>s, <1>k DEF ContainerReady
    <2>5. ASSUME NEW u \in Units, NEW id \in Ids, CliRun(id, u)
          PROVE  MadeNamed'
      BY <2>1, <2>5, <1>t, CreateMadeNamed, HostAssumption DEF CliRun
    <2>6. QED
      BY <1>3, <2>2, <2>3, <2>4, <2>5 DEF HostStep
  <1>4. CASE UNCHANGED vars
    BY <1>4, <1>s, <1>k DEF vars, daemonVars
  <1>5. QED
    BY <1>1, <1>2, <1>3, <1>4 DEF Next, HostStep

LEMMA SpecMadeNamed == Spec => []MadeNamed
  <1>1. Init => MadeNamed
    BY DEF Init, HostInit, NoContainer, MadeNamed, Exists
  <1>2. QED
    BY <1>1, SpecInv, NextMadeNamed, PTL DEF Spec

\* However often and wherever the starts of a unit with --name fail, it leaves
\* one container at most: every container it makes has its name, and the
\* daemon gives a name once (main.go:148-188).
THEOREM OneContainer == Spec => []NoOrphans
  <1>1. Inv /\ MadeNamed => NoOrphans
    BY HostAssumption DEF Inv, TypeInv, HostInv, MadeNamed, NoOrphans, MadeBy
  <1>2. QED
    BY <1>1, SpecInv, SpecMadeNamed, PTL

-----------------------------------------------------------------------------
(* One unit at a time.                                                     *)

\* What one unit does, or is done to it.
UnitStep(u) ==
  Step(u) \/ ChildStep(u) \/ CallFails(u) \/ Kill(u) \/ StopUnit(u) \/ StartUnit(u)

\* A container is one unit's at most.
LEMMA OneOwner ==
  ASSUME NEW u \in Units, NEW v \in Units, NEW id, Owns(u, id), Owns(v, id)
  PROVE  u = v
  BY HostAssumption DEF Owns

\* The daemon gives one unit's pid to no other's container, starts a container
\* for nobody else, and all that happens to it is one of these.
DaemonStep ==
  \/ UNCHANGED <<ctr, home, cgroup>> /\ alive' \subseteq alive
  \/ \E u \in Units : MoveWritePid(u)
  \/ \E id \in Ids, n \in Units \union {NoUnit}, unit \in Units \union {NoUnit},
        args \in 0..MaxArgs : CreateContainer(id, n, unit, args, HeldIds)
  \/ \E id \in Ids :
       BootContainer(id, HeldPids) \/ RemoveContainer(id) \/ ReapContainer(id)

\* What a step of unit u asks of the daemon is about the ids u holds.
UnitDaemonStep(u) ==
  \/ UNCHANGED <<ctr, home, alive, cgroup>>
  \/ StopUnit(u) \/ MoveWritePid(u)
  \/ \E id \in Ids :
       CreateContainer(id, NameOf(u), u, Args[u], HeldIds) /\ dpc[u] = "create"
  \/ /\ target[u] \in Ids /\ BootContainer(target[u], HeldPids)
     /\ pc[u] = "startOld" \/ dpc[u] = "start"
  \/ target[u] \in Ids /\ RemoveContainer(target[u]) /\ LookupRemove(u)
  \/ Id[u] \in Ids /\ RemoveContainer(Id[u]) /\ RmContainer(u)

LEMMA UnitStepDaemon ==
  ASSUME Inv, NEW u \in Units, UnitStep(u)
  PROVE  UnitDaemonStep(u)
  <1>t. TypeOK /\ Control(u)
    BY DEF Inv, TypeInv
  <1>1. CASE LookupRemove(u)
    <2>1. target[u] \in Ids
      BY <1>1, <1>t DEF LookupRemove, Control, TypeOK, Looking
    <2>2. QED
      BY <1>1, <2>1 DEF LookupRemove, UnitDaemonStep, daemonVars
  <1>2. CASE LookupStart(u)
    <2>1. target[u] \in Ids
      BY <1>2, <1>t DEF LookupStart, Control, TypeOK, Looking
    <2>2. QED
      BY <1>2, <2>1 DEF LookupStart, StartContainer, UnitDaemonStep, daemonVars
  <1>3. CASE RmContainer(u)
    <2>1. Id[u] \in Ids
      BY <1>3, <1>t DEF RmContainer, Control, TypeOK, Holding
    <2>2. QED
      BY <1>3, <2>1 DEF RmContainer, UnitDaemonStep, daemonVars
  <1>4. CASE MoveWritePid(u) \/ StopUnit(u)
    BY <1>4 DEF UnitDaemonStep
  <1>5. CASE DockerCreate(u)
    BY <1>5 DEF DockerCreate, UnitDaemonStep, daemonVars
  <1>6. CASE DockerStart(u)
    <2>1. target[u] \in Ids
      BY <1>6, <1>t DEF DockerStart, Control, TypeOK
    <2>2. QED
      BY <1>6, <2>1 DEF DockerStart, StartContainer, UnitDaemonStep, daemonVars
  <1>7. CASE CallFails(u) \/ Kill(u) \/ StartUnit(u)
    BY <1>7 DEF CallFails, Kill, StartUnit, UnitDaemonStep, daemonVars
  <1>8. CASE /\ Step(u)
             /\ ~(LookupRemove(u) \/ LookupStart(u) \/ RmContainer(u) \/ MoveWritePid(u))
    <2>1. UNCHANGED daemonVars
      BY <1>8
      DEF Step, LookupInspect, Inspected, LookupReinspect, Launch, DockerExits,
          GetContainerPid, MoveReadCgroups, MoveListPids, MoveStatPid, NotifyCheck,
          NotifyMainPid, NotifyRecheck, NotifyReady, WritePidFile, KeepAliveInspect,
          KeepAliveWait
    <2>2. QED
      BY <2>1 DEF UnitDaemonStep, daemonVars
  <1>9. QED
    BY <1>1, <1>2, <1>3, <1>4, <1>5, <1>6, <1>7, <1>8 DEF UnitStep, ChildStep

\* A unit makes containers under its own name, and so do people.
LEMMA NextDaemon ==
  ASSUME Inv, [Next]_vars
  PROVE  DaemonStep
  <1>1. ASSUME NEW u \in Units, UnitStep(u) PROVE DaemonStep
    <2>1. NameOf(u) \in Units \union {NoUnit} /\ Args[u] \in 0..MaxArgs
      BY HostAssumption DEF Inv, TypeInv, TypeOK, NameOf
    <2>2. StopUnit(u) => UNCHANGED <<ctr, home, cgroup>> /\ alive' \subseteq alive
      BY DEF StopUnit
    <2>3. UnitDaemonStep(u)
      BY <1>1, UnitStepDaemon
    <2>4. QED
      BY <2>1, <2>2, <2>3 DEF UnitDaemonStep, DaemonStep
  <1>2. CASE HostStep
    <2>1. ASSUME NEW p \in Pids, Die(p) PROVE DaemonStep
      BY <2>1 DEF Die, ProcessEnds, DaemonStep
    <2>2. ASSUME NEW id \in Ids, Reap(id) \/ CliStart(id) \/ CliRemove(id)
          PROVE  DaemonStep
      BY <2>2 DEF Reap, CliStart, CliRemove, DaemonStep
    <2>3. ASSUME NEW u \in Units, NEW p \in Pids, ContainerReady(u, p)
          PROVE  DaemonStep
      BY <2>3 DEF ContainerReady, daemonVars, DaemonStep
    <2>4. ASSUME NEW u \in Units, NEW id \in Ids, CliRun(id, u)
          PROVE  DaemonStep
      <3>1. 0 \in 0..MaxArgs
        BY HostAssumption
      <3>2. QED
        BY <2>4, <3>1 DEF CliRun, DaemonStep
    <2>5. QED
      BY <1>2, <2>1, <2>2, <2>3, <2>4 DEF HostStep
  <1>3. CASE UNCHANGED vars
    BY <1>3 DEF vars, DaemonStep
  <1>4. QED
    BY <1>1, <1>2, <1>3 DEF Next, HostStep, UnitStep

\* Every step is of one unit, and leaves the others' programs alone, or of
\* none and leaves all of them alone.
OthersKept(u) ==
  /\ OthersSame(u)
  /\ \A v \in Units \ {u} : Args'[v] = Args[v] /\ pidFile'[v] = pidFile[v]

LEMMA UnitStepOthersKept ==
  ASSUME Inv, NEW u \in Units, UnitStep(u)
  PROVE  OthersKept(u)
  <1>t. TypeOK
    BY DEF Inv, TypeInv
  <1>1. OthersSame(u)
    BY <1>t, StepOthersSame, UnitOthersSame DEF UnitStep
  <1>2. Args' = Args \/ StartUnit(u)
    BY DEF UnitStep, Step, ChildStep, CallFails, Kill, StopUnit, LookupInspect, Inspected,
           LookupRemove, LookupStart, LookupReinspect, Launch, DockerExits,
           GetContainerPid, MoveReadCgroups, MoveListPids, MoveStatPid, MoveWritePid,
           NotifyCheck, NotifyMainPid, NotifyRecheck, NotifyReady, WritePidFile,
           KeepAliveInspect, KeepAliveWait, RmContainer, DockerCreate, DockerStart
  <1>3. \A v \in Units \ {u} : Args'[v] = Args[v]
    BY <1>t, <1>2 DEF StartUnit, TypeOK
  <1>4. pidFile' = pidFile \/ WritePidFile(u)
    BY DEF UnitStep, Step, ChildStep, CallFails, Kill, StopUnit, StartUnit, LookupInspect,
           Inspected, LookupRemove, LookupStart, LookupReinspect, Launch, DockerExits,
           GetContainerPid, MoveReadCgroups, MoveListPids, MoveStatPid, MoveWritePid,
           NotifyCheck, NotifyMainPid, NotifyRecheck, NotifyReady, KeepAliveInspect,
           KeepAliveWait, RmContainer, DockerCreate, DockerStart, toldVars
  <1>5. \A v \in Units \ {u} : pidFile'[v] = pidFile[v]
    BY <1>t, <1>4 DEF WritePidFile, TypeOK
  <1>6. QED
    BY <1>1, <1>3, <1>5 DEF OthersKept

LEMMA MoverSteps ==
  ASSUME Inv, [Next]_vars, NEW u \in Units, pc'[u] # pc[u] \/ dpc'[u] # dpc[u]
  PROVE  UnitStep(u)
  <1>1. ASSUME NEW v \in Units, UnitStep(v) PROVE UnitStep(u)
    BY <1>1, UnitStepOthersKept DEF OthersKept, OthersSame
  <1>2. HostStep => FALSE
    BY HostStepTypeInv DEF Inv, ProgramSame, procVars
  <1>3. QED
    BY <1>1, <1>2 DEF Next, HostStep, UnitStep, vars

-----------------------------------------------------------------------------
(* Living processes.                                                       *)

\* A living process is the one the daemon runs for its container, and in a
\* unit's cgroup only if the container is one the unit may have.
Belongs ==
  \A p \in alive :
    /\ home[p] \in Ids
    /\ ctr[home[p]].status = "running" /\ ctr[home[p]].pid = p
    /\ cgroup[p] # NoUnit => Owns(cgroup[p], home[p])

LEMMA CreateBelongs ==
  ASSUME Belongs, HostInv, opts' = opts, NEW id \in Ids, NEW n, NEW unit, NEW args,
         CreateContainer(id, n, unit, args, HeldIds)
  PROVE  Belongs'
  <1>1. /\ \A i \in Ids \ {id} : ctr'[i] = ctr[i]
        /\ ctr[id].status = "none"
        /\ UNCHANGED <<home, alive, cgroup>>
    BY CreateContainerHeldSame DEF CreateContainer, Exists
  <1>2. \A p \in alive : home[p] \in Ids \ {id}
    BY <1>1 DEF Belongs
  <1>3. QED
    BY <1>1, <1>2 DEF Belongs, Owns

LEMMA BootBelongs ==
  ASSUME Belongs, HostInv, opts' = opts, NEW id \in Ids, BootContainer(id, HeldPids)
  PROVE  Belongs'
  <1>1. PICK p \in Pids :
          /\ p \notin alive
          /\ ctr' = [ctr EXCEPT ![id].status = "running", ![id].pid = p]
          /\ home' = [home EXCEPT ![p] = id]
          /\ alive' = alive \union {p}
          /\ cgroup' = [cgroup EXCEPT ![p] = NoUnit]
    BY DEF BootContainer
  <1>2. ctr[id] \in Container /\ alive \subseteq Pids
    BY DEF HostInv, HostTypeOK
  <1>3. ctr'[id] = [ctr[id] EXCEPT !.status = "running", !.pid = p]
    BY <1>1 DEF HostInv, HostTypeOK
  <1>4. ctr'[id].status = "running" /\ ctr'[id].pid = p
    BY <1>2, <1>3 DEF Container
  <1>5. \A i \in Ids \ {id} : ctr'[i] = ctr[i]
    BY <1>1 DEF HostInv, HostTypeOK
  <1>6. home'[p] = id /\ cgroup'[p] = NoUnit
    BY <1>1 DEF HostInv, HostTypeOK
  <1>7. ASSUME NEW q \in alive
        PROVE  /\ home'[q] = home[q] /\ cgroup'[q] = cgroup[q]
               /\ home[q] \in Ids \ {id}
    <2>1. home'[q] = home[q] /\ cgroup'[q] = cgroup[q]
      BY <1>1, <1>2 DEF HostInv, HostTypeOK
    <2>2. home[q] # id
      BY DEF Belongs, BootContainer
    <2>3. QED
      BY <2>1, <2>2 DEF Belongs
  <1>8. ASSUME NEW q \in alive
        PROVE  /\ home'[q] \in Ids
               /\ ctr'[home'[q]].status = "running" /\ ctr'[home'[q]].pid = q
               /\ cgroup'[q] # NoUnit => Owns(cgroup[q], home[q])'
    <2>1. ctr'[home[q]] = ctr[home[q]] /\ home'[q] = home[q] /\ cgroup'[q] = cgroup[q]
      BY <1>5, <1>7
    <2>2. QED
      BY <2>1 DEF Belongs, Owns
  <1>9. \A q \in alive' : q \in alive \/ q = p
    BY <1>1
  <1>10. QED
    BY <1>4, <1>6, <1>8, <1>9 DEF Belongs

LEMMA RemoveBelongs ==
  ASSUME Belongs, HostInv, opts' = opts, NEW id \in Ids, RemoveContainer(id)
  PROVE  Belongs'
  <1>1. /\ \A i \in Ids \ {id} : ctr'[i] = ctr[i]
        /\ alive' = alive \ {ctr[id].pid}
        /\ UNCHANGED <<home, cgroup>>
    BY DEF RemoveContainer, HostInv, HostTypeOK
  <1>2. \A p \in alive' : p \in alive /\ home[p] \in Ids \ {id}
    BY <1>1 DEF Belongs
  <1>3. QED
    BY <1>1, <1>2 DEF Belongs, Owns

LEMMA ReapBelongs ==
  ASSUME Belongs, HostInv, opts' = opts, NEW id \in Ids, ReapContainer(id)
  PROVE  Belongs'
  <1>1. /\ \A i \in Ids \ {id} : ctr'[i] = ctr[i]
        /\ ctr[id].pid \notin alive
        /\ UNCHANGED <<home, alive, cgroup>>
    BY DEF ReapContainer, HostInv, HostTypeOK
  <1>2. \A p \in alive : home[p] \in Ids \ {id}
    BY <1>1 DEF Belongs
  <1>3. QED
    BY <1>1, <1>2 DEF Belongs, Owns

LEMMA MoveBelongs ==
  ASSUME Belongs, Inv, opts' = opts, NEW u \in Units, MoveWritePid(u)
  PROVE  Belongs'
  <1>1. UNCHANGED <<ctr, home, alive>>
    BY DEF MoveWritePid
  <1>2. Pid[u] # NoPid /\ home[Pid[u]] = Id[u] /\ Owns(u, Id[u])
    BY DEF Inv, TypeInv, Control, Tracks, MoveWritePid, Holding
  <1>t. alive \subseteq Pids /\ cgroup \in [Pids -> Units \union {NoUnit}]
    BY DEF Inv, TypeInv, HostInv, HostTypeOK
  <1>3. \A p \in alive : cgroup'[p] = cgroup[p] \/ (p = Pid[u] /\ cgroup'[p] = u)
    <2>1. cgroup' = cgroup \/ cgroup' = [cgroup EXCEPT ![Pid[u]] = u]
      BY DEF MoveWritePid
    <2> TAKE p \in alive
    <2>2. p \in Pids
      BY <1>t
    <2>3. CASE p # Pid[u]
      BY <1>t, <2>1, <2>2, <2>3
    <2>4. CASE p = Pid[u]
      BY <1>t, <2>1, <2>2, <2>4
    <2>5. QED
      BY <2>3, <2>4
  <1>4. QED
    BY <1>1, <1>2, <1>3 DEF Belongs, Owns

LEMMA NextBelongs == Inv /\ Belongs /\ [Next]_vars => Belongs'
  <1> SUFFICES ASSUME Inv, Belongs, [Next]_vars PROVE Belongs'
    OBVIOUS
  <1>1. opts' = opts
    BY UnitStepOthersKept, HostStepTypeInv
    DEF Next, HostStep, UnitStep, vars, OthersKept, OthersSame, ProgramSame, Inv
  <1>2. HostInv
    BY DEF Inv, TypeInv
  <1>3. DaemonStep
    BY NextDaemon
  <1>4. CASE UNCHANGED <<ctr, home, cgroup>> /\ alive' \subseteq alive
    BY <1>1, <1>4 DEF Belongs, Owns
  <1>5. QED
    BY <1>1, <1>2, <1>3, <1>4, CreateBelongs, BootBelongs, RemoveBelongs, ReapBelongs,
       MoveBelongs DEF DaemonStep

LEMMA SpecBelongs == Spec => []Belongs
  <1>1. Init => Belongs
    BY DEF Init, HostInit, Belongs
  <1>2. QED
    BY <1>1, SpecInv, NextBelongs, PTL DEF Spec

\* A step of unit u changes the record of no container but its own, and kills
\* or moves no process that is in another unit's cgroup.
LEMMA UnitStepIsolated ==
  ASSUME Inv, Belongs, NEW u \in Units, UnitStep(u)
  PROVE  /\ \A id \in Ids : ctr'[id] # ctr[id] /\ Exists(id) =>
              ctr[id].name = u \/ ctr[id].by = u
         /\ \A p \in alive : cgroup[p] \notin {u, NoUnit} =>
              p \in alive' /\ cgroup'[p] = cgroup[p]
  <1>t. /\ HostInv /\ HostTypeOK /\ Tracks(u) /\ Control(u)
        /\ NoId \notin Ids /\ NoPid \notin Pids
    BY HostAssumption DEF Inv, TypeInv, HostInv
  <1>o. \A id : Owns(u, id) => ctr[id].name = u \/ ctr[id].by = u
    BY DEF Owns
  <1>r. ASSUME NEW id \in Ids, Owns(u, id), RemoveContainer(id)
        PROVE  /\ \A i \in Ids \ {id} : ctr'[i] = ctr[i]
               /\ \A p \in alive : cgroup[p] \notin {u, NoUnit} =>
                    p \in alive' /\ cgroup'[p] = cgroup[p]
    <2>1. /\ \A i \in Ids \ {id} : ctr'[i] = ctr[i]
          /\ alive' = alive \ {ctr[id].pid} /\ cgroup' = cgroup
      BY <1>t, <1>r DEF RemoveContainer, HostTypeOK
    <2>2. ASSUME NEW p \in alive, cgroup[p] \notin {u, NoUnit}
          PROVE  p # ctr[id].pid
      <3>1. cgroup[p] \in Units /\ Owns(cgroup[p], home[p]) /\ p # NoPid
        BY <1>t, <2>2 DEF Belongs, HostTypeOK
      <3>2. p = ctr[id].pid => home[p] = id
        BY <1>t, <3>1 DEF HostInv
      <3>3. QED
        BY <1>r, <2>2, <3>1, <3>2, OneOwner
    <2>3. QED
      BY <2>1, <2>2
  <1>1. CASE UNCHANGED <<ctr, home, alive, cgroup>>
    BY <1>1
  <1>2. CASE StopUnit(u)
    BY <1>2 DEF StopUnit
  <1>3. CASE MoveWritePid(u)
    <2>1. Pid[u] # NoPid /\ home[Pid[u]] = Id[u] /\ Owns(u, Id[u])
      BY <1>3, <1>t DEF Control, Tracks, MoveWritePid, Holding
    <2>2. \A p \in alive : p # Pid[u] => cgroup'[p] = cgroup[p]
      BY <1>3, <1>t DEF MoveWritePid, HostTypeOK
    <2>3. ASSUME NEW p \in alive, cgroup[p] \notin {u, NoUnit}
          PROVE  p # Pid[u]
      <3>1. cgroup[p] \in Units /\ Owns(cgroup[p], home[p])
        BY <1>t, <2>3 DEF Belongs, HostTypeOK
      <3>2. QED
        BY <2>1, <2>3, <3>1, OneOwner
    <2>4. ctr' = ctr /\ alive' = alive
      BY <1>3 DEF MoveWritePid
    <2>5. QED
      BY <2>2, <2>3, <2>4
  <1>4. CASE \E id \in Ids : CreateContainer(id, NameOf(u), u, Args[u], HeldIds)
    BY <1>4, <1>t, CreateContainerHeldSame DEF CreateContainer
  <1>5. CASE target[u] \in Ids /\ BootContainer(target[u], HeldPids)
    <2>1. PICK p \in Pids :
            /\ p \notin alive
            /\ ctr' = [ctr EXCEPT ![target[u]].status = "running", ![target[u]].pid = p]
            /\ alive' = alive \union {p}
            /\ cgroup' = [cgroup EXCEPT ![p] = NoUnit]
      BY <1>5 DEF BootContainer
    <2>2. \A i \in Ids \ {target[u]} : ctr'[i] = ctr[i]
      BY <1>t, <2>1 DEF HostTypeOK
    <2>3. \A q \in alive : q \in alive' /\ cgroup'[q] = cgroup[q]
      BY <1>t, <2>1 DEF HostTypeOK
    <2>4. Owns(u, target[u])
      BY <1>5, <1>t DEF Tracks
    <2>5. QED
      BY <1>o, <2>2, <2>3, <2>4
  <1>6. CASE target[u] \in Ids /\ RemoveContainer(target[u])
    <2>1. Owns(u, target[u])
      BY <1>6, <1>t DEF Tracks
    <2>2. QED
      BY <1>6, <1>o, <1>r, <2>1
  <1>7. CASE Id[u] \in Ids /\ RemoveContainer(Id[u])
    <2>1. Owns(u, Id[u])
      BY <1>7, <1>t DEF Tracks
    <2>2. QED
      BY <1>7, <1>o, <1>r, <2>1
  <1>8. QED
    BY <1>1, <1>2, <1>3, <1>4, <1>5, <1>6, <1>7, UnitStepDaemon DEF UnitDaemonStep

\* What a unit's systemd-docker and its docker run do never touches another
\* unit's container or process: it starts and removes only ids it got by its
\* own name or from its own docker run, and the process it moves or kills is
\* of such a container (main.go:154, 167, 173, 398, 521).
THEOREM UnitsIsolated == Spec => Isolation
  <1>1. Inv /\ Belongs /\ [Next]_vars =>
          [\A u \in Units : pc'[u] # pc[u] \/ dpc'[u] # dpc[u] =>
             /\ \A id \in Ids : ctr'[id] # ctr[id] /\ Exists(id) =>
                  ctr[id].name = u \/ ctr[id].by = u
             /\ \A p \in alive : cgroup[p] \notin {u, NoUnit} =>
                  p \in alive' /\ cgroup'[p] = cgroup[p]]_vars
    BY MoverSteps, UnitStepIsolated
  <1>2. QED
    BY <1>1, SpecInv, SpecBelongs, PTL DEF Spec, Isolation

-----------------------------------------------------------------------------
(* The docker run child, and what the program has told by when.            *)

\* The child is only there while systemd-docker reads from it or has failed;
\* what it creates has the unit's present arguments; --rm does not get to the
\* start of an old container; and what is to be told has been told in time.
Course(u) ==
  /\ pc[u] \notin {"docker", "failed"} => dpc[u] = "idle"
  /\ pc[u] \in {"cgroups", "procs", "statPid", "writePid", "notify", "mainPid"}
       => mainPid[u] = Self
  /\ pc[u] = "startOld" => ~opts[u].rm
  /\ dpc[u] = "start" => ctr[target[u]].args = Args[u]
  /\ pc[u] \in {"recheck", "ready", "pidFile", "inspect", "wait"} /\ opts[u].socket
       => mainPid[u] = Pid[u]
  /\ pc[u] \in {"inspect", "wait"} /\ opts[u].pidFile => pidFile[u] = Pid[u]

\* The arguments of a container some unit has the id of are not changed.
LEMMA HeldArgs ==
  ASSUME Inv, [Next]_vars, NEW i \in Ids, i \in HeldIds
  PROVE  ctr'[i].args = ctr[i].args
  <1>t. ctr[i] \in Container /\ ctr \in [Ids -> Container]
    BY DEF Inv, TypeInv, HostInv, HostTypeOK
  <1>1. ASSUME NEW id \in Ids, NEW n, NEW unit, NEW args,
               CreateContainer(id, n, unit, args, HeldIds)
        PROVE  ctr'[i].args = ctr[i].args
    BY <1>1, <1>t DEF CreateContainer
  <1>2. ASSUME NEW id \in Ids, BootContainer(id, HeldPids)
        PROVE  ctr'[i].args = ctr[i].args
    <2>1. PICK p \in Pids :
            ctr' = [ctr EXCEPT ![id].status = "running", ![id].pid = p]
      BY <1>2 DEF BootContainer
    <2>2. QED
      BY <1>t, <2>1 DEF Container
  <1>3. ASSUME NEW id \in Ids, RemoveContainer(id) \/ ReapContainer(id)
        PROVE  ctr'[i].args = ctr[i].args
    BY <1>3, <1>t DEF RemoveContainer, ReapContainer, Container
  <1>4. ASSUME NEW u \in Units, MoveWritePid(u)
        PROVE  ctr'[i].args = ctr[i].args
    BY <1>4 DEF MoveWritePid
  <1>5. QED
    BY <1>1, <1>2, <1>3, <1>4, NextDaemon DEF DaemonStep

\* What is left alone keeps its course.
LEMMA CourseKept ==
  ASSUME Inv, [Next]_vars, NEW v \in Units, Course(v),
         opts'[v] = opts[v], Args'[v] = Args[v], pc'[v] = pc[v], dpc'[v] = dpc[v],
         target'[v] = target[v], Pid'[v] = Pid[v], mainPid'[v] = mainPid[v],
         pidFile'[v] = pidFile[v]
  PROVE  Course(v)'
  <1>1. dpc[v] = "start" => ctr'[target[v]].args = ctr[target[v]].args
    <2>1. dpc[v] = "start" => target[v] \in Ids /\ target[v] \in HeldIds
      BY DEF Inv, TypeInv, TypeOK, Control, HeldIds
    <2>2. QED
      BY <2>1, HeldArgs
  <1>2. QED
    BY <1>1 DEF Course

\* The steps of a unit keep it, each in its turn.
LEMMA StepCourse ==
  ASSUME Inv, [Next]_vars, NEW u \in Units, Course(u), Step(u)
  PROVE  Course(u)'
  <1>t. TypeOK /\ Control(u)
    BY DEF Inv, TypeInv
  <1>l. \A l \in Labels : Goto(u, l) => pc'[u] = l
    BY <1>t, GotoType
  <1>a. dpc[u] = "start" => ctr'[target[u]].args = ctr[target[u]].args
    <2>1. dpc[u] = "start" => target[u] \in Ids /\ target[u] \in HeldIds
      BY <1>t DEF TypeOK, Control, HeldIds
    <2>2. QED
      BY <2>1, HeldArgs
  <1> USE DEF toldVars, Labels, Exited
  <1>1. CASE LookupInspect(u)
    BY <1>1, <1>t, <1>l
    DEF LookupInspect, Inspected, Course, Control, Fetching, Looking
  <1>2. CASE LookupRemove(u)
    BY <1>2, <1>t, <1>l DEF LookupRemove, Course
  <1>3. CASE LookupStart(u)
    BY <1>3, <1>t, <1>l DEF LookupStart, Course
  <1>4. CASE LookupReinspect(u)
    BY <1>4, <1>t, <1>l DEF LookupReinspect, Course, Control, Fetching, Looking
  <1>5. CASE Launch(u)
    BY <1>5, <1>t, <1>l DEF Launch, Course, TypeOK
  <1>6. CASE DockerExits(u)
    BY <1>6, <1>t, <1>l DEF DockerExits, Course, TypeOK
  <1>7. CASE GetContainerPid(u)
    BY <1>7, <1>t, <1>l DEF GetContainerPid, Course, Control, Fetching, Looking
  <1>8. CASE MoveReadCgroups(u)
    BY <1>8, <1>t, <1>l DEF MoveReadCgroups, Course
  <1>9. CASE MoveListPids(u) \/ MoveStatPid(u)
    BY <1>9, <1>t, <1>l DEF MoveListPids, MoveStatPid, Course
  <1>10. CASE MoveWritePid(u)
    BY <1>10, <1>t, <1>l DEF MoveWritePid, Course
  <1>11. CASE NotifyCheck(u)
    BY <1>11, <1>t, <1>l, AfterLabels DEF NotifyCheck, Course, AfterNotify, AfterPidFile
  <1>12. CASE NotifyMainPid(u)
    BY <1>12, <1>t, <1>l DEF NotifyMainPid, Course, TypeOK
  <1>13. CASE NotifyRecheck(u)
    BY <1>13, <1>t, <1>l, AfterLabels DEF NotifyRecheck, Course, AfterNotify, AfterPidFile
  <1>14. CASE NotifyReady(u)
    BY <1>14, <1>t, <1>l, AfterLabels DEF NotifyReady, Course, AfterNotify, AfterPidFile
  <1>15. CASE WritePidFile(u)
    BY <1>15, <1>t, <1>l, AfterLabels DEF WritePidFile, Course, TypeOK
  <1>16. CASE KeepAliveInspect(u)
    BY <1>16, <1>t, <1>l, AfterLabels DEF KeepAliveInspect, Course
  <1>17. CASE KeepAliveWait(u)
    BY <1>17, <1>t, <1>l DEF KeepAliveWait, Course
  <1>18. CASE RmContainer(u)
    BY <1>18, <1>t, <1>l DEF RmContainer, Course
  <1>q. QED
    BY <1>1, <1>2, <1>3, <1>4, <1>5, <1>6, <1>7, <1>8, <1>9, <1>10, <1>11, <1>12, <1>13,
       <1>14, <1>15, <1>16, <1>17, <1>18 DEF Step

LEMMA UnitCourse ==
  ASSUME Inv, [Next]_vars, NEW u \in Units, Course(u),
         ChildStep(u) \/ CallFails(u) \/ Kill(u) \/ StopUnit(u) \/ StartUnit(u)
  PROVE  Course(u)'
  <1>t. TypeOK /\ Control(u)
    BY DEF Inv, TypeInv
  <1>l. \A l \in Labels : Goto(u, l) => pc'[u] = l
    BY <1>t, GotoType
  <1>a. dpc[u] = "start" => ctr'[target[u]].args = ctr[target[u]].args
    <2>1. dpc[u] = "start" => target[u] \in Ids /\ target[u] \in HeldIds
      BY <1>t DEF TypeOK, Control, HeldIds
    <2>2. QED
      BY <2>1, HeldArgs
  <1> USE DEF toldVars, Labels, Exited
  <1>1. CASE DockerCreate(u)
    <2>1. pc[u] \in {"docker", "failed"} /\ pc' = pc
      BY <1>1 DEF DockerCreate, Course
    <2>2. dpc'[u] = "start" => ctr'[target'[u]].args = Args'[u]
      <3>1. CASE dpc' = [dpc EXCEPT ![u] = "err"]
        BY <3>1, <1>t DEF TypeOK
      <3>2. ASSUME NEW id \in Ids,
                   CreateContainer(id, NameOf(u), u, Args[u], HeldIds),
                   target' = [target EXCEPT ![u] = id]
            PROVE  ctr'[target'[u]].args = Args'[u]
        <4>1. ctr'[id].args = Args[u]
          BY <3>2, <1>t DEF CreateContainer, TypeOK, HostTypeOK
        <4>2. target'[u] = id /\ Args' = Args
          BY <1>1, <1>t, <3>2 DEF DockerCreate, TypeOK
        <4>3. QED
          BY <4>1, <4>2
      <3>3. QED
        BY <1>1, <3>1, <3>2 DEF DockerCreate
    <2>3. QED
      BY <2>1, <2>2 DEF Course
  <1>2. CASE DockerStart(u)
    <2>1. pc[u] \in {"docker", "failed"} /\ pc' = pc /\ dpc'[u] # "start"
      BY <1>2, <1>t DEF DockerStart, Course, TypeOK
    <2>2. QED
      BY <2>1 DEF Course
  <1>3. CASE CallFails(u)
    <2>1. \/ pc'[u] = "failed" /\ dpc' = dpc
          \/ pc' = pc /\ dpc[u] # "idle" /\ dpc'[u] = "err"
      BY <1>3, <1>t, <1>l DEF CallFails, TypeOK
    <2>2. UNCHANGED <<opts, Args, target>>
      BY <1>3 DEF CallFails
    <2>3. QED
      BY <1>a, <2>1, <2>2 DEF Course
  <1>4. CASE Kill(u)
    BY <1>4, <1>a, <1>l DEF Kill, Course
  <1>5. CASE StopUnit(u)
    <2>1. dpc'[u] = "idle" /\ (pc'[u] = "failed" \/ pc' = pc)
      BY <1>5, <1>t DEF StopUnit, TypeOK
    <2>2. UNCHANGED <<opts, Args, target, Pid, mainPid, pidFile>>
      BY <1>5 DEF StopUnit
    <2>3. QED
      BY <2>1, <2>2 DEF Course
  <1>6. CASE StartUnit(u)
    <2>1. pc'[u] \in {"lookup", "launch"} /\ dpc'[u] = "idle"
      BY <1>6, <1>t, <1>l DEF StartUnit
    <2>2. QED
      BY <2>1 DEF Course
  <1>7. QED
    BY <1>1, <1>2, <1>3, <1>4, <1>5, <1>6 DEF ChildStep

LEMMA NextCourse ==
  Inv /\ (\A v \in Units : Course(v)) /\ [Next]_vars => (\A v \in Units : Course(v))'
  <1> SUFFICES ASSUME Inv, \A v \in Units : Course(v), [Next]_vars, NEW v \in Units
               PROVE  Course(v)'
    OBVIOUS
  <1>1. ASSUME NEW u \in Units, UnitStep(u) PROVE Course(v)'
    <2>1. CASE u = v
      BY <1>1, <2>1, StepCourse, UnitCourse DEF UnitStep
    <2>2. CASE u # v
      BY <1>1, <2>2, UnitStepOthersKept, CourseKept DEF OthersKept, OthersSame
    <2>3. QED
      BY <2>1, <2>2
  <1>2. CASE HostStep
    BY <1>2, HostStepTypeInv, CourseKept DEF Inv, ProgramSame, procVars
  <1>3. CASE UNCHANGED vars
    BY <1>3, CourseKept DEF vars
  <1>4. QED
    BY <1>1, <1>2, <1>3 DEF Next, HostStep, UnitStep

LEMMA SpecCourse == Spec => [](\A v \in Units : Course(v))
  <1>1. Init => \A v \in Units : Course(v)
    BY DEF Init, Course
  <1>2. QED
    BY <1>1, SpecInv, NextCourse, PTL DEF Spec

\* The container a unit's step starts is the one whose id it has in hand.
LEMMA UnitBoots ==
  ASSUME Inv, NEW u \in Units, UnitStep(u), NEW id \in Ids,
         ctr'[id].status = "running",
         ctr[id].status # "running" \/ ctr'[id].pid # ctr[id].pid
  PROVE  id = target[u] /\ (pc[u] = "startOld" \/ dpc[u] = "start")
  <1>t. HostInv /\ ctr \in [Ids -> Container]
    BY DEF Inv, TypeInv, HostInv, HostTypeOK
  <1>1. CASE UNCHANGED ctr
    BY <1>1
  <1>2. ASSUME NEW i \in Ids,
               CreateContainer(i, NameOf(u), u, Args[u], HeldIds)
        PROVE  FALSE
    BY <1>2, <1>t DEF CreateContainer
  <1>3. ASSUME NEW i \in Ids, RemoveContainer(i)
        PROVE  FALSE
    BY <1>3, <1>t DEF RemoveContainer, Container
  <1>4. CASE target[u] \in Ids /\ BootContainer(target[u], HeldPids)
    <2>1. \A i \in Ids \ {target[u]} : ctr'[i] = ctr[i]
      BY <1>t, <1>4 DEF BootContainer
    <2>2. id = target[u]
      BY <2>1
    <2>3. pc[u] = "startOld" \/ dpc[u] = "start" \/ UNCHANGED ctr
      BY <1>2, <1>3, UnitStepDaemon DEF UnitDaemonStep, StopUnit, MoveWritePid
    <2>4. QED
      BY <1>1, <2>2, <2>3
  <1>5. QED
    BY <1>1, <1>2, <1>3, <1>4, UnitStepDaemon DEF UnitDaemonStep, StopUnit, MoveWritePid

\* With --rm a stopped container is never started again with the arguments of
\* an older ExecStart: the lookup removes it, and what the docker run child
\* starts it has created with the present ones (main.go:166-187).
THEOREM RmRevivesNothing == Spec => RmNeverRevives
  <1>1. ASSUME Inv, \A v \in Units : Course(v), [Next]_vars,
               NEW u \in Units, NEW id \in Ids, opts[u].rm,
               pc'[u] # pc[u] \/ dpc'[u] # dpc[u],
               ctr[id].status # "running", ctr'[id].status = "running"
        PROVE  ctr[id].args = Args[u]
    <2>1. UnitStep(u)
      BY <1>1, MoverSteps
    <2>2. id = target[u] /\ (pc[u] = "startOld" \/ dpc[u] = "start")
      BY <1>1, <2>1, UnitBoots
    <2>3. QED
      BY <1>1, <2>2 DEF Course
  <1>2. Inv /\ (\A v \in Units : Course(v)) /\ [Next]_vars =>
          [\A u \in Units, id \in Ids :
             (/\ opts[u].rm
              /\ pc'[u] # pc[u] \/ dpc'[u] # dpc[u]
              /\ ctr[id].status # "running"
              /\ ctr'[id].status = "running")
             => ctr[id].args = Args[u]]_vars
    BY <1>1
  <1>3. QED
    BY <1>2, SpecInv, SpecCourse, PTL DEF Spec, RmNeverRevives

-----------------------------------------------------------------------------
(* What --rm leaves.                                                       *)

\* A unit gets a container only from its own docker run.
LEMMA NextMakes ==
  ASSUME Inv, [Next]_vars, NEW u \in Units, dpc[u] # "create"
  PROVE  MadeBy(u)' \subseteq MadeBy(u)
  <1>t. HostInv /\ NoUnit \notin Units
    BY HostAssumption DEF Inv, TypeInv
  <1>1. SameOwners => MadeBy(u)' \subseteq MadeBy(u)
    BY DEF SameOwners, MadeBy
  <1>2. ASSUME NEW id \in Ids, NEW n, NEW unit, NEW args, unit # u,
               CreateContainer(id, n, unit, args, HeldIds)
        PROVE  MadeBy(u)' \subseteq MadeBy(u)
    <2>1. /\ ctr'[id].by = unit
          /\ \A i \in Ids \ {id} : ctr'[i] = ctr[i]
      BY <1>t, <1>2, CreateContainerHeldSame
    <2>2. QED
      BY <1>2, <2>1 DEF MadeBy, Exists
  <1>3. ASSUME NEW v \in Units, UnitStep(v)
        PROVE  MadeBy(u)' \subseteq MadeBy(u)
    <2>1. ASSUME NEW id \in Ids, dpc[v] = "create",
                 CreateContainer(id, NameOf(v), v, Args[v], HeldIds)
          PROVE  MadeBy(u)' \subseteq MadeBy(u)
      BY <2>1, <1>2
    <2>2. CASE UNCHANGED <<ctr, home, cgroup>> \/ StopUnit(v) \/ MoveWritePid(v)
      BY <2>2, <1>1 DEF StopUnit, MoveWritePid, SameOwners, Exists
    <2>3. ASSUME NEW id \in Ids, BootContainer(id, HeldPids) \/ RemoveContainer(id)
          PROVE  MadeBy(u)' \subseteq MadeBy(u)
      BY <1>t, <1>1, <2>3, BootContainerHeldSame, RemoveContainerHeldSame
    <2>4. QED
      BY <1>3, <2>1, <2>2, <2>3, UnitStepDaemon DEF UnitDaemonStep
  <1>4. CASE HostStep
    <2>1. ASSUME NEW p \in Pids, Die(p) PROVE SameOwners
      BY <2>1, UnchangedHeldSame DEF Die, ProcessEnds
    <2>2. ASSUME NEW id \in Ids, Reap(id) \/ CliStart(id) \/ CliRemove(id)
          PROVE  SameOwners
      BY <2>2, <1>t, ReapContainerHeldSame, BootContainerHeldSame,
         RemoveContainerHeldSame DEF Reap, CliStart, CliRemove
    <2>3. ASSUME NEW v \in Units, NEW p \in Pids, ContainerReady(v, p)
          PROVE  SameOwners
      BY <2>3, UnchangedHeldSame DEF ContainerReady, daemonVars
    <2>4. ASSUME NEW v \in Units, NEW id \in Ids, CliRun(id, v)
          PROVE  MadeBy(u)' \subseteq MadeBy(u)
      BY <2>4, <1>t, <1>2 DEF CliRun
    <2>5. QED
      BY <1>1, <1>4, <2>1, <2>2, <2>3, <2>4 DEF HostStep
  <1>5. CASE UNCHANGED vars
    BY <1>5 DEF vars, MadeBy, Exists
  <1>6. QED
    BY <1>3, <1>4, <1>5 DEF Next, HostStep, UnitStep

\* The way to a normal end with --rm is the removal of the container, and at
\* that moment no other has the unit's name.
LEMMA RemovesLast ==
  ASSUME Inv, MadeNamed, [Next]_vars, NEW u \in Units, opts[u].rm, opts[u].named,
         pc[u] # "done", pc'[u] = "done"
  PROVE  MadeBy(u)' = {}
  <1>t. /\ TypeOK /\ HostInv /\ HostTypeOK /\ Control(u) /\ Tracks(u)
        /\ NoUnit \notin Units
    BY HostAssumption DEF Inv, TypeInv, TypeOK
  <1>l. \A l \in Labels : Goto(u, l) => pc'[u] = l
    BY <1>t, GotoType
  <1>1. UnitStep(u)
    BY MoverSteps
  <1>2. RmContainer(u)
    <2> USE DEF Labels, Exited
    <2>1. ~(ChildStep(u) \/ CallFails(u) \/ Kill(u) \/ StopUnit(u) \/ StartUnit(u))
      BY <1>t, <1>l DEF ChildStep, DockerCreate, DockerStart, CallFails, Kill,
         StopUnit, StartUnit, TypeOK
    <2>2. ~(LookupInspect(u) \/ LookupRemove(u) \/ LookupStart(u) \/ LookupReinspect(u)
            \/ Launch(u) \/ DockerExits(u) \/ GetContainerPid(u))
      BY <1>l DEF LookupInspect, Inspected, LookupRemove, LookupStart,
         LookupReinspect, Launch, DockerExits, GetContainerPid
    <2>3. ~(MoveReadCgroups(u) \/ MoveListPids(u) \/ MoveStatPid(u) \/ MoveWritePid(u))
      BY <1>l DEF MoveReadCgroups, MoveListPids, MoveStatPid, MoveWritePid
    <2>4. AfterPidFile(u) = "inspect" /\ AfterNotify(u) \in {"pidFile", "inspect"}
          /\ AfterKeepAlive(u) = "remove"
      BY DEF AfterPidFile, AfterNotify, AfterKeepAlive
    <2>5. ~(NotifyCheck(u) \/ NotifyMainPid(u) \/ NotifyRecheck(u) \/ NotifyReady(u)
            \/ WritePidFile(u) \/ KeepAliveInspect(u) \/ KeepAliveWait(u))
      BY <1>l, <2>4 DEF NotifyCheck, NotifyMainPid, NotifyRecheck, NotifyReady,
         WritePidFile, KeepAliveInspect, KeepAliveWait
    <2>6. QED
      BY <1>1, <2>1, <2>2, <2>3, <2>5 DEF UnitStep, Step
  <1>3. Id[u] \in Ids /\ ctr[Id[u]].name = u
    BY <1>2, <1>t DEF RmContainer, Control, Holding, Tracks, Owns, TypeOK
  <1>4. RemoveContainer(Id[u])
    BY <1>2, <1>l DEF RmContainer, Labels, Exited
  <1>5. /\ \A i \in Ids \ {Id[u]} : ctr'[i] = ctr[i]
        /\ ctr'[Id[u]].status = "none"
    BY <1>t, <1>3, <1>4 DEF RemoveContainer, HostTypeOK, Container
  <1>6. \A i \in Ids : Exists(i) /\ ctr[i].by = u => i = Id[u]
    BY <1>t, <1>3, <1>4 DEF MadeNamed, HostInv, RemoveContainer
  <1>7. QED
    BY <1>5, <1>6 DEF MadeBy, Exists

LEMMA NextRmLeavesNothing ==
  Inv /\ MadeNamed /\ (\A v \in Units : Course(v)) /\ RmLeavesNothing /\ [Next]_vars
    => RmLeavesNothing'
  <1> SUFFICES ASSUME Inv, MadeNamed, \A v \in Units : Course(v), RmLeavesNothing,
                      [Next]_vars, NEW u \in Units,
                      pc'[u] = "done", opts'[u].rm, opts'[u].named
               PROVE  MadeBy(u)' = {}
    BY DEF RmLeavesNothing
  <1>1. opts' = opts
    BY UnitStepOthersKept, HostStepTypeInv
    DEF Next, HostStep, UnitStep, vars, OthersKept, OthersSame, ProgramSame, Inv
  <1>2. CASE pc[u] = "done"
    <2>1. dpc[u] = "idle"
      BY <1>2 DEF Course
    <2>2. QED
      BY <1>1, <1>2, <2>1, NextMakes DEF RmLeavesNothing
  <1>3. CASE pc[u] # "done"
    BY <1>1, <1>3, RemovesLast
  <1>4. QED
    BY <1>2, <1>3

\* A start with --name and --rm that ends without an error leaves no container
\* of the unit, and none comes later from a docker run that is still on its
\* way (main.go:560-565; "really deleted each time", README.md:52).
THEOREM RmLeavesNone == Spec => []RmLeavesNothing
  <1>1. Init => RmLeavesNothing
    BY DEF Init, RmLeavesNothing
  <1>2. QED
    BY <1>1, SpecInv, SpecMadeNamed, SpecCourse, NextRmLeavesNothing, PTL DEF Spec

-----------------------------------------------------------------------------
(* Without docker start by hand.                                           *)

\* What is about to be removed does not run, and a container that runs while
\* its unit has a pid of it runs as that process.
Settled(u) ==
  /\ pc[u] = "removeOld" => ctr[target[u]].status # "running"
  /\ pc[u] = "remove" => ctr[Id[u]].status # "running"
  /\ pc[u] \in Holding /\ ctr[Id[u]].status = "running" => ctr[Id[u]].pid = Pid[u]

\* A container that does not get started: it runs only if it ran, as the same
\* process.
Unstarted(id) ==
  ctr'[id].status = "running" =>
    ctr[id].status = "running" /\ ctr'[id].pid = ctr[id].pid

LEMMA HostStepUnstarted ==
  ASSUME Inv, "start" \notin Env, HostStep, NEW i \in Ids
  PROVE  Unstarted(i)
  <1>t. ctr \in [Ids -> Container]
    BY DEF Inv, TypeInv, HostInv, HostTypeOK
  <1>1. ASSUME NEW p \in Pids, Die(p) PROVE Unstarted(i)
    BY <1>1 DEF Die, ProcessEnds, Unstarted
  <1>2. ASSUME NEW id \in Ids, Reap(id) \/ CliStart(id) \/ CliRemove(id)
        PROVE  Unstarted(i)
    BY <1>2, <1>t DEF Reap, CliStart, CliRemove, ReapContainer, RemoveContainer,
       Unstarted, Container
  <1>3. ASSUME NEW u \in Units, NEW p \in Pids, ContainerReady(u, p)
        PROVE  Unstarted(i)
    BY <1>3 DEF ContainerReady, daemonVars, Unstarted
  <1>4. ASSUME NEW u \in Units, NEW id \in Ids, CliRun(id, u)
        PROVE  Unstarted(i)
    BY <1>4, <1>t DEF CliRun, CreateContainer, Unstarted
  <1>5. QED
    BY <1>1, <1>2, <1>3, <1>4 DEF HostStep

\* A unit's program that does nothing stays settled: nobody else starts what
\* it has the id of.
LEMMA SettledKept ==
  ASSUME Inv, NEW v \in Units, Settled(v), pc'[v] = pc[v], target'[v] = target[v],
         Id'[v] = Id[v], Pid'[v] = Pid[v],
         target[v] \in Ids => Unstarted(target[v]),
         Id[v] \in Ids => Unstarted(Id[v])
  PROVE  Settled(v)'
  <1>1. /\ pc[v] = "removeOld" => target[v] \in Ids
        /\ pc[v] \in Holding => Id[v] \in Ids
    BY DEF Inv, TypeInv, TypeOK, Control, Looking
  <1>2. QED
    BY <1>1 DEF Settled, Unstarted, Holding

\* A step of one unit starts nothing that another has the id of.
LEMMA OthersUnstarted ==
  ASSUME Inv, NEW u \in Units, UnitStep(u), NEW v \in Units, u # v,
         NEW i \in Ids, i = target[v] \/ i = Id[v]
  PROVE  Unstarted(i)
  <1>1. SUFFICES ASSUME ~Unstarted(i) PROVE FALSE
    OBVIOUS
  <1>2. i = target[u]
    BY <1>1, UnitBoots DEF Unstarted
  <1>3. i # NoId /\ Tracks(u) /\ Tracks(v)
    BY HostAssumption DEF Inv
  <1>4. Owns(u, i) /\ Owns(v, i)
    BY <1>2, <1>3 DEF Tracks
  <1>5. QED
    BY <1>4, OneOwner

\* The unit's own steps: what they find out, nothing has changed since.
LEMMA OwnSettled ==
  ASSUME Inv, NEW u \in Units, Course(u), Settled(u), UnitStep(u)
  PROVE  Settled(u)'
  <1>t. /\ TypeOK /\ Control(u)
        /\ \A l \in Labels : Goto(u, l) => pc'[u] = l
    BY GotoType DEF Inv, TypeInv
  <1> USE DEF Labels, Exited, Holding, Settled
  <1>1. CASE LookupInspect(u)
    BY <1>1, <1>t DEF LookupInspect, Inspected, Named, TypeOK, daemonVars
  <1>2. CASE LookupReinspect(u)
    BY <1>2, <1>t DEF LookupReinspect, Named, TypeOK, daemonVars
  <1>3. CASE GetContainerPid(u)
    BY <1>3, <1>t DEF GetContainerPid, TypeOK, daemonVars
  <1>4. CASE LookupRemove(u) \/ LookupStart(u) \/ Launch(u) \/ DockerExits(u)
             \/ RmContainer(u) \/ StartUnit(u)
    <2>1. pc'[u] \in {"launch", "failed", "reinspect", "docker", "getPid", "done", "lookup"}
      BY <1>4, <1>t DEF LookupRemove, LookupStart, Launch, DockerExits, RmContainer,
                        StartUnit
    <2>2. QED
      BY <2>1
  <1>5. CASE MoveReadCgroups(u) \/ MoveListPids(u) \/ MoveStatPid(u) \/ MoveWritePid(u)
    <2>1. /\ pc[u] \in Holding
          /\ pc'[u] \in {"procs", "statPid", "writePid", "notify", "failed"}
          /\ UNCHANGED <<ctr, target, Id, Pid>>
      BY <1>5, <1>t DEF MoveReadCgroups, MoveListPids, MoveStatPid, MoveWritePid, daemonVars
    <2>2. QED
      BY <2>1
  <1>6. CASE NotifyCheck(u) \/ NotifyMainPid(u) \/ NotifyRecheck(u) \/ NotifyReady(u)
             \/ WritePidFile(u)
    <2>1. /\ pc[u] \in Holding
          /\ pc'[u] \in {"mainPid", "recheck", "ready", "pidFile", "inspect", "done", "failed"}
          /\ UNCHANGED <<ctr, target, Id, Pid>>
      BY <1>6, <1>t, AfterLabels
      DEF NotifyCheck, NotifyMainPid, NotifyRecheck, NotifyReady, WritePidFile, daemonVars
    <2>2. QED
      BY <2>1
  <1>7. CASE KeepAliveInspect(u) \/ KeepAliveWait(u)
    <2>1. /\ pc[u] \in Holding
          /\ pc'[u] \in {"inspect", "wait", "remove", "done", "failed"}
          /\ pc'[u] = "remove" => ctr[Id[u]].status # "running"
          /\ UNCHANGED <<ctr, target, Id, Pid>>
      BY <1>7, <1>t, AfterLabels DEF KeepAliveInspect, KeepAliveWait, daemonVars
    <2>2. QED
      BY <2>1
  <1>8. CASE ChildStep(u)
    <2>1. pc[u] \in {"docker", "failed"} /\ pc' = pc
      BY <1>8 DEF ChildStep, DockerCreate, DockerStart, Course
    <2>2. QED
      BY <2>1
  <1>9. CASE CallFails(u) \/ Kill(u) \/ StopUnit(u)
    <2>1. (pc'[u] = "failed" \/ pc' = pc) /\ UNCHANGED <<ctr, target, Id, Pid>>
      BY <1>9, <1>t DEF CallFails, Kill, StopUnit, daemonVars, TypeOK
    <2>2. QED
      BY <2>1
  <1>10. QED
    BY <1>1, <1>2, <1>3, <1>4, <1>5, <1>6, <1>7, <1>8, <1>9 DEF UnitStep, Step

LEMMA NextSettled ==
  ASSUME "start" \notin Env
  PROVE  Inv /\ (\A v \in Units : Course(v) /\ Settled(v)) /\ [Next]_vars
           => (\A v \in Units : Settled(v))'
  <1> SUFFICES ASSUME Inv, \A v \in Units : Course(v) /\ Settled(v), [Next]_vars,
                      NEW v \in Units
               PROVE  Settled(v)'
    OBVIOUS
  <1>1. ASSUME NEW u \in Units, UnitStep(u) PROVE Settled(v)'
    <2>1. CASE u = v
      BY <1>1, <2>1, OwnSettled
    <2>2. CASE u # v
      BY <1>1, <2>2, UnitStepOthersKept, OthersUnstarted, SettledKept
      DEF OthersKept, OthersSame
    <2>3. QED
      BY <2>1, <2>2
  <1>2. CASE HostStep
    BY <1>2, HostStepTypeInv, HostStepUnstarted, SettledKept DEF Inv, ProgramSame, procVars
  <1>3. CASE UNCHANGED vars
    BY <1>3, SettledKept DEF vars, Unstarted
  <1>4. QED
    BY <1>1, <1>2, <1>3 DEF Next, HostStep, UnitStep

LEMMA SpecSettled ==
  ASSUME "start" \notin Env
  PROVE  Spec => [](\A v \in Units : Settled(v))
  <1>1. Init => \A v \in Units : Settled(v)
    BY DEF Init, Settled, Holding
  <1>2. Spec => [](\A v \in Units : Course(v) /\ Settled(v))
    <2>1. Init => \A v \in Units : Course(v) /\ Settled(v)
      BY <1>1 DEF Init, Course
    <2>2. Inv /\ (\A v \in Units : Course(v) /\ Settled(v)) /\ [Next]_vars
            => (\A v \in Units : Course(v) /\ Settled(v))'
      BY NextCourse, NextSettled
    <2>3. QED
      BY <2>1, <2>2, SpecInv, PTL DEF Spec
  <1>3. (\A v \in Units : Course(v) /\ Settled(v)) => (\A v \in Units : Settled(v))
    OBVIOUS
  <1>4. QED
    BY <1>2, <1>3, PTL

\* When nobody starts containers by hand, systemd-docker removes, with Force,
\* only what does not run: nothing can start it between the inspection that
\* says so and the removal (main.go:162-170, 495-524).
THEOREM StoppedIsRemoved ==
  ASSUME "start" \notin Env
  PROVE  Spec => RemovesOnlyStopped
  <1>1. ASSUME Inv, \A v \in Units : Settled(v), NEW u \in Units, NEW id \in Ids,
               [Next]_vars, pc'[u] # pc[u], ctr[id].status = "running"
        PROVE  Exists(id)'
    <2>1. HostInv /\ ctr \in [Ids -> Container]
      BY <1>1 DEF Inv, TypeInv, HostInv, HostTypeOK
    <2>2. UnitDaemonStep(u)
      BY <1>1, MoverSteps, UnitStepDaemon
    <2>3. CASE UNCHANGED ctr
      BY <1>1, <2>3 DEF Exists
    <2>4. ASSUME NEW i \in Ids, CreateContainer(i, NameOf(u), u, Args[u], HeldIds)
          PROVE  Exists(id)'
      BY <1>1, <2>1, <2>4 DEF CreateContainer, Exists
    <2>5. ASSUME NEW i \in Ids, BootContainer(i, HeldPids)
          PROVE  Exists(id)'
      <3>1. \A j \in Ids \ {i} : ctr'[j] = ctr[j]
        BY <2>1, <2>5 DEF BootContainer
      <3>2. i # id
        BY <1>1, <2>5 DEF BootContainer
      <3>3. QED
        BY <1>1, <3>1, <3>2 DEF Exists
    <2>6. ASSUME NEW i \in Ids, RemoveContainer(i), ctr[i].status # "running"
          PROVE  Exists(id)'
      BY <1>1, <2>1, <2>6 DEF RemoveContainer, Exists
    <2>7. /\ LookupRemove(u) => ctr[target[u]].status # "running"
          /\ RmContainer(u) => ctr[Id[u]].status # "running"
      BY <1>1 DEF LookupRemove, RmContainer, Settled
    <2>8. QED
      BY <2>2, <2>3, <2>4, <2>5, <2>6, <2>7 DEF UnitDaemonStep, StopUnit, MoveWritePid
  <1>2. Inv /\ (\A v \in Units : Settled(v)) /\ [Next]_vars =>
          [\A u \in Units, id \in Ids :
             pc'[u] # pc[u] /\ ctr[id].status = "running" => Exists(id)']_vars
    BY <1>1
  <1>3. QED
    BY <1>2, SpecInv, SpecSettled, PTL DEF Spec, RemovesOnlyStopped

\* When nobody starts containers by hand, what keepAlive watches is the process
\* that systemd and the pid file were told of (main.go:486-509, README.md:6).
\* With docker start it fails: that is the run restart_desync.
THEOREM InSync ==
  ASSUME "start" \notin Env
  PROVE  Spec => []SyncWhileSupervised
  <1>1. (\A v \in Units : Course(v)) /\ (\A v \in Units : Settled(v))
          => SyncWhileSupervised
    BY DEF Course, Settled, Holding, Supervising, SyncWhileSupervised
  <1>2. QED
    BY <1>1, SpecCourse, SpecSettled, PTL

-----------------------------------------------------------------------------
(* What systemd may rely on: Service implements Supervision.               *)

AbsUnit == [p \in alive |-> cgroup[p]]
AbsBusy == { u \in Units : Running(u) }

\* The program of u goes on or ends, and nothing else changes.
GoesOn(u) == AbsBusy' \in {AbsBusy, AbsBusy \ {u}}

LEMMA AbsAlive == S!Alive = alive /\ \A p \in alive : AbsUnit[p] = cgroup[p]
  BY DEF S!Alive, AbsUnit

LEMMA AbsEnds ==
  ASSUME NEW gone, alive' = alive \ gone, cgroup' = cgroup
  PROVE  S!Ends(gone)
  BY DEF S!Ends, S!Alive

LEMMA AbsSameHost ==
  ASSUME UNCHANGED <<alive, cgroup>>
  PROVE  AbsUnit' = AbsUnit
  BY DEF AbsUnit

LEMMA AbsSameBusy ==
  ASSUME UNCHANGED pc
  PROVE  AbsBusy' = AbsBusy
  BY DEF AbsBusy, Running

\* A step of u's program keeps it running or ends it, and no other's.
LEMMA AbsGoesOn ==
  ASSUME NEW u \in Units, OthersSame(u), Running(u)
  PROVE  GoesOn(u)
  <1>1. \A v \in Units \ {u} : Running(v)' <=> Running(v)
    BY DEF OthersSame, Running
  <1>2. QED
    BY <1>1 DEF GoesOn, AbsBusy

\* The daemon gives a new process a number that neither systemd nor a pid file
\* has.
LEMMA AbsBoot ==
  ASSUME Inv, NEW id \in Ids, BootContainer(id, HeldPids),
         UNCHANGED <<mainPid, ready, pidFile>>, AbsBusy' = AbsBusy
  PROVE  \E p \in Pids : S!Spawn(p)
  <1>t. cgroup \in [Pids -> Units \union {NoUnit}] /\ alive \subseteq Pids
    BY DEF Inv, TypeInv, HostInv, HostTypeOK
  <1>1. PICK p \in Pids \ HeldPids :
          /\ p \notin alive
          /\ alive' = alive \union {p}
          /\ cgroup' = [cgroup EXCEPT ![p] = NoUnit]
    BY DEF BootContainer
  <1>2. \A u \in Units : p \notin {mainPid[u], pidFile[u]}
    BY <1>1 DEF HeldPids
  <1>3. AbsUnit' = [q \in alive \union {p} |-> IF q = p THEN NoUnit ELSE AbsUnit[q]]
    BY <1>t, <1>1 DEF AbsUnit
  <1>4. S!Spawn(p)
    BY <1>1, <1>2, <1>3 DEF S!Spawn, S!Alive, AbsUnit, AbsBusy
  <1>5. QED
    BY <1>4

\* A container that is removed takes its process along, if that lives.
LEMMA AbsRemove ==
  ASSUME NEW id, RemoveContainer(id)
  PROVE  /\ cgroup' = cgroup
         /\ alive' = alive \/ \E p \in alive : alive' = alive \ {p}
  BY DEF RemoveContainer

LEMMA AbsWork ==
  ASSUME NEW u \in Units, Running(u), OthersSame(u),
         UNCHANGED <<alive, cgroup, mainPid, ready, pidFile>>
  PROVE  S!Work(u)
  <1>1. GoesOn(u)
    BY AbsGoesOn
  <1>2. u \in AbsBusy
    BY DEF AbsBusy
  <1>3. QED
    BY <1>1, <1>2, AbsSameHost DEF S!Work, S!MayEnd, GoesOn, AbsBusy, AbsUnit

LEMMA AbsClear ==
  ASSUME Inv, Belongs, NEW u \in Units, Step(u), Running(u), OthersSame(u),
         NEW id, RemoveContainer(id), UNCHANGED <<mainPid, ready, pidFile>>
  PROVE  S!Work(u) \/ S!Clear(u)
  <1>1. CASE alive' = alive
    BY <1>1, AbsWork, AbsRemove
  <1>2. ASSUME NEW p \in alive, alive' = alive \ {p}
        PROVE  S!Clear(u)
    <2>1. cgroup[p] \in {u, NoUnit}
      BY <1>2, UnitStepIsolated DEF UnitStep
    <2>2. S!Ends({p})
      BY <1>2, AbsEnds, AbsRemove
    <2>3. GoesOn(u) /\ u \in AbsBusy
      BY AbsGoesOn DEF AbsBusy
    <2>4. \E q \in S!Alive : AbsUnit[q] \in {u, NoUnit} /\ S!Ends({q})
      BY <2>1, <2>2, AbsAlive
    <2>5. QED
      BY <2>3, <2>4 DEF S!Clear, S!MayEnd, GoesOn, AbsBusy, AbsUnit
  <1>3. QED
    BY <1>1, <1>2, AbsRemove

LEMMA AbsJoin ==
  ASSUME Inv, Belongs, NEW u \in Units, MoveWritePid(u), OthersSame(u),
         NEW p \in alive, p = Pid[u]
  PROVE  S!Join(u, p)
  <1>t. /\ cgroup \in [Pids -> Units \union {NoUnit}] /\ alive \subseteq Pids
        /\ TypeOK /\ NoUnit \notin Units
    BY HostAssumption DEF Inv, TypeInv, HostInv, HostTypeOK
  <1>1. /\ cgroup' = [cgroup EXCEPT ![p] = u]
        /\ Goto(u, "notify") /\ pc[u] = "writePid"
        /\ UNCHANGED <<alive, mainPid, ready, pidFile>>
    BY DEF MoveWritePid, toldVars
  <1>2. cgroup[p] \in {u, NoUnit}
    <2>1. cgroup'[p] = u
      BY <1>t, <1>1
    <2>2. UnitStep(u)
      BY DEF UnitStep, Step
    <2>3. QED
      BY <2>1, <2>2, UnitStepIsolated
  <1>3. AbsUnit' = [AbsUnit EXCEPT ![p] = u]
    BY <1>t, <1>1 DEF AbsUnit
  <1>4. AbsBusy' = AbsBusy /\ u \in AbsBusy
    <2>1. Running(u) /\ Running(u)'
      BY <1>t, <1>1 DEF Running, Goto, TypeOK, Exited
    <2>2. \A v \in Units \ {u} : Running(v)' <=> Running(v)
      BY DEF OthersSame, Running
    <2>3. QED
      BY <2>1, <2>2 DEF AbsBusy
  <1>5. p \in S!Alive /\ AbsUnit[p] \in {u, NoUnit}
    BY <1>2, AbsAlive
  <1>6. QED
    BY <1>t, <1>1, <1>3, <1>4, <1>5 DEF S!Join, AbsUnit, AbsBusy

\* What the program tells.
LEMMA AbsTell ==
  ASSUME Inv, NEW u \in Units, NotifyMainPid(u), Course(u), OthersSame(u)
  PROVE  S!Tell(u, Pid[u]) /\ Pid[u] \in Pids
  <1>t. TypeOK /\ Control(u) /\ Tracks(u)
    BY DEF Inv, TypeInv
  <1>1. /\ pc[u] = "mainPid" /\ Goto(u, "recheck")
        /\ mainPid' = [mainPid EXCEPT ![u] = Pid[u]]
        /\ UNCHANGED <<alive, cgroup, ready, pidFile>>
    BY DEF NotifyMainPid, daemonVars
  <1>2. mainPid[u] = Self /\ Pid[u] \in Pids
    BY <1>t, <1>1 DEF Course, Control, Holding, TypeOK
  <1>3. Pid[u] \in alive => cgroup[Pid[u]] = u
    BY <1>t, <1>1 DEF Tracks, Moved
  <1>4. AbsBusy' = AbsBusy /\ u \in AbsBusy
    <2>1. Running(u) /\ Running(u)'
      BY <1>t, <1>1 DEF Running, Goto, TypeOK, Exited
    <2>2. \A v \in Units \ {u} : Running(v)' <=> Running(v)
      BY DEF OthersSame, Running
    <2>3. QED
      BY <2>1, <2>2 DEF AbsBusy
  <1>5. S!Inside(u, Pid[u])
    BY <1>3, AbsAlive DEF S!Inside, AbsUnit
  <1>6. QED
    BY <1>1, <1>2, <1>4, <1>5, AbsSameHost DEF S!Tell, AbsUnit, AbsBusy

LEMMA AbsRecheck ==
  ASSUME Inv, NEW u \in Units, NotifyRecheck(u), OthersSame(u)
  PROVE  S!Work(u) \/ S!Retract(u)
  <1>t. TypeOK /\ Control(u) /\ Tracks(u)
    BY DEF Inv, TypeInv
  <1>1. /\ pc[u] = "recheck" /\ UNCHANGED <<alive, cgroup, ready, pidFile>>
        /\ Running(u)
    BY DEF NotifyRecheck, daemonVars, Running, Exited
  <1>2. CASE UNCHANGED mainPid
    BY <1>1, <1>2, AbsWork
  <1>3. CASE ~UNCHANGED mainPid
    <2>1. /\ Pid[u] \notin alive /\ Goto(u, "failed")
          /\ mainPid' = [mainPid EXCEPT ![u] = Self]
      BY <1>3 DEF NotifyRecheck
    <2>2. mainPid[u] \notin alive
      BY <1>t, <1>1, <2>1 DEF Tracks
    <2>3. AbsBusy' = AbsBusy \ {u} /\ u \in AbsBusy
      <3>1. Running(u) /\ ~Running(u)'
        BY <1>t, <1>1, <2>1 DEF Running, Goto, TypeOK, Exited
      <3>2. \A v \in Units \ {u} : Running(v)' <=> Running(v)
        BY DEF OthersSame, Running
      <3>3. QED
        BY <3>1, <3>2 DEF AbsBusy
    <2>4. mainPid[u] \notin S!Alive
      BY <2>2, AbsAlive
    <2>5. QED
      BY <1>1, <2>1, <2>3, <2>4, AbsSameHost DEF S!Retract, AbsUnit, AbsBusy
  <1>4. QED
    BY <1>2, <1>3

LEMMA AbsReady ==
  ASSUME Inv, NEW u \in Units, NotifyReady(u), OthersSame(u)
  PROVE  S!Ready(u)
  <1>1. /\ pc[u] = "ready" /\ ready' = [ready EXCEPT ![u] = TRUE] /\ Running(u)
        /\ UNCHANGED <<alive, cgroup, mainPid, pidFile>>
    BY DEF NotifyReady, daemonVars, Running, Exited
  <1>2. mainPid[u] # Self
    BY <1>1 DEF Inv, Tracks
  <1>3. GoesOn(u) /\ u \in AbsBusy
    BY <1>1, AbsGoesOn DEF AbsBusy
  <1>4. QED
    BY <1>1, <1>2, <1>3, AbsSameHost DEF S!Ready, S!MayEnd, GoesOn, AbsUnit, AbsBusy

LEMMA AbsNote ==
  ASSUME Inv, NEW u \in Units, WritePidFile(u), OthersSame(u)
  PROVE  S!Note(u, Pid[u]) /\ Pid[u] \in Pids
  <1>t. TypeOK /\ Control(u) /\ Tracks(u)
    BY DEF Inv, TypeInv
  <1>1. /\ pc[u] = "pidFile" /\ pidFile' = [pidFile EXCEPT ![u] = Pid[u]] /\ Running(u)
        /\ UNCHANGED <<alive, cgroup, mainPid, ready>>
    BY DEF WritePidFile, daemonVars, Running, Exited
  <1>2. mainPid[u] \in {Self, Pid[u]} /\ Pid[u] \in Pids
    BY <1>t, <1>1 DEF Tracks, Control, Holding, TypeOK
  <1>3. Pid[u] \in alive => cgroup[Pid[u]] = u
    BY <1>t, <1>1 DEF Tracks, Moved
  <1>4. S!Inside(u, Pid[u])
    BY <1>3, AbsAlive DEF S!Inside, AbsUnit
  <1>5. GoesOn(u) /\ u \in AbsBusy
    BY <1>1, AbsGoesOn DEF AbsBusy
  <1>6. QED
    BY <1>1, <1>2, <1>4, <1>5, AbsSameHost DEF S!Note, S!MayEnd, GoesOn, AbsUnit, AbsBusy

\* Each step of systemd-docker is one of Supervision's.
LEMMA StepSupervises ==
  ASSUME Inv, Belongs, NEW u \in Units, Course(u), Step(u)
  PROVE  S!Next
  <1>t. TypeOK
    BY DEF Inv, TypeInv
  <1>o. OthersSame(u)
    BY <1>t, StepOthersSame
  <1>r. Running(u)
    BY DEF Step, LookupInspect, Inspected, LookupRemove, LookupStart, LookupReinspect, Launch,
           DockerExits, GetContainerPid, MoveReadCgroups, MoveListPids, MoveStatPid,
           MoveWritePid, NotifyCheck, NotifyMainPid, NotifyRecheck, NotifyReady, WritePidFile,
           KeepAliveInspect, KeepAliveWait, RmContainer, Running, Exited
  <1>w. ASSUME UNCHANGED <<alive, cgroup, mainPid, ready, pidFile>> PROVE S!Next
    BY <1>w, <1>o, <1>r, AbsWork DEF S!Next
  <1>1. CASE LookupRemove(u) \/ RmContainer(u)
    <2>1. UNCHANGED <<mainPid, ready, pidFile>>
      BY <1>1 DEF LookupRemove, RmContainer, toldVars
    <2>2. CASE UNCHANGED daemonVars
      BY <1>w, <2>1, <2>2 DEF daemonVars
    <2>3. ASSUME NEW id, RemoveContainer(id) PROVE S!Next
      BY <1>o, <1>r, <2>1, <2>3, AbsClear DEF S!Next
    <2>4. QED
      BY <1>1, <2>2, <2>3 DEF LookupRemove, RmContainer
  <1>2. CASE LookupStart(u)
    <2>1. UNCHANGED <<mainPid, ready, pidFile>>
      BY <1>2 DEF LookupStart, toldVars
    <2>2. CASE UNCHANGED daemonVars
      BY <1>w, <2>1, <2>2 DEF daemonVars
    <2>3. CASE BootContainer(target[u], HeldPids) /\ Goto(u, "reinspect")
      <3>1. target[u] \in Ids
        BY <1>2 DEF LookupStart, Inv, TypeInv, Control, TypeOK, Looking
      <3>2. AbsBusy' = AbsBusy
        <4>1. Running(u)'
          BY <1>t, <2>3 DEF Running, Goto, TypeOK, Exited
        <4>2. \A v \in Units \ {u} : Running(v)' <=> Running(v)
          BY <1>o DEF OthersSame, Running
        <4>3. QED
          BY <1>r, <4>1, <4>2 DEF AbsBusy
      <3>3. PICK id \in Ids : id = target[u]
        BY <3>1
      <3>4. QED
        BY <2>1, <2>3, <3>2, <3>3, AbsBoot DEF S!Next
    <2>4. QED
      BY <1>2, <2>2, <2>3 DEF LookupStart, StartContainer
  <1>3. CASE MoveWritePid(u)
    <2>1. CASE Pid[u] \in alive
      <3>1. PICK p \in alive : p = Pid[u]
        BY <2>1
      <3>2. S!Join(u, p) /\ p \in Pids
        BY <1>3, <1>o, <3>1, AbsJoin DEF Inv, TypeInv, HostInv, HostTypeOK
      <3>3. QED
        BY <3>2 DEF S!Next
    <2>2. CASE Pid[u] \notin alive
      BY <1>3, <1>w, <2>2 DEF MoveWritePid, toldVars
    <2>3. QED
      BY <2>1, <2>2
  <1>4. CASE NotifyMainPid(u)
    <2>1. PICK p \in Pids : S!Tell(u, p)
      BY <1>4, <1>o, AbsTell
    <2>2. QED
      BY <2>1 DEF S!Next
  <1>5. CASE NotifyRecheck(u)
    BY <1>5, <1>o, AbsRecheck DEF S!Next
  <1>6. CASE NotifyReady(u)
    BY <1>6, <1>o, AbsReady DEF S!Next
  <1>7. CASE WritePidFile(u)
    <2>1. PICK p \in Pids : S!Note(u, p)
      BY <1>7, <1>o, AbsNote
    <2>2. QED
      BY <2>1 DEF S!Next
  <1>8. CASE LookupInspect(u) \/ LookupReinspect(u) \/ Launch(u) \/ DockerExits(u)
             \/ GetContainerPid(u) \/ MoveReadCgroups(u) \/ MoveListPids(u)
             \/ MoveStatPid(u) \/ NotifyCheck(u) \/ KeepAliveInspect(u) \/ KeepAliveWait(u)
    <2>1. UNCHANGED <<alive, cgroup, mainPid, ready, pidFile>>
      BY <1>8 DEF LookupInspect, Inspected, LookupReinspect, Launch, DockerExits,
                  GetContainerPid, MoveReadCgroups, MoveListPids, MoveStatPid, NotifyCheck,
                  KeepAliveInspect, KeepAliveWait, daemonVars, toldVars
    <2>2. QED
      BY <1>w, <2>1
  <1>9. QED
    BY <1>1, <1>2, <1>3, <1>4, <1>5, <1>6, <1>7, <1>8 DEF Step

\* So are failures, kills, and what systemd does, or they are invisible.
LEMMA AbsStop ==
  ASSUME Inv, NEW u \in Units, StopUnit(u)
  PROVE  S!Stop(u)
  <1>t. TypeOK
    BY DEF Inv, TypeInv
  <1>1. /\ alive' = alive \ { p \in alive : cgroup[p] = u } /\ cgroup' = cgroup
        /\ UNCHANGED <<mainPid, ready, pidFile>>
    BY DEF StopUnit, toldVars
  <1>2. S!Members(u) = { p \in alive : cgroup[p] = u }
    BY AbsAlive DEF S!Members, AbsUnit
  <1>3. AbsUnit' = [p \in S!Alive \ S!Members(u) |-> AbsUnit[p]]
    BY <1>1, <1>2, AbsAlive DEF AbsUnit
  <1>4. AbsBusy' = AbsBusy \ {u}
    <2>1. ~Running(u)' /\ \A v \in Units \ {u} : Running(v)' <=> Running(v)
      BY <1>t DEF StopUnit, Running, TypeOK, Exited
    <2>2. QED
      BY <2>1 DEF AbsBusy
  <1>5. QED
    BY <1>1, <1>3, <1>4 DEF S!Stop, S!Ends, AbsUnit, AbsBusy

LEMMA AbsBegin ==
  ASSUME Inv, NEW u \in Units, StartUnit(u)
  PROVE  S!Begin(u)
  <1>t. TypeOK /\ alive \subseteq Pids
    BY DEF Inv, TypeInv, HostInv, HostTypeOK
  <1>1. /\ ~Running(u) /\ MainGone(u)
        /\ mainPid' = [mainPid EXCEPT ![u] = Self]
        /\ ready' = [ready EXCEPT ![u] = FALSE]
        /\ UNCHANGED <<alive, cgroup, pidFile>>
    BY DEF StartUnit, daemonVars
  <1>2. mainPid[u] \notin S!Alive
    BY <1>t, <1>1, SelfAssumption, AbsAlive DEF MainGone
  <1>3. AbsBusy' = AbsBusy \union {u} /\ u \notin AbsBusy
    <2>1. Running(u)' /\ \A v \in Units \ {u} : Running(v)' <=> Running(v)
      BY <1>t DEF StartUnit, Goto, Running, TypeOK, Exited
    <2>2. QED
      BY <1>1, <2>1 DEF AbsBusy
  <1>4. QED
    BY <1>1, <1>2, <1>3, AbsSameHost DEF S!Begin, AbsUnit, AbsBusy

LEMMA UnitSupervises ==
  ASSUME Inv, NEW u \in Units,
         ChildStep(u) \/ CallFails(u) \/ Kill(u) \/ StopUnit(u) \/ StartUnit(u)
  PROVE  [S!Next]_(S!vars)
  <1>o. OthersSame(u)
    BY UnitOthersSame DEF Inv, TypeInv
  <1>s. UNCHANGED <<alive, cgroup, mainPid, ready, pidFile, pc>> => UNCHANGED S!vars
    BY AbsSameHost, AbsSameBusy DEF S!vars, AbsUnit, AbsBusy
  <1>1. CASE DockerCreate(u)
    BY <1>1, <1>s DEF DockerCreate, CreateContainer, daemonVars, toldVars
  <1>2. CASE DockerStart(u)
    <2>1. UNCHANGED <<mainPid, ready, pidFile, pc>>
      BY <1>2 DEF DockerStart, toldVars
    <2>2. CASE UNCHANGED daemonVars
      BY <1>s, <2>1, <2>2 DEF daemonVars
    <2>3. CASE BootContainer(target[u], HeldPids)
      <3>1. target[u] \in Ids
        BY <1>2 DEF DockerStart, Inv, TypeInv, Control, TypeOK
      <3>2. PICK id \in Ids : id = target[u]
        BY <3>1
      <3>3. QED
        BY <2>1, <2>3, <3>2, AbsBoot, AbsSameBusy DEF S!Next
    <2>4. QED
      BY <1>2, <2>2, <2>3 DEF DockerStart, StartContainer
  <1>3. CASE CallFails(u) \/ Kill(u)
    <2>1. UNCHANGED <<alive, cgroup, mainPid, ready, pidFile>>
      BY <1>3 DEF CallFails, Kill, daemonVars, toldVars
    <2>2. Running(u) \/ UNCHANGED pc
      BY <1>3 DEF CallFails, Kill, Running, Exited
    <2>3. QED
      BY <1>o, <1>s, <2>1, <2>2, AbsWork DEF S!Next
  <1>4. CASE StopUnit(u)
    BY <1>4, AbsStop DEF S!Next
  <1>5. CASE StartUnit(u)
    BY <1>5, AbsBegin DEF S!Next
  <1>6. QED
    BY <1>1, <1>2, <1>3, <1>4, <1>5 DEF ChildStep

\* And what processes, the daemon and people do.
LEMMA HostSupervises ==
  ASSUME Inv, HostStep
  PROVE  [S!Next]_(S!vars)
  <1>t. alive \subseteq Pids
    BY DEF Inv, TypeInv, HostInv, HostTypeOK
  <1>p. UNCHANGED <<pc, mainPid, pidFile>> /\ AbsBusy' = AbsBusy
    BY HostStepTypeInv, AbsSameBusy DEF Inv, ProgramSame, procVars
  <1>s. UNCHANGED <<alive, cgroup, ready>> => UNCHANGED S!vars
    BY <1>p, AbsSameHost DEF S!vars, AbsUnit, AbsBusy
  <1>e. ASSUME NEW p \in alive, alive' = alive \ {p}, cgroup' = cgroup, ready' = ready
        PROVE  S!Next
    <2>1. S!Ends({p}) /\ p \in S!Alive /\ p \in Pids
      BY <1>t, <1>e, AbsEnds, AbsAlive
    <2>2. S!End(p)
      BY <1>p, <1>e, <2>1 DEF S!End, AbsBusy
    <2>3. QED
      BY <2>1, <2>2 DEF S!Next
  <1>1. ASSUME NEW p \in Pids, Die(p) PROVE S!Next
    BY <1>1, <1>e DEF Die, ProcessEnds, toldVars
  <1>2. ASSUME NEW id \in Ids, Reap(id) PROVE UNCHANGED S!vars
    BY <1>2, <1>s DEF Reap, ReapContainer, toldVars
  <1>3. ASSUME NEW id \in Ids, CliStart(id) PROVE S!Next
    BY <1>3, <1>p, AbsBoot DEF CliStart, toldVars, S!Next
  <1>4. ASSUME NEW id \in Ids, CliRemove(id) PROVE [S!Next]_(S!vars)
    BY <1>4, <1>e, <1>s, AbsRemove DEF CliRemove, toldVars
  <1>5. ASSUME NEW u \in Units, NEW p \in Pids, ContainerReady(u, p) PROVE S!Next
    <2>1. /\ p \in alive /\ cgroup[p] = u /\ ready' = [ready EXCEPT ![u] = TRUE]
          /\ UNCHANGED <<alive, cgroup>>
      BY <1>5 DEF ContainerReady, daemonVars
    <2>2. S!Members(u) # {}
      BY <2>1, AbsAlive DEF S!Members, AbsUnit
    <2>3. S!ReadyFrom(u)
      BY <1>p, <2>1, <2>2, AbsSameHost DEF S!ReadyFrom, AbsUnit, AbsBusy
    <2>4. QED
      BY <2>3 DEF S!Next
  <1>6. ASSUME NEW u \in Units, NEW id \in Ids, CliRun(id, u) PROVE UNCHANGED S!vars
    BY <1>6, <1>s DEF CliRun, CreateContainer, toldVars
  <1>7. QED
    BY <1>1, <1>2, <1>3, <1>4, <1>5, <1>6 DEF HostStep

LEMMA NextSupervises ==
  Inv /\ Belongs /\ (\A v \in Units : Course(v)) /\ [Next]_vars => [S!Next]_(S!vars)
  <1> SUFFICES ASSUME Inv, Belongs, \A v \in Units : Course(v), [Next]_vars
               PROVE  [S!Next]_(S!vars)
    OBVIOUS
  <1>1. ASSUME NEW u \in Units, UnitStep(u) PROVE [S!Next]_(S!vars)
    BY <1>1, StepSupervises, UnitSupervises DEF UnitStep
  <1>2. CASE HostStep
    BY <1>2, HostSupervises
  <1>3. CASE UNCHANGED vars
    BY <1>3, AbsSameHost, AbsSameBusy DEF vars, S!vars, AbsUnit, AbsBusy
  <1>4. QED
    BY <1>1, <1>2, <1>3 DEF Next, HostStep, UnitStep

\* The units supervise as systemd needs it, for any number of units, containers
\* and processes and whatever fails, is killed or is done by hand: the steps of
\* systemd-docker, docker run, the daemon and everybody else are steps of
\* Supervision, or cannot be seen by systemd (main.go:148-188, 391-453, 495-524).
THEOREM ImplementsSupervision == Spec => Supervises
  <1>1. Init => S!Init
    BY DEF Init, HostInit, Running, Exited, S!Init
  <1>2. QED
    BY <1>1, NextSupervises, SpecInv, SpecBelongs, SpecCourse, PTL DEF Spec, S!Spec, Supervises

=============================================================================
