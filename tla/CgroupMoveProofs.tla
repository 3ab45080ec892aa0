-------------------------- MODULE CgroupMoveProofs --------------------------
(***************************************************************************)
(* What module CgroupMove promises for every number of processes and       *)
(* hierarchies, every selection of --cgroups and every kind of             *)
(* disturbance, and that it implements module Takeover.                    *)
(***************************************************************************)
EXTENDS CgroupMove, TLAPS

-----------------------------------------------------------------------------
(* The inductive invariant.                                                *)

\* A process is where docker put it or, in the hierarchies to be moved, where
\* systemd-docker is.
Places ==
  \A p \in Procs : \A h \in Hierarchies :
    \/ cg[p][h] = base[h]
    \/ h \in Wanted /\ cg[p][h] = own[h]

\* p is still to be written to cgroup.procs of the unit in h.
InHand(p, h) ==
  /\ h = hier
  /\ \/ pc \in {"stat", "write"} /\ p \in pids
     \/ pc = "write" /\ p = pid

\* A process that was listed has been moved or is in hand.
Listed ==
  \A h \in Hierarchies : \A p \in seen[h] :
    /\ p \in alive
    /\ pc # "failed" => cg[p][h] = own[h] \/ InHand(p, h)

\* The main process has been listed in each hierarchy that is behind, unless
\* it was in the unit before.
MainListed ==
  /\ \A h \in todo : cg[Main][h] = "docker"
  /\ pc \notin {"read", "failed"} /\ Main \in alive =>
       \A h \in Wanted \ todo : cg[Main][h] = own[h] \/ Main \in seen[h]

Position ==
  /\ pc \in {"stat", "write"} => hier \in Wanted \ todo
  /\ pc = "done" => todo = {}

IInv == TypeOK /\ Places /\ Listed /\ MainListed /\ Position

\* The inductive invariant holds at first.
LEMMA InitIInv == Init => IInv
  <1> SUFFICES ASSUME Init PROVE IInv
    OBVIOUS
  <1>1. TypeOK
    BY SystemdAssumption, MainAssumption DEF Init, TypeOK, Paths, Labels
  <1>2. QED
    BY <1>1, MainAssumption
    DEF Init, IInv, Places, Listed, MainListed, Position

-----------------------------------------------------------------------------
(* Each step keeps it.                                                     *)

\* The parameters of a behaviour do not change, nor does what is wanted.
LEMMA WantedSame ==
  ASSUME UNCHANGED paramVars
  PROVE  Wanted' = Wanted /\ Chosen' = Chosen
  BY DEF paramVars, Wanted, Chosen

LEMMA ReadCgroupsIInv == ASSUME IInv, ReadCgroups PROVE IInv'
  <1>1. Wanted' = Wanted
    BY WantedSame DEF ReadCgroups
  <1>2. CASE Main \in alive /\ todo' = { h \in Chosen : cg[Main][h] \notin {own[h], "root"} }
             /\ pc' = "next"
    <2>1. Chosen \subseteq Hierarchies
      BY DEF Chosen
    <2>2. \A h \in todo' : h \in Wanted /\ cg[Main][h] = "docker"
      <3> TAKE h \in todo'
      <3>1. h \in Hierarchies /\ h \in Chosen /\ cg[Main][h] \notin {own[h], "root"}
        BY <1>2, <2>1
      <3>2. cg[Main][h] = base[h] /\ base[h] \in {"root", "docker"}
        BY <3>1, MainAssumption DEF IInv, Places, TypeOK
      <3>3. QED
        BY <3>1, <3>2 DEF Wanted
    <2>3. \A h \in Wanted \ todo' : cg[Main][h] = own[h]
      <3> TAKE h \in Wanted \ todo'
      <3>1. h \in Hierarchies /\ h \in Chosen /\ base[h] = "docker"
        BY <2>1 DEF Wanted
      <3>2. cg[Main][h] \in {own[h], "root"}
        BY <1>2, <3>1
      <3>3. QED
        BY <3>1, <3>2, MainAssumption DEF IInv, Places
    <2>4. TypeOK'
      BY <1>1, <1>2, <2>2 DEF ReadCgroups, IInv, TypeOK, paramVars, hostVars, Labels
    <2>5. QED
      BY <1>1, <1>2, <2>2, <2>3, <2>4
      DEF ReadCgroups, IInv, Places, Listed, InHand, MainListed, Position,
          paramVars, hostVars
  <1>3. CASE pc' = "failed" /\ UNCHANGED todo
    BY <1>1, <1>3
    DEF ReadCgroups, IInv, TypeOK, Places, Listed, InHand, MainListed, Position,
        paramVars, hostVars, Labels
  <1>4. QED
    BY <1>2, <1>3 DEF ReadCgroups

LEMMA ListPidsIInv ==
  ASSUME IInv, NEW h \in Hierarchies, ListPids(h) PROVE IInv'
  <1>1. Wanted' = Wanted /\ h \in Wanted
    BY WantedSame DEF ListPids, IInv, TypeOK
  <1>2. CASE /\ todo' = todo \ {h} /\ hier' = h /\ pids' = InDocker(h)
             /\ seen' = [seen EXCEPT ![h] = InDocker(h)]
             /\ pc' = "stat"
    <2>1. InDocker(h) \subseteq alive
      BY DEF InDocker
    <2>2. TypeOK'
      BY <1>1, <1>2, <2>1 DEF ListPids, IInv, TypeOK, paramVars, hostVars, Labels
    <2>3. seen'[h] = InDocker(h) /\ \A i \in Hierarchies \ {h} : seen'[i] = seen[i]
      BY <1>2 DEF IInv, TypeOK
    <2>4. Listed'
      BY <1>2, <2>1, <2>3 DEF ListPids, IInv, Listed, InHand, paramVars, hostVars
    <2>5. Main \in alive => Main \in InDocker(h)
      BY DEF ListPids, IInv, MainListed, InDocker
    <2>6. MainListed'
      BY <1>1, <1>2, <2>3, <2>5
      DEF ListPids, IInv, MainListed, Wanted, Chosen, paramVars, hostVars
    <2>7. Places' /\ Position'
      BY <1>1, <1>2 DEF ListPids, IInv, Places, Position, paramVars, hostVars
    <2>8. QED
      BY <2>2, <2>4, <2>6, <2>7 DEF IInv
  <1>3. CASE pc' = "failed" /\ UNCHANGED <<todo, hier, pids, seen>>
    BY <1>1, <1>3
    DEF ListPids, IInv, TypeOK, Places, Listed, InHand, MainListed, Position,
        paramVars, hostVars, Labels
  <1>4. QED
    BY <1>2, <1>3 DEF ListPids

LEMMA StatPidIInv ==
  ASSUME IInv, NEW p \in Procs, StatPid(p) PROVE IInv'
  <1>1. Wanted' = Wanted
    BY WantedSame DEF StatPid
  <1>2. TypeOK'
    BY <1>1 DEF StatPid, IInv, TypeOK, paramVars, hostVars, Labels
  <1>3. Listed'
    BY DEF StatPid, IInv, Listed, InHand, paramVars, hostVars
  <1>4. QED
    BY <1>1, <1>2, <1>3
    DEF StatPid, IInv, Places, MainListed, Position, paramVars, hostVars

LEMMA WritePidIInv == ASSUME IInv, WritePid PROVE IInv'
  <1>1. Wanted' = Wanted /\ hier \in Wanted
    BY WantedSame DEF WritePid, IInv, Position
  <1>2. CASE /\ pid \in alive
             /\ cg' = [cg EXCEPT ![pid][hier] = own[hier]]
             /\ pc' = "stat"
    <2>1. \A p \in Procs : \A h \in Hierarchies :
            cg'[p][h] = IF p = pid /\ h = hier THEN own[h] ELSE cg[p][h]
      BY <1>2 DEF IInv, TypeOK
    <2>2. TypeOK'
      BY <1>1, <1>2 DEF WritePid, IInv, TypeOK, paramVars, localVars, Labels, Paths
    <2>3. Places'
      BY <1>1, <2>1 DEF WritePid, IInv, TypeOK, Places, paramVars, localVars
    <2>4. Listed'
      BY <1>2, <2>1 DEF WritePid, IInv, TypeOK, Listed, InHand, paramVars, localVars
    <2>5. MainListed'
      BY <1>1, <1>2, <2>1, MainAssumption
      DEF WritePid, IInv, TypeOK, MainListed, Position, Wanted, Chosen,
          paramVars, localVars
    <2>6. Position'
      BY <1>1, <1>2 DEF WritePid, IInv, Position, paramVars, localVars
    <2>7. QED
      BY <2>2, <2>3, <2>4, <2>5, <2>6 DEF IInv
  <1>3. CASE pid \notin alive /\ pc' \in {"stat", "failed"} /\ UNCHANGED cg
    BY <1>1, <1>3
    DEF WritePid, IInv, TypeOK, Places, Listed, InHand, MainListed, Position,
        paramVars, localVars, Labels
  <1>4. QED
    BY <1>2, <1>3 DEF WritePid

\* The steps that only move the program's counter.
LEMMA CounterIInv ==
  ASSUME IInv, NextHierarchy \/ Return \/ CallFails PROVE IInv'
  <1>1. Wanted' = Wanted /\ Chosen' = Chosen
    BY WantedSame DEF NextHierarchy, Return, CallFails
  <1>2. UNCHANGED <<paramVars, hostVars, localVars>>
    BY DEF NextHierarchy, Return, CallFails
  <1>3. CASE NextHierarchy
    BY <1>1, <1>2, <1>3
    DEF NextHierarchy, IInv, TypeOK, Places, Listed, InHand, MainListed, Position,
        paramVars, hostVars, localVars, Labels
  <1>4. CASE Return
    BY <1>1, <1>2, <1>4
    DEF Return, IInv, TypeOK, Places, Listed, InHand, MainListed, Position,
        paramVars, hostVars, localVars, Labels
  <1>5. CASE CallFails
    BY <1>1, <1>2, <1>5
    DEF CallFails, IInv, TypeOK, Places, Listed, InHand, MainListed, Position,
        paramVars, hostVars, localVars, Labels
  <1>6. QED
    BY <1>3, <1>4, <1>5

LEMMA ForkIInv ==
  ASSUME IInv, NEW p \in Procs, NEW child \in Procs, Fork(p, child) PROVE IInv'
  <1>1. Wanted' = Wanted
    BY DEF Fork, Wanted, Chosen
  <1>2. \A q \in Procs : cg'[q] = IF q = child THEN cg[p] ELSE cg[q]
    BY DEF Fork, IInv, TypeOK
  <1>3. child # Main /\ child \notin alive
    BY DEF Fork
  <1>4. TypeOK'
    BY <1>1 DEF Fork, IInv, TypeOK, paramVars, localVars
  <1>5. Places'
    BY <1>1, <1>2 DEF Fork, IInv, Places, paramVars
  <1>6. Listed'
    BY <1>2, <1>3 DEF Fork, IInv, TypeOK, Listed, InHand, paramVars, localVars
  <1>7. MainListed'
    BY <1>1, <1>2, <1>3, MainAssumption
    DEF Fork, IInv, TypeOK, MainListed, Wanted, Chosen, paramVars, localVars
  <1>8. Position'
    BY <1>1 DEF Fork, IInv, Position, localVars
  <1>9. QED
    BY <1>4, <1>5, <1>6, <1>7, <1>8 DEF IInv

LEMMA ExitIInv ==
  ASSUME IInv, NEW p \in Procs, Exit(p) PROVE IInv'
  <1>1. Wanted' = Wanted /\ Chosen' = Chosen
    BY WantedSame DEF Exit
  <1>2. PICK gone : gone = IF p = Main THEN alive ELSE {p}
    OBVIOUS
  <1>3. /\ alive' = alive \ gone
        /\ \A h \in Hierarchies : seen'[h] = seen[h] \ gone
        /\ seen' = [h \in Hierarchies |-> seen[h] \ gone]
        /\ cg' = cg
    BY <1>2 DEF Exit, End
  <1>4. Main \in alive' => Main \in alive /\ Main \notin gone
    BY <1>3
  <1>5. TypeOK'
    BY <1>1, <1>3 DEF Exit, IInv, TypeOK, paramVars
  <1>6. Places' /\ Position'
    BY <1>1, <1>3 DEF Exit, IInv, Places, Position, paramVars
  <1>7. Listed'
    BY <1>3 DEF Exit, IInv, Listed, InHand, paramVars
  <1>8. MainListed'
    BY <1>1, <1>3, <1>4
    DEF Exit, IInv, MainListed, Wanted, Chosen, paramVars
  <1>9. QED
    BY <1>5, <1>6, <1>7, <1>8 DEF IInv

LEMMA RetryIInv == ASSUME IInv, Retry PROVE IInv'
  <1>1. Wanted' = Wanted
    BY DEF Retry, Wanted, Chosen
  <1>2. TypeOK'
    BY <1>1, SystemdAssumption, MainAssumption
    DEF Retry, IInv, TypeOK, paramVars, Labels
  <1>3. QED
    BY <1>1, <1>2
    DEF Retry, IInv, Places, Listed, MainListed, Position, paramVars

LEMMA NextIInv == IInv /\ [Next]_vars => IInv'
  <1> SUFFICES ASSUME IInv, [Next]_vars PROVE IInv'
    OBVIOUS
  <1>1. CASE Step
    BY <1>1, ReadCgroupsIInv, ListPidsIInv, StatPidIInv, WritePidIInv, CounterIInv
    DEF Step
  <1>2. CASE (\E p, child \in Procs : Fork(p, child))
             \/ (\E p \in Procs : Exit(p)) \/ Retry
    BY <1>2, ForkIInv, ExitIInv, RetryIInv
  <1>3. CASE UNCHANGED vars
    BY <1>3
    DEF vars, IInv, TypeOK, Places, Listed, InHand, MainListed, Position, Wanted, Chosen
  <1>4. QED
    BY <1>1, <1>2, <1>3 DEF Next

LEMMA SpecIInv == Spec => []IInv
  BY InitIInv, NextIInv, PTL DEF Spec

-----------------------------------------------------------------------------
(* The theorems.                                                           *)

\* Every variable keeps to its type, and no hierarchy gets on the list that
\* is not selected or in which the container is in `/' (main.go:366-379).
THEOREM MoveTypeCorrect == Spec => []TypeOK
  BY SpecIInv, PTL DEF IInv

\* moveCgroups never passes over a process that it has read from cgroup.procs
\* and that still lives (main.go:386-403).
THEOREM MovesWhatItLists == Spec => []SnapshotMoved
  <1>1. IInv => SnapshotMoved
    BY DEF IInv, Listed, InHand, SnapshotMoved
  <1>2. QED
    BY <1>1, SpecIInv, PTL

\* When it returns without an error, c.Pid is in the unit in every selected
\* hierarchy: after any number of failed attempts, in any order of the
\* hierarchies, and whatever else has forked or ended (main.go:343-409).
THEOREM MovesMain == Spec => []MainMoved
  <1>1. IInv => MainMoved
    BY DEF IInv, TypeOK, Listed, InHand, MainListed, Position, MainMoved, Wanted, Chosen
  <1>2. QED
    BY <1>1, SpecIInv, PTL

\* It changes the cgroup of a living process only from the container's to the
\* unit's and only in a selected hierarchy (main.go:355-403, README.md:82-84).
THEOREM MovesOnlySelected == Spec => OnlySelected
  <1>1. ASSUME IInv, [Next]_vars, NEW p \in alive \intersect alive', cg'[p] # cg[p]
        PROVE  \E h \in Wanted : /\ cg[p][h] = "docker"
                                 /\ cg'[p] = [cg[p] EXCEPT ![h] = own[h]]
    <2>1. CASE WritePid
      <3>1. pid \in alive /\ cg' = [cg EXCEPT ![pid][hier] = own[hier]]
        BY <1>1, <2>1 DEF WritePid
      <3>2. p = pid /\ cg'[p] = [cg[p] EXCEPT ![hier] = own[hier]]
        BY <1>1, <3>1 DEF IInv, TypeOK
      <3>3. hier \in Wanted /\ hier \in Hierarchies /\ base[hier] = "docker"
        BY <1>1, <2>1 DEF WritePid, IInv, TypeOK, Position, Wanted
      <3>4. cg[p] \in [Hierarchies -> Paths] /\ p \in Procs
        BY <1>1, <3>2 DEF IInv, TypeOK
      <3>5. cg[p][hier] # own[hier]
        BY <1>1, <3>2, <3>3, <3>4
      <3>6. cg[p][hier] = "docker"
        BY <1>1, <3>3, <3>4, <3>5 DEF IInv, Places
      <3>7. QED
        BY <3>2, <3>3, <3>6
    <2>2. CASE Step /\ ~WritePid
      BY <1>1, <2>2
      DEF Step, ReadCgroups, ListPids, StatPid, NextHierarchy, Return, CallFails, hostVars
    <2>3. ASSUME NEW q \in Procs, NEW child \in Procs, Fork(q, child) PROVE FALSE
      BY <1>1, <2>3 DEF Fork, IInv, TypeOK
    <2>4. CASE (\E q \in Procs : Exit(q)) \/ Retry \/ UNCHANGED vars
      BY <1>1, <2>4 DEF Exit, End, Retry, vars
    <2>5. QED
      BY <1>1, <2>1, <2>2, <2>3, <2>4 DEF Next
  <1>2. IInv /\ [Next]_vars =>
          [ \A p \in alive \intersect alive' :
              cg'[p] # cg[p] =>
                \E h \in Wanted : /\ cg[p][h] = "docker"
                                  /\ cg'[p] = [cg[p] EXCEPT ![h] = own[h]] ]_vars
    BY <1>1
  <1>3. QED
    BY <1>2, SpecIInv, PTL DEF Spec, OnlySelected

-----------------------------------------------------------------------------
(* The refinement.                                                         *)

\* The abstract step of each concrete one, or none.
LEMMA InitTakeover == Init => T!Init
  <1> SUFFICES ASSUME Init PROVE T!Init
    OBVIOUS
  <1>1. Wanted = {} => Members = alive
    BY DEF Members
  <1>2. \A p \in alive : \A h \in Wanted : p \in Procs /\ cg[p][h] # own[h]
    BY DEF Init, Wanted, Chosen
  <1>3. Wanted # {} => Members = {}
    BY <1>2 DEF Members
  <1>4. QED
    BY <1>1, <1>3, MainAssumption DEF Init, T!Init, Busy

LEMMA StepTakeover ==
  ASSUME IInv, Step
  PROVE  \/ \E p \in Procs : T!Join(p)
         \/ T!Finish \/ T!Fail
         \/ UNCHANGED <<alive, Members, IF Busy THEN "moving" ELSE pc>>
  <1>1. Wanted' = Wanted /\ UNCHANGED paramVars /\ alive' = alive
    BY WantedSame
    DEF Step, ReadCgroups, ListPids, StatPid, NextHierarchy, WritePid, Return,
        CallFails, hostVars
  <1>2. CASE UNCHANGED cg /\ pc' \in {"next", "stat", "write", "failed"} /\ Busy
    BY <1>1, <1>2 DEF T!Fail, Members, Busy, paramVars
  <1>3. CASE Return
    <2>1. \A h \in Wanted : Main \in alive => cg[Main][h] = own[h]
      BY <1>3
      DEF Return, IInv, TypeOK, Listed, InHand, MainListed, Wanted, Chosen
    <2>2. QED
      BY <1>1, <1>3, <2>1 DEF Return, T!Finish, Members, Busy, paramVars, hostVars
  <1>4. CASE WritePid /\ ~UNCHANGED cg
    <2>1. pid \in alive /\ cg' = [cg EXCEPT ![pid][hier] = own[hier]] /\ pc' = "stat"
      BY <1>4 DEF WritePid
    <2>2. \A p \in Procs : \A h \in Hierarchies :
            cg'[p][h] = IF p = pid /\ h = hier THEN own[h] ELSE cg[p][h]
      BY <2>1 DEF IInv, TypeOK
    <2>3. Wanted \subseteq Hierarchies /\ alive \subseteq Procs
      BY DEF Wanted, Chosen, IInv, TypeOK
    <2>4. Members' = Members \/ Members' = Members \union {pid}
      BY <1>1, <2>2, <2>3 DEF Members, paramVars
    <2>5. QED
      BY <1>1, <1>4, <2>1, <2>3, <2>4 DEF WritePid, T!Join, Busy
  <1>5. QED
    BY <1>2, <1>3, <1>4
    DEF Step, ReadCgroups, ListPids, StatPid, NextHierarchy, WritePid, Return,
        CallFails, hostVars, Busy

LEMMA ForkTakeover ==
  ASSUME IInv, NEW p \in Procs, NEW child \in Procs, Fork(p, child)
  PROVE  T!Fork(p, child)
  <1>1. Wanted' = Wanted
    BY DEF Fork, Wanted, Chosen
  <1>2. \A q \in Procs : cg'[q] = IF q = child THEN cg[p] ELSE cg[q]
    BY DEF Fork, IInv, TypeOK
  <1>3. alive \subseteq Procs /\ p \in alive /\ child \notin alive
        /\ alive' = alive \union {child}
    BY DEF Fork, IInv, TypeOK
  <1>4. own' = own /\ pc' = pc
    BY DEF Fork, paramVars
  <1>5. Members' = IF p \in Members THEN Members \union {child} ELSE Members
    BY <1>1, <1>2, <1>3, <1>4 DEF Members
  <1>6. QED
    BY <1>3, <1>4, <1>5 DEF T!Fork, Busy

LEMMA ExitTakeover ==
  ASSUME IInv, NEW p \in Procs, Exit(p)
  PROVE  \E gone \in SUBSET alive : T!End(gone)
  <1>1. Wanted' = Wanted /\ own' = own /\ pc' = pc /\ cg' = cg
    BY WantedSame DEF Exit, End, paramVars
  <1>2. CASE p = Main
    <2>1. alive' = alive \ alive
      BY <1>2 DEF Exit, End
    <2>2. Members' = Members \ alive
      BY <2>1, <1>1 DEF Members
    <2>3. T!End(alive)
      BY <2>1, <2>2, <1>1 DEF T!End, Busy
    <2>4. QED
      BY <2>3
  <1>3. CASE p # Main
    <2>1. alive' = alive \ {p} /\ p \in alive
      BY <1>3 DEF Exit, End
    <2>2. Members' = Members \ {p}
      BY <2>1, <1>1 DEF Members
    <2>3. T!End({p})
      BY <2>1, <2>2, <1>1, <1>3 DEF T!End, Busy
    <2>4. QED
      BY <2>1, <2>3
  <1>4. QED
    BY <1>2, <1>3

LEMMA RetryTakeover == ASSUME IInv, Retry PROVE T!Retry
  <1>1. Wanted' = Wanted /\ own' = own /\ cg' = cg
    BY DEF Retry, Wanted, Chosen
  <1> DEFINE gone == { q \in alive : cg[q][Systemd] = "unit" }
  <1>2. alive' = alive \ gone /\ gone \in SUBSET (alive \ {Main})
    BY DEF Retry
  <1>3. Members' = Members \ gone
    BY <1>1, <1>2 DEF Members
  <1>4. ~Busy /\ pc = "failed" /\ Busy' /\ Main \in alive
    BY DEF Retry, Busy
  <1>5. QED
    BY <1>2, <1>3, <1>4 DEF T!Retry

\* moveCgroups, process by process and hierarchy by hierarchy, is a takeover:
\* processes join the unit one at a time and never leave it, children follow
\* their parents, and it is not done before c.Pid has joined
\* (main.go:343-409).
THEOREM ImplementsTakeover == Spec => TakesOver
  <1>1. IInv /\ [Next]_vars =>
          [T!Next]_<<alive, Members, IF Busy THEN "moving" ELSE pc>>
    <2> SUFFICES ASSUME IInv, [Next]_vars
                 PROVE  [T!Next]_<<alive, Members, IF Busy THEN "moving" ELSE pc>>
      OBVIOUS
    <2>1. CASE Step
      BY <2>1, StepTakeover DEF T!Next
    <2>2. CASE \E p, child \in Procs : Fork(p, child)
      BY <2>2, ForkTakeover DEF T!Next
    <2>3. CASE \E p \in Procs : Exit(p)
      BY <2>3, ExitTakeover DEF T!Next
    <2>4. CASE Retry
      BY <2>4, RetryTakeover DEF T!Next
    <2>5. CASE UNCHANGED vars
      BY <2>5 DEF vars, Members, Wanted, Chosen, Busy
    <2>6. QED
      BY <2>1, <2>2, <2>3, <2>4, <2>5 DEF Next
  <1>2. QED
    BY <1>1, InitTakeover, SpecIInv, PTL DEF Spec, TakesOver, T!Spec

-----------------------------------------------------------------------------
(* A first attempt without forks.                                          *)

\* Every process that lives is still in docker's cgroup of a hierarchy to
\* come, and was listed in one that is behind.
AllListed ==
  quiet /\ pc # "failed" =>
    \A p \in alive : \A h \in Wanted :
      IF pc = "read" \/ h \in todo THEN cg[p][h] = "docker" ELSE p \in seen[h]

LEMMA NextAllListed ==
  ASSUME IInv, AllListed, [Next]_vars, quiet, quiet'
  PROVE  AllListed'
  <1>1. CASE ReadCgroups
    <2>1. Wanted' = Wanted /\ alive' = alive /\ cg' = cg /\ own' = own
      BY <1>1, WantedSame DEF ReadCgroups, paramVars, hostVars
    <2>2. CASE Main \in alive
      <3>1. \A h \in Wanted : h \in Chosen /\ cg[Main][h] = "docker" /\ own[h] # "docker"
        BY <1>1, <2>2 DEF ReadCgroups, AllListed, IInv, TypeOK, Wanted, Chosen
      <3>2. Wanted \subseteq todo'
        BY <1>1, <2>2, <3>1 DEF ReadCgroups
      <3>3. QED
        BY <1>1, <2>1, <3>2 DEF ReadCgroups, AllListed
    <2>3. CASE Main \notin alive
      BY <1>1, <2>3 DEF ReadCgroups, AllListed
    <2>4. QED
      BY <2>2, <2>3
  <1>2. ASSUME NEW h \in Hierarchies, ListPids(h) PROVE AllListed'
    <2>1. Wanted' = Wanted /\ alive' = alive /\ cg' = cg
      BY <1>2, WantedSame DEF ListPids, paramVars, hostVars
    <2>2. CASE pc' = "failed"
      BY <2>2 DEF AllListed
    <2>3. CASE todo' = todo \ {h} /\ seen' = [seen EXCEPT ![h] = InDocker(h)]
               /\ pc' = "stat"
      <3>1. seen'[h] = InDocker(h) /\ \A i \in Hierarchies \ {h} : seen'[i] = seen[i]
        BY <2>3 DEF IInv, TypeOK
      <3>2. \A p \in alive : h \in Wanted => p \in InDocker(h)
        BY <1>2 DEF ListPids, AllListed, InDocker
      <3>3. QED
        BY <1>2, <2>1, <2>3, <3>1, <3>2 DEF ListPids, AllListed, Wanted, Chosen
    <2>4. QED
      BY <1>2, <2>2, <2>3 DEF ListPids
  <1>3. CASE WritePid
    <2>1. Wanted' = Wanted /\ alive' = alive /\ todo' = todo /\ seen' = seen
      BY <1>3, WantedSame DEF WritePid, paramVars, localVars
    <2>2. \A p \in Procs : \A h \in Hierarchies : h # hier => cg'[p][h] = cg[p][h]
      BY <1>3 DEF WritePid, IInv, TypeOK
    <2>3. hier \notin todo /\ Wanted \subseteq Hierarchies
      BY <1>3 DEF WritePid, IInv, Position, Wanted, Chosen
    <2>4. QED
      BY <1>3, <2>1, <2>2, <2>3 DEF WritePid, AllListed, IInv, TypeOK
  <1>4. CASE (\E p \in Procs : StatPid(p)) \/ NextHierarchy \/ Return \/ CallFails
    BY <1>4, WantedSame
    DEF StatPid, NextHierarchy, Return, CallFails, AllListed, hostVars, localVars
  <1>5. ASSUME NEW q \in Procs, Exit(q) PROVE AllListed'
    <2>1. Wanted' = Wanted /\ cg' = cg /\ pc' = pc /\ todo' = todo
      BY <1>5, WantedSame DEF Exit, End
    <2>2. \A p \in alive' : p \in alive
      BY <1>5 DEF Exit, End
    <2>3. \A p \in alive' : \A h \in Hierarchies : p \in seen[h] => p \in seen'[h]
      BY <1>5 DEF Exit, End
    <2>4. QED
      BY <2>1, <2>2, <2>3 DEF AllListed, Wanted, Chosen
  <1>6. CASE UNCHANGED vars
    BY <1>6 DEF vars, AllListed, Wanted, Chosen
  <1>7. QED
    BY <1>1, <1>2, <1>3, <1>4, <1>5, <1>6 DEF Next, Step, Fork, Retry

\* When no process has forked and it is the first attempt, the whole container is
\* moved: forks and retries are all that README.md:79 passes over (main.go:343-409).
THEOREM MovesAllWhenQuiet == Spec => []AllMoved
  <1>1. Init => AllListed
    BY DEF Init, AllListed, Wanted
  <1>2. IInv /\ AllListed /\ [Next]_vars => AllListed'
    <2>1. ASSUME [Next]_vars, quiet' PROVE quiet
      BY <2>1 DEF Next, Step, ReadCgroups, ListPids, StatPid, NextHierarchy, WritePid,
        Return, CallFails, Fork, Exit, Retry, paramVars, vars
    <2>2. QED
      BY <2>1, NextAllListed DEF AllListed
  <1>3. IInv /\ AllListed => AllMoved
    BY DEF IInv, TypeOK, AllListed, Listed, InHand, Position, AllMoved, Wanted, Chosen
  <1>4. QED
    BY <1>1, <1>2, <1>3, SpecIInv, PTL DEF Spec
=============================================================================
