------------------------------- MODULE Takeover -------------------------------
(***************************************************************************)
(* What taking a container over into a unit promises, whatever the cgroup  *)
(* hierarchies are: the processes of the container join the unit one by    *)
(* one, none ever leaves it but by ending, children stay with their        *)
(* parents, and it is not done before the main process has joined.         *)
(***************************************************************************)
CONSTANTS Procs, Main

VARIABLES
  live,     \* the processes of the container
  member,   \* those that are altogether in the unit
  phase     \* "moving", "done" or "failed"

Init ==
  /\ live \subseteq Procs /\ Main \in live
  /\ member \in {{}, live}
  /\ phase = "moving"

Join(p) ==
  /\ phase = "moving" /\ p \in live
  /\ member' = member \union {p}
  /\ UNCHANGED <<live, phase>>

Finish ==
  /\ phase = "moving" /\ (Main \in live => Main \in member)
  /\ phase' = "done"
  /\ UNCHANGED <<live, member>>

Fail ==
  /\ phase = "moving"
  /\ phase' = "failed"
  /\ UNCHANGED <<live, member>>

Fork(p, child) ==
  /\ p \in live /\ child \notin live
  /\ live' = live \union {child}
  /\ member' = IF p \in member THEN member \union {child} ELSE member
  /\ UNCHANGED phase

\* Some processes end; all of them, if the main process does.
End(gone) ==
  /\ Main \in gone => gone = live
  /\ live' = live \ gone
  /\ member' = member \ gone
  /\ UNCHANGED phase

\* The unit is started again while the container goes on.
Retry ==
  /\ phase = "failed" /\ Main \in live
  /\ phase' = "moving"
  /\ \E gone \in SUBSET (live \ {Main}) :
       live' = live \ gone /\ member' = member \ gone

Next ==
  \/ \E p \in Procs : Join(p)
  \/ Finish \/ Fail \/ Retry
  \/ \E p, child \in Procs : Fork(p, child)
  \/ \E gone \in SUBSET live : End(gone)

Spec == Init /\ [][Next]_<<live, member, phase>>
===============================================================================
