----------------------------- MODULE Supervision -----------------------------
(***************************************************************************)
(* What systemd may rely on when its units run containers that a daemon of *)
(* its own starts.  A process enters a unit only by being taken over by    *)
(* the unit's program, and leaves it only by ending.  The main process     *)
(* that systemd is told of is in the unit, is told once in the life of the *)
(* program, and is taken back only when it is gone; READY=1 comes after it *)
(* or from inside the unit; the pid file agrees with it.  And a unit's     *)
(* program ends no process that is in another unit.                        *)
(***************************************************************************)
CONSTANTS Units, Procs, Nobody, NoProc, Self

VARIABLES
  unit,   \* the processes that live -> the unit each is in, or Nobody
  main,   \* unit -> the main process systemd has been told of; Self: the program
  ready,  \* unit -> systemd takes it for started
  file,   \* unit -> the content of its pid file; NoProc: there is none
  busy    \* the units whose program runs

vars == <<unit, main, ready, file, busy>>

Alive == DOMAIN unit
Members(u) == { p \in Alive : unit[p] = u }

\* In the unit, unless it has just died.
Inside(u, p) == p \in Alive => unit[p] = u

Ends(gone) == unit' = [p \in Alive \ gone |-> unit[p]]

Init ==
  /\ unit = [p \in {} |-> Nobody]
  /\ main = [u \in Units |-> Self]
  /\ ready = [u \in Units |-> FALSE]
  /\ file = [u \in Units |-> NoProc]
  /\ busy = {}

-----------------------------------------------------------------------------
(* The program of a unit.                                                  *)

MayEnd(u) == busy' \in {busy, busy \ {u}}

\* Of all that it asks for, or loses by an error or a signal.
Work(u) ==
  /\ u \in busy /\ MayEnd(u)
  /\ UNCHANGED <<unit, main, ready, file>>

Join(u, p) ==
  /\ u \in busy /\ p \in Alive /\ unit[p] \in {u, Nobody}
  /\ unit' = [unit EXCEPT ![p] = u]
  /\ UNCHANGED <<main, ready, file, busy>>

\* What it ends is its own, or nobody's.
Clear(u) ==
  /\ u \in busy /\ MayEnd(u)
  /\ \E p \in Alive : unit[p] \in {u, Nobody} /\ Ends({p})
  /\ UNCHANGED <<main, ready, file>>

Tell(u, p) ==
  /\ u \in busy /\ main[u] = Self /\ Inside(u, p)
  /\ main' = [main EXCEPT ![u] = p]
  /\ UNCHANGED <<unit, ready, file, busy>>

Retract(u) ==
  /\ u \in busy /\ main[u] \notin Alive
  /\ main' = [main EXCEPT ![u] = Self]
  /\ busy' = busy \ {u}
  /\ UNCHANGED <<unit, ready, file>>

Ready(u) ==
  /\ u \in busy /\ main[u] # Self /\ MayEnd(u)
  /\ ready' = [ready EXCEPT ![u] = TRUE]
  /\ UNCHANGED <<unit, main, file>>

Note(u, p) ==
  /\ u \in busy /\ main[u] \in {Self, p} /\ Inside(u, p) /\ MayEnd(u)
  /\ file' = [file EXCEPT ![u] = p]
  /\ UNCHANGED <<unit, main, ready>>

-----------------------------------------------------------------------------
(* systemd, the daemon and the processes.                                  *)

Begin(u) ==
  /\ u \notin busy /\ main[u] \notin Alive
  /\ busy' = busy \union {u}
  /\ main' = [main EXCEPT ![u] = Self]
  /\ ready' = [ready EXCEPT ![u] = FALSE]
  /\ UNCHANGED <<unit, file>>

Stop(u) ==
  /\ Ends(Members(u))
  /\ busy' = busy \ {u}
  /\ UNCHANGED <<main, ready, file>>

\* No number is given away that systemd or a file still knows.
Spawn(p) ==
  /\ p \notin Alive
  /\ \A u \in Units : p \notin {main[u], file[u]}
  /\ unit' = [q \in Alive \union {p} |-> IF q = p THEN Nobody ELSE unit[q]]
  /\ UNCHANGED <<main, ready, file, busy>>

End(p) ==
  /\ p \in Alive
  /\ Ends({p})
  /\ UNCHANGED <<main, ready, file, busy>>

ReadyFrom(u) ==
  /\ Members(u) # {}
  /\ ready' = [ready EXCEPT ![u] = TRUE]
  /\ UNCHANGED <<unit, main, file, busy>>

Next ==
  \/ \E u \in Units : \/ Work(u) \/ Clear(u) \/ Retract(u) \/ Ready(u)
                      \/ Begin(u) \/ Stop(u) \/ ReadyFrom(u)
  \/ \E u \in Units, p \in Procs : Join(u, p) \/ Tell(u, p) \/ Note(u, p)
  \/ \E p \in Procs : Spawn(p) \/ End(p)

Spec == Init /\ [][Next]_vars
=============================================================================
