------------------------- MODULE ContainerLifecycle -------------------------
(***************************************************************************)
(* What the fake docker server promises about its containers: every        *)
(* request takes effect at one moment; a container is created once and     *)
(* started only when it does not run; a removal takes away one; a change   *)
(* of state is due to be sent exactly when there is one.                   *)
(***************************************************************************)
EXTENDS Naturals

CONSTANT Ids

VARIABLES
  created,  \* the containers that have been created
  present,  \* those on the list
  running,  \* those that run
  paused,
  due       \* container -> how often it is still to be sent

vars == <<created, present, running, paused, due>>

Init ==
  /\ created = {} /\ present = {} /\ running = {} /\ paused = {}
  /\ due = [c \in Ids |-> 0]

Due(c) == due' = [due EXCEPT ![c] = @ + 1]

Create(c) ==
  /\ c \notin created
  /\ created' = created \union {c} /\ present' = present \union {c}
  /\ Due(c)
  /\ UNCHANGED <<running, paused>>

\* Of a container, too, that has been found and then removed.
Start(c) ==
  /\ c \in created \ running
  /\ running' = running \union {c}
  /\ Due(c)
  /\ UNCHANGED <<created, present, paused>>

Stop(c) ==
  /\ c \in running
  /\ running' = running \ {c}
  /\ Due(c)
  /\ UNCHANGED <<created, present, paused>>

\* Nobody is told.
Mutate(c) ==
  /\ c \in present
  /\ running' \in {running \union {c}, running \ {c}}
  /\ paused' \in {paused \union {c}, paused \ {c}}
  /\ UNCHANGED <<created, present, due>>

Pause(c) ==
  /\ c \in created
  /\ paused' \in {paused \union {c}, paused \ {c}}
  /\ UNCHANGED <<created, present, running, due>>

Remove(c) ==
  /\ c \in present
  /\ present' = present \ {c}
  /\ UNCHANGED <<created, running, paused, due>>

Send(c) ==
  /\ due[c] > 0
  /\ due' = [due EXCEPT ![c] = @ - 1]
  /\ UNCHANGED <<created, present, running, paused>>

Next ==
  \E c \in Ids :
    \/ Create(c) \/ Start(c) \/ Stop(c) \/ Mutate(c)
    \/ Pause(c) \/ Remove(c) \/ Send(c)

Spec == Init /\ [][Next]_vars
=============================================================================
