------------------------- MODULE EventMonitorProofs -------------------------
(***************************************************************************)
(* Proofs that the counter Wait looks at is exact, that a delivery sends   *)
(* only to listeners that are still on the list, and that lastSeen passes  *)
(* no event that is still asked for, for any number of listeners,          *)
(* goroutines and events.                                                  *)
(***************************************************************************)
EXTENDS EventMonitor, FiniteSetTheorems, SequenceTheorems, TLAPS

(* The inductive invariant.                                                *)

Users == {"away", "out", "in", "enable", "add", "remove", "check", "wait", "disable"}

MonitorPcs == {"gone", "poll", "connect", "wait", "waitEnd", "disable", "disableEnd",
               "loop", "select"}

SenderPcs == {"free", "start", "check", "none", "send"}

ReaderPcs == {"away", "unused", "reading", "sending", "done", "garbled"}

MonitorStates == [pc : MonitorPcs, gen : 0..MaxGen, tries : Nat]

SenderStates == [pc : SenderPcs, ev : 0..MaxTime, left : SUBSET Listeners]

ReaderStates == [pc : ReaderPcs, gen : 0..MaxGen, next : Nat]

\* The types of TypeOK, but for the counter, and of the goroutines.
Types ==
  /\ enabled \in BOOLEAN /\ gen \in 0..MaxGen
  /\ listeners \in SUBSET Listeners /\ lastSeen \in 0..MaxTime
  /\ C \in [Gens -> Seq(Times)]
  /\ errC \in [Gens -> SUBSET {"ErrNoListeners", "err"}]
  /\ writer \in {None} \union Listeners \union Monitors \union Slots
  /\ user \in [Listeners -> Users]
  /\ monitor \in [Monitors -> MonitorStates]
  /\ reader \in [Readers -> ReaderStates]
  /\ sender \in [Slots -> SenderStates]
  /\ updater \in [Slots -> 0..MaxTime]
  /\ clock \in 0..MaxTime

\* An enabled state, a monitor and one at its select have channels, and a
\* channel keeps to its capacity.
Places ==
  /\ enabled => gen \in Gens
  /\ \A m \in Monitors : monitor[m].pc # "gone" => gen \in Gens
  /\ \A m \in Monitors : monitor[m].pc = "select" => monitor[m].gen \in 1..gen
  /\ \A g \in Gens : Len(C[g]) <= Cap

\* Nothing comes before the daemon has sent it: a connection goes on from an
\* event that has been sent or is the next.
Past ==
  /\ lastSeen <= clock
  /\ \A s \in Slots : updater[s] <= clock
  /\ \A g \in Gens : \A i \in DOMAIN C[g] : C[g][i] <= clock
  /\ \A r \in Readers : reader[r].pc = "reading" => reader[r].next \in 1..(clock + 1)
  /\ \A r \in Readers : reader[r].pc = "sending" => reader[r].next \in 1..clock

\* An owner that has the lock, or waits for it, is in a write section of its own.
Writers ==
  \A l \in Listeners : writer = l =>
    /\ user[l] \in {"add", "remove", "disable", "enable"}
    /\ user[l] = "enable" => enabled \/ gen < MaxGen

Counter == count = Cardinality(listeners) + Cardinality(HoldingRead)

\* Only a delivery that holds the lock has listeners left to send to.
Sending ==
  \A s \in Slots : sender[s].left # {} => sender[s].pc = "send"

(* The stream of events.  An event is gone when it has been taken, or nobody
   asks for it any more. *)
Gone == received \union missed

Taken(t) == \A u \in 1..t : u \in Gone

\* A channel of the past has only what came before the monitoring was enabled
\* again, a channel of the future has nothing.
Channels ==
  \A g \in Gens :
    /\ g < gen => \A i \in DOMAIN C[g] : \A u \in 1..C[g][i] : u \in missed
    /\ g > gen => C[g] = <<>>

\* The channel has no gap: what comes before an element is gone or before it in
\* the channel.
NoGap ==
  gen \in Gens =>
    \A i \in DOMAIN C[gen] : \A u \in 1..(C[gen][i] - 1) :
      u \in Gone \/ \E j \in 1..(i - 1) : C[gen][j] = u

\* No connection is ahead of the channel.
Followed ==
  \A r \in Readers : reader[r].pc \in {"reading", "sending"} =>
    \A u \in 1..(reader[r].next - 1) :
      u \in Gone \/ (gen \in Gens /\ \E j \in DOMAIN C[gen] : C[gen][j] = u)

\* What is still to be recorded as seen has been taken with all before it.
ToRecord == \A s \in Slots : Taken(updater[s])

Stream == Channels /\ NoGap /\ Followed /\ ToRecord

IInv ==
  /\ Types /\ Places /\ Past /\ Writers
  /\ Counter /\ Sending /\ NoSendAfterRemoval
  /\ Stream /\ NoneSkipped

-----------------------------------------------------------------------------
(* Types.                                                                  *)

\* Arithmetic.
LEMMA Before ==
  ASSUME NEW i \in Nat, NEW j \in 1..i, j # 1
  PROVE  (j - 1) + 1 = j /\ j - 1 \in 1..(i - 1)
  OBVIOUS

LEMMA FromHere ==
  ASSUME NEW s \in Nat, NEW c \in Nat, NEW d \in Nat, s <= c, c <= d
  PROVE  (IF s = 0 THEN c + 1 ELSE s) \in 1..(d + 1)
  OBVIOUS

\* What the actions make of a record keeps to its set.
LEMMA MonitorFields ==
  ASSUME NEW x \in MonitorStates, NEW pc \in MonitorPcs, NEW g \in 0..MaxGen, NEW t \in Nat
  PROVE  /\ [x EXCEPT !.pc = pc] \in MonitorStates
         /\ [x EXCEPT !.pc = pc, !.gen = g] \in MonitorStates
         /\ [x EXCEPT !.pc = pc, !.tries = t] \in MonitorStates
  BY DEF MonitorStates

LEMMA SenderFields ==
  ASSUME NEW x \in SenderStates, NEW pc \in SenderPcs, NEW e \in 0..MaxTime,
         NEW left \in SUBSET Listeners
  PROVE  /\ [x EXCEPT !.pc = pc, !.left = left] \in SenderStates
         /\ [x EXCEPT !.pc = pc, !.ev = e] \in SenderStates
         /\ [pc |-> pc, ev |-> e, left |-> left] \in SenderStates
  BY DEF SenderStates

LEMMA ReaderFields ==
  ASSUME NEW x \in ReaderStates, NEW pc \in ReaderPcs, NEW g \in 0..MaxGen, NEW t \in Nat
  PROVE  /\ [x EXCEPT !.pc = pc] \in ReaderStates
         /\ [x EXCEPT !.pc = pc, !.next = t] \in ReaderStates
         /\ [pc |-> pc, gen |-> g, next |-> t] \in ReaderStates
  BY DEF ReaderStates

LEMMA InitTypes ==
  Init => Types /\ Places /\ Past /\ Writers /\ Sending /\ NoSendAfterRemoval
<1> SUFFICES ASSUME Init
             PROVE  /\ Types /\ Places /\ Past /\ Writers
                    /\ Sending /\ NoSendAfterRemoval
  OBVIOUS
<1> USE BoundsAssumption, GoroutinesAssumption DEF Init
<1>1. PICK L \in SUBSET Listeners, R \in SUBSET Readers :
        /\ user = [l \in Listeners |-> IF l \in L THEN "out" ELSE "away"]
        /\ reader = [r \in Readers |->
             [pc |-> IF r \in R THEN "unused" ELSE "away", gen |-> 0, next |-> 0]]
  OBVIOUS
<1>2. C \in [Gens -> Seq(Times)] /\ \A g \in Gens : Len(C[g]) = 0
  OBVIOUS
<1>3. monitor \in [Monitors -> MonitorStates]
  BY DEF MonitorStates, MonitorPcs
<1>4. sender \in [Slots -> SenderStates]
  BY DEF SenderStates, SenderPcs
<1>5. reader \in [Readers -> ReaderStates]
  BY <1>1 DEF ReaderStates, ReaderPcs
<1>6. user \in [Listeners -> Users]
  BY <1>1 DEF Users
<1>t. Types
  <2>1. errC \in [Gens -> SUBSET {"ErrNoListeners", "err"}] /\ updater \in [Slots -> 0..MaxTime]
    OBVIOUS
  <2>2. enabled \in BOOLEAN /\ listeners \in SUBSET Listeners /\ writer = None
    OBVIOUS
  <2>3. /\ gen \in 0..MaxGen
        /\ lastSeen \in 0..MaxTime /\ clock \in 0..MaxTime
    OBVIOUS
  <2> HIDE DEF Init
  <2> QED
    BY <1>2, <1>3, <1>4, <1>5, <1>6, <2>1, <2>2, <2>3 DEF Types
<1>7. Places /\ Past
  BY <1>1, <1>2 DEF Places, Past
<1>8. Writers
  BY <1>1 DEF Writers
<1>9. NoSendAfterRemoval /\ Sending
  BY DEF NoSendAfterRemoval, Sending
<1> QED
  BY <1>t, <1>7, <1>8, <1>9

\* The channels that a monitor waits for exist.
LEMMA SelectGen ==
  ASSUME Types, Places, NEW m \in Monitors, monitor[m].pc = "select"
  PROVE  monitor[m].gen \in Gens
  BY BoundsAssumption DEF Types, Places, Gens

LEMMA TypesStep == Types /\ Places /\ Past /\ Writers /\ [Next]_vars => Types'
<1> SUFFICES ASSUME Types, Places, Past, Writers, [Next]_vars
             PROVE  Types'
  OBVIOUS
<1> USE BoundsAssumption DEF state, history
<1>1. ASSUME NEW p \in Listeners \union Monitors \union Slots, Lock(p)
      PROVE  Types'
  BY <1>1 DEF Lock, Types, Users, CanWrite
<1>2. ASSUME NEW l \in Listeners, AddEventListener(l)
      PROVE  Types'
  BY <1>2 DEF AddEventListener, Types, Users, CanWrite
<1>3. ASSUME NEW l \in Listeners, EnableEventMonitoring(l)
      PROVE  Types'
  <2>1. monitor' \in [Monitors -> MonitorStates]
    <3>1. CASE enabled
      BY <1>3, <3>1 DEF EnableEventMonitoring, Types
    <3>2. CASE ~enabled
      <4>1. PICK m \in Monitors : monitor' = [monitor EXCEPT ![m].pc = "poll"]
        BY <1>3, <3>2 DEF EnableEventMonitoring
      <4> QED
        BY <4>1, MonitorFields DEF Types, MonitorPcs
    <3> QED
      BY <3>1, <3>2
  <2>2. gen' \in 0..MaxGen
    BY <1>3 DEF EnableEventMonitoring, CanWrite, Writers, Types
  <2>3. enabled' \in BOOLEAN /\ lastSeen' \in 0..MaxTime
    <3>1. CASE enabled' = TRUE /\ lastSeen' = 0
      BY <3>1 DEF Types
    <3>2. CASE enabled' = enabled /\ lastSeen' = lastSeen
      BY <3>2 DEF Types
    <3> QED
      BY <1>3, <3>1, <3>2 DEF EnableEventMonitoring
  <2>4. user' \in [Listeners -> Users]
    BY <1>3 DEF EnableEventMonitoring, Types, Users
  <2> QED
    BY <1>3, <2>1, <2>2, <2>3, <2>4 DEF EnableEventMonitoring, Types
<1>4. ASSUME NEW l \in Listeners, AddListener(l)
      PROVE  Types'
  BY <1>4 DEF AddListener, Types, Users, CanWrite
<1>5. ASSUME NEW l \in Listeners, RemoveEventListener(l)
      PROVE  Types'
  BY <1>5 DEF RemoveEventListener, Types, Users, CanWrite
<1>6. ASSUME NEW l \in Listeners, RemoveListener(l)
      PROVE  Types'
  BY <1>6 DEF RemoveListener, Types, Users, CanWrite
<1>7. ASSUME NEW l \in Listeners, CheckListeners(l)
      PROVE  Types'
  BY <1>7 DEF CheckListeners, Types, Users, CanWrite
<1>8. ASSUME NEW l \in Listeners, UserWaited(l)
      PROVE  Types'
  BY <1>8 DEF UserWaited, Types, Users, CanWrite
<1>9. ASSUME NEW l \in Listeners, UserDisables(l)
      PROVE  Types'
  BY <1>9 DEF UserDisables, Types, Users, CanWrite
<1>10. ASSUME NEW m \in Monitors, Poll(m)
      PROVE  Types'
  <2>1. monitor' \in [Monitors -> MonitorStates]
    BY <1>10, MonitorFields DEF Poll, MonitorGoes, Types, MonitorPcs
  <2> QED
    BY <1>10, <2>1 DEF Poll, Types, CanWrite
<1>11. ASSUME NEW m \in Monitors, Connect(m)
      PROVE  Types'
  <2>1. monitor' \in [Monitors -> MonitorStates]
    <3>1. monitor[m] \in MonitorStates /\ monitor[m].tries + 1 \in Nat
      BY DEF Types, MonitorStates
    <3>2. CASE UNCHANGED reader /\ monitor' = [monitor EXCEPT ![m].tries = @ + 1]
      <4>1. [monitor[m] EXCEPT !.tries = @ + 1] \in MonitorStates
        BY <3>1 DEF MonitorStates
      <4> QED
        BY <3>2, <4>1 DEF Types
    <3>3. CASE MonitorGoes(m, "loop") \/ MonitorGoes(m, "wait")
      <4>1. PICK pc \in MonitorPcs : MonitorGoes(m, pc)
        BY <3>3 DEF MonitorPcs
      <4> QED
        BY <3>1, <4>1, MonitorFields DEF Types, MonitorGoes
    <3> QED
      BY <1>11, <3>2, <3>3 DEF Connect
  <2>2. reader' \in [Readers -> ReaderStates]
    <3>1. CASE UNCHANGED reader
      BY <3>1 DEF Types
    <3>2. ASSUME NEW r \in Readers,
                 reader' = [reader EXCEPT ![r] =
                   [pc |-> "reading", gen |-> gen,
                    next |-> IF lastSeen = 0 THEN clock + 1 ELSE lastSeen]]
          PROVE  reader' \in [Readers -> ReaderStates]
      <4> DEFINE next == IF lastSeen = 0 THEN clock + 1 ELSE lastSeen
      <4>1. next \in Nat /\ gen \in 0..MaxGen
        BY DEF Types
      <4>2. [pc |-> "reading", gen |-> gen, next |-> next] \in ReaderStates
        BY <4>1 DEF ReaderStates, ReaderPcs
      <4> QED
        BY <3>2, <4>2 DEF Types
    <3> QED
      BY <1>11, <3>1, <3>2 DEF Connect
  <2> QED
    BY <1>11, <2>1, <2>2 DEF Connect, Types, CanWrite
<1>12. ASSUME NEW m \in Monitors, MonitorWaited(m)
      PROVE  Types'
  <2>1. monitor' \in [Monitors -> MonitorStates]
    BY <1>12, MonitorFields DEF MonitorWaited, MonitorGoes, Types, MonitorPcs
  <2> QED
    BY <1>12, <2>1 DEF MonitorWaited, Types, CanWrite
<1>13. ASSUME NEW m \in Monitors, MonitorDisables(m)
      PROVE  Types'
  <2>1. monitor' \in [Monitors -> MonitorStates]
    BY <1>13, MonitorFields DEF MonitorDisables, MonitorGoes, Types, MonitorPcs
  <2> QED
    BY <1>13, <2>1 DEF MonitorDisables, Types, CanWrite
<1>14. ASSUME NEW m \in Monitors, Loop(m)
      PROVE  Types'
  <2>1. monitor' \in [Monitors -> MonitorStates]
    BY <1>14, MonitorFields DEF Loop, MonitorGoes, Types, MonitorPcs
  <2> QED
    BY <1>14, <2>1 DEF Loop, Types, CanWrite
<1>15. ASSUME NEW m \in Monitors, TakeEvent(m)
      PROVE  Types'
  <2> DEFINE g == monitor[m].gen
  <2>1. g \in Gens
    BY <1>15 DEF TakeEvent, Places, Types, Gens
  <2>2. monitor' \in [Monitors -> MonitorStates]
    <3>1. PICK pc \in MonitorPcs : MonitorGoes(m, pc)
      BY <1>15 DEF TakeEvent, MonitorPcs
    <3> QED
      BY <3>1, MonitorFields DEF Types, MonitorGoes
  <2>3. CASE C[g] # <<>>
    <3>1. C[g] \in Seq(Times)
      BY <2>1 DEF Types
    <3>2. Head(C[g]) \in Times /\ Tail(C[g]) \in Seq(Times)
      BY <2>3, <3>1, HeadTailProperties
    <3>3. C' \in [Gens -> Seq(Times)]
      BY <1>15, <2>3, <3>2 DEF TakeEvent, Types
    <3>4. PICK s \in Slots :
            /\ sender' = [sender EXCEPT ![s] = [pc |-> "start", ev |-> Head(C[g]), left |-> {}]]
            /\ updater' = [updater EXCEPT ![s] = Head(C[g])]
      BY <1>15, <2>3 DEF TakeEvent
    <3>5. sender' \in [Slots -> SenderStates]
      <4>1. [pc |-> "start", ev |-> Head(C[g]), left |-> {}] \in SenderStates
        BY <3>2 DEF SenderStates, SenderPcs, Times
      <4> QED
        BY <3>4, <4>1 DEF Types
    <3>6. updater' \in [Slots -> 0..MaxTime]
      BY <3>2, <3>4 DEF Types, Times
    <3> QED
      BY <1>15, <2>2, <3>3, <3>5, <3>6 DEF TakeEvent, Types
  <2>4. CASE UNCHANGED <<C, sender, updater>>
    BY <1>15, <2>2, <2>4 DEF TakeEvent, Types
  <2> QED
    BY <1>15, <2>3, <2>4 DEF TakeEvent
<1>16. ASSUME NEW m \in Monitors, TakeError(m)
      PROVE  Types'
  <2>1. monitor' \in [Monitors -> MonitorStates]
    <3>1. PICK pc \in {"waitEnd", "poll", "loop"} : MonitorGoes(m, pc)
      BY <1>16 DEF TakeError
    <3> QED
      BY <3>1, MonitorFields DEF MonitorGoes, Types, MonitorPcs
  <2> QED
    BY <1>16, <2>1 DEF TakeError, Types, CanWrite
<1>17. ASSUME NEW m \in Monitors, TimeoutPasses(m)
      PROVE  Types'
  <2>1. monitor' \in [Monitors -> MonitorStates]
    BY <1>17, MonitorFields DEF TimeoutPasses, MonitorGoes, Types, MonitorPcs
  <2> QED
    BY <1>17, <2>1 DEF TimeoutPasses, Types, CanWrite
<1>18. ASSUME NEW s \in Slots, SendStart(s)
      PROVE  Types'
  <2>1. sender' \in [Slots -> SenderStates]
    BY <1>18, SenderFields DEF SendStart, SenderGoes, Types, SenderPcs
  <2> QED
    BY <1>18, <2>1 DEF SendStart, Types, CanWrite
<1>19. ASSUME NEW s \in Slots, SendCheck(s)
      PROVE  Types'
  <2>1. sender' \in [Slots -> SenderStates]
    <3>1. PICK pc \in {"none", "send"}, left \in SUBSET Listeners : SenderGoes(s, pc, left)
      BY <1>19 DEF SendCheck, Types
    <3> QED
      BY <3>1, SenderFields DEF SenderGoes, Types, SenderPcs
  <2> QED
    BY <1>19, <2>1 DEF SendCheck, Types, CanWrite
<1>20. ASSUME NEW s \in Slots, SendNone(s)
      PROVE  Types'
  <2>1. sender' \in [Slots -> SenderStates]
    BY <1>20, SenderFields DEF SendNone, SenderGoes, Types, SenderPcs
  <2> QED
    BY <1>20, <2>1 DEF SendNone, Types, CanWrite
<1>21. ASSUME NEW s \in Slots, NEW l \in Listeners, SendListener(s, l)
      PROVE  Types'
  <2>1. sender' \in [Slots -> SenderStates]
    <3>1. sender[s].left \in SUBSET Listeners
      BY DEF Types, SenderStates
    <3> QED
      BY <1>21, <3>1, SenderFields DEF SendListener, SenderGoes, Types, SenderPcs
  <2> QED
    BY <1>21, <2>1 DEF SendListener, Types, CanWrite
<1>22. ASSUME NEW s \in Slots, SendEnd(s)
      PROVE  Types'
  <2>1. sender' \in [Slots -> SenderStates]
    <3>1. 0 \in 0..MaxTime /\ sender[s] \in SenderStates
      BY DEF Types
    <3>2. [sender[s] EXCEPT !.pc = "free", !.ev = 0] \in SenderStates
      BY <3>1, SenderFields DEF SenderPcs
    <3> QED
      BY <1>22, <3>2 DEF SendEnd, Types
  <2> QED
    BY <1>22, <2>1 DEF SendEnd, Types, CanWrite
<1>23. ASSUME NEW s \in Slots, UpdateLastSeen(s)
      PROVE  Types'
  BY <1>23 DEF UpdateLastSeen, Types, CanWrite
<1>24. ASSUME NEW r \in Readers, EventRead(r)
      PROVE  Types'
  <2>1. reader' \in [Readers -> ReaderStates]
    BY <1>24, ReaderFields DEF EventRead, Types, ReaderPcs
  <2> QED
    BY <1>24, <2>1 DEF EventRead, Types, CanWrite
<1>25. ASSUME NEW r \in Readers, EventSent(r)
      PROVE  Types'
  <2>1. CASE UNCHANGED <<C, reader>>
    BY <1>25, <2>1 DEF EventSent, Types
  <2>2. CASE ~Closed(gen)
    <3>1. /\ C' = [C EXCEPT ![gen] = Append(@, reader[r].next)]
          /\ reader' = [reader EXCEPT ![r].pc = "reading", ![r].next = @ + 1]
      BY <1>25, <2>2 DEF EventSent
    <3>2. gen \in Gens /\ reader[r].next \in Times
      BY <1>25, <2>2 DEF EventSent, Closed, Places, Past, Types, Times
    <3>3. Append(C[gen], reader[r].next) \in Seq(Times)
      BY <3>2 DEF Types
    <3>4. C' \in [Gens -> Seq(Times)]
      BY <3>1, <3>3 DEF Types
    <3>5. reader[r] \in ReaderStates /\ reader[r].next + 1 \in Nat
      BY DEF Types, ReaderStates
    <3>6. reader' \in [Readers -> ReaderStates]
      BY <3>1, <3>5, ReaderFields DEF Types, ReaderPcs
    <3> QED
      BY <1>25, <3>4, <3>6 DEF EventSent, Types
  <2> QED
    BY <1>25, <2>1, <2>2 DEF EventSent
<1>26. ASSUME NEW r \in Readers, EventEOF(r)
      PROVE  Types'
  <2>1. reader' \in [Readers -> ReaderStates]
    BY <1>26, ReaderFields DEF EventEOF, Types, ReaderPcs
  <2> QED
    BY <1>26, <2>1 DEF EventEOF, Types, CanWrite
<1>27. ASSUME NEW r \in Readers, Garbled(r)
      PROVE  Types'
  <2>1. reader' \in [Readers -> ReaderStates]
    BY <1>27, ReaderFields DEF Garbled, Types, ReaderPcs
  <2> QED
    BY <1>27, <2>1 DEF Garbled, Types, CanWrite
<1>28. ASSUME NEW r \in Readers, EventError(r)
      PROVE  Types'
  <2>1. reader' \in [Readers -> ReaderStates]
    BY <1>28, ReaderFields DEF EventError, Types, ReaderPcs
  <2> QED
    <3>1. errC' = errC \/ errC' = [errC EXCEPT ![reader[r].gen] = {"err"}]
      BY <1>28 DEF EventError
    <3>2. errC' \in [Gens -> SUBSET {"ErrNoListeners", "err"}]
      <4>1. {"err"} \in SUBSET {"ErrNoListeners", "err"}
        OBVIOUS
      <4>2. errC \in [Gens -> SUBSET {"ErrNoListeners", "err"}]
        BY DEF Types
      <4> QED
        BY <3>1, <4>1, <4>2
    <3> QED
      BY <1>28, <2>1, <3>2 DEF EventError, Types
<1>29. ASSUME DaemonEvent
      PROVE  Types'
  BY <1>29 DEF DaemonEvent, Types, Users, CanWrite
<1>30. CASE UNCHANGED vars
  BY <1>30 DEF vars, Types
<1> QED
  BY <1>1, <1>2, <1>3, <1>4, <1>5, <1>6, <1>7, <1>8, <1>9, <1>10, <1>11, <1>12, <1>13, <1>14, <1>15, <1>16, <1>17, <1>18, <1>19, <1>20, <1>21, <1>22, <1>23, <1>24, <1>25, <1>26, <1>27, <1>28, <1>29, <1>30
     DEF Next, UserStep, MonitorStep, SenderStep, ReaderStep

-----------------------------------------------------------------------------
(* Who changes what.                                                       *)

LEMMA OwnersOnly ==
  ASSUME [Next]_vars
  PROVE  \/ UNCHANGED <<user, listeners>>
         \/ \E l \in Listeners : UserStep(l) \/ AddEventListener(l) \/ RemoveEventListener(l)
  BY ZenonT(60) DEF Next, vars, state, history, Lock, MonitorStep, Poll, Connect, MonitorWaited,
         MonitorDisables, Loop, TakeEvent, TakeError, TimeoutPasses, SenderStep, SendStart,
         SendCheck, SendNone, SendEnd, SendListener, UpdateLastSeen, ReaderStep, EventRead,
         EventSent, EventError, EventEOF, Garbled, DaemonEvent

LEMMA SendersOnly ==
  ASSUME [Next]_vars
  PROVE  \/ UNCHANGED sender
         \/ \E m \in Monitors : TakeEvent(m)
         \/ \E s \in Slots : SenderStep(s)
  BY ZenonT(60) DEF Next, vars, state, history, Lock, UserStep, AddEventListener, EnableEventMonitoring,
         AddListener, RemoveEventListener, RemoveListener, CheckListeners, UserWaited,
         UserDisables, MonitorStep, Poll, Connect, MonitorWaited, MonitorDisables, Loop,
         TakeError, TimeoutPasses, UpdateLastSeen, ReaderStep, EventRead, EventSent,
         EventError, EventEOF, Garbled, DaemonEvent

LEMMA WritersOnly ==
  ASSUME [Next]_vars
  PROVE  \/ UNCHANGED <<writer, enabled, gen>>
         \/ \E p \in Listeners \union Monitors \union Slots : Lock(p)
         \/ \E l \in Listeners : UserStep(l)
         \/ \E m \in Monitors : MonitorDisables(m)
         \/ \E s \in Slots : UpdateLastSeen(s)
  BY ZenonT(60) DEF Next, vars, state, history, AddEventListener, RemoveEventListener,
         MonitorStep, Poll, Connect, MonitorWaited, Loop, TakeEvent,
         TakeError, TimeoutPasses, SenderStep, SendStart, SendCheck, SendNone, SendEnd,
         SendListener, ReaderStep, EventRead, EventSent, EventError, EventEOF, Garbled,
         DaemonEvent

LEMMA ChannelsOnly ==
  ASSUME [Next]_vars
  PROVE  \/ UNCHANGED C
         \/ \E m \in Monitors : TakeEvent(m)
         \/ \E r \in Readers : EventSent(r)
  BY ZenonT(60) DEF Next, vars, state, history, Lock, UserStep, AddEventListener, EnableEventMonitoring,
         AddListener, RemoveEventListener, RemoveListener, CheckListeners, UserWaited,
         UserDisables, MonitorStep, Poll, Connect, MonitorWaited, MonitorDisables, Loop,
         TakeError, TimeoutPasses, SenderStep, SendStart, SendCheck, SendNone, SendEnd,
         SendListener, UpdateLastSeen, ReaderStep, EventRead, EventEOF, Garbled,
         EventError, DaemonEvent

LEMMA ReadersOnly ==
  ASSUME [Next]_vars
  PROVE  \/ UNCHANGED reader
         \/ \E m \in Monitors : Connect(m)
         \/ \E r \in Readers : ReaderStep(r) \/ EventEOF(r) \/ Garbled(r)
  BY ZenonT(60) DEF Next, vars, state, history, Lock, UserStep, AddEventListener, EnableEventMonitoring,
         AddListener, RemoveEventListener, RemoveListener, CheckListeners, UserWaited,
         UserDisables, MonitorStep, Poll, MonitorWaited, MonitorDisables, Loop, TakeEvent,
         TakeError, TimeoutPasses, SenderStep, SendStart, SendCheck, SendNone, SendEnd,
         SendListener, UpdateLastSeen, DaemonEvent

LEMMA MonitorsOnly ==
  ASSUME [Next]_vars
  PROVE  \/ UNCHANGED monitor
         \/ \E l \in Listeners : EnableEventMonitoring(l)
         \/ \E m \in Monitors : MonitorStep(m)
  BY ZenonT(60) DEF Next, vars, state, history, Lock, UserStep, AddEventListener,
         AddListener, RemoveEventListener, RemoveListener, CheckListeners, UserWaited,
         UserDisables, SenderStep, SendStart, SendCheck, SendNone, SendEnd,
         SendListener, UpdateLastSeen, ReaderStep, EventRead, EventSent, EventEOF, Garbled,
         EventError, DaemonEvent

LEMMA Forward ==
  ASSUME Types, [Next]_vars
  PROVE  /\ clock' \in {clock, clock + 1}
         /\ gen' = gen \/ (gen' = gen + 1 /\ \E l \in Listeners : EnableEventMonitoring(l))
<1>1. clock' \in {clock, clock + 1}
  BY ZenonT(60) DEF Next, vars, state, history, Lock, UserStep, AddEventListener, EnableEventMonitoring,
         AddListener, RemoveEventListener, RemoveListener, CheckListeners, UserWaited,
         UserDisables, MonitorStep, Poll, Connect, MonitorWaited, MonitorDisables, Loop, TakeEvent,
         TakeError, TimeoutPasses, SenderStep, SendStart, SendCheck, SendNone, SendEnd,
         SendListener, UpdateLastSeen,  ReaderStep, EventRead, EventSent, EventEOF, Garbled,
         EventError, DaemonEvent
<1>2. gen' = gen \/ (gen' = gen + 1 /\ \E l \in Listeners : EnableEventMonitoring(l))
  BY ZenonT(60) DEF Next, vars, state, history, Lock, UserStep, AddEventListener, EnableEventMonitoring,
         AddListener, RemoveEventListener, RemoveListener, CheckListeners, UserWaited,
         UserDisables, MonitorStep, Poll, Connect, MonitorWaited, MonitorDisables, Loop, TakeEvent,
         TakeError, TimeoutPasses, SenderStep, SendStart, SendCheck, SendNone, SendEnd,
         SendListener, UpdateLastSeen,  ReaderStep, EventRead, EventSent, EventEOF, Garbled,
         EventError, DaemonEvent
<1> QED
  BY <1>1, <1>2

-----------------------------------------------------------------------------
(* The lock, the listeners and the deliveries.                             *)

LEMMA WritersStep == Types /\ Writers /\ [Next]_vars => Writers'
<1> SUFFICES ASSUME Types, Writers, [Next]_vars
             PROVE  Writers'
  OBVIOUS
<1> USE DEF state, history
<1>1. user \in [Listeners -> Users] /\ None \notin Listeners
  BY GoroutinesAssumption DEF Types
<1>2. ASSUME NEW p, Lock(p)
      PROVE  Writers'
  <2> SUFFICES ASSUME NEW l \in Listeners, writer' = l
               PROVE  /\ user[l] \in {"add", "remove", "disable", "enable"}
                      /\ user[l] = "enable" => enabled \/ gen < MaxGen
    BY <1>2 DEF Lock, Writers
  <2>1. WantsWrite(l)
    BY <1>2 DEF Lock
  <2>2. CASE user[l] = "enable"
    <3>1. enabled \/ gen < MaxGen
      BY <2>1, <2>2, GoroutinesAssumption, Zenon DEF WantsWrite
    <3> QED
      BY <2>2, <3>1
  <2>3. CASE user[l] # "enable"
    <3>1. user[l] \in {"add", "remove", "disable"}
      BY <2>1, <2>3, GoroutinesAssumption DEF WantsWrite
    <3> QED
      BY <2>3, <3>1
  <2> QED
    BY <2>2, <2>3
<1>3. ASSUME NEW l \in Listeners, UserStep(l)
      PROVE  Writers'
  BY <1>1, <1>3 DEF UserStep, EnableEventMonitoring, AddListener, RemoveListener,
         CheckListeners, UserWaited, UserDisables, Writers
<1>4. CASE writer' = None
  BY <1>1, <1>4 DEF Writers
<1>5. CASE UNCHANGED <<writer, enabled, gen>>
  <2>1. CASE UNCHANGED user
    BY <1>5, <2>1 DEF Writers
  <2>2. ASSUME NEW l \in Listeners, AddEventListener(l) \/ RemoveEventListener(l)
        PROVE  Writers'
    BY <1>1, <2>2 DEF AddEventListener, RemoveEventListener, CanRead, Writers
  <2> QED
    BY <1>3, <2>1, <2>2, OwnersOnly
<1> QED
  BY <1>2, <1>3, <1>4, <1>5, WritersOnly DEF MonitorDisables, UpdateLastSeen

LEMMA SendingStep ==
  Types /\ Sending /\ NoSendAfterRemoval /\ [Next]_vars => Sending' /\ NoSendAfterRemoval'
<1> SUFFICES ASSUME Types, Sending, NoSendAfterRemoval, [Next]_vars
             PROVE  Sending' /\ NoSendAfterRemoval'
  OBVIOUS
<1> USE DEF state, history
<1>t. sender \in [Slots -> SenderStates]
  BY DEF Types
<1>1. CASE UNCHANGED sender
  <2>1. Sending'
    BY <1>1 DEF Sending
  <2>2. CASE listeners \subseteq listeners'
    <3>1. sender' = sender
      BY <1>1
    <3> QED
      BY <2>1, <2>2, <3>1 DEF NoSendAfterRemoval
  <2>3. ASSUME NEW l \in Listeners, RemoveListener(l)
        PROVE  NoSendAfterRemoval'
    <3>1. \A s \in Slots : sender[s].left = {}
      BY <2>3 DEF RemoveListener, CanWrite, HoldingRead, Sending
    <3> QED
      BY <1>1, <2>1, <3>1 DEF NoSendAfterRemoval
  <2>4. (\E l \in Listeners : RemoveListener(l)) \/ listeners \subseteq listeners'
    BY OwnersOnly DEF UserStep, AddEventListener, EnableEventMonitoring, AddListener,
         RemoveEventListener, CheckListeners, UserWaited, UserDisables
  <2> QED
    BY <2>1, <2>2, <2>3, <2>4
<1>2. ASSUME NEW m \in Monitors, TakeEvent(m)
      PROVE  Sending' /\ NoSendAfterRemoval'
  BY <1>2, <1>t DEF TakeEvent, Sending, NoSendAfterRemoval
<1>3. ASSUME NEW s \in Slots, SenderStep(s)
      PROVE  Sending' /\ NoSendAfterRemoval'
  BY <1>3, <1>t DEF SenderStep, SendStart, SendCheck, SendNone, SendEnd, SendListener, SenderGoes,
    Sending, NoSendAfterRemoval, SenderStates
<1> QED
  BY <1>1, <1>2, <1>3, SendersOnly

\* Time goes on, and gen never goes back.
LEMMA PlacesStep == Types /\ Types' /\ Places /\ [Next]_vars => Places'
<1> SUFFICES ASSUME Types, Types', Places, [Next]_vars
             PROVE  Places'
  OBVIOUS
<1> USE DEF state, history
<1>1. enabled' => gen' \in Gens
  <2>1. CASE gen' = gen /\ (enabled' => enabled)
    BY <2>1 DEF Places
  <2>2. ASSUME NEW l \in Listeners, EnableEventMonitoring(l)
        PROVE  enabled' => gen' \in Gens
    <3>1. CASE ~enabled /\ gen' = gen + 1
      BY <3>1 DEF Types, Gens
    <3>2. CASE UNCHANGED <<enabled, gen>>
      BY <3>2 DEF Places
    <3> QED
      BY <2>2, <3>1, <3>2 DEF EnableEventMonitoring
  <2> QED
    BY <2>1, <2>2, WritersOnly DEF Lock, UserStep, AddListener, RemoveListener, CheckListeners,
       UserWaited, UserDisables, MonitorDisables, UpdateLastSeen
<1>2. \A m \in Monitors : monitor'[m].pc = "select" => monitor'[m].gen \in 1..gen'
  <2>t. monitor \in [Monitors -> MonitorStates] /\ gen \in Nat /\ gen' \in Nat /\ gen <= gen'
    BY Forward, BoundsAssumption DEF Types
  <2>1. CASE UNCHANGED monitor
    BY <2>t, <2>1 DEF Places, MonitorStates
  <2>2. ASSUME NEW l \in Listeners, EnableEventMonitoring(l)
        PROVE  \A m \in Monitors : monitor'[m].pc = "select" => monitor'[m].gen \in 1..gen'
    <3>1. CASE UNCHANGED monitor
      BY <2>1, <3>1
    <3>2. ASSUME NEW n \in Monitors, monitor' = [monitor EXCEPT ![n].pc = "poll"]
          PROVE  \A m \in Monitors : monitor'[m].pc = "select" => monitor'[m].gen \in 1..gen'
      BY <2>t, <3>2 DEF Places, MonitorStates
    <3> QED
      BY <2>2, <3>1, <3>2 DEF EnableEventMonitoring
  <2>3. ASSUME NEW n \in Monitors, MonitorStep(n), ~Loop(n)
        PROVE  \A m \in Monitors : monitor'[m].pc = "select" => monitor'[m].gen \in 1..gen'
    BY <2>t, <2>3, ZenonT(60) DEF Places, MonitorStates, MonitorStep, Poll, Connect, MonitorWaited,
       MonitorDisables, TakeEvent, TakeError, TimeoutPasses, MonitorGoes
  <2>4. ASSUME NEW n \in Monitors, Loop(n)
        PROVE  \A m \in Monitors : monitor'[m].pc = "select" => monitor'[m].gen \in 1..gen'
    BY <2>t, <2>4 DEF Places, MonitorStates, Loop, Gens
  <2> QED
    BY <2>1, <2>2, <2>3, <2>4, MonitorsOnly
<1>3. \A g \in Gens : Len(C'[g]) <= Cap
  <2>t. C \in [Gens -> Seq(Times)] /\ Cap \in Nat /\ \A g \in Gens : Len(C[g]) \in Nat
    BY BoundsAssumption DEF Types
  <2>s. ASSUME NEW g \in Gens, C'[g] = C[g]
        PROVE  Len(C'[g]) <= Cap
    BY <2>s DEF Places
  <2>1. ASSUME NEW m \in Monitors, TakeEvent(m), NEW g \in Gens
        PROVE  Len(C'[g]) <= Cap
    <3>1. CASE C[g] # <<>> /\ C'[g] = Tail(C[g])
      <4>1. Len(Tail(C[g])) = Len(C[g]) - 1
        BY <2>t, <3>1, HeadTailProperties
      <4> QED
        BY <2>t, <3>1, <4>1 DEF Places
    <3> QED
      BY <2>t, <2>1, <2>s, <3>1 DEF TakeEvent
  <2>2. ASSUME NEW r \in Readers, EventSent(r), NEW g \in Gens
        PROVE  Len(C'[g]) <= Cap
    <3>1. CASE C'[g] = Append(C[g], reader[r].next) /\ Len(C[g]) < Cap
      <4>1. Len(Append(C[g], reader[r].next)) = Len(C[g]) + 1
        BY <2>t
      <4> QED
        BY <2>t, <3>1, <4>1
    <3> QED
      BY <2>t, <2>2, <2>s, <3>1 DEF EventSent
  <2> QED
    BY <2>s, <2>1, <2>2, ChannelsOnly
<1>4. ASSUME NEW m \in Monitors, monitor'[m].pc # "gone"
      PROVE  gen' \in Gens
  <2>t. monitor \in [Monitors -> MonitorStates] /\ gen \in Nat /\ gen' \in 0..MaxGen
    BY BoundsAssumption DEF Types
  <2>1. CASE monitor[m].pc # "gone"
    <3>1. gen \in Gens
      BY <2>1 DEF Places
    <3> QED
      BY <2>t, <3>1, Forward, BoundsAssumption DEF Gens
  <2>2. ASSUME NEW l \in Listeners, EnableEventMonitoring(l), gen' # gen
        PROVE  gen' \in Gens
    BY <2>t, <2>2, Forward, BoundsAssumption DEF Gens
  <2>3. ASSUME NEW l \in Listeners, EnableEventMonitoring(l), monitor'[m] # monitor[m]
        PROVE  gen' = gen + 1
    BY <2>3 DEF EnableEventMonitoring
  <2>4. ASSUME NEW n \in Monitors, MonitorStep(n), monitor[m].pc = "gone"
        PROVE  monitor'[m] = monitor[m]
    BY <2>t, <2>4, ZenonT(60) DEF MonitorStates, MonitorStep, Poll, Connect, MonitorWaited,
       MonitorDisables, Loop, TakeEvent, TakeError, TimeoutPasses, MonitorGoes
  <2> QED
    BY <1>4, <2>t, <2>1, <2>2, <2>3, <2>4, MonitorsOnly
<1> QED
  BY <1>1, <1>2, <1>3, <1>4 DEF Places

LEMMA PastStep == Types /\ Types' /\ Places /\ Past /\ [Next]_vars => Past'
<1> SUFFICES ASSUME Types, Types', Places, Past, [Next]_vars
             PROVE  Past'
  OBVIOUS
<1> USE DEF state, history
<1>t. /\ clock \in Nat /\ clock' \in Nat /\ clock <= clock'
      /\ lastSeen \in Nat
      /\ updater \in [Slots -> Nat]
      /\ reader \in [Readers -> ReaderStates]
      /\ C \in [Gens -> Seq(Times)]
  BY Forward, BoundsAssumption DEF Types
<1>1. lastSeen' <= clock'
  <2>1. lastSeen' \in {lastSeen, 0} \union { updater[s] : s \in Slots }
    BY ZenonT(60) DEF Next, vars, Lock, UserStep, AddEventListener, EnableEventMonitoring,
       AddListener, RemoveEventListener, RemoveListener, CheckListeners, UserWaited,
       UserDisables, MonitorStep, Poll, Connect, MonitorWaited, MonitorDisables, Loop, TakeEvent,
       TakeError, TimeoutPasses, SenderStep, SendStart, SendCheck, SendNone, SendEnd,
       SendListener, UpdateLastSeen, ReaderStep, EventRead, EventSent, EventEOF, Garbled,
       EventError, DaemonEvent
  <2> QED
    BY <1>t, <2>1 DEF Past
<1>2. ASSUME NEW s \in Slots
      PROVE  updater'[s] <= clock'
  <2>1. ASSUME NEW m \in Monitors, TakeEvent(m)
        PROVE  updater'[s] <= clock'
    <3> DEFINE g == monitor[m].gen
    <3>1. CASE updater' = updater
      BY <1>t, <3>1 DEF Past
    <3>2. CASE C[g] # <<>>
      <4>1. g \in Gens
        BY <2>1, SelectGen DEF TakeEvent
      <4>2. Head(C[g]) = C[g][1] /\ 1 \in DOMAIN C[g] /\ Head(C[g]) \in Times
        BY <1>t, <3>2, <4>1
      <4>3. PICK q \in Slots : updater' = [updater EXCEPT ![q] = Head(C[g])]
        BY <2>1, <3>2 DEF TakeEvent
      <4>4. Head(C[g]) <= clock /\ Head(C[g]) \in Nat
        BY <4>1, <4>2 DEF Past, Times
      <4>5. updater'[s] \in {updater[s], Head(C[g])}
        BY <1>t, <4>3
      <4> QED
        BY <1>t, <4>4, <4>5 DEF Past
    <3> QED
      BY <2>1, <3>1, <3>2 DEF TakeEvent
  <2>2. CASE updater'[s] \in {updater[s], 0}
    BY <1>t, <2>2 DEF Past
  <2>3. (\E m \in Monitors : TakeEvent(m)) \/ updater'[s] \in {updater[s], 0}
    BY <1>t, ZenonT(60) DEF Next, vars, Lock, UserStep, AddEventListener, EnableEventMonitoring,
       AddListener, RemoveEventListener, RemoveListener, CheckListeners, UserWaited,
       UserDisables, MonitorStep, Poll, Connect, MonitorWaited, MonitorDisables, Loop,
       TakeError, TimeoutPasses, SenderStep, SendStart, SendCheck, SendNone, SendEnd,
       SendListener, UpdateLastSeen, ReaderStep, EventRead, EventSent, EventEOF, Garbled,
       EventError, DaemonEvent
  <2> QED
    BY <2>1, <2>2, <2>3
<1>3. ASSUME NEW g \in Gens, NEW i \in DOMAIN C'[g]
      PROVE  C'[g][i] <= clock'
  <2>s. ASSUME NEW j \in DOMAIN C[g], C'[g][i] = C[g][j]
        PROVE  C'[g][i] <= clock'
    <3>1. C[g][j] \in Times /\ C[g][j] <= clock
      BY <1>t DEF Past
    <3> QED
      BY <1>t, <2>s, <3>1 DEF Times
  <2>1. CASE C'[g] = C[g]
    BY <2>s, <2>1
  <2>2. CASE C[g] # <<>> /\ C'[g] = Tail(C[g])
    <3>1. i + 1 \in DOMAIN C[g] /\ C'[g][i] = C[g][i + 1]
      BY <1>t, <2>2, HeadTailProperties
    <3> QED
      BY <2>s, <3>1
  <2>3. ASSUME NEW r \in Readers, reader[r].pc = "sending", C'[g] = Append(C[g], reader[r].next)
        PROVE  C'[g][i] <= clock'
    <3>1. reader[r].next <= clock /\ reader[r].next \in Nat
      BY <1>t, <2>3 DEF Past
    <3>2. C'[g][i] = reader[r].next \/ (i \in DOMAIN C[g] /\ C'[g][i] = C[g][i])
      BY <1>t, <2>3, <3>1
    <3> QED
      BY <1>t, <2>s, <3>1, <3>2
  <2> QED
    <3>1. ASSUME NEW m \in Monitors, TakeEvent(m)
          PROVE  C'[g] = C[g] \/ (C[g] # <<>> /\ C'[g] = Tail(C[g]))
      BY <1>t, <3>1 DEF TakeEvent
    <3>2. ASSUME NEW r \in Readers, EventSent(r)
          PROVE  C'[g] = C[g] \/ (reader[r].pc = "sending" /\ C'[g] = Append(C[g], reader[r].next))
      BY <1>t, <3>2 DEF EventSent
    <3> QED
      BY <2>1, <2>2, <2>3, <3>1, <3>2, ChannelsOnly
<1>4. ASSUME NEW r \in Readers
      PROVE  /\ reader'[r].pc = "reading" => reader'[r].next \in 1..(clock' + 1)
             /\ reader'[r].pc = "sending" => reader'[r].next \in 1..clock'
  <2> DEFINE P(q) == /\ reader'[q].pc = "reading" => reader'[q].next \in 1..(clock' + 1)
                     /\ reader'[q].pc = "sending" => reader'[q].next \in 1..clock'
  <2>n. reader[r].next \in Nat
    BY <1>t DEF ReaderStates
  <2>s. reader'[r] = reader[r] => P(r)
    BY <1>t, <2>n DEF Past
  <2>1. ASSUME NEW m \in Monitors, Connect(m)
        PROVE  P(r)
    <3>1. CASE reader'[r] = [pc |-> "reading", gen |-> gen,
                             next |-> IF lastSeen = 0 THEN clock + 1 ELSE lastSeen]
      <4>1. lastSeen <= clock
        BY DEF Past
      <4> QED
        <5>1. reader'[r].next = IF lastSeen = 0 THEN clock + 1 ELSE lastSeen
          BY <3>1
        <5>2. reader'[r].pc = "reading"
          BY <3>1
        <5>3. (IF lastSeen = 0 THEN clock + 1 ELSE lastSeen) \in 1..(clock' + 1)
          BY <1>t, <4>1, FromHere
        <5> QED
          BY <5>1, <5>2, <5>3
    <3> QED
      BY <1>t, <2>1, <2>s, <3>1 DEF Connect
  <2>2. ASSUME NEW q \in Readers, ReaderStep(q) \/ EventEOF(q) \/ Garbled(q), q # r
        PROVE  reader'[r] = reader[r]
    BY <1>t, <2>2 DEF ReaderStep, EventRead, EventSent, EventEOF, Garbled, EventError
  <2>3. CASE EventRead(r)
    BY <1>t, <2>n, <2>3 DEF EventRead, Past, ReaderStates
  <2>4. CASE EventSent(r)
    BY <1>t, <2>n, <2>s, <2>4 DEF EventSent, Past, ReaderStates
  <2>5. CASE EventEOF(r) \/ Garbled(r)
    BY <1>t, <2>5 DEF EventEOF, Garbled, ReaderStates
  <2>6. CASE EventError(r)
    BY <2>s, <2>6 DEF EventError
  <2>7. ASSUME NEW q \in Readers, ReaderStep(q) \/ EventEOF(q) \/ Garbled(q)
        PROVE  P(r)
    <3>1. CASE q # r
      BY <2>s, <2>2, <2>7, <3>1
    <3>2. CASE q = r
      BY <2>3, <2>4, <2>5, <2>6, <2>7, <3>2 DEF ReaderStep
    <3> QED
      BY <3>1, <3>2
  <2>8. CASE UNCHANGED reader
    BY <2>s, <2>8
  <2> QED
    BY <2>1, <2>7, <2>8, ReadersOnly
<1> QED
  BY <1>1, <1>2, <1>3, <1>4 DEF Past

-----------------------------------------------------------------------------
(* The counter.                                                            *)

LEMMA CountedFinite ==
  ASSUME Types
  PROVE  /\ IsFiniteSet(listeners) /\ Cardinality(listeners) \in Nat
         /\ IsFiniteSet(HoldingRead) /\ Cardinality(HoldingRead) \in Nat
<1>1. listeners \in SUBSET Listeners /\ HoldingRead \in SUBSET Slots
  BY DEF Types, HoldingRead
<1> QED
  BY <1>1, GoroutinesAssumption, FS_Subset, FS_CardinalityType

LEMMA CounterStep == Types /\ Counter /\ [Next]_vars => Counter'
<1> SUFFICES ASSUME Types, Counter, [Next]_vars
             PROVE  Counter'
  OBVIOUS
<1> USE DEF state, history
<1>t. sender \in [Slots -> SenderStates]
  BY DEF Types
<1>1. ASSUME NEW l \in Listeners, AddListener(l)
      PROVE  Counter'
  <2>1. HoldingRead' = HoldingRead
    BY <1>1 DEF AddListener, HoldingRead
  <2>2. CASE l \in listeners
    BY <1>1, <2>1, <2>2 DEF AddListener, Counter
  <2>3. CASE l \notin listeners
    <3>1. Cardinality(listeners \union {l}) = Cardinality(listeners) + 1
      BY <2>3, CountedFinite, FS_AddElement
    <3>2. listeners' = listeners \union {l} /\ count' = count + 1
      BY <1>1, <2>3 DEF AddListener
    <3> QED
      BY <2>1, <3>1, <3>2, CountedFinite DEF Counter
  <2> QED
    BY <2>2, <2>3
<1>2. ASSUME NEW l \in Listeners, RemoveListener(l)
      PROVE  Counter'
  <2>1. HoldingRead' = HoldingRead
    BY <1>2 DEF RemoveListener, HoldingRead
  <2>2. CASE l \notin listeners
    BY <1>2, <2>1, <2>2 DEF RemoveListener, Counter
  <2>3. CASE l \in listeners
    <3>1. Cardinality(listeners \ {l}) = Cardinality(listeners) - 1
      BY <2>3, CountedFinite, FS_RemoveElement
    <3>2. listeners' = listeners \ {l} /\ count' = count - 1
      BY <1>2, <2>3 DEF RemoveListener
    <3> QED
      BY <2>1, <3>1, <3>2, CountedFinite DEF Counter
  <2> QED
    BY <2>2, <2>3
<1>3. ASSUME NEW s \in Slots, SendStart(s)
      PROVE  Counter'
  <2>1. s \notin HoldingRead /\ HoldingRead' = HoldingRead \union {s}
    BY <1>t, <1>3 DEF SendStart, SenderGoes, HoldingRead, SenderStates
  <2>2. Cardinality(HoldingRead \union {s}) = Cardinality(HoldingRead) + 1
    BY <2>1, CountedFinite, FS_AddElement
  <2>3. listeners' = listeners /\ count' = count + 1
    BY <1>3 DEF SendStart
  <2> QED
    BY <2>1, <2>2, <2>3, CountedFinite DEF Counter
<1>4. ASSUME NEW s \in Slots, SendEnd(s)
      PROVE  Counter'
  <2>1. s \in HoldingRead /\ HoldingRead' = HoldingRead \ {s}
    BY <1>t, <1>4 DEF SendEnd, HoldingRead, SenderStates
  <2>2. Cardinality(HoldingRead \ {s}) = Cardinality(HoldingRead) - 1
    BY <2>1, CountedFinite, FS_RemoveElement
  <2>3. listeners' = listeners /\ count' = count - 1
    BY <1>4 DEF SendEnd
  <2> QED
    BY <2>1, <2>2, <2>3, CountedFinite DEF Counter
<1>5. CASE UNCHANGED <<count, listeners>> /\ HoldingRead' = HoldingRead
  BY <1>5 DEF Counter
<1>6. ASSUME NEW m \in Monitors, TakeEvent(m)
      PROVE  UNCHANGED <<count, listeners>> /\ HoldingRead' = HoldingRead
  BY <1>t, <1>6 DEF TakeEvent, HoldingRead
<1>7. ASSUME NEW s \in Slots, SendCheck(s) \/ SendNone(s) \/ \E l \in Listeners : SendListener(s, l)
      PROVE  UNCHANGED <<count, listeners>> /\ HoldingRead' = HoldingRead
  BY <1>t, <1>7 DEF SendCheck, SendNone, SendListener, SenderGoes, HoldingRead, SenderStates
<1>8. \/ \E l \in Listeners : AddListener(l) \/ RemoveListener(l)
      \/ \E m \in Monitors : TakeEvent(m)
      \/ \E s \in Slots : SenderStep(s)
      \/ UNCHANGED <<count, listeners, sender>>
  BY ZenonT(60) DEF Next, vars, Lock, UserStep, AddEventListener, EnableEventMonitoring,
     RemoveEventListener, CheckListeners, UserWaited, UserDisables, MonitorStep, Poll, Connect,
     MonitorWaited, MonitorDisables, Loop, TakeError, TimeoutPasses, UpdateLastSeen, ReaderStep,
     EventRead, EventSent, EventEOF, Garbled, EventError, DaemonEvent
<1>9. UNCHANGED <<count, listeners, sender>> => Counter'
  BY <1>5 DEF HoldingRead
<1> QED
  BY <1>1, <1>2, <1>3, <1>4, <1>5, <1>6, <1>7, <1>8, <1>9 DEF SenderStep

-----------------------------------------------------------------------------
(* The stream of events.                                                   *)

LEMMA StreamOnly ==
  ASSUME [Next]_vars
  PROVE  \/ UNCHANGED <<gen, lastSeen, C, missed, received, reader, updater>>
         \/ \E l \in Listeners : EnableEventMonitoring(l)
         \/ \E m \in Monitors : Connect(m) \/ TakeEvent(m)
         \/ \E s \in Slots : UpdateLastSeen(s)
         \/ \E r \in Readers : EventRead(r) \/ EventSent(r) \/ EventEOF(r) \/ Garbled(r)
  BY ZenonT(60) DEF Next, vars, state, history, Lock, UserStep, AddEventListener, AddListener,
         RemoveEventListener, RemoveListener, CheckListeners, UserWaited, UserDisables,
         MonitorStep, Poll, MonitorWaited, MonitorDisables, Loop, TakeError, TimeoutPasses,
         SenderStep, SendStart, SendCheck, SendNone, SendEnd, SendListener, ReaderStep,
         EventError, DaemonEvent

LEMMA TailElements ==
  ASSUME NEW s \in Seq(Nat), s # <<>>
  PROVE  /\ 1 \in DOMAIN s /\ Head(s) = s[1] /\ s[1] \in Nat
         /\ DOMAIN Tail(s) \subseteq Nat
         /\ \A i \in DOMAIN Tail(s) : i + 1 \in DOMAIN s /\ Tail(s)[i] = s[i + 1]
         /\ \A i \in DOMAIN s : i # 1 => i - 1 \in DOMAIN Tail(s)
<1>1. Tail(s) \in Seq(Nat) /\ Len(Tail(s)) = Len(s) - 1 /\ Len(s) \in Nat \ {0}
  BY HeadTailProperties, EmptySeq
<1>2. \A i \in 1..Len(Tail(s)) : Tail(s)[i] = s[i + 1]
  BY HeadTailProperties
<1>3. DOMAIN s = 1..Len(s) /\ DOMAIN Tail(s) = 1..(Len(s) - 1)
  BY <1>1
<1> QED
  BY <1>1, <1>2, <1>3

\* What the steps below know of the types.
LEMMA StreamTypes ==
  ASSUME Types
  PROVE  /\ gen \in Nat /\ clock \in Nat /\ lastSeen \in Nat
         /\ updater \in [Slots -> Nat]
         /\ reader \in [Readers -> ReaderStates] /\ \A r \in Readers : reader[r].next \in Nat
         /\ C \in [Gens -> Seq(Nat)]
         /\ \A g \in Gens : /\ DOMAIN C[g] = 1..Len(C[g]) /\ Len(C[g]) \in Nat
                            /\ \A i \in DOMAIN C[g] : C[g][i] \in Nat
         /\ Gens \subseteq Nat
<1>1. Times \subseteq Nat /\ Gens \subseteq Nat
  BY BoundsAssumption DEF Times, Gens
<1>2. C \in [Gens -> Seq(Nat)]
  BY <1>1, SeqMonotonic DEF Types
<1> QED
  BY <1>1, <1>2, BoundsAssumption DEF Types, ReaderStates

LEMMA StreamEnable ==
  ASSUME Types, Past, Stream, NoneSkipped, NEW l \in Listeners, EnableEventMonitoring(l)
  PROVE  Stream' /\ NoneSkipped'
<1> USE StreamTypes DEF Gone
<1>1. UNCHANGED <<C, reader, updater>>
  BY DEF EnableEventMonitoring
<1>2. CASE UNCHANGED <<gen, lastSeen, missed, received>>
  BY <1>1, <1>2 DEF Stream, Channels, NoGap, Followed, ToRecord, Taken, NoneSkipped
<1>3. CASE gen' = gen + 1 /\ lastSeen' = 0 /\ missed' = 1..clock
  <2>1. Channels'
    BY <1>1, <1>3 DEF Stream, Channels, Past
  <2>2. NoGap'
    <3>1. gen' \in Gens => C'[gen'] = <<>>
      BY <1>1, <1>3 DEF Stream, Channels
    <3> QED
      BY <3>1 DEF NoGap
  <2>3. Followed'
    BY <1>1, <1>3 DEF Past, Followed
  <2>4. ToRecord'
    BY <1>1, <1>3 DEF Past, ToRecord, Taken
  <2>5. NoneSkipped'
    BY <1>3 DEF NoneSkipped
  <2> QED
    BY <2>1, <2>2, <2>3, <2>4, <2>5 DEF Stream
<1> QED
  BY <1>2, <1>3 DEF EnableEventMonitoring, history

LEMMA StreamConnect ==
  ASSUME Types, Places, Past, Stream, NoneSkipped, NEW m \in Monitors, Connect(m)
  PROVE  Stream' /\ NoneSkipped'
<1> USE StreamTypes DEF Gone
<1>1. UNCHANGED <<gen, lastSeen, C, updater, received>>
  BY DEF Connect, state
<1>2. missed \subseteq missed' /\ Gone \subseteq Gone'
  BY <1>1 DEF Connect, Gone
<1>3. Channels' /\ NoGap' /\ ToRecord' /\ NoneSkipped'
  BY <1>1, <1>2 DEF Stream, Channels, NoGap, ToRecord, Taken, NoneSkipped, Gone
<1>4. gen \in Gens
  BY DEF Connect, Places
<1>5. ASSUME NEW r \in Readers, reader'[r].pc \in {"reading", "sending"},
             NEW u \in 1..(reader'[r].next - 1)
      PROVE  u \in Gone' \/ \E j \in DOMAIN C[gen] : C[gen][j] = u
  <2>1. CASE reader'[r] = reader[r]
    BY <1>2, <1>5, <2>1 DEF Stream, Followed
  <2>2. CASE reader'[r].next = lastSeen
    BY <1>2, <1>5, <2>2 DEF NoneSkipped, Gone
  \* A connection made before an event has been recorded.
  <2>3. CASE /\ reader'[r].next = clock + 1
             /\ missed' = missed \union ((1..clock) \ (received \union InChannel(gen)))
    BY <1>1, <1>5, <2>3 DEF Gone, InChannel
  <2>4. \/ reader'[r] = reader[r]
        \/ reader'[r].next = lastSeen
        \/ /\ reader'[r].next = clock + 1
           /\ missed' = missed \union ((1..clock) \ (received \union InChannel(gen)))
    BY DEF Connect
  <2> QED
    BY <2>1, <2>2, <2>3, <2>4
<1>6. Followed'
  BY <1>1, <1>4, <1>5 DEF Followed
<1> QED
  BY <1>3, <1>6 DEF Stream

LEMMA StreamTake ==
  ASSUME Types, Places, Past, Stream, NoneSkipped, NEW m \in Monitors, TakeEvent(m)
  PROVE  Stream' /\ NoneSkipped'
<1> USE StreamTypes DEF Gone
<1> DEFINE g == monitor[m].gen
           h == Head(C[g])
<1>g. g \in Gens /\ g \in 1..gen /\ gen \in Gens
  <2>1. monitor[m].pc = "select"
    BY DEF TakeEvent
  <2>2. g \in Gens /\ g \in 1..gen
    BY <2>1, SelectGen DEF Places
  <2>3. gen \in 0..MaxGen
    BY DEF Types
  <2> QED
    BY <2>2, <2>3, BoundsAssumption DEF Gens
<1>u. UNCHANGED <<gen, lastSeen, missed, reader>>
  BY DEF TakeEvent
<1> HIDE DEF g
<1>1. CASE UNCHANGED <<C, received, updater>>
  BY <1>1, <1>u DEF Stream, Channels, NoGap, Followed, ToRecord, Taken, NoneSkipped
<1>2. CASE C[g] # <<>>
  <2>1. /\ C' = [C EXCEPT ![g] = Tail(C[g])]
        /\ received' = IF g = gen THEN received \union {h} ELSE received
        /\ \E s \in Slots : updater' = [updater EXCEPT ![s] = h]
    BY <1>2 DEF TakeEvent, g
  <2>2. /\ 1 \in DOMAIN C[g] /\ h = C[g][1] /\ h \in Nat
        /\ DOMAIN Tail(C[g]) \subseteq Nat
        /\ \A i \in DOMAIN Tail(C[g]) : i + 1 \in DOMAIN C[g] /\ Tail(C[g])[i] = C[g][i + 1]
        /\ \A i \in DOMAIN C[g] : i # 1 => i - 1 \in DOMAIN Tail(C[g])
    BY <1>g, <1>2, TailElements
  <2>3. Gone \subseteq Gone'
    BY <1>u, <2>1
  <2>4. Channels'
    <3>1. ASSUME NEW f \in Gens, f < gen, NEW i \in DOMAIN C'[f]
          PROVE  \A u \in 1..C'[f][i] : u \in missed
      <4>1. \E j \in DOMAIN C[f] : C'[f][i] = C[f][j]
        BY <1>g, <2>1, <2>2, <3>1
      <4> QED
        BY <3>1, <4>1 DEF Stream, Channels
    <3>2. ASSUME NEW f \in Gens, f > gen
          PROVE  C'[f] = <<>>
      BY <1>g, <2>1, <3>2 DEF Stream, Channels
    <3> QED
      BY <1>u, <3>1, <3>2 DEF Channels
  \* What is in the channel is in it still, or has been taken.
  <2>5. ASSUME NEW j \in DOMAIN C[gen]
        PROVE  C[gen][j] \in Gone' \/ \E k \in DOMAIN C'[gen] : k <= j /\ C'[gen][k] = C[gen][j]
                                                              /\ (g = gen => k = j - 1)
    <3>1. CASE g = gen
      BY <1>g, <2>1, <2>2, <3>1
    <3>2. CASE g # gen
      BY <1>g, <2>1, <3>2
    <3> QED
      BY <3>1, <3>2
  <2>6. NoGap'
    <3>1. ASSUME NEW i \in DOMAIN C'[gen], NEW u \in 1..(C'[gen][i] - 1)
          PROVE  u \in Gone' \/ \E j \in 1..(i - 1) : C'[gen][j] = u
      <4>1. CASE g # gen
        <5>1. C'[gen] = C[gen]
          BY <1>g, <2>1, <4>1
        <5> QED
          BY <1>g, <2>3, <3>1, <5>1 DEF Stream, NoGap
      <4>2. CASE g = gen
        <5>1. C'[gen][i] = C[gen][i + 1] /\ i + 1 \in DOMAIN C[gen] /\ i \in DOMAIN C'[gen]
          BY <1>g, <2>1, <2>2, <3>1, <4>2
        <5>2. u \in Gone \/ \E j \in 1..i : C[gen][j] = u
          <6>1. u \in Gone \/ \E j \in 1..((i + 1) - 1) : C[gen][j] = u
            BY <1>g, <3>1, <5>1 DEF Stream, NoGap
          <6>2. i \in Nat /\ (i + 1) - 1 = i
            BY <1>g, <2>1, <2>2, <4>2, <5>1
          <6> QED
            BY <6>1, <6>2
        <5>3. ASSUME NEW j \in 1..i, C[gen][j] = u
              PROVE  u \in Gone' \/ \E k \in 1..(i - 1) : C'[gen][k] = u
          <6>0. i \in Nat /\ j \in Nat /\ Len(C[gen]) \in Nat /\ i + 1 <= Len(C[gen])
            BY <1>g, <2>1, <2>2, <4>2, <5>1, <5>3
          <6>1. j \in DOMAIN C[gen]
            BY <1>g, <5>3, <6>0
          <6>2. CASE j = 1
            BY <2>1, <2>2, <4>2, <5>3, <6>2
          <6>3. CASE j # 1
            <7>1. j - 1 \in DOMAIN Tail(C[gen])
              BY <2>2, <4>2, <6>1, <6>3
            <7>2. Tail(C[gen])[j - 1] = C[gen][(j - 1) + 1]
              BY <2>2, <4>2, <7>1
            <7>3. (j - 1) + 1 = j /\ j - 1 \in 1..(i - 1)
              BY <5>3, <6>0, <6>3, Before
            <7>4. C'[gen] = Tail(C[gen])
              BY <1>g, <2>1, <4>2
            <7> QED
              BY <5>3, <7>2, <7>3, <7>4
          <6> QED
            BY <6>2, <6>3
        <5> QED
          BY <2>3, <5>2, <5>3
      <4> QED
        BY <4>1, <4>2
    <3> QED
      BY <1>u, <3>1 DEF NoGap
  <2>7. Followed'
    <3>1. ASSUME NEW r \in Readers, reader[r].pc \in {"reading", "sending"},
                 NEW u \in 1..(reader[r].next - 1)
          PROVE  u \in Gone' \/ \E k \in DOMAIN C'[gen] : C'[gen][k] = u
      <4>1. u \in Gone \/ \E j \in DOMAIN C[gen] : C[gen][j] = u
        BY <3>1 DEF Stream, Followed
      <4> QED
        BY <2>3, <2>5, <4>1
    <3> QED
      BY <1>u, <1>g, <3>1 DEF Followed
  <2>8. ToRecord'
    <3>1. ASSUME NEW u \in 1..h
          PROVE  u \in Gone'
      <4>1. CASE g = gen
        <5>1. CASE u = h
          BY <2>1, <4>1, <5>1
        <5>2. CASE u # h
          <6>1. u \in 1..(C[gen][1] - 1)
            BY <2>2, <3>1, <4>1, <5>2
          <6> QED
            BY <1>g, <2>2, <2>3, <4>1, <6>1 DEF Stream, NoGap
        <5> QED
          BY <5>1, <5>2
      <4>2. CASE g # gen
        <5>1. \A v \in 1..h : v \in missed
          BY <1>g, <2>2, <4>2 DEF Stream, Channels
        <5> QED
          BY <1>u, <3>1, <5>1
      <4> QED
        BY <4>1, <4>2
    <3>2. ASSUME NEW s \in Slots, NEW u \in 1..(updater'[s])
          PROVE  u \in Gone'
      <4>1. updater'[s] \in {updater[s], h}
        BY <2>1
      <4> QED
        BY <2>3, <3>1, <3>2, <4>1 DEF Stream, ToRecord, Taken
    <3> QED
      BY <1>u, <3>2 DEF ToRecord, Taken
  <2>9. NoneSkipped'
    BY <1>u, <2>3 DEF NoneSkipped
  <2> QED
    BY <2>4, <2>6, <2>7, <2>8, <2>9 DEF Stream
<1> QED
  BY <1>1, <1>2 DEF TakeEvent, g

LEMMA StreamSent ==
  ASSUME Types, Places, Past, Stream, NoneSkipped, NEW r \in Readers, EventSent(r)
  PROVE  Stream' /\ NoneSkipped'
<1> USE StreamTypes DEF Gone
<1>u. UNCHANGED <<gen, lastSeen, missed, received, updater>>
  BY DEF EventSent, history
<1>1. CASE UNCHANGED <<C, reader>>
  BY <1>1, <1>u DEF Stream, Channels, NoGap, Followed, ToRecord, Taken, NoneSkipped
<1>2. CASE ~Closed(gen)
  <2> DEFINE n == reader[r].next
  <2>1. /\ C' = [C EXCEPT ![gen] = Append(C[gen], n)]
        /\ reader' = [reader EXCEPT ![r].pc = "reading", ![r].next = n + 1]
        /\ reader[r].pc = "sending" /\ n \in Nat
    BY <1>2 DEF EventSent
  <2>2. gen \in Gens
    BY <1>2 DEF Closed, Places
  <2> HIDE DEF n
  <2>3. /\ DOMAIN C'[gen] = 1..(Len(C[gen]) + 1)
        /\ \A i \in DOMAIN C[gen] : i \in DOMAIN C'[gen] /\ C'[gen][i] = C[gen][i]
        /\ C'[gen][Len(C[gen]) + 1] = n
        /\ \A i \in DOMAIN C'[gen] : i \in DOMAIN C[gen] \/ i = Len(C[gen]) + 1
        /\ \A g \in Gens : g # gen => C'[g] = C[g]
    BY <2>1, <2>2, AppendProperties
  \* The connection is where the channel ends.
  <2>4. ASSUME NEW u \in 1..(n - 1)
        PROVE  u \in Gone \/ \E j \in DOMAIN C[gen] : C[gen][j] = u
    BY <2>1, <2>2 DEF Stream, Followed, n
  <2>5. Channels'
    BY <1>u, <2>3 DEF Stream, Channels
  <2>6. NoGap'
    <3>1. ASSUME NEW i \in DOMAIN C'[gen], NEW u \in 1..(C'[gen][i] - 1)
          PROVE  u \in Gone \/ \E j \in 1..(i - 1) : C'[gen][j] = u
      <4>1. CASE i \in DOMAIN C[gen]
        <5>1. u \in Gone \/ \E j \in 1..(i - 1) : C[gen][j] = u
          BY <2>2, <2>3, <3>1, <4>1 DEF Stream, NoGap
        <5>2. \A j \in 1..(i - 1) : j \in DOMAIN C[gen]
          BY <2>2, <4>1
        <5> QED
          BY <2>3, <5>1, <5>2
      <4>2. CASE i = Len(C[gen]) + 1
        <5>1. u \in 1..(n - 1)
          BY <2>3, <3>1, <4>2
        <5>2. DOMAIN C[gen] = 1..(i - 1)
          BY <2>2, <4>2
        <5>3. \A j \in DOMAIN C[gen] : C'[gen][j] = C[gen][j]
          BY <2>3
        <5> QED
          BY <2>4, <5>1, <5>2, <5>3
      <4> QED
        BY <2>3, <4>1, <4>2
    <3> QED
      BY <1>u, <3>1 DEF NoGap
  <2>7. Followed'
    <3>1. ASSUME NEW q \in Readers, reader'[q].pc \in {"reading", "sending"},
                 NEW u \in 1..(reader'[q].next - 1)
          PROVE  u \in Gone \/ \E j \in DOMAIN C'[gen] : C'[gen][j] = u
      <4>1. CASE q # r
        <5>1. reader'[q] = reader[q]
          BY <2>1, <4>1
        <5>2. u \in Gone \/ \E j \in DOMAIN C[gen] : C[gen][j] = u
          BY <3>1, <5>1 DEF Stream, Followed
        <5> QED
          BY <2>3, <5>2
      <4>2. CASE q = r
        <5>1. reader'[r].next = n + 1
          BY <2>1 DEF ReaderStates
        <5>2. CASE u = n
          BY <2>2, <2>3, <5>2
        <5>3. CASE u # n
          <6>1. u \in 1..(n - 1)
            BY <2>1, <3>1, <4>2, <5>1, <5>3
          <6> QED
            BY <2>3, <2>4, <6>1
        <5> QED
          BY <5>2, <5>3
      <4> QED
        BY <4>1, <4>2
    <3> QED
      BY <1>u, <2>2, <3>1 DEF Followed
  <2>8. ToRecord' /\ NoneSkipped'
    BY <1>u DEF Stream, ToRecord, Taken, NoneSkipped
  <2> QED
    BY <2>5, <2>6, <2>7, <2>8 DEF Stream
<1> QED
  BY <1>1, <1>2 DEF EventSent

LEMMA StreamStep ==
  Types /\ Places /\ Past /\ Stream /\ NoneSkipped /\ [Next]_vars => Stream' /\ NoneSkipped'
<1> SUFFICES ASSUME Types, Places, Past, Stream, NoneSkipped, [Next]_vars
             PROVE  Stream' /\ NoneSkipped'
  OBVIOUS
<1> USE StreamTypes DEF Gone
<1>1. CASE UNCHANGED <<gen, lastSeen, C, missed, received, reader, updater>>
  BY <1>1 DEF Stream, Channels, NoGap, Followed, ToRecord, Taken, NoneSkipped
<1>2. ASSUME NEW s \in Slots, UpdateLastSeen(s)
      PROVE  Stream' /\ NoneSkipped'
  <2>1. /\ UNCHANGED <<gen, C, missed, received, reader>>
        /\ lastSeen' \in {lastSeen, updater[s]}
        /\ updater' = [updater EXCEPT ![s] = 0]
    BY <1>2 DEF UpdateLastSeen, history
  <2>2. Channels' /\ NoGap' /\ Followed'
    BY <2>1 DEF Stream, Channels, NoGap, Followed
  <2>3. ToRecord' /\ NoneSkipped'
    BY <2>1 DEF Stream, ToRecord, Taken, NoneSkipped
  <2> QED
    BY <2>2, <2>3 DEF Stream
<1>3. ASSUME NEW r \in Readers, EventRead(r) \/ EventEOF(r) \/ Garbled(r)
      PROVE  Stream' /\ NoneSkipped'
  <2>1. /\ UNCHANGED <<gen, lastSeen, C, missed, received, updater>>
        /\ \A q \in Readers : /\ reader'[q].next = reader[q].next
                              /\ reader'[q].pc \in {"reading", "sending"} =>
                                   reader[q].pc \in {"reading", "sending"}
    <3>1. UNCHANGED <<gen, lastSeen, C, missed, received, updater>>
      BY <1>3 DEF EventRead, EventEOF, Garbled, state, history
    <3>2. reader[r].pc = "reading" /\ \E pc \in ReaderPcs : reader' = [reader EXCEPT ![r].pc = pc]
      BY <1>3 DEF EventRead, EventEOF, Garbled, ReaderPcs
    <3>3. \A q \in Readers : /\ reader'[q].next = reader[q].next
                             /\ reader'[q].pc \in {"reading", "sending"} =>
                                  reader[q].pc \in {"reading", "sending"}
      BY <3>2 DEF ReaderStates
    <3> QED
      BY <3>1, <3>3
  <2>2. Channels' /\ NoGap' /\ ToRecord' /\ NoneSkipped'
    BY <2>1 DEF Stream, Channels, NoGap, ToRecord, Taken, NoneSkipped
  <2>3. Followed'
    BY <2>1 DEF Stream, Followed
  <2> QED
    BY <2>2, <2>3 DEF Stream
<1> QED
  BY <1>1, <1>2, <1>3, StreamOnly, StreamEnable, StreamConnect, StreamTake, StreamSent

-----------------------------------------------------------------------------
(* The theorems.                                                           *)

LEMMA InitIInv == Init => IInv
<1> SUFFICES ASSUME Init
             PROVE  IInv
  OBVIOUS
<1>1. Counter
  <2>1. listeners = {} /\ count = 0 /\ HoldingRead = {}
    BY DEF Init, HoldingRead
  <2> QED
    BY <2>1, FS_EmptySet DEF Counter
<1>2. Stream /\ NoneSkipped
  <2>1. /\ gen = 0 /\ lastSeen = 0
        /\ \A g \in Gens : C[g] = <<>> 
        /\ \A s \in Slots : updater[s] = 0
        /\ \A r \in Readers : reader[r].pc \in {"away", "unused"}
    BY DEF Init
  <2> QED
    BY <2>1 DEF Stream, Channels, NoGap, Followed, ToRecord, Taken, NoneSkipped
<1> QED
  BY <1>1, <1>2, InitTypes DEF IInv

LEMMA NextIInv == IInv /\ [Next]_vars => IInv'
<1> SUFFICES ASSUME IInv, [Next]_vars
             PROVE  IInv'
  OBVIOUS
<1>1. Types'
  BY TypesStep DEF IInv
<1> QED
  BY <1>1, PlacesStep, PastStep, WritersStep, CounterStep, SendingStep, StreamStep DEF IInv

LEMMA SpecIInv == Spec => []IInv
  BY InitIInv, NextIInv, PTL DEF Spec

\* For any number of listeners, goroutines, connections and events, the counter
\* that disableEventMonitoring waits for is that of the listeners and of the
\* deliveries in progress, and every variable keeps to its type.
THEOREM SpecCounterExact == Spec => []CounterExact
<1>1. IInv => CounterExact
  <2> SUFFICES ASSUME IInv
               PROVE  CounterExact
    OBVIOUS
  <2>1. count \in Nat
    BY CountedFinite DEF IInv, Counter
  <2> QED
    BY <2>1 DEF IInv, Types, Places, Counter, CounterExact, TypeOK
<1> QED
  BY <1>1, SpecIInv, PTL

\* Once a listener is off the list, no delivery under way sends to it.
THEOREM SpecNoSendAfterRemoval == Spec => []NoSendAfterRemoval
<1>1. IInv => NoSendAfterRemoval
  BY DEF IInv
<1> QED
  BY <1>1, SpecIInv, PTL

\* Every event up to lastSeen has been taken from the channel, but for those from
\* before monitoring was enabled and those not handed on when a connection was made
\* while no event had been recorded: a connection made once one has been, which asks
\* for the events from lastSeen on, misses none, in any order of the goroutines and
\* across any number of connections.
THEOREM SpecNoneSkipped == Spec => []NoneSkipped
<1>1. IInv => NoneSkipped
  BY DEF IInv
<1> QED
  BY <1>1, SpecIInv, PTL

=============================================================================
