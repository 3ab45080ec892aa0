---------------------------- MODULE EventMonitor ----------------------------
(***************************************************************************)
(* The event monitor of go-dockerclient (event.go): goroutines that read   *)
(* /events from the daemon and hand every event to the channels given to   *)
(* AddEventListener, under one RWMutex and one WaitGroup.                  *)
(*                                                                         *)
(* A listener is named after the goroutine that owns it.  An event is its  *)
(* Time.  The RWMutex is Go's: a writer that has called Lock waits for the *)
(* readers it has found and keeps new ones out.  A section that holds the  *)
(* lock and cannot block in it is one step.                                *)
(***************************************************************************)
EXTENDS Naturals, Sequences, FiniteSets

CONSTANTS
  Listeners,
  Monitors,     \* goroutines of monitorEvents
  Readers,      \* goroutines of eventHijack, one for each connection
  Slots,        \* goroutines of sendEvent and updateLastSeen
  MaxParties,   \* bound on the listeners and the connections together
  Cap,          \* capacity of C (100)
  MaxRetries,   \* maxMonitorConnRetries (5)
  MaxTime,      \* bound on the events of the daemon
  MaxGen,       \* bound on how often monitoring is enabled
  Env           \* a subset of Disturbances

Disturbances ==
  { "refuse",  \* the daemon refuses a connection
    "garble",  \* it sends what is not JSON
    "eof",     \* it ends the response
    "busy" }   \* a listener is not read while its owner is removing it

None == "none"

ASSUME EnvAssumption == Env \subseteq Disturbances

\* Finitely many of what is counted; an owner is no other goroutine that takes
\* the lock, and none of them is None.
ASSUME GoroutinesAssumption ==
  /\ IsFiniteSet(Listeners) /\ IsFiniteSet(Slots)
  /\ Listeners \intersect (Monitors \union Slots) = {}
  /\ None \notin Listeners \union Monitors \union Slots

ASSUME BoundsAssumption ==
  /\ Cap \in Nat \ {0}
  /\ MaxParties \in Nat /\ MaxRetries \in Nat /\ MaxTime \in Nat /\ MaxGen \in Nat

VARIABLES
  (* eventMonitoringState; C and errC of every time it has been enabled *)
  enabled, gen, listeners, count, lastSeen, C, errC,
  writer,     \* who has called Lock and not yet got or released it
  (* goroutines *)
  user,       \* listener -> where its owner is
  monitor, reader, sender, updater,
  (* the daemon, and history *)
  clock,      \* Time of its last event
  missed,     \* the events nobody asks for in this gen
  received,   \* the events taken from C in this gen
  panicked

state == <<enabled, gen, listeners, count, lastSeen, C, errC>>
history == <<missed, received>>
vars == <<state, writer, user, monitor, reader, sender, updater,
          clock, history, panicked>>

Gens == 1..MaxGen
Times == 1..MaxTime

Closed(g) == g < gen \/ ~enabled

Init ==
  /\ enabled = FALSE /\ gen = 0
  /\ listeners = {} /\ count = 0 /\ lastSeen = 0
  /\ C = [g \in Gens |-> <<>>] /\ errC = [g \in Gens |-> {}]
  /\ writer = None
  /\ \E L \in SUBSET Listeners, R \in SUBSET Readers :
       /\ Cardinality(L) + Cardinality(R) <= MaxParties
       /\ user = [l \in Listeners |-> IF l \in L THEN "out" ELSE "away"]
       /\ reader = [r \in Readers |->
            [pc |-> IF r \in R THEN "unused" ELSE "away", gen |-> 0, next |-> 0]]
  /\ monitor = [m \in Monitors |-> [pc |-> "gone", gen |-> 0, tries |-> 0]]
  /\ sender = [s \in Slots |-> [pc |-> "free", ev |-> 0, left |-> {}]]
  /\ updater = [s \in Slots |-> 0]
  /\ clock = 0 /\ missed = {} /\ received = {}
  /\ panicked = FALSE

-----------------------------------------------------------------------------
(* The RWMutex.                                                            *)

\* A slip: the list is copied and the lock released before the sending.
HoldingReadUntilCopied == { s \in Slots : sender[s].pc \in {"check", "none"} }

\* sendEvent is the only one that keeps the lock while it blocks.
HoldingRead == { s \in Slots : sender[s].pc \notin {"free", "start"} }

CanRead == writer = None

\* A writer has waited for the readers.
CanWrite(p) == writer = p /\ HoldingRead = {}

\* The write sections of the owners, of a monitor and of updateLastSeen.
WantsWrite(p) ==
  \/ p \in Listeners /\ user[p] \in {"add", "remove", "disable"}
  \/ /\ p \in Listeners /\ user[p] = "enable"
     /\ enabled \/ (gen < MaxGen /\ \E m \in Monitors : monitor[m].pc = "gone")
  \/ p \in Monitors /\ monitor[p].pc \in {"disable", "disableEnd"}
  \/ p \in Slots /\ updater[p] # 0

Lock(p) ==
  /\ writer = None /\ WantsWrite(p)
  /\ writer' = p
  /\ UNCHANGED <<state, user, monitor, reader, sender, updater, clock, history, panicked>>

-----------------------------------------------------------------------------
(* Slips: what a plausible mistake would do in place of the definitions    *)
(* below.                                                                  *)

\* The counter is left alone.
RemoveListenerUncounted(l) ==
  /\ user[l] = "remove" /\ CanWrite(l)
  /\ listeners' = listeners \ {l}
  /\ user' = [user EXCEPT ![l] = "check"]
  /\ writer' = None
  /\ UNCHANGED <<enabled, gen, count, lastSeen, C, errC, monitor, reader, sender,
                 updater, clock, history, panicked>>

\* An early return without Unlock.
UserDisablesLocked(l) ==
  /\ user[l] = "disable" /\ CanWrite(l)
  /\ enabled' = FALSE
  /\ user' = [user EXCEPT ![l] = "out"]
  /\ writer' = IF enabled THEN None ELSE writer
  /\ UNCHANGED <<gen, listeners, count, lastSeen, C, errC, monitor, reader, sender,
                 updater, clock, history, panicked>>

\* lastSeen is what the daemon has sent, read or not.
EventReadSeen(r) ==
  /\ reader[r].pc = "reading" /\ reader[r].next <= clock
  /\ CanRead /\ enabled
  /\ reader' = [reader EXCEPT ![r].pc = "sending"]
  /\ lastSeen' = reader[r].next
  /\ UNCHANGED <<enabled, gen, listeners, count, C, errC, writer, user, monitor, sender,
                 updater, clock, history, panicked>>

-----------------------------------------------------------------------------
(* AddEventListener and RemoveEventListener.                               *)

AddEventListener(l) ==
  /\ user[l] \in {"out", "in"} /\ CanRead
  /\ user' = [user EXCEPT ![l] = IF enabled THEN "add" ELSE "enable"]
  /\ UNCHANGED <<state, writer, monitor, reader, sender, updater, clock, history, panicked>>

EnableEventMonitoring(l) ==
  /\ user[l] = "enable" /\ CanWrite(l)
  /\ \/ /\ ~enabled
        /\ enabled' = TRUE /\ gen' = gen + 1 /\ lastSeen' = 0
        /\ \E m \in Monitors :
             /\ monitor[m].pc = "gone"
             /\ monitor' = [monitor EXCEPT ![m].pc = "poll"]
        /\ missed' = 1..clock /\ received' = {}
     \/ enabled /\ UNCHANGED <<enabled, gen, lastSeen, monitor, history>>
  /\ user' = [user EXCEPT ![l] = "add"]
  /\ writer' = None
  /\ UNCHANGED <<listeners, count, C, errC, reader, sender, updater, clock, panicked>>

AddListener(l) ==
  /\ user[l] = "add" /\ CanWrite(l)
  /\ IF l \in listeners THEN UNCHANGED <<listeners, count>>   \* ErrListenerAlreadyExists
     ELSE listeners' = listeners \union {l} /\ count' = count + 1
  /\ user' = [user EXCEPT ![l] = "in"]
  /\ writer' = None
  /\ UNCHANGED <<enabled, gen, lastSeen, C, errC, monitor, reader, sender, updater,
                 clock, history, panicked>>

\* The owner may have no listener there.
RemoveEventListener(l) ==
  /\ user[l] \in {"in", "out"}
  /\ user' = [user EXCEPT ![l] = "remove"]
  /\ UNCHANGED <<state, writer, monitor, reader, sender, updater, clock, history, panicked>>

RemoveListener(l) ==
  /\ user[l] = "remove" /\ CanWrite(l)
  /\ IF l \in listeners THEN listeners' = listeners \ {l} /\ count' = count - 1
     ELSE UNCHANGED <<listeners, count>>
  /\ user' = [user EXCEPT ![l] = "check"]
  /\ writer' = None
  /\ UNCHANGED <<enabled, gen, lastSeen, C, errC, monitor, reader, sender, updater,
                 clock, history, panicked>>

\* len(c.eventMonitor.listeners) is read without the lock.
CheckListeners(l) ==
  /\ user[l] = "check"
  /\ user' = [user EXCEPT ![l] = IF listeners = {} THEN "wait" ELSE "out"]
  /\ UNCHANGED <<state, writer, monitor, reader, sender, updater, clock, history, panicked>>

\* disableEventMonitoring: Wait comes before Lock.
UserWaited(l) ==
  /\ user[l] = "wait" /\ count = 0
  /\ user' = [user EXCEPT ![l] = "disable"]
  /\ UNCHANGED <<state, writer, monitor, reader, sender, updater, clock, history, panicked>>

UserDisables(l) ==
  /\ user[l] = "disable" /\ CanWrite(l)
  /\ enabled' = FALSE
  /\ user' = [user EXCEPT ![l] = "out"]
  /\ writer' = None
  /\ UNCHANGED <<gen, listeners, count, lastSeen, C, errC, monitor, reader, sender,
                 updater, clock, history, panicked>>

-----------------------------------------------------------------------------
(* monitorEvents.                                                          *)

MonitorGoes(m, pc) == monitor' = [monitor EXCEPT ![m].pc = pc]

\* for eventState.noListeners()
Poll(m) ==
  /\ monitor[m].pc = "poll" /\ CanRead /\ listeners # {}
  /\ monitor' = [monitor EXCEPT ![m].pc = "connect", ![m].tries = 0]
  /\ UNCHANGED <<state, writer, user, reader, sender, updater, clock, history, panicked>>

InChannel(g) == { C[g][i] : i \in DOMAIN C[g] }

\* connectWithRetry.  The daemon answers with what it has from lastSeen on,
\* or with what is to come, as long as no event has been recorded: what was not
\* handed on by then is missed.
Connect(m) ==
  /\ monitor[m].pc = "connect"
  /\ \/ \E r \in Readers :
          /\ reader[r].pc = "unused"
          /\ reader' = [reader EXCEPT ![r] =
                         [pc |-> "reading", gen |-> gen,
                          next |-> IF lastSeen = 0 THEN clock + 1 ELSE lastSeen]]
          /\ missed' = IF lastSeen # 0 THEN missed
                       ELSE missed \union ((1..clock) \ (received \union InChannel(gen)))
          /\ MonitorGoes(m, "loop")
     \/ /\ "refuse" \in Env
        /\ IF monitor[m].tries < MaxRetries
             THEN monitor' = [monitor EXCEPT ![m].tries = @ + 1]
             ELSE MonitorGoes(m, "wait")
        /\ UNCHANGED <<reader, missed>>
  /\ UNCHANGED <<state, writer, user, sender, updater, clock, received, panicked>>

\* terminate; after ErrNoListeners the goroutine ends.
MonitorWaited(m) ==
  /\ monitor[m].pc \in {"wait", "waitEnd"} /\ count = 0
  /\ MonitorGoes(m, IF monitor[m].pc = "wait" THEN "disable" ELSE "disableEnd")
  /\ UNCHANGED <<state, writer, user, reader, sender, updater, clock, history, panicked>>

MonitorDisables(m) ==
  /\ monitor[m].pc \in {"disable", "disableEnd"} /\ CanWrite(m)
  /\ enabled' = FALSE
  /\ MonitorGoes(m, IF monitor[m].pc = "disable" THEN "loop" ELSE "gone")
  /\ writer' = None
  /\ UNCHANGED <<gen, listeners, count, lastSeen, C, errC, user, reader, sender,
                 updater, clock, history, panicked>>

\* for eventState.isEnabled(), and the channels of the select.
Loop(m) ==
  /\ monitor[m].pc = "loop" /\ CanRead
  /\ monitor' = IF enabled THEN [monitor EXCEPT ![m].pc = "select", ![m].gen = gen]
                           ELSE [monitor EXCEPT ![m].pc = "gone"]
  /\ UNCHANGED <<state, writer, user, reader, sender, updater, clock, history, panicked>>

\* case ev, ok := <-eventState.C
TakeEvent(m) ==
  LET g == monitor[m].gen IN
  /\ monitor[m].pc = "select"
  /\ \/ /\ C[g] # <<>>
        /\ C' = [C EXCEPT ![g] = Tail(@)]
        /\ received' = IF g = gen THEN received \union {Head(C[g])} ELSE received
        /\ \E s \in Slots :
             /\ sender[s].pc = "free" /\ updater[s] = 0
             /\ sender' = [sender EXCEPT ![s] = [pc |-> "start", ev |-> Head(C[g]), left |-> {}]]
             /\ updater' = [updater EXCEPT ![s] = Head(C[g])]
        /\ MonitorGoes(m, "loop")
     \/ /\ C[g] = <<>> /\ Closed(g)
        /\ MonitorGoes(m, "gone")
        /\ UNCHANGED <<C, received, sender, updater>>
  /\ UNCHANGED <<enabled, gen, listeners, count, lastSeen, errC, writer, user, reader,
                 clock, missed, panicked>>

\* case err = <-eventState.errC; a closed channel gives nil.
TakeError(m) ==
  LET g == monitor[m].gen IN
  /\ monitor[m].pc = "select"
  /\ \/ \E e \in errC[g] :
          /\ errC' = [errC EXCEPT ![g] = {}]
          /\ MonitorGoes(m, IF e = "ErrNoListeners" THEN "waitEnd" ELSE "poll")
     \/ /\ errC[g] = {} /\ Closed(g)
        /\ MonitorGoes(m, "loop")
        /\ UNCHANGED errC
  /\ UNCHANGED <<enabled, gen, listeners, count, lastSeen, C, writer, user, reader, sender,
                 updater, clock, history, panicked>>

TimeoutPasses(m) ==
  /\ monitor[m].pc = "select"
  /\ MonitorGoes(m, "loop")
  /\ UNCHANGED <<state, writer, user, reader, sender, updater, clock, history, panicked>>

-----------------------------------------------------------------------------
(* sendEvent and updateLastSeen.                                           *)

SenderGoes(s, pc, left) ==
  sender' = [sender EXCEPT ![s].pc = pc, ![s].left = left]

\* RLock, Add(1)
SendStart(s) ==
  /\ sender[s].pc = "start" /\ CanRead
  /\ count' = count + 1
  /\ SenderGoes(s, "check", {})
  /\ UNCHANGED <<enabled, gen, listeners, lastSeen, C, errC, writer, user, monitor, reader,
                 updater, clock, history, panicked>>

\* isEnabled and noListeners lock for reading once more.
SendCheck(s) ==
  /\ sender[s].pc = "check" /\ CanRead
  /\ IF enabled /\ listeners = {} THEN SenderGoes(s, "none", {})
     ELSE SenderGoes(s, "send", IF enabled THEN listeners ELSE {})
  /\ UNCHANGED <<state, writer, user, monitor, reader, updater, clock, history, panicked>>

\* eventState.errC <- ErrNoListeners
SendNone(s) ==
  /\ sender[s].pc = "none" /\ errC[gen] = {}
  /\ errC' = [errC EXCEPT ![gen] = {"ErrNoListeners"}]
  /\ SenderGoes(s, "send", {})
  /\ UNCHANGED <<enabled, gen, listeners, count, lastSeen, C, writer, user, monitor, reader,
                 updater, clock, history, panicked>>

\* listener <- event: its owner has to read it.
Reads(l) == user[l] = "in" \/ "busy" \notin Env

SendListener(s, l) ==
  /\ sender[s].pc = "send" /\ l \in sender[s].left /\ Reads(l)
  /\ SenderGoes(s, "send", sender[s].left \ {l})
  /\ UNCHANGED <<state, writer, user, monitor, reader, updater, clock, history, panicked>>

\* Done, RUnlock
SendEnd(s) ==
  /\ sender[s].pc = "send" /\ sender[s].left = {}
  /\ count' = count - 1
  /\ sender' = [sender EXCEPT ![s].pc = "free", ![s].ev = 0]
  /\ UNCHANGED <<enabled, gen, listeners, lastSeen, C, errC, writer, user, monitor, reader,
                 updater, clock, history, panicked>>

UpdateLastSeen(s) ==
  /\ updater[s] # 0 /\ CanWrite(s)
  /\ lastSeen' = IF lastSeen < updater[s] THEN updater[s] ELSE lastSeen
  /\ updater' = [updater EXCEPT ![s] = 0]
  /\ writer' = None
  /\ UNCHANGED <<enabled, gen, listeners, count, C, errC, user, monitor, reader, sender,
                 clock, history, panicked>>

-----------------------------------------------------------------------------
(* The goroutine of eventHijack.                                           *)

\* Decode an event, and isEnabled.
EventRead(r) ==
  /\ reader[r].pc = "reading" /\ reader[r].next <= clock
  /\ CanRead
  /\ reader' = [reader EXCEPT ![r].pc = IF enabled THEN "sending" ELSE "done"]
  /\ UNCHANGED <<state, writer, user, monitor, sender, updater, clock, history, panicked>>

\* c.eventMonitor.C <- &event
EventSent(r) ==
  /\ reader[r].pc = "sending"
  /\ IF Closed(gen)
       THEN panicked' = TRUE /\ UNCHANGED <<C, reader>>
       ELSE /\ Len(C[gen]) < Cap
            /\ C' = [C EXCEPT ![gen] = Append(@, reader[r].next)]
            /\ reader' = [reader EXCEPT ![r].pc = "reading", ![r].next = @ + 1]
            /\ UNCHANGED panicked
  /\ UNCHANGED <<enabled, gen, listeners, count, lastSeen, errC, writer, user, monitor,
                 sender, updater, clock, history>>

\* The end of the response: no error is reported.
EventEOF(r) ==
  /\ "eof" \in Env
  /\ reader[r].pc = "reading"
  /\ reader' = [reader EXCEPT ![r].pc = "done"]
  /\ UNCHANGED <<state, writer, user, monitor, sender, updater, clock, history, panicked>>

Garbled(r) ==
  /\ "garble" \in Env
  /\ reader[r].pc = "reading"
  /\ reader' = [reader EXCEPT ![r].pc = "garbled"]
  /\ UNCHANGED <<state, writer, user, monitor, sender, updater, clock, history, panicked>>

\* errChan <- err, again and again: the decoder keeps its error.
EventError(r) ==
  LET g == reader[r].gen IN
  /\ reader[r].pc = "garbled"
  /\ IF Closed(g)
       THEN panicked' = TRUE /\ UNCHANGED errC
       ELSE /\ errC[g] = {}
            /\ errC' = [errC EXCEPT ![g] = {"err"}]
            /\ UNCHANGED panicked
  /\ UNCHANGED <<enabled, gen, listeners, count, lastSeen, C, writer, user, monitor, reader,
                 sender, updater, clock, history>>

-----------------------------------------------------------------------------

\* Something happens in the daemon.
DaemonEvent ==
  /\ clock < MaxTime
  /\ clock' = clock + 1
  /\ UNCHANGED <<state, writer, user, monitor, reader, sender, updater, history, panicked>>

UserStep(l) ==
  \/ EnableEventMonitoring(l) \/ AddListener(l)
  \/ RemoveListener(l) \/ CheckListeners(l) \/ UserWaited(l) \/ UserDisables(l)

MonitorStep(m) ==
  \/ Poll(m) \/ Connect(m) \/ MonitorWaited(m) \/ MonitorDisables(m)
  \/ Loop(m) \/ TakeEvent(m) \/ TakeError(m) \/ TimeoutPasses(m)

SenderStep(s) ==
  \/ SendStart(s) \/ SendCheck(s) \/ SendNone(s) \/ SendEnd(s)
  \/ \E l \in Listeners : SendListener(s, l)

ReaderStep(r) == EventRead(r) \/ EventSent(r) \/ EventError(r)

Next ==
  /\ ~panicked
  /\ \/ \E p \in Listeners \union Monitors \union Slots : Lock(p)
     \/ \E l \in Listeners : UserStep(l) \/ AddEventListener(l) \/ RemoveEventListener(l)
     \/ \E m \in Monitors : MonitorStep(m)
     \/ \E s \in Slots : SenderStep(s) \/ UpdateLastSeen(s)
     \/ \E r \in Readers : ReaderStep(r) \/ EventEOF(r) \/ Garbled(r)
     \/ DaemonEvent

Spec == Init /\ [][Next]_vars

-----------------------------------------------------------------------------
(* Properties.                                                             *)

\* Every variable keeps to its type.
TypeOK ==
  /\ enabled \in BOOLEAN /\ gen \in 0..MaxGen
  /\ listeners \subseteq Listeners /\ count \in Nat
  /\ lastSeen \in 0..MaxTime
  /\ C \in [Gens -> Seq(Times)] /\ \A g \in Gens : Len(C[g]) <= Cap
  /\ errC \in [Gens -> SUBSET {"ErrNoListeners", "err"}]
  /\ writer \in {None} \union Listeners \union Monitors \union Slots

\* The variables keep to their types, and disableEventMonitoring waits exactly
\* for the listeners and the deliveries in progress: the counter never drops
\* below zero, and never keeps Wait from returning once the last is gone.
CounterExact == TypeOK /\ count = Cardinality(listeners) + Cardinality(HoldingRead)

\* Once RemoveEventListener has taken a listener off the list, no delivery that
\* is under way sends to it: its owner may stop reading.
NoSendAfterRemoval ==
  \A s \in Slots : sender[s].left \subseteq listeners

\* A connection made anew asks the daemon for the events from lastSeen on: none
\* before it is overtaken, whatever the order of the goroutines that record them and
\* however many connections deliver events.  Only what came before monitoring was
\* enabled is never asked for, and what had not been handed on when a connection was
\* made while no event had been recorded.
NoneSkipped == \A t \in 1..lastSeen : t \in received \union missed

\* What a delivery waits for while it keeps others from the lock: the lock for
\* reading once more, behind a writer; an owner that does not read, as it is in a
\* call of its own; or a place in errC.
HeldUp ==
  { s \in Slots : \/ sender[s].pc = "check" /\ writer # None
                  \/ sender[s].pc = "send" /\ \E l \in sender[s].left : ~Reads(l)
                  \/ sender[s].pc = "none" /\ errC[gen] # {} }

Removing(l) == user[l] \in {"remove", "check", "wait", "disable"}
WriteStep(p) ==
  \/ p \in Listeners /\ UserStep(p)
  \/ p \in Monitors /\ MonitorStep(p)
  \/ p \in Slots /\ UpdateLastSeen(p)

\* RemoveEventListener waits for the lock, for the counter and for the lock again.
\* Whatever else goes on, it can go on itself, or who has the lock can, or a delivery
\* that reads under it can, unless that one is held up; in Wait, a listener added since
\* may hold it up too.  No refused connection, closed channel or earlier removal leaves
\* the lock taken or the counter above zero.
RemovalGoesOn ==
  \A l \in Listeners : Removing(l) /\ ~panicked =>
    \/ ENABLED (Lock(l) \/ UserStep(l))
    \/ writer # None /\ ENABLED WriteStep(writer)
    \/ \E s \in HoldingRead : s \in HeldUp \/ ENABLED SenderStep(s)
    \/ user[l] = "wait" /\ listeners # {}
=============================================================================
