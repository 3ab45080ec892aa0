SPECIFICATION Spec
CONSTANTS
  Listeners = {l1, l2}
  Monitors = {m1}
  Readers = {r1, r2}
  MaxParties = 3
  Slots = {s1, s2}
  Cap = 1
  MaxRetries = 0
  MaxTime = 2
  MaxGen = 1
  Env = {"garble", "eof", "busy", "refuse"}
SYMMETRY MCSymmetry
CHECK_DEADLOCK FALSE
INVARIANTS
  CounterExact
  NoSendAfterRemoval
  NoneSkipped
  RemovalGoesOn
