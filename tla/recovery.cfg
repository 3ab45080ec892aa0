SPECIFICATION FairSpec
CONSTANTS
  Units = {u1}
  Ids = {i1, i2}
  Pids = {p1, p2, p3}
  NoUnit = NoUnit
  NoId = NoId
  NoPid = NoPid
  Self = Self
  MaxArgs = 1
  Invocations <- MCRecovery
  Env = {"call", "kill", "stop", "leave", "start", "rm", "run"}
PROPERTY Recovers
