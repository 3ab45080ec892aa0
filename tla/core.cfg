SPECIFICATION Spec
CONSTANTS
  Units = {u1}
  Ids = {i1, i2}
  Pids = {p1, p2, p3}
  NoUnit = NoUnit
  NoId = NoId
  NoPid = NoPid
  Self = Self
  MaxArgs = 2
  Invocations <- MCPairs
  Env = {"call", "kill", "stop", "leave", "rm", "run"}
SYMMETRY MCSymmetry
INVARIANTS
  TrackedByUnit
  AnnouncedProcess
  SyncWhileSupervised
  NoOrphans
  RmLeavesNothing
PROPERTIES
  Supervises
  RemovesOnlyStopped
  RmNeverRevives
