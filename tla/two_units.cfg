SPECIFICATION Spec
CONSTANTS
  Units = {u1, u2}
  Ids = {i1, i2}
  Pids = {p1, p2}
  NoUnit = NoUnit
  NoId = NoId
  NoPid = NoPid
  Self = Self
  MaxArgs = 1
  Invocations <- MCMixed
  Env = {"rm", "run", "start"}
SYMMETRY MCSymmetry
PROPERTY Isolation
