SPECIFICATION Spec
CONSTANTS
  Procs = {p1, p2}
  Ids = {c1, c2}
  ImageIds = {i1}
  Tags = {t1}
  MaxImages = 1
  Env = {"failure", "mutate", "custom"}
  Prepared = {"create"}
  Ops = {"create", "start", "stop", "pause", "unpause", "wait", "look", "remove", "commit", "pull", "push", "rmi"}
SYMMETRY MCSymmetry
CHECK_DEADLOCK FALSE
INVARIANTS
  NotifiedOnce
  Answered
PROPERTIES
  Lifecycle
