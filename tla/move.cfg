SPECIFICATION FairSpec
CONSTANTS
  Systemd = Systemd
  Cpu = Cpu
  Unknown = Unknown
  Main = main
  Procs = {main, p2, p3}
  Hierarchies <- MCHierarchies
  Selections <- MCSelections
  Env = {"fork", "exit", "call", "retry"}
CHECK_DEADLOCK FALSE
INVARIANTS
  TypeOK
  SnapshotMoved
  AllMoved
PROPERTIES
  OnlySelected
  Terminates
  TakesOver
