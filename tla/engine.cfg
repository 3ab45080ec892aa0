SPECIFICATION FairSpec
CONSTANTS
  Runs = {r1, r2}
  Names = {serveapi, create}
  ServeApiJob = serveapi
  Downs = {d1, d2}
  Hooks = {h1}
  Env = {"slow", "stuck"}
CHECK_DEADLOCK FALSE
INVARIANTS
  TasksExact
  HooksOnce
  EarlyJobsFirst
PROPERTIES
  ShutdownReturns
