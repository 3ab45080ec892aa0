SPECIFICATION ApiSpec
CONSTANTS
  Fd = {f}
  Unix = {u}
  Tcp = {t}
  BufferRequests = TRUE
  ServeApiFirst = TRUE
CHECK_DEADLOCK FALSE
INVARIANTS
  NotBeforeInstalled
PROPERTIES
  ServedOrTold
