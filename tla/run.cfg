SPECIFICATION FairSpec
CONSTANTS
  r = r
  q = q
  Cmds <- MCCmds
  Scenarios <- MCScenarios
  Codes = {"0", "1"}
  Signals = {"TERM", "RTMIN", "CHLD"}
  Unsupported = {"RTMIN"}
CHECK_DEADLOCK FALSE
INVARIANTS
  RunTellsTheCode
  SignalsInOrder
  NoEmptyCidFile
PROPERTIES
  Ends
