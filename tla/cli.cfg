SPECIFICATION Spec
CONSTANTS
  Commands <- MCCommands
  Names <- MCNames
  Errors <- MCErrors
  Versions <- MCVersions
  Rooted <- MCRooted
  Published <- MCPublished
CHECK_DEADLOCK FALSE
INVARIANTS
  StatusTold
  EachTried
  OptionsReach
