SPECIFICATION FairSpec
CONSTANTS
  Words <- MCWords
  NameLike <- MCNameLike
  Letters <- MCLetters
  Environ <- MCEnviron
  CommandLines <- MCCommandLines
  MaxLines = 2
  MaxRuns = 3
  Env = {"call", "kill", "hand"}
CHECK_DEADLOCK FALSE
INVARIANTS
  RunUnderstood
  OnlyTheEndIsLost
  LinesOnce
PROPERTIES
  Piped
