SPECIFICATION Spec
CONSTANTS
  IntMax = 9
  Files <- MCFiles
  Modes <- MCModes
  HashValues <- MCHashValues
INVARIANTS
  BuiltGraphIsSound
  KeepsCuts
PROPERTIES
  StrictIsExact
  BuildReturns
CHECK_DEADLOCK FALSE
