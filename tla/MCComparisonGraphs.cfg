SPECIFICATION Spec
CONSTANTS
  IntMax = 9
  Files <- MCFiles
  Terminals <- MCTerminals
INVARIANTS
  BuildersKeepCuts
  MatesAreMutual
  ReadersAgree
CHECK_DEADLOCK FALSE
