SPECIFICATION Calls
CONSTANTS
  IntMax = 4
  LLongMax = 1000
  BLOCK_SIZE = 2
  Cases <- MCCases
INVARIANT LevelGraphIsExact
CHECK_DEADLOCK FALSE
