SPECIFICATION PruningSpec
CONSTANTS
  IntMax = 4
  LLongMax = 1000
  Cases <- MCCases
INVARIANTS
  SolverInv
PROPERTIES
  PruningIsExact
CHECK_DEADLOCK FALSE
