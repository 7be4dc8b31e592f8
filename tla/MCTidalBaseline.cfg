SPECIFICATION BaselineSpec
CONSTANTS
  IntMax = 4
  LLongMax = 1000
  Cases <- MCCases
INVARIANTS
  ErosionDelivers
  ResultIsMaxFlow
PROPERTIES
  BuildsLevelGraph
CHECK_DEADLOCK FALSE
