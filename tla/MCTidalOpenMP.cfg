SPECIFICATION Spec
CONSTANTS
  IntMax = 6
  LLongMax = 1000
  Cases <- MCCases
INVARIANTS
  CycleInv
  ErosionDelivers
  ZeroCycleMeansBlocked
PROPERTIES
  Terminates
  ImplementsMaxFlow
CHECK_DEADLOCK FALSE
