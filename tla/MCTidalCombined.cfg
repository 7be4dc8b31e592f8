SPECIFICATION CombinedSpec
CONSTANTS
  IntMax = 4
  LLongMax = 1000
  Cases <- MCCases
INVARIANTS
  CombinedInv
  HighTideIsCurrent
PROPERTIES
  ImplementsMaxFlow
CHECK_DEADLOCK FALSE
