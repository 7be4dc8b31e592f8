SPECIFICATION FairSpec
CONSTANTS
  IntMax = 6
  LLongMax = 1000
  Cases <- MCCases
INVARIANTS
  PreflowInv
  ResultIsMinCut
PROPERTIES
  Returns
CHECK_DEADLOCK FALSE
