SPECIFICATION BlockingSpec
CONSTANTS
  IntMax = 4
  LLongMax = 1000
  Cases <- MCCases
INVARIANTS
  TidesFitLongLong
  ZeroCycleMeansBlocked
  PhasesLengthen
  CutCertificate
PROPERTIES
  Terminates
CHECK_DEADLOCK FALSE
