SPECIFICATION Spec
CONSTANTS
  IntMax = 4
  LLongMax = 1000
  NumThreads = 3
  Cases <- MCCases
INVARIANTS
  FrontierIsLevel
  LevelGraphIsExact
  BuffersSuffice
PROPERTY
  BuilderReturns
CHECK_DEADLOCK FALSE
