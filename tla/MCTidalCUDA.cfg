SPECIFICATION CudaSpec
CONSTANTS
  IntMax = 6
  LLongMax = 1000
  Cases <- MCCases
INVARIANT LowTideReachesSource
CHECK_DEADLOCK FALSE
