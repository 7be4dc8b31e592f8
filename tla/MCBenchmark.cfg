SPECIFICATION Spec
CONSTANTS
  OutputSize = 4
  PipeSize = 1
  Timeout = 1
  IntMax = 1
  Programs <- MCPrograms
  NumCases = 2
  NumConfigs = 2
  Runs = 2
INVARIANTS
  ChildIsReaped
  OutcomeIsTrue
  OutputIsKept
  ExitCodeIsVerdict
PROPERTIES
  RowsAreHonest
  BenchmarkEnds
CHECK_DEADLOCK FALSE
