SPECIFICATION ReportsSpec
CONSTANTS
  NumCases = 3
  Repeat <- ThreeRepeat
  Required <- ThreeRequired
  SuiteSizes <- TwoSuites
  None = None
  Outcomes <- Mixed
  Concurrency = 2
  FailFast = TRUE
  Escapes <- NoCases
  Targets <- BothSinks
INVARIANTS
  IInv NothingLost
  ReportInSpecOrder ExitZeroMeansAllPassed
  ReportsAgree PartialRunIsNeverGreen ExitCodeMeansReported
PROPERTIES NothingLandsAfterStop ImplementsContract
CHECK_DEADLOCK FALSE
