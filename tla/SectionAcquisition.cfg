SPECIFICATION AcquisitionSpec
CONSTANTS
  NumCategories = 3
  MaxSpans = 3
  MaxContext = 2
  Indexes <- AllIndexes
  Values = {A, B}
  Unsupported = {"UNKNOWN"}
  PlanCap = 3
  MaxCalls = 5
  MaxSteps = 6
  MaxTurns = 4
  Strikes = 3
  MaxClaims = 2
CHECK_DEADLOCK FALSE
INVARIANTS StartedIsAccounted VerdictRestsOnCoverage ConflictNeverExecutes AcquisitionSettles
PROPERTY EndsStand
