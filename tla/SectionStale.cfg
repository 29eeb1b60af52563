SPECIFICATION AcquisitionSpec
CONSTANTS
  NumCategories = 2
  MaxSpans = 3
  MaxContext = 2
  Indexes <- SettledIndexes
  Values = {A}
  Unsupported = {"UNKNOWN"}
  PlanCap = 3
  MaxCalls = 5
  MaxSteps = 6
  MaxTurns = 4
  Strikes = 3
  MaxClaims = 2
CHECK_DEADLOCK FALSE
INVARIANT GuardFollowsCoverage
