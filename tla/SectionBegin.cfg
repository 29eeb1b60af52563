SPECIFICATION AcquisitionSpec
CONSTANTS
  NumCategories = 3
  MaxSpans = 3
  MaxContext = 2
  Indexes <- PromotedIndexes
  Values = {A}
  Unsupported = {"AMBIGUOUS"}
  PlanCap = 3
  MaxCalls = 5
  MaxSteps = 6
  MaxTurns = 4
  Strikes = 3
  MaxClaims = 2
CHECK_DEADLOCK FALSE
INVARIANT SelectedJobCanBegin
