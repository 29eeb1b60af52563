SPECIFICATION FairSpec
CONSTANTS
  None = None
  Limit <- MCLimit
  CostCap = 7
  SearchPrice = 1
  MaxModelCost = 3
  MaxSlots = 5
  MaxDispatched = 4
  MaxTurns = 3
  MaxTools = 5
  MaxSteps = 6
  FailureBound = 3
  RepeatBound = 3
  PlanCap = 2
  ClaimLimit = 1
  BatchLimit = 2
  TraceLimit = 7
  Costs = {3, 5}
  Savings = {0, 2}
CHECK_DEADLOCK FALSE
INVARIANTS ResearchTypeOK SpendIsAccounted StopsForItsReason ReportIsTrue
PROPERTIES NoSpendAfterStop RunEnds
