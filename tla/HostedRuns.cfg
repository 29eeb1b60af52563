SPECIFICATION FairHostedSpec
CONSTANTS
  Requests = {c1, c2}
  RunIds = {1, 2, 3}
  NoRun = NoRun
  MaxRuns = 2
  Cooldown = 1
  MaxClock = 2
  ThreadMayFail = TRUE
CONSTRAINT DrawnInOrder
CHECK_DEADLOCK FALSE
INVARIANTS HostedTypeOK SlotCoversWork LaunchesBounded CompletedIsPersisted
PROPERTIES TerminalIsFinal SlotAndShutdownSettle
