SPECIFICATION HostedSpec
CONSTANTS
  Requests = {c1}
  RunIds = {r1, r2}
  NoRun = NoRun
  MaxRuns = 2
  Cooldown = 1
  MaxClock = 1
  ThreadMayFail = FALSE
SYMMETRY Symmetry
CHECK_DEADLOCK FALSE
INVARIANT TerminalFreesSlot
