SPECIFICATION HostedSpec
CONSTANTS
  Requests = {c1}
  RunIds = {r1}
  NoRun = NoRun
  MaxRuns = 1
  Cooldown = 1
  MaxClock = 0
  ThreadMayFail = FALSE
SYMMETRY Symmetry
CHECK_DEADLOCK FALSE
INVARIANT AnswerSurvivesRestart
