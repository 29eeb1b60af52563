SPECIFICATION Spec
CONSTANTS
  Projects = {p1, p2}
  Batches = {b1, b2}
  Runs = {r1, r2}
  Modes = {LIVE}
  Live = LIVE
  Policies = {q1}
  Deadline <- MCDeadline
  Uncertain = {2}
  DefaultTtl = 2
  NearTtl = 2
  NearWindow = 1
  NoEval = NoEval
  MaxVersion = 2
  MaxClock = 1
  MaxLag = 1
  Approvals = {a1}
  Keys = {k1}
  NoApproval = NoApproval
  ApprovalTtl = 2
SYMMETRY Symmetry
CONSTRAINT OneWrite
CHECK_DEADLOCK FALSE
PROPERTY ActsOnCurrentGraph
