SPECIFICATION Spec
CONSTANTS
  Projects = {p1}
  Batches = {b1}
  Runs = {r1}
  Modes = {LIVE, FIXTURE}
  Live = LIVE
  Policies = {q1, q2}
  Deadline <- MCDeadline
  Uncertain = {}
  DefaultTtl = 2
  NearTtl = 2
  NearWindow = 1
  NoEval = NoEval
  MaxVersion = 2
  MaxClock = 4
  MaxLag = 1
  Approvals = {a1, a2}
  Keys = {k1, k2}
  NoApproval = NoApproval
  ApprovalTtl = 2
SYMMETRY Symmetry
CONSTRAINT TwoWrites
CHECK_DEADLOCK FALSE
INVARIANTS TypeOK OneLiveApproval SpentOnRecord
PROPERTY LifecycleOrder
