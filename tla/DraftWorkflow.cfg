SPECIFICATION FairWorkSpec
CONSTANTS
  Projects = {p1}
  Batches = {b1}
  Runs = {r1}
  Modes = {LIVE}
  Live = LIVE
  Policies = {q1}
  Deadline <- MCDeadline
  Uncertain = {}
  DefaultTtl = 2
  NearTtl = 2
  NearWindow = 1
  NoEval = NoEval
  MaxVersion = 1
  MaxClock = 2
  MaxLag = 1
  Approvals = {a1}
  Keys = {k1, k2}
  NoApproval = NoApproval
  ApprovalTtl = 2
  Clients = {c1, c2}
  Jobs = {j1, j2}
  NoJob = NoJob
CHECK_DEADLOCK FALSE
INVARIANTS WorkTypeOK WorkOnRecord
PROPERTIES InterruptedJobIsLeftAlone ImplementsGrant ImplementsAuthority WorkSettles
