SPECIFICATION ServerSpec
CONSTANTS
  Clients = {c1, c2}
  FounderIds = {"f1", "f2"}
  ProjectIds = {"p1", "p2", "p3"}
  RunIds = {r1, r2}
  Digests = {A, B}
  Inputs <- AllInputs
  Demo <- DemoInput
  ProjectLimit = 2
  MaxVersion = 2
  MaxRequests = 5
  NoRow = NoRow
  Browsers = {b1, b2}
  MaxTokens = 3
  Ttl = 2
  Maximum = 2
  MaxInstant = 2
SYMMETRY Symmetry
CHECK_DEADLOCK FALSE
INVARIANTS ServerTypeOK SchemaIsWhole VersionsIdentify AcceptedEditsStand RunsAreWhole TokenLifetime
PROPERTY HostedServesDemo
