SPECIFICATION Spec
CONSTANTS
  maxMQTTSessions = 2
  alice = alice
  bob = bob
  e1 = e1
  e2 = e2
  leaf1 = leaf1
  None = None
  ClientIDs <- OneClient
  Endpoints <- TwoEndpoints
  Leaves <- OneLeaf
  KeepAlives <- KeepAliveZero
  TearDownTime = 0
  RepeatConnect = TRUE
INVARIANTS
  NeverLosesTrack
CHECK_DEADLOCK FALSE
