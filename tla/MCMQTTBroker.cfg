SPECIFICATION Spec
CONSTANTS
  maxMQTTSessions = 2
  alice = alice
  bob = bob
  e1 = e1
  e2 = e2
  leaf1 = leaf1
  None = None
  ClientIDs <- TwoClients
  Endpoints <- TwoEndpoints
  Leaves <- OneLeaf
  KeepAlives <- KeepAliveZero
  TearDownTime = 2
  RepeatConnect = FALSE
VIEW Live
SYMMETRY Symmetry
INVARIANTS
  LinksSymmetric
  SubscribersAreSessions
  NeverLosesTrack
  ToldOfSession
PROPERTIES
  RetainedUntilTearDown
  NoTakeOver
  SubscriptionsSurvive
  ImplementsClientSessions
CHECK_DEADLOCK FALSE
