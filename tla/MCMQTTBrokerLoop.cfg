SPECIFICATION LoopSpec
CONSTANTS
  maxMQTTSessions = 2
  alice = alice
  e1 = e1
  None = None
  ClientIDs <- OneClient
  Endpoints <- OneEndpoint
  Leaves <- NoLeaf
  KeepAlives <- KeepAliveZeroOne
  TearDownTime = 1
  RepeatConnect = TRUE
VIEW LiveLoop
INVARIANTS
  OneSessionPerClient
  OneConnectionPerClient
  DebugsCurrent
PROPERTIES
  LostConnectionsFreed
  AwaySessionsEnd
  DebugsEventuallyCurrent
  SilentClientsDisconnected
CHECK_DEADLOCK FALSE
