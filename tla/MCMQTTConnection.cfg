SPECIFICATION Spec
CONSTANTS
  Radix = 2
  maxIncomingMessageSize = 6
  Types <- OneType
  Lengths <- AllLengths
  Payloads <- AllPayloads
  MaxMessages = 3
INVARIANTS
  FramedAsSent
  ReadsPastMissedEndsOnly
PROPERTIES
  EverythingRead
CHECK_DEADLOCK FALSE
