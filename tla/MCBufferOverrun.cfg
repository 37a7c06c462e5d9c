SPECIFICATION Spec
CONSTANTS
  Radix = 2
  maxIncomingMessageSize = 6
  Types <- OneType
  Lengths <- AllLengths
  Payloads <- AllPayloads
  MaxMessages = 3
INVARIANTS
  BufferHolds
CHECK_DEADLOCK FALSE
