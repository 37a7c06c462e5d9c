SPECIFICATION Spec
CONSTANTS
  maxNMEALineLength = 4
  CR <- Return
  LF <- Feed
  Characters <- FourCharacters
  Sentences <- TwoSentences
  Streams <- FiveStreams
  MaxConnections = 2
INVARIANTS
  NothingInvented
  LosesOnlyAfterFaults
PROPERTIES
  StatusFollows
  BufferUsedUp
CHECK_DEADLOCK FALSE
