SPECIFICATION Spec
CONSTANTS
  ByteRange = 8
  maxTopicFilterLength = 2
  maxMQTTClientIDLength = 2
  Topics <- TwoTopics
  Stands <- AllStands
  Values <- TwoValues
  RetainedBefore <- OneIsSet
  ConnectMessages <- Connects
  SubscribeMessages <- Subscribes
  UnsubscribeMessages <- Unsubscribes
  OtherMessages <- Others
  MaxMessages = 3
  MaxUpdates = 1
  MaxUnread = 1
INVARIANTS
  AcceptsExactlyWellFormed
  AnswersAsAsked
  PublishesReadable
CHECK_DEADLOCK FALSE
