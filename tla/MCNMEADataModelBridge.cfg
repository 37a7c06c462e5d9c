SPECIFICATION Spec
CONSTANTS
  s1 = s1
  s2 = s2
  Leaves <- BridgeLeaves
  Sessions <- TwoSessions
  Streams <- AllStreams
  Subtrees <- FourSubtrees
  MaxSubscribing = 2
INVARIANTS
  SubscribersUpToDate
  RetainedCountDrifts
  ShowsWhatWasSaid
  HandlesWellFormed
  WalksByName
SYMMETRY SessionsAlike
CHECK_DEADLOCK FALSE
