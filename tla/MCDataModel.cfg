SPECIFICATION Spec
CONSTANTS
  maxDataModelSubscribers = 2
  s1 = s1
  s2 = s2
  None = None
  Sessions <- TwoSessions
  Leaves <- ThreeLeaves
  Filters <- AllFilters
  PrefixOf <- NamesAndBeginnings
  MixedLevels <- Mixed
  SysNames <- Sys
  MaxHeld = 2
INVARIANTS
  OneEntryEach
  AlwaysRoom
  CountTrue
  OnlyWhatWasGranted
  MatchesAsMQTT
SYMMETRY SessionsAlike
