SPECIFICATION Spec
CONSTANTS
  logEntrySlots = 3
  maxLogEntryLength = 4
  logLevel = 0
  moduleDebugFlags <- DebugNMEA
  Selectors <- SomeSelectors
  Strings <- SomeStrings
  Characters <- SomeCharacters
  Numbers <- OneNumber
  MaxItems = 2
  NoEntry = NoEntry
INVARIANTS
  LogShowsLatest
  ConsoleLinesWhole
