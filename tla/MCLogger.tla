------------------------------ MODULE MCLogger ------------------------------
(* Three entries of three characters, lines of two items. *)
EXTENDS Logger

SomeSelectors ==
  {[level |-> LOGGER_LEVEL_DEBUG, module |-> "MQTT"],
   [level |-> LOGGER_LEVEL_DEBUG, module |-> "NMEA"],
   [level |-> LOGGER_LEVEL_WARNING, module |-> "ANY"],
   [level |-> LOGGER_LEVEL_ERROR, module |-> "ANY"]}
DebugNMEA == {"NMEA"}
SomeStrings == {<<"b", "c">>}
SomeCharacters == {<<"x">>}
OneNumber == {10}

=============================================================================
