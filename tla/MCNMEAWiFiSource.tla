-------------------------- MODULE MCNMEAWiFiSource --------------------------
(* Two sentences of two characters, and streams with an empty line, a line   *)
(* that is too long, a carriage return or line feed without the other, and a *)
(* partial line at the end, for TLC.                                       *)
EXTENDS NMEAWiFiSource

Return == "CR"
Feed == "LF"
End == <<Return, Feed>>
A == <<"$", "a">>
B == <<"$", "b">>

TwoSentences == {A, B}
FourCharacters == {"$", "a", "b", "x"}

FiveStreams == {
  A \o End \o End \o B \o End \o <<"$">>,
  <<"$", "x", "a", "x", "b">> \o End \o A \o End,
  A \o <<Return>> \o B \o End \o A \o End,
  A \o <<Return, "x">> \o End \o B \o End \o B,
  <<Feed, Return, "x">> \o A \o End \o <<Return>>}
=============================================================================
