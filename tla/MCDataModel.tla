---------------------------- MODULE MCDataModel ----------------------------
(* A tree with a $SYS topic and names that begin alike, for TLC. *)
EXTENDS DataModel, TLC

CONSTANTS s1, s2

TwoSessions == {s1, s2}
SessionsAlike == Permutations(TwoSessions)

Count == <<"$SYS", "count">>
Date == <<"gps", "date">>
Feet == <<"depth", "keel", "feet">>
ThreeLeaves == {Count, Date, Feet}

Names == UNION {{leaf[i] : i \in DOMAIN leaf} : leaf \in ThreeLeaves}
NamesAndBeginnings ==
  {<<name, name>> : name \in Names} \cup {<<"", name>> : name \in Names}
    \cup {<<"da", "date">>}
Mixed == {"da+"}
Sys == {"$SYS"}

Everything == {<<"#">>, <<"+", "#">>, <<"$SYS", "#">>}
Wildcards == {<<"gps", "+">>, <<"depth", "+", "feet">>, <<"+", "+">>}
Whole == {Count, Date, <<"gps", "#">>, <<"gps", "date", "#">>, <<"gps">>}
Abbreviations == {<<"gps", "da">>, <<"", "date">>, <<"gps", "+", "">>}
Invalid == {<<"">>, <<"#", "date">>, <<"gps", "", "date">>, <<"gps", "da+">>}

AllFilters == Everything \cup Wildcards \cup Whole \cup Abbreviations \cup Invalid

=============================================================================
