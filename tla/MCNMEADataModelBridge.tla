----------------------- MODULE MCNMEADataModelBridge -----------------------
(* Sentences like those of test/GPSCapture.txt, a word changed at a time. *)
EXTENDS NMEADataModelBridge, TLC

CONSTANTS s1, s2

BridgeLeaves ==
  GpsChildren["gpsNode"] \cup {leaf \in DOMAIN DepthElements : DepthElements[leaf].type # "node"}
  \cup {"sysBrokerSubscriptionsCount", "sysBrokerMessagesRetainedCount"}

TwoSessions == {s1, s2}
SessionsAlike == Permutations(TwoSessions)
FourSubtrees == {"gpsNode", "depthNode", "depthBelowKeelNode", "sysBrokerNode"}

Whole(n) == Number(FALSE, n, <<>>)
Decimals(n, digits) == Number(FALSE, n, digits)
Minus(n, digits) == Number(TRUE, n, digits)
Unit(c) == Letter(c)

Noon == TimeOfDay(12, 0, 59, <<>>)
FixTime == TimeOfDay(1, 56, 22, <<0, 0>>)
North == <<Angle(37, 46, <<0, 3, 3, 1, 0>>), Letter("N")>>
West == <<Angle(122, 17, <<1, 5, 8, 2, 7>>), Letter("W")>>
Depth == <<Decimals(12, <<4>>), Unit("f"), Decimals(3, <<7, 7>>), Unit("M"), Decimals(2, <<0>>), Unit("F")>>
SatelliteInView == <<Whole(17), Whole(45), Whole(230), Whole(33)>>

Base ==
  [DBK |-> Depth, DBS |-> Depth, DBT |-> Depth,
   GGA |-> <<FixTime>> \o North \o West \o
           <<Whole(2), Whole(12), Decimals(0, <<7, 4>>), Minus(1, <<2>>), Unit("M"),
             Minus(29, <<6>>), Unit("M"), Empty, Whole(0)>>,
   GLL |-> North \o West \o <<FixTime, Letter("A"), Letter("D")>>,
   GSA |-> <<Letter("A"), Whole(3), Whole(8), Whole(9)>> \o [i \in 1..9 |-> Empty] \o
           <<Whole(51), Decimals(1, <<3, 5>>), Decimals(0, <<7, 4>>), Decimals(1, <<1, 3>>)>>,
   GST |-> <<FixTime, Decimals(4, <<1, 5>>), Empty, Decimals(0, <<3>>), Whole(90),
             Decimals(1, <<2>>), Decimals(1, <<3>>), Decimals(2, <<5>>)>>,
   GSV |-> <<Whole(2), Whole(1), Whole(6)>> \o SatelliteInView \o SatelliteInView,
   RMC |-> <<FixTime, Letter("A")>> \o North \o West \o
           <<Decimals(0, <<0, 3, 0>>), Empty, DayMonthYear(12, 11, 21), Decimals(13, <<2>>),
             Letter("E"), Letter("D")>>,
   TXT |-> <<Whole(1), Whole(1), Whole(2), Garbled>>,
   VDM |-> <<Whole(1), Whole(1), Empty, Letter("A"), Garbled, Whole(0)>>,
   VDO |-> <<Whole(1), Whole(1), Whole(3), Letter("B"), Garbled, Whole(0)>>,
   VTG |-> <<Empty, Unit("T"), Decimals(81, <<5>>), Unit("M"), Decimals(0, <<0, 3, 0>>), Unit("N"),
             Decimals(0, <<0, 5, 6>>), Unit("K"), Letter("D")>>]

ShortVTG == <<Decimals(94, <<7>>), Decimals(81, <<5>>), Decimals(5, <<5>>), Decimals(10, <<1>>)>>

Line(type, words) ==
  [type |-> type, words |-> words, encapsulated |-> type \in {"VDM", "VDO"}]

Varied(type, words, i, others) == {Line(type, [words EXCEPT ![i] = w]) : w \in others}

Up(type, words, positions, others) == UNION {Varied(type, words, i, others) : i \in positions}

\* Numbers at the limits of what is read and of what is rounded.
TenthsWords == {Decimals(7, <<0, 4>>), Decimals(7, <<9, 4, 9>>), Decimals(7, <<9, 5>>),
                Whole(65535), Whole(65536), Minus(3, <<>>), Letter("A"),
                Decimals(65535, <<9, 7>>), Decimals(9999, <<9, 7>>)}
SignedWords == {Minus(0, <<5>>), Decimals(3, <<4, 5>>), Minus(2, <<9, 6>>), Minus(32768, <<>>),
                Minus(32769, <<>>), Whole(32768), Minus(32768, <<9, 6>>), Decimals(32767, <<9, 6>>)}
HundredthsWords == {Decimals(1, <<0, 5>>), Decimals(1, <<9, 9, 4>>), Decimals(1, <<9, 9, 5>>),
                    Decimals(1, <<0, 9, 5>>), Whole(255), Whole(256), Whole(65536),
                    Decimals(255, <<9, 9, 6>>), Decimals(65535, <<9, 9, 6>>)}
Times == {Noon, TimeOfDay(23, 59, 60, <<>>), TimeOfDay(24, 0, 0, <<>>),
          TimeOfDay(1, 2, 3, <<0, 2, 3, 4, 5, 6>>), TimeOfDay(1, 2, 3, <<0, 2, 3, 4, 5, 6, 7>>),
          TimeOfDay(1, 2, 3, <<4, 2, 9, 4, 9, 6, 7, 2, 9, 5>>),
          TimeOfDay(1, 2, 3, <<4, 2, 9, 4, 9, 6, 7, 2, 9, 6>>),
          TimeOfDay(1, 2, 3, <<0, 9, 9, 9, 9, 9, 9, 9, 9, 9>>),
          TimeOfDay(1, 2, 3, <<1, 0, 0, 0, 0, 0, 0, 0, 0, 0, 0>>)}
Places == {Angle(90, 59, <<9, 9, 9, 9, 6>>), Angle(91, 0, <<>>), Angle(180, 0, <<5>>),
           Angle(181, 0, <<>>), Angle(3, 60, <<>>)}

EdgeLines ==
  Up("DBT", Base.DBT, {1}, TenthsWords)
  \cup Up("DBK", Base.DBK, {3}, {Decimals(3, <<8, 4>>), Whole(4)})
  \cup Up("GGA", Base.GGA, {1}, Times) \cup Up("GST", Base.GST, {1}, Times)
  \cup Up("GGA", Base.GGA, {2, 4}, Places) \cup Up("GGA", Base.GGA, {3, 5}, {Letter("S"), Letter("E")})
  \cup Up("GGA", Base.GGA, {6}, {Whole(0), Whole(8), Whole(9), Minus(0, <<>>), Decimals(1, <<0>>)})
  \cup Up("GGA", Base.GGA, {7}, {Whole(0), Whole(13)})
  \cup Up("GGA", Base.GGA, {8}, HundredthsWords)
  \cup Up("GGA", Base.GGA, {9}, SignedWords)
  \cup Up("GGA", Base.GGA, {14}, {Whole(256), Whole(1023), Whole(1024), Empty})
  \cup Up("GLL", Base.GLL, {6}, {Letter("V")}) \cup Up("GLL", Base.GLL, {7}, {Letter("N"), Whole(1)})
  \cup Up("GSA", Base.GSA, {1}, {Letter("M")}) \cup Up("GSA", Base.GSA, {2}, {Whole(0), Whole(1), Whole(4)})
  \cup Up("GSA", Base.GSA, {5}, {Whole(65536)}) \cup Up("GSA", Base.GSA, {15, 17}, HundredthsWords)
  \cup Up("RMC", Base.RMC, {9}, {DayMonthYear(31, 12, 99), DayMonthYear(32, 1, 0), DayMonthYear(1, 13, 0)})
  \cup Up("RMC", Base.RMC, {10}, {Decimals(0, <<3>>), Whole(256)}) \cup Up("RMC", Base.RMC, {11}, {Letter("W")})
  \cup Up("GSV", Base.GSV, {5}, {Minus(90, <<>>), Whole(91)}) \cup Up("GSV", Base.GSV, {7, 11}, {Whole(100)})
  \cup Up("VDM", Base.VDM, {4}, {Whole(2), Whole(3)})
  \cup Up("VTG", Base.VTG, {1, 2}, {Decimals(5, <<5>>), Letter("M")})
  \cup {Line("RMC", SubSeq(Base.RMC, 1, 11)), Line("RMC", SubSeq(Base.RMC, 1, 10) \o <<Empty>>),
        Line("GLL", SubSeq(Base.GLL, 1, 6)), Line("GSV", SubSeq(Base.GSV, 1, 9)),
        Line("VTG", ShortVTG), Line("VTG", ShortVTG \o <<Letter("A")>>),
        Line("unknown", <<>>), [Line("GLL", Base.GLL) EXCEPT !.encapsulated = TRUE],
        [Line("VDO", Base.VDO) EXCEPT !.encapsulated = FALSE]}

\* Any word left out or garbled.
SpoiltLines ==
  UNION {Up(type, Base[type], DOMAIN Base[type], {Empty, Garbled}) : type \in DOMAIN Base}

BaseLine(type) == IF type \in DOMAIN Base THEN Line(type, Base[type]) ELSE Line("TXT", Base.TXT)

\* Each line after one that says all, and before it; and one of each.
AllStreams ==
  {<<BaseLine(line.type), line, BaseLine(line.type)>> : line \in EdgeLines \cup SpoiltLines}
  \cup {<<Line("RMC", Base.RMC), Line("VTG", ShortVTG), Line("GGA", Base.GGA), Line("GLL", Base.GLL),
          Line("GST", Base.GST), Line("GSA", Base.GSA), Line("DBS", Base.DBS)>>}

=============================================================================
