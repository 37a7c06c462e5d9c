---------------------------- MODULE NMEAMessages ----------------------------
(***************************************************************************)
(* The sentences LunaMon reads (NMEAMessage and the classes NMEAxxxMessage *)
(* of src/NMEA).  A message is a record of what its fields made of the     *)
(* words they read; if one of them rejects its word there is no message.   *)
(*                                                                         *)
(* A line is what NMEASource hands over once its parity is checked: its    *)
(* first word, the words after that, and whether it began with a "!".      *)
(***************************************************************************)
EXTENDS NMEAFields

\* The longest sentence has 18 words; reading goes no further.
MaxWords == 24

\* An empty word is none if it is the last one: NMEALine has nothing left then.
Word(words, i) ==
  IF i > Len(words) \/ (i = Len(words) /\ words[i] = Empty) THEN Missing ELSE words[i]

AllWords(words) == [i \in 1..MaxWords |-> Word(words, i)]

ConstantWord(word, letter) == AcceptedIf(word = Letter(letter), letter)

Accepted(fields) == \A field \in DOMAIN fields : fields[field] # Rejected

-----------------------------------------------------------------------------
(* The fields of each sentence.  w[i] is the i-th word after the tag. *)

DBK(w) ==
  [depthFeet |-> TenthsUInt16(w[1], TRUE), f |-> ConstantWord(w[2], "f"),
   depthMeters |-> TenthsUInt16(w[3], TRUE), m |-> ConstantWord(w[4], "M"),
   depthFathoms |-> TenthsUInt16(w[5], TRUE), ftm |-> ConstantWord(w[6], "F")]

\* The classes of the other two depths read the same words.
DBS(w) == DBK(w)
DBT(w) == DBK(w)

GGA(w) ==
  [time |-> Time(w[1]),
   latitude |-> Latitude(w[2], w[3]),
   longitude |-> Longitude(w[4], w[5]),
   gpsQuality |-> GPSQuality(w[6]),
   numberSatellites |-> UInt16(w[7], FALSE, 12),
   horizontalDilutionOfPrecision |-> HundredthsUInt16(w[8]),
   antennaAltitude |-> TenthsInt16(w[9], FALSE), m |-> ConstantWord(w[10], "M"),
   geoidalSeparation |-> TenthsInt16(w[11], FALSE), m2 |-> ConstantWord(w[12], "M"),
   gpsDataAge |-> TenthsUInt16(w[13], TRUE),
   differentialReferenceStation |-> UInt16(w[14], TRUE, 1023)]

GLL(w) ==
  [latitude |-> Latitude(w[1], w[2]),
   longitude |-> Longitude(w[3], w[4]),
   time |-> Time(w[5]),
   dataValid |-> DataValid(w[6]),
   faaModeIndicator |-> FAAModeIndicator(w[7])]

IsPresent(word) == word \notin Absent
Present(words) == SelectSeq(words, IsPresent)

\* The IDs of up to twelve satellites, in the words from the third on.
SatelliteIDs(w) ==
  LET words == [i \in 1..12 |-> w[i + 2]]
  IN AcceptedIf(\A i \in 1..12 : UInt16(words[i], TRUE, 65535) # Rejected,
                [k \in DOMAIN Present(words) |-> Present(words)[k].whole])

GSA(w) ==
  [automaticMode |-> AcceptedIf(w[1] \in {Letter("A"), Letter("M")}, w[1] = Letter("A")),
   gpsFixMode |-> GPSFixMode(w[2]),
   satelliteIDs |-> SatelliteIDs(w),
   pdop |-> HundredthsUInt8(w[15]),
   hdop |-> HundredthsUInt8(w[16]),
   vdop |-> HundredthsUInt8(w[17])]

GST(w) ==
  [time |-> Time(w[1]),
   standardDeviationOfRangeInputsRMS |-> TenthsUInt16(w[2], FALSE),
   standardDeviationOfSemiMajorAxis |-> TenthsUInt16(w[3], TRUE),
   standardDeviationOfSemiMinorAxis |-> TenthsUInt16(w[4], TRUE),
   orientationOfSemiMajorAxis |-> TenthsUInt16(w[5], TRUE),
   standardDeviationOfLatitudeError |-> TenthsUInt16(w[6], FALSE),
   standardDeviationOfLongitudeError |-> TenthsUInt16(w[7], FALSE),
   standardDeviationOfAltitudeError |-> TenthsUInt16(w[8], FALSE)]

\* NMEAGSVSatelitteInfo: four words from the i-th on.
Satellite(w, i) ==
  [id |-> UInt16(w[i], FALSE, 65535),
   elevation |-> Int8(w[i + 1], FALSE, -90, 90),
   azimuth |-> TenthsUInt16(w[i + 2], FALSE),
   signalToNoiseRatio |-> UInt8(w[i + 3], TRUE, 99)]

\* Satellites are read until the line ends, four at most.
GSV(w) ==
  [sentencesInGroup |-> UInt8(w[1], FALSE, 9),
   sentenceNumber |-> UInt8(w[2], FALSE, 9),
   numberSatellites |-> UInt8(w[3], FALSE, 255),
   satelittes |-> AcceptedIf(\A i \in {4, 8, 12, 16} :
                               w[i] = Missing \/ Accepted(Satellite(w, i)),
                             {i \in {4, 8, 12, 16} : w[i] # Missing})]

RMC(w) ==
  [time |-> Time(w[1]),
   dataValid |-> DataValid(w[2]),
   latitude |-> Latitude(w[3], w[4]),
   longitude |-> Longitude(w[5], w[6]),
   speedOverGround |-> TenthsUInt16(w[7], FALSE),
   trackMadeGood |-> TenthsUInt16(w[8], TRUE),
   date |-> Date(w[9]),
   magneticVariation |-> MagneticVariation(w[10], w[11]),
   faaModeIndicator |-> FAAModeIndicator(w[12])]

\* getTwoDigitField takes any number of eight bits.
TXT(w) ==
  [totalSentences |-> UInt8(w[1], FALSE, 255),
   sentenceNumber |-> UInt8(w[2], FALSE, 255),
   textIdentifier |-> UInt8(w[3], FALSE, 255),
   text |-> AcceptedIf(w[4] # Missing, w[4])]

VDMVDO(w) ==
  [totalFragments |-> UInt8(w[1], FALSE, 255),
   fragmentNumber |-> UInt8(w[2], FALSE, 255),
   messageId |-> UInt16(w[3], TRUE, 65535),
   radioChannelCode |-> RadioChannelCode(w[4])]

\* Slip: the form without letters is always expected.
NeverIsT(w) == FALSE

\* Of the two forms of VTG, the new one has a letter after each number.
wordIsT(w) == w[2] = Letter("T")

VTG(w) ==
  LET next == IF wordIsT(w) THEN 2 ELSE 1    \* words from a number to the next
      numbers == [i \in 1..4 |-> w[(i - 1) * next + 1]]
      letters == IF wordIsT(w) THEN <<w[4], w[6], w[8]>>
                 ELSE <<Letter("M"), Letter("N"), Letter("K")>>
  IN [trackMadeGoodTrue |-> TenthsUInt16(numbers[1], TRUE),
      trackMadeGoodMagnetic |-> IF numbers[2] = Missing THEN Rejected
                                ELSE TenthsUInt16(numbers[2], TRUE),
      m |-> ConstantWord(letters[1], "M"),
      speedOverGround |-> TenthsUInt16(numbers[3], FALSE),
      n |-> ConstantWord(letters[2], "N"),
      speedOverGroundKmPerH |-> TenthsUInt16(numbers[4], FALSE),
      k |-> ConstantWord(letters[3], "K"),
      faaModeIndicator |-> FAAModeIndicator(w[4 * next + 1])]

-----------------------------------------------------------------------------
(* parseNMEAMessage *)

\* A tag is five letters, two for the talker and three for one of these.
MessageTypes ==
  {"DBK", "DBS", "DBT", "GGA", "GLL", "GSA", "GST", "GSV", "RMC", "TXT", "VDM", "VDO", "VTG"}

FieldsOf(type, w) ==
  CASE type = "DBK" -> DBK(w)
    [] type = "DBS" -> DBS(w)
    [] type = "DBT" -> DBT(w)
    [] type = "GGA" -> GGA(w)
    [] type = "GLL" -> GLL(w)
    [] type = "GSA" -> GSA(w)
    [] type = "GST" -> GST(w)
    [] type = "GSV" -> GSV(w)
    [] type = "RMC" -> RMC(w)
    [] type = "TXT" -> TXT(w)
    [] type \in {"VDM", "VDO"} -> VDMVDO(w)
    [] type = "VTG" -> VTG(w)

NoMessage == [type |-> "none"]

\* Only the messages of AIS come, and must come, encapsulated.
IsFramedFor(type, encapsulated) == encapsulated <=> type \in {"VDM", "VDO"}

parseNMEAMessage(line) ==
  IF line.type \notin MessageTypes \/ ~IsFramedFor(line.type, line.encapsulated)
  THEN NoMessage
  ELSE LET fields == FieldsOf(line.type, AllWords(line.words))
       IN IF Accepted(fields) THEN [type |-> line.type, fields |-> fields] ELSE NoMessage

=============================================================================
