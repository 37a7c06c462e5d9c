------------------------------ MODULE NMEABook ------------------------------
(***************************************************************************)
(* What NMEA 0183 says of the sentences that LunaMon reads, to compare     *)
(* with: which word of a sentence is what, which topic shows it, what a    *)
(* word may be, and what a subscriber of the topic may then be shown.      *)
(***************************************************************************)
EXTENDS NMEAMessages, DataModelLeaves

\* The words from position `at' on are a `what', shown by a leaf.
Entry(at, what, leaf) == [at |-> at, what |-> what, leaf |-> leaf]
Silent(at, what) == Entry(at, what, "none")

DepthEntries(feet, meters, fathoms) ==
  {Entry(1, "tenths?", feet), Silent(2, "f"), Entry(3, "tenths?", meters), Silent(4, "M"),
   Entry(5, "tenths?", fathoms), Silent(6, "F")}

Book(type, words) ==
  CASE type = "DBK" ->
         DepthEntries("depthBelowKeelFeet", "depthBelowKeelMeters", "depthBelowKeelFathoms")
    [] type = "DBS" ->
         DepthEntries("depthBelowSurfaceFeet", "depthBelowSurfaceMeters",
                      "depthBelowSurfaceFathoms")
    [] type = "DBT" ->
         DepthEntries("depthBelowTransducerFeet", "depthBelowTransducerMeters",
                      "depthBelowTransducerFathoms")
    [] type = "GGA" ->
         {Entry(1, "time", "gpsTime"), Entry(2, "latitude", "gpsLatitude"),
          Entry(4, "longitude", "gpsLongitude"), Entry(6, "quality", "gpsGPSQuality"),
          Entry(7, "satellites", "gpsNumberSatellites"),
          Entry(8, "hundredths", "gpsHorizontalDilutionOfPrecision"),
          Entry(9, "signedTenths", "gpsAltitude"), Silent(10, "M"),
          Entry(11, "signedTenths", "gpsGeoidalSeparation"), Silent(12, "M"),
          Entry(13, "tenths?", "gpsDataAge"),
          Entry(14, "station?", "gpsDifferentialReferenceStation")}
    [] type = "GLL" ->
         {Entry(1, "latitude", "gpsLatitude"), Entry(3, "longitude", "gpsLongitude"),
          Entry(5, "time", "gpsTime"), Entry(6, "valid", "gpsDataValid"),
          Entry(7, "mode?", "gpsFAAModeindicator")}
    [] type = "GSA" ->
         {Entry(1, "selection", "gpsSatelliteSelectionMode"), Entry(2, "fix", "gpsFixMode"),
          Entry(3, "IDs", "gpsActiveSatellites"), Entry(15, "shortHundredths", "gpsPDOP"),
          Entry(16, "shortHundredths", "gpsHDOP"), Entry(17, "shortHundredths", "gpsVDOP")}
    [] type = "GST" ->
         {Silent(1, "time"), Entry(2, "tenths", "gpsStandardDeviationOfRangeInputsRMS"),
          Entry(3, "tenths?", "gpsStandardDeviationOfSemiMajorAxis"),
          Entry(4, "tenths?", "gpsStandardDeviationOfSemiMinorAxis"),
          Entry(5, "tenths?", "gpsOrientationOfSemiMajorAxis"),
          Entry(6, "tenths", "gpsStandardDeviationOfLatitudeError"),
          Entry(7, "tenths", "gpsStandardDeviationOfLongitudeError"),
          Entry(8, "tenths", "gpsStandardDeviationOfAltitudeError")}
    [] type = "GSV" ->
         {Silent(1, "digit"), Silent(2, "digit"), Silent(3, "byte")}
         \cup {Silent(at, "satellite?") : at \in {4, 8, 12, 16}}
    [] type = "RMC" ->
         {Entry(1, "time", "gpsTime"), Entry(2, "valid", "gpsDataValid"),
          Entry(3, "latitude", "gpsLatitude"), Entry(5, "longitude", "gpsLongitude"),
          Entry(7, "tenths", "gpsSpeedOverGround"), Entry(8, "tenths?", "gpsTrackMadeGoodTrue"),
          Entry(9, "date?", "gpsDate"), Entry(10, "variation?", "gpsMagneticVariation"),
          Entry(12, "mode?", "gpsFAAModeindicator")}
    [] type = "TXT" -> {Silent(1, "byte"), Silent(2, "byte"), Silent(3, "byte"), Silent(4, "text")}
    [] type \in {"VDM", "VDO"} ->
         {Silent(1, "byte"), Silent(2, "byte"), Silent(3, "word?"), Silent(4, "channel")}
    [] type = "VTG" /\ Word(words, 2) = Letter("T") ->
         {Entry(1, "tenths?", "gpsTrackMadeGoodTrue"), Entry(3, "tenths?", "gpsTrackMadeGoodMagnetic"),
          Silent(4, "M"), Entry(5, "tenths", "gpsSpeedOverGround"), Silent(6, "N"),
          Entry(7, "tenths", "gpsSpeedOverGroundKmPerH"), Silent(8, "K"),
          Entry(9, "mode?", "gpsFAAModeindicator")}
    [] type = "VTG" /\ Word(words, 2) # Letter("T") ->
         {Entry(1, "tenths?", "gpsTrackMadeGoodTrue"), Entry(2, "tenths?!", "gpsTrackMadeGoodMagnetic"),
          Entry(3, "tenths", "gpsSpeedOverGround"), Entry(4, "tenths", "gpsSpeedOverGroundKmPerH"),
          Entry(5, "mode?", "gpsFAAModeindicator")}

-----------------------------------------------------------------------------
(* What a word, or the words from it on, may be.  A "?" may be absent. *)

Width(what) ==
  CASE what \in {"latitude", "longitude", "variation?"} -> 2
    [] what = "satellite?" -> 4
    [] what = "IDs" -> 12
    [] OTHER -> 1

\* An empty word at the end of a line is none, as in NMEAMessages.
WordsOf(entry, words) == [k \in 1..Width(entry.what) |-> Word(words, entry.at + k - 1)]

\* There is a sign only where numbers may be negative, not even that of -0 elsewhere.
IsWhole(w, lowest, highest) ==
  IsSigned(w, lowest, highest) /\ w.decimals = <<>> /\ (w.negative => lowest < 0)

IsOneOf(w, letters) == w.kind = "letter" /\ w.letter \in letters

MayBe(what, ws) ==
  LET w == ws[1]
  IN CASE what = "tenths" -> IsUnsigned(w, 65535)
       [] what = "tenths?" -> w \in Absent \/ IsUnsigned(w, 65535)
       [] what = "tenths?!" -> w # Missing /\ (w = Empty \/ IsUnsigned(w, 65535))
       [] what = "signedTenths" -> IsSigned(w, -32768, 32767)
       [] what = "hundredths" -> IsUnsigned(w, 65535)
       [] what = "shortHundredths" -> IsUnsigned(w, 255)
       [] what = "time" -> /\ w.kind = "time" /\ w.hours < 24 /\ w.minutes < 60 /\ w.seconds < 60
                           /\ FitsUInt32(w.fraction)
       [] what = "date?" -> w = Empty \/ (w.kind = "date" /\ w.day < 32 /\ w.month < 13)
       [] what = "latitude" ->
            w.kind = "angle" /\ w.degrees <= 90 /\ w.minutes < 60 /\ IsOneOf(ws[2], {"N", "S"})
       [] what = "longitude" ->
            w.kind = "angle" /\ w.degrees <= 180 /\ w.minutes < 60 /\ IsOneOf(ws[2], {"E", "W"})
       [] what = "variation?" ->
            /\ Missing \notin {w, ws[2]}
            /\ Empty \in {w, ws[2]} \/ (IsUnsigned(w, 255) /\ IsOneOf(ws[2], {"E", "W"}))
       [] what = "quality" -> IsWhole(w, 0, 8)
       [] what = "satellites" -> IsWhole(w, 0, 12)
       [] what = "station?" -> w \in Absent \/ IsWhole(w, 0, 1023)
       [] what = "valid" -> IsOneOf(w, {"A", "V"})
       [] what = "mode?" -> w \in Absent \/ IsOneOf(w, DOMAIN ModeName)
       [] what = "selection" -> IsOneOf(w, {"A", "M"})
       [] what = "fix" -> IsWhole(w, 0, 3)
       [] what = "IDs" -> \A k \in 1..12 : ws[k] \in Absent \/ IsWhole(ws[k], 0, 65535)
       [] what = "satellite?" ->
            \/ w = Missing
            \/ /\ IsWhole(w, 0, 65535) /\ IsWhole(ws[2], -90, 90) /\ IsUnsigned(ws[3], 65535)
               /\ ws[4] \in Absent \/ IsWhole(ws[4], 0, 99)
       [] what = "digit" -> IsWhole(w, 0, 9)
       [] what = "byte" -> IsWhole(w, 0, 255)
       [] what = "word?" -> w \in Absent \/ IsWhole(w, 0, 65535)
       [] what = "channel" -> IsOneOf(w, {"A", "B"}) \/ IsWhole(w, 1, 2)
       [] what = "text" -> w # Missing
       [] OTHER -> w = Letter(what)

\* The line is one of the sentences, and all its words are what they may be.
IsWellFormed(line) ==
  /\ line.type \in MessageTypes
  /\ IsFramedFor(line.type, line.encapsulated)
  /\ \A entry \in Book(line.type, line.words) : MayBe(entry.what, WordsOf(entry, line.words))

\* A sentence may leave out its mode, and the type of a fix may be 0: then it
\* says nothing of them.
Tells(entry, words) ==
  LET w == WordsOf(entry, words)[1]
  IN /\ entry.leaf # "none"
     /\ ~(entry.what = "mode?" /\ w \in Absent)
     /\ ~(entry.what = "fix" /\ w = Number(FALSE, 0, <<>>))

-----------------------------------------------------------------------------
(* What may be shown of it *)

\* The number in thousandths, with the digits where they are.
Thousandths(negative, whole, digits) ==
  LET digit(i) == IF i <= Len(digits) THEN digits[i] ELSE 0
      size == 1000 * whole + 100 * digit(1) + 10 * digit(2) + digit(3)
  IN IF negative THEN -size ELSE size

IsNear(w, text, error) ==
  /\ text.kind = "number"
  /\ Magnitude(Thousandths(w.negative, w.whole, w.decimals)
               - Thousandths(text.negative, text.whole, text.digits)) <= error

\* What is left of a number after its whole part, in thousandths.
Rest(w) == Thousandths(FALSE, 0, w.decimals)

\* From .95 on tenths are rounded to the 10 that is shown after the period, or
\* the 1 of it after five digits, and a number between -1 and 0 is shown without
\* its sign.
IsShownInTenths(w, text) ==
  \/ IsNear(w, text, 50)
  \/ Rest(w) >= 950 /\ text = Decimal(w.negative /\ w.whole > 0, w.whole, <<1, 0>>)
  \/ Rest(w) >= 950 /\ w.whole > 9999 /\ text = Decimal(w.negative, w.whole, <<1>>)
  \/ w.negative /\ w.whole = 0 /\ IsNear([w EXCEPT !.negative = FALSE], text, 50)

\* From .995 on hundredths are rounded to 100, or the 10 of it where there is no
\* room for more, and below .095 none are shown.
IsShownInHundredths(w, text) ==
  \/ Rest(w) \in 95..994 /\ IsNear(w, text, 5)
  \/ Rest(w) >= 995 /\ text = Decimal(FALSE, w.whole, <<1, 0, 0>>)
  \/ Rest(w) >= 995 /\ w.whole > 99 /\ text = Decimal(FALSE, w.whole, <<1, 0>>)
  \/ Rest(w) < 95 /\ text = Decimal(FALSE, w.whole, <<>>)

\* Ten thousandths of a minute are shown, hundred thousandths are read.
IsShownAsAngle(ws, text) ==
  LET w == ws[1]
      digit(i) == IF i <= Len(w.fraction) THEN w.fraction[i] ELSE 0
      minutes == 100000 * w.minutes + 10000 * digit(1) + 1000 * digit(2) + 100 * digit(3)
                 + 10 * digit(4) + digit(5)
  IN /\ text.kind = "name"
     /\ text.name.degrees = w.degrees /\ text.name.side = ws[2].letter
     /\ Magnitude(10 * text.name.minutes - minutes) <= 5

\* What the topic of an entry may show after a line had these words there.
MayShow(what, ws, text) ==
  LET w == ws[1]
  IN CASE what = "variation?" /\ Empty \in {w, ws[2]} -> text \in {NothingYet, Blank}
       [] what = "variation?" /\ Empty \notin {w, ws[2]} ->
            IsShownInTenths([w EXCEPT !.negative = (ws[2] = Letter("E"))], text)
       [] what = "IDs" ->
            text = Name([k \in DOMAIN Present(ws) |-> Present(ws)[k].whole])
       [] what \notin {"variation?", "IDs"} /\ w \in Absent -> text \in {NothingYet, Blank}
       [] what \in {"tenths", "tenths?", "tenths?!", "signedTenths"} /\ w \notin Absent ->
            IsShownInTenths(w, text)
       [] what \in {"hundredths", "shortHundredths"} -> IsShownInHundredths(w, text)
       [] what = "time" -> text = Name([w EXCEPT !.fraction = FirstDigits(@, 6)])
       [] what = "date?" /\ w # Empty ->
            text = Name([month |-> w.month, day |-> w.day, year |-> 2000 + w.year])
       [] what \in {"latitude", "longitude"} -> IsShownAsAngle(ws, text)
       [] what = "quality" -> text = Name(QualityName[w.whole + 1])
       [] what \in {"satellites", "station?"} /\ w \notin Absent ->
            SameModulo256(text, Decimal(FALSE, w.whole, <<>>))
       [] what = "valid" -> text = Decimal(FALSE, IF w = Letter("A") THEN 1 ELSE 0, <<>>)
       [] what = "mode?" /\ w \notin Absent -> text = Name(ModeName[w.letter])
       [] what = "selection" ->
            text = Name(IF w = Letter("A") THEN "Automatic" ELSE "Manual")
       [] what = "fix" -> text = Name(<<"None", "2D", "3D">>[w.whole])

=============================================================================
