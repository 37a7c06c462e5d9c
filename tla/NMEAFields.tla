----------------------------- MODULE NMEAFields -----------------------------
(***************************************************************************)
(* The fields of NMEA sentences (the classes NMEAxxx of src/NMEA that read *)
(* a word of a line).  A field reads a word and either rejects it, or sets *)
(* the leaf it is published to, or takes that leaf's value away, or leaves *)
(* the leaf as it is.                                                      *)
(*                                                                         *)
(* A word is one of the records below; a word of another kind than that of *)
(* the field is text the field does not accept.  Reading digits, etl's     *)
(* to_arithmetic, gives the number they denote and fails for a sign an     *)
(* unsigned number has no room for and for a number that is too wide.      *)
(***************************************************************************)
EXTENDS Integers, Sequences

\* What NMEALine::getWord can give a field.
Missing == [kind |-> "missing"]                \* the line has ended
Empty == [kind |-> "empty"]                    \* nothing between two commas
Garbled == [kind |-> "garbled"]                \* text that no field accepts
Letter(c) == [kind |-> "letter", letter |-> c]
Number(negative, whole, decimals) ==           \* a period only before decimals
  [kind |-> "number", negative |-> negative, whole |-> whole, decimals |-> decimals]
TimeOfDay(h, m, s, fraction) ==
  [kind |-> "time", hours |-> h, minutes |-> m, seconds |-> s, fraction |-> fraction]
DayMonthYear(d, m, y) == [kind |-> "date", day |-> d, month |-> m, year |-> y]
Angle(d, m, fraction) ==
  [kind |-> "angle", degrees |-> d, minutes |-> m, fraction |-> fraction]

Absent == {Missing, Empty}

\* As a number the digits are no more than 4294967295, that is 42949 and 67295:
\* those in front of the last ten are zeros.
FitsUInt32(digits) ==
  LET digit(i) == IF i <= Len(digits) THEN digits[Len(digits) + 1 - i] ELSE 0
      five(i) == 10000 * digit(i + 4) + 1000 * digit(i + 3) + 100 * digit(i + 2)
                 + 10 * digit(i + 1) + digit(i)
  IN /\ \A i \in 11..Len(digits) : digit(i) = 0
     /\ five(6) < 42949 \/ (five(6) = 42949 /\ five(1) <= 67295)

\* A fraction of a second with so many zeros in front that it fits, though it
\* has more than ten digits, is written past the end of secondFractionStr: what
\* becomes of that is not modelled.
Fractions == {digits \in Seq(0..9) : Len(digits) > 10 => ~FitsUInt32(digits)}

\* What a line is made of.
Words ==
  {Empty, Garbled}
  \cup [kind : {"letter"}, letter : STRING]
  \cup [kind : {"number"}, negative : BOOLEAN, whole : Nat, decimals : Seq(0..9)]
  \cup [kind : {"time"}, hours : Nat, minutes : Nat, seconds : Nat, fraction : Fractions]
  \cup [kind : {"date"}, day : Nat, month : Nat, year : Nat]
  \cup [kind : {"angle"}, degrees : Nat, minutes : Nat, fraction : Seq(0..9)]

\* What a field makes of a word, and publish of the leaf.
Rejected == [outcome |-> "rejected"]
Removes == [outcome |-> "removes"]
Keeps == [outcome |-> "keeps"]
Sets(value) == [outcome |-> "sets", value |-> value]

AcceptedIf(condition, value) == IF condition THEN Sets(value) ELSE Rejected

NothingIfOptional(optional) == IF optional THEN Removes ELSE Rejected

-----------------------------------------------------------------------------
(* Numbers *)

\* A whole number in a range; to_arithmetic of the part before the period.
IsUnsigned(word, highest) ==
  word.kind = "number" /\ ~word.negative /\ word.whole <= highest

SignedWhole(word) == IF word.negative THEN -word.whole ELSE word.whole

IsSigned(word, lowest, highest) ==
  word.kind = "number" /\ lowest <= SignedWhole(word) /\ SignedWhole(word) <= highest

\* Slip: two decimals are cut to one.
TenthsCut(decimals) == IF decimals = <<>> THEN 0 ELSE decimals[1]

\* Two decimals at most are looked at, and rounded; from .95 on that makes 10.
Tenths(decimals) ==
  CASE Len(decimals) = 0 -> 0
    [] Len(decimals) = 1 -> decimals[1]
    [] OTHER -> (10 * decimals[1] + decimals[2] + 5) \div 10

\* Three decimals at most; from .995 on that makes 100.
Hundredths(decimals) ==
  CASE Len(decimals) = 0 -> 0
    [] Len(decimals) = 1 -> 10 * decimals[1]
    [] Len(decimals) = 2 -> 10 * decimals[1] + decimals[2]
    [] OTHER -> (100 * decimals[1] + 10 * decimals[2] + decimals[3] + 5) \div 10

TenthsUInt16(word, optional) ==
  IF word \in Absent THEN NothingIfOptional(optional)
  ELSE AcceptedIf(IsUnsigned(word, 65535),
                  [whole |-> word.whole, tenths |-> Tenths(word.decimals)])

\* The whole part has the sign: that of -0 is lost.
TenthsInt16(word, optional) ==
  IF word \in Absent THEN NothingIfOptional(optional)
  ELSE AcceptedIf(IsSigned(word, -32768, 32767),
                  [whole |-> SignedWhole(word), tenths |-> Tenths(word.decimals)])

HundredthsUInt8(word) ==
  AcceptedIf(IsUnsigned(word, 255),
             [whole |-> word.whole, hundredths |-> Hundredths(word.decimals)])

HundredthsUInt16(word) ==
  AcceptedIf(IsUnsigned(word, 65535),
             [whole |-> word.whole, hundredths |-> Hundredths(word.decimals)])

NoDecimals(word) == word.kind = "number" => word.decimals = <<>>

UInt8(word, optional, highest) ==
  IF word \in Absent THEN NothingIfOptional(optional)
  ELSE AcceptedIf(NoDecimals(word) /\ IsUnsigned(word, highest), word.whole)

UInt16(word, optional, highest) ==
  IF word \in Absent THEN NothingIfOptional(optional)
  ELSE AcceptedIf(NoDecimals(word) /\ IsUnsigned(word, highest), word.whole)

Int8(word, optional, lowest, highest) ==
  IF word \in Absent THEN NothingIfOptional(optional)
  ELSE AcceptedIf(NoDecimals(word) /\ IsSigned(word, lowest, highest), SignedWhole(word))

\* West is positive.  Both words must be there, but either may be empty.
MagneticVariation(word, side) ==
  CASE word = Missing \/ side = Missing -> Rejected
    [] word # Missing /\ side # Missing /\ Empty \in {word, side} -> Removes
    [] OTHER ->
         AcceptedIf(IsUnsigned(word, 255) /\ side \in {Letter("W"), Letter("E")},
                    [whole |-> IF side = Letter("W") THEN word.whole ELSE -word.whole,
                     tenths |-> Tenths(word.decimals)])

-----------------------------------------------------------------------------
(* Letters and digits that stand for something *)

ModeName ==
  [A |-> "Autonomous", C |-> "Caution", D |-> "Differential", E |-> "Estimated",
   F |-> "RTK Float", M |-> "Manual", N |-> "Data Not Valid", P |-> "Precise",
   R |-> "RTK Integer", S |-> "Simulated", U |-> "Unsafe"]

\* A sentence without a mode leaves the one before on show.
FAAModeIndicator(word) ==
  CASE word \in Absent -> Keeps
    [] word.kind = "letter" -> IF word.letter \in DOMAIN ModeName
                               THEN Sets(ModeName[word.letter]) ELSE Rejected
    [] OTHER -> Rejected

IsDigit(word, highest) == NoDecimals(word) /\ IsUnsigned(word, highest) /\ highest < 10

QualityName ==
  <<"Fix Not Available", "GPS Fix", "Differential GPS Fix", "PPS Fix", "Real Time Kinematic",
    "Float RTK", "Estimated", "Manual Input Mode", "Simulated Mode">>

GPSQuality(word) == AcceptedIf(IsDigit(word, 8), QualityName[word.whole + 1])

\* 0 is accepted, and then nothing is published.
GPSFixMode(word) ==
  IF ~IsDigit(word, 3) THEN Rejected
  ELSE IF word.whole = 0 THEN Keeps ELSE Sets(<<"None", "2D", "3D">>[word.whole])

DataValid(word) ==
  AcceptedIf(word \in {Letter("A"), Letter("V")}, word = Letter("A"))

RadioChannelCode(word) ==
  CASE word = Letter("A") \/ word = Number(FALSE, 1, <<>>) -> Sets("87B")
    [] word = Letter("B") \/ word = Number(FALSE, 2, <<>>) -> Sets("88B")
    [] OTHER -> Rejected

-----------------------------------------------------------------------------
(* Time, date and position *)

\* The fraction is read as a number and written with the zeros before it again.
Time(word) ==
  AcceptedIf(/\ word.kind = "time"
             /\ word.hours <= 23 /\ word.minutes <= 59 /\ word.seconds <= 59
             /\ FitsUInt32(word.fraction),
             word)

century == 2000

Date(word) ==
  CASE word = Missing -> Rejected
    [] word = Empty -> Removes
    [] OTHER ->
         AcceptedIf(word.kind = "date" /\ word.day <= 31 /\ word.month <= 12,
                    [month |-> word.month, day |-> word.day, year |-> word.year + century])

\* Minutes and their fraction are a float, shown in ten thousandths of a minute.
TenThousandths(angle) ==
  LET digit(i) == IF i <= Len(angle.fraction) THEN angle.fraction[i] ELSE 0
      carry == IF digit(5) >= 5 THEN 1 ELSE 0
  IN 10000 * angle.minutes + 1000 * digit(1) + 100 * digit(2) + 10 * digit(3) + digit(4) + carry

IsCoordinate(word, highest) ==
  word.kind = "angle" /\ word.degrees <= highest /\ word.minutes <= 59

Coordinate(word, side) ==
  [degrees |-> word.degrees, minutes |-> TenThousandths(word), side |-> side.letter]

Latitude(word, side) ==
  AcceptedIf(IsCoordinate(word, 90) /\ side \in {Letter("N"), Letter("S")},
             Coordinate(word, side))

Longitude(word, side) ==
  AcceptedIf(IsCoordinate(word, 180) /\ side \in {Letter("E"), Letter("W")},
             Coordinate(word, side))

=============================================================================
