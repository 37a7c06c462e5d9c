----------------------------- MODULE Logger_proofs -----------------------------
(***************************************************************************)
(* Proofs about the logger, for any number of entries of any length and    *)
(* any lines.                                                              *)
(***************************************************************************)
EXTENDS Logger, SequenceTheorems, TLAPS

\* The characters of texts.
Character == STRING \cup {"0", "x"} \cup {HexDigits[k] : k \in 1..16}

Text == Seq(Character)

Line == [selector : Selectors, base : {Dec, Hex}, text : Text, items : Nat]

Typed ==
  /\ console \in Text
  /\ errorLine \in Text
  /\ errorsSetInDataModel \in Nat
  /\ sysLogEntries \in [1..logEntrySlots -> Text \cup {NoEntry}]
  /\ stage \in {"out", "scroll", "set", "added"}
  /\ scrolled \in Nat
  /\ line \in Line \cup {NoLine}
  /\ recorded \in Seq(Text)

\* The logger's state is that of the line being logged.
Speaking ==
  /\ base = IF line = NoLine THEN Dec ELSE line.base
  /\ line # NoLine => /\ lineLevel = line.selector.level
                      /\ outputCurrentLine = Outputs(line.selector)

\* What an entry has room for.
Cut(text) == FirstOf(text, maxLogEntryLength - 1)

\* A line that will be recorded.
Recordable == /\ line # NoLine
              /\ Outputs(line.selector)
              /\ line.selector.level >= LOGGER_LEVEL_WARNING

\* Outside the logger errorLine is kept for the line being logged; inside it is
\* the last line recorded until that has its entry.
KeptLine ==
  /\ ~inLogger => errorLine = IF Recordable THEN Cut(line.text) ELSE <<>>
  /\ stage \in {"scroll", "set"} => errorLine = recorded[Len(recorded)]

\* Where the lines recorded are in each stage of addErrorLineToDebugs.
Placement ==
  /\ Len(recorded) <= logEntrySlots
  /\ ~inLogger => errorsSetInDataModel = Len(recorded)
  /\ stage \in {"out", "added"} => sysLogEntries = Shown(recorded)
  /\ stage = "scroll" =>
       /\ errorsSetInDataModel = logEntrySlots /\ Len(recorded) = logEntrySlots
       /\ scrolled < logEntrySlots - 1
       /\ \A i \in 1..scrolled : sysLogEntries[i] = recorded[i]
       /\ \A i \in 1..logEntrySlots :
            i > scrolled /\ i >= 2 => sysLogEntries[i] = recorded[i - 1]
  /\ stage \in {"set", "added"} =>
       errorsSetInDataModel = Len(recorded) - 1
  /\ stage = "set" =>
       /\ \A i \in 1..(Len(recorded) - 1) : sysLogEntries[i] = recorded[i]
       /\ \A i \in 1..logEntrySlots : i > Len(recorded) => sysLogEntries[i] = NoEntry

Inv == Typed /\ Speaking /\ ConsoleLinesWhole /\ KeptLine /\ Placement

-----------------------------------------------------------------------------
(* Texts *)

\* The first characters of a text are a text, and no longer than it.
LEMMA FirstOfText ==
  ASSUME NEW text \in Text, NEW n \in Nat
  PROVE  /\ FirstOf(text, n) \in Text
         /\ Len(FirstOf(text, n)) = IF n < Len(text) THEN n ELSE Len(text)
         /\ \A i \in 1..Len(FirstOf(text, n)) : FirstOf(text, n)[i] = text[i]
<1> DEFINE k == IF n < Len(text) THEN n ELSE Len(text)
<1>1. Len(text) \in Nat
  BY LenProperties DEF Text
<1>2. k \in Nat /\ k <= Len(text)
  BY <1>1
<1>3. /\ SubSeq(text, 1, k) \in Seq(Character)
      /\ Len(SubSeq(text, 1, k)) = IF 1 <= k THEN k - 1 + 1 ELSE 0
      /\ \A i \in 1..(k - 1 + 1) : SubSeq(text, 1, k)[i] = text[1 + i - 1]
  BY <1>1, <1>2, SubSeqProperties DEF Text
<1> QED BY <1>1, <1>2, <1>3 DEF FirstOf, Text

\* A text that is short enough is all of its first characters.
LEMMA FirstOfShort ==
  ASSUME NEW text \in Text, NEW n \in Nat, Len(text) <= n
  PROVE  FirstOf(text, n) = text
<1>1. Len(text) \in Nat
  BY LenProperties DEF Text
<1>2. \A i \in 1..Len(text) : FirstOf(text, n)[i] = text[i]
  BY <1>1, FirstOfText
<1>3. Len(FirstOf(text, n)) = Len(text)
  BY <1>1, FirstOfText
<1> QED BY <1>2, <1>3, FirstOfText, SeqEqual DEF Text

\* A text that is long enough has that many first characters.
LEMMA FirstOfLong ==
  ASSUME NEW text \in Text, NEW n \in Nat, Len(text) >= n
  PROVE  Len(FirstOf(text, n)) = n
<1>1. Len(text) \in Nat
  BY LenProperties DEF Text
<1> QED BY <1>1, FirstOfText

\* Cutting a text before more is added to it changes nothing of its first
\* characters.
LEMMA CutAppend ==
  ASSUME NEW text \in Text, NEW more \in Text, NEW n \in Nat
  PROVE  FirstOf(FirstOf(text, n) \o more, n) = FirstOf(text \o more, n)
<1> DEFINE cut == FirstOf(text, n)
           left == FirstOf(cut \o more, n)
           right == FirstOf(text \o more, n)
<1>1. cut \in Text /\ cut \o more \in Text /\ text \o more \in Text
  BY FirstOfText, ConcatProperties DEF Text
<1>2. left \in Text /\ right \in Text
  BY <1>1, FirstOfText
<1>3. Len(text) \in Nat /\ Len(more) \in Nat
  BY LenProperties DEF Text
<1>4. /\ Len(text \o more) = Len(text) + Len(more)
      /\ Len(cut \o more) = Len(cut) + Len(more)
  BY <1>1, ConcatProperties DEF Text
<1>5. CASE Len(text) <= n
  <2>1. cut = text
    BY <1>5, FirstOfShort
  <2> QED BY <2>1
<1>6. CASE Len(text) > n
  <2>1. Len(cut) = n
    BY <1>3, <1>6, FirstOfText
  <2>2. Len(left) = n /\ Len(right) = n
    <3>1. Len(cut \o more) >= n /\ Len(text \o more) >= n
      BY <1>3, <1>4, <1>6, <2>1
    <3> HIDE DEF cut
    <3> QED BY <1>1, <3>1, FirstOfLong
  <2>3. ASSUME NEW i \in 1..n PROVE left[i] = right[i]
    <3>1. left[i] = (cut \o more)[i] /\ right[i] = (text \o more)[i]
      BY <1>1, <2>2, FirstOfText
    <3>2. (cut \o more)[i] = cut[i]
      BY <1>1, <1>3, <1>4, <2>1, ConcatProperties DEF Text
    <3>3. (text \o more)[i] = text[i]
      BY <1>3, <1>4, <1>6, ConcatProperties DEF Text
    <3>4. cut[i] = text[i]
      BY <2>1, FirstOfText
    <3> QED BY <3>1, <3>2, <3>3, <3>4
  <2> QED BY <1>2, <2>2, <2>3, SeqEqual DEF Text
<1> QED BY <1>3, <1>5, <1>6

\* Numbers are logged as texts.
LEMMA NumberTextTyped ==
  ASSUME NEW n \in 0..255, NEW b \in {Dec, Hex}
  PROVE  NumberText(n, b) \in Text
<1>1. \A k \in 1..16 : HexDigits[k] \in Character
  BY DEF Character
<1> DEFINE Digit(place) == HexDigits[((n \div place) % b) + 1]
<1>2. Digit(1) \in Character /\ Digit(b) \in Character /\ Digit(b * b) \in Character
  <2>1. CASE b = 10
    BY <1>1, <2>1
  <2>2. CASE b = 16
    BY <1>1, <2>2
  <2> QED BY <2>1, <2>2 DEF Dec, Hex
<1> HIDE DEF Digit
<1>3. /\ <<Digit(1)>> \in Text
      /\ <<Digit(b), Digit(1)>> \in Text
      /\ <<Digit(b * b), Digit(b), Digit(1)>> \in Text
  BY <1>2 DEF Text
<1>4. Digits(n, b) \in Text
  <2>1. \/ Digits(n, b) = <<Digit(1)>>
        \/ Digits(n, b) = <<Digit(b), Digit(1)>>
        \/ Digits(n, b) = <<Digit(b * b), Digit(b), Digit(1)>>
    BY DEF Digits, Digit, Dec, Hex
  <2> QED BY <1>3, <2>1
<1>5. <<"0", "x">> \in Text /\ <<>> \in Text
  BY DEF Text, Character
<1> QED BY <1>4, <1>5, ConcatProperties DEF NumberText, Text

-----------------------------------------------------------------------------
(* Each step keeps the invariant *)

LEMMA InvInit == Init => Inv
<1> SUFFICES ASSUME Init PROVE Inv
  OBVIOUS
<1>1. <<>> \in Text /\ <<>> \in Seq(Text) /\ Len(<<>>) = 0
  BY DEF Text
<1>2. Typed
  BY <1>1, SlotsAssumption DEF Init, Typed
<1>3. Speaking /\ ConsoleLinesWhole
  BY DEF Init, Speaking, ConsoleLinesWhole
<1>4. KeptLine
  BY DEF Init, KeptLine, Recordable, inLogger
<1>5. Placement
  BY <1>1, SlotsAssumption DEF Init, Placement, Shown, inLogger
<1> QED BY <1>2, <1>3, <1>4, <1>5 DEF Inv

\* No line of the program is the absence of one.
LEMMA LineIsSome == NoLine \notin Line
BY DEF NoLine, Line

\* What is not about entries leaves them where they are.
LEMMA PlacementStays ==
  ASSUME Placement, UNCHANGED entryVars
  PROVE  Placement'
BY DEF Placement, entryVars, Shown, inLogger

LEMMA BeginLineInv ==
  ASSUME Inv, NEW selector \in Selectors, BeginLine(selector)
  PROVE  Inv'
<1>0. <<>> \in Text /\ Len(<<>>) = 0
  BY DEF Text
<1>1. line' \in Line /\ line' # NoLine
  BY <1>0, LineIsSome DEF BeginLine, Line
<1>2. Typed'
  BY <1>1 DEF Inv, Typed, BeginLine, entryVars
<1>3. Speaking'
  BY <1>1 DEF Inv, Speaking, BeginLine, Outputs
<1>4. ConsoleLinesWhole'
  BY <1>1 DEF Inv, ConsoleLinesWhole, BeginLine
<1>5. KeptLine'
  <2>1. Cut(<<>>) = <<>>
    BY <1>0, FirstOfShort, EntryLengthAssumption DEF Cut
  <2>2. errorLine' = errorLine /\ stage' = stage /\ recorded' = recorded
    BY DEF BeginLine, entryVars
  <2>3. ~inLogger => errorLine = <<>>
    BY DEF Inv, KeptLine, BeginLine, Recordable
  <2>4. line'.text = <<>>
    BY DEF BeginLine
  <2> QED BY <2>1, <2>2, <2>3, <2>4 DEF Inv, KeptLine, Recordable, inLogger
<1>6. Placement'
  BY PlacementStays DEF Inv, BeginLine
<1> QED BY <1>2, <1>3, <1>4, <1>5, <1>6 DEF Inv

\* A line goes on with a text, and remains one.
LEMMA ContinuedLine ==
  ASSUME Inv, NEW text \in Text, NEW b \in {Dec, Hex}, Continues(text, b)
  PROVE  /\ line \in Line /\ line' \in Line /\ line # NoLine /\ line' # NoLine
         /\ line'.selector = line.selector /\ line'.base = b
         /\ line'.text = line.text \o text
<1>1. line \in Line /\ line # NoLine
  BY DEF Inv, Typed, Continues
<1>2. line.text \o text \in Text
  BY <1>1, ConcatProperties DEF Line, Text
<1> DEFINE more == line.text \o text
<1>3. line' = [line EXCEPT !.text = more, !.base = b, !.items = @ + 1]
  BY DEF Continues
<1>4. more \in Text
  BY <1>2
<1> HIDE DEF more
<1>5. line' = [selector |-> line.selector, base |-> b, text |-> more,
               items |-> line.items + 1]
  BY <1>1, <1>3 DEF Line
<1>6. line.selector \in Selectors /\ line.items + 1 \in Nat
  BY <1>1 DEF Line
<1>7. /\ line'.selector = line.selector /\ line'.base = b /\ line'.text = more
      /\ line' \in Line
  BY <1>4, <1>5, <1>6 DEF Line
<1> QED BY <1>1, <1>7, LineIsSome DEF more

LEMMA SelectBaseInv ==
  ASSUME Inv, NEW b \in {Dec, Hex}, SelectBase(b)
  PROVE  Inv'
<1>0. <<>> \in Text /\ Continues(<<>>, b)
  BY DEF Text, SelectBase
<1>1. /\ line \in Line /\ line' \in Line /\ line # NoLine /\ line' # NoLine
      /\ line'.selector = line.selector /\ line'.base = b
      /\ line'.text = line.text \o <<>>
  BY <1>0, ContinuedLine
<1>2. line'.text = line.text
  BY <1>1, ConcatEmptySeq DEF Line, Text
<1>3. Typed'
  BY <1>1 DEF Inv, Typed, SelectBase, entryVars
<1>4. Speaking'
  BY <1>1 DEF Inv, Speaking, SelectBase, Outputs
<1>5. ConsoleLinesWhole'
  BY <1>1, <1>2 DEF Inv, ConsoleLinesWhole, SelectBase, Outputs
<1>6. KeptLine'
  BY <1>1, <1>2 DEF Inv, KeptLine, SelectBase, Recordable, inLogger, entryVars, Outputs
<1>7. Placement'
  BY PlacementStays DEF Inv, SelectBase
<1> QED BY <1>3, <1>4, <1>5, <1>6, <1>7 DEF Inv

\* Logging what the line goes on with, if no more is kept than an entry holds.
LEMMA OutputInv ==
  ASSUME Inv, NEW text \in Text, Continues(text, line.base), NEW kept \in Text,
         kept = Cut(errorLine \o text), Output(text, kept)
  PROVE  Inv'
<1>0. line \in Line /\ line # NoLine /\ line.base \in {Dec, Hex}
  BY DEF Inv, Typed, Continues, Line
<1>1. /\ line' \in Line /\ line' # NoLine
      /\ line'.selector = line.selector /\ line'.base = line.base
      /\ line'.text = line.text \o text
  BY <1>0, ContinuedLine
<1>2. /\ lineLevel = line.selector.level
      /\ outputCurrentLine = Outputs(line.selector)
      /\ base = line.base
  BY <1>0 DEF Inv, Speaking
<1>3. Typed'
  <2>1. console \o text \in Text
    BY ConcatProperties DEF Inv, Typed, Text
  <2> QED BY <1>1, <2>1 DEF Inv, Typed, Output, entryVars
<1>4. Speaking'
  BY <1>1, <1>2 DEF Speaking, Output, Outputs
<1>5. ConsoleLinesWhole'
  BY <1>0, <1>1, <1>2 DEF Inv, ConsoleLinesWhole, Output, Outputs
<1>6. KeptLine'
  <2>1. stage' = stage /\ recorded' = recorded
    BY DEF Output, entryVars
  <2>2. CASE inLogger
    <3>1. errorLine' = errorLine
      BY <2>2 DEF Output, Keeps
    <3> QED BY <2>1, <2>2, <3>1 DEF Inv, KeptLine, inLogger
  <2>3. CASE ~inLogger /\ Recordable
    <3>1. errorLine' = kept
      BY <1>2, <2>3 DEF Output, Keeps, Recordable
    <3>2. errorLine = Cut(line.text)
      BY <2>3 DEF Inv, KeptLine
    <3>3. kept = Cut(line.text \o text)
      BY <1>0, <3>2, CutAppend, EntryLengthAssumption DEF Cut, Line
    <3> QED BY <1>1, <2>1, <2>3, <3>1, <3>3 DEF KeptLine, Recordable, inLogger, Outputs
  <2>4. CASE ~inLogger /\ ~Recordable
    <3>1. errorLine' = errorLine
      BY <1>0, <1>2, <2>4 DEF Output, Keeps, Recordable
    <3>2. errorLine = <<>>
      BY <2>4 DEF Inv, KeptLine
    <3> QED BY <1>0, <1>1, <2>1, <2>4, <3>1, <3>2
            DEF KeptLine, Recordable, inLogger, Outputs
  <2> QED BY <2>2, <2>3, <2>4
<1>7. Placement'
  BY PlacementStays DEF Inv, Output
<1> QED BY <1>3, <1>4, <1>5, <1>6, <1>7 DEF Inv

\* What a line may be added to is a text with what is added.
LEMMA KeptText ==
  ASSUME Inv, NEW text \in Text
  PROVE  errorLine \o text \in Text /\ Cut(errorLine \o text) \in Text
<1>1. errorLine \o text \in Text
  BY ConcatProperties DEF Inv, Typed, Text
<1>2. maxLogEntryLength - 1 \in Nat
  BY EntryLengthAssumption
<1> QED BY <1>1, <1>2, FirstOfText DEF Cut

LEMMA LoggedTexts ==
  /\ Strings \subseteq Text
  /\ Characters \subseteq Text
  /\ \A n \in Numbers : \A b \in {Dec, Hex} : NumberText(n, b) \in Text
<1>1. Seq(STRING) \subseteq Text
  BY SeqMonotonic DEF Text, Character
<1> QED BY <1>1, TextsAssumption, NumberTextTyped

LEMMA PutInv ==
  ASSUME Inv,
         \/ \E text \in Strings : PutString(text)
         \/ \E n \in Numbers : PutNumber(n)
         \/ \E text \in Characters : PutCharacters(text)
  PROVE  Inv'
<1>1. ASSUME NEW text \in Strings, PutString(text) PROVE Inv'
  <2>1. text \in Text
    BY LoggedTexts
  <2> QED BY <1>1, <2>1, KeptText, OutputInv DEF PutString, LogString, Cut
<1>2. ASSUME NEW n \in Numbers, PutNumber(n) PROVE Inv'
  <2>1. line.base \in {Dec, Hex} /\ base = line.base
    BY <1>2 DEF Inv, Typed, Speaking, PutNumber, Line
  <2>2. NumberText(n, line.base) \in Text
    BY <2>1, LoggedTexts
  <2> QED BY <1>2, <2>1, <2>2, KeptText, OutputInv DEF PutNumber, LogString, Cut
<1>3. ASSUME NEW text \in Characters, PutCharacters(text) PROVE Inv'
  <2>1. text \in Text /\ errorLine \o text \in Text
    BY LoggedTexts, KeptText
  <2>2. Len(errorLine \o text) \in Nat
    BY <2>1, LenProperties DEF Text
  <2>3. Len(errorLine \o text) <= maxLogEntryLength - 1
    BY <1>3, <2>2, EntryLengthAssumption DEF PutCharacters
  <2>4. Cut(errorLine \o text) = errorLine \o text
    <3>1. maxLogEntryLength - 1 \in Nat
      BY EntryLengthAssumption
    <3> QED BY <2>1, <2>3, <3>1, FirstOfShort DEF Cut
  <2> QED BY <1>3, <2>1, <2>4, OutputInv DEF PutCharacters, LogCharacters
<1> QED BY <1>1, <1>2, <1>3

\* The last of the latest lines is the one just added.
LEMMA LatestLines ==
  ASSUME NEW lines \in Seq(Text), Len(lines) <= logEntrySlots, NEW text \in Text
  PROVE  LET latest == Latest(Append(lines, text))
         IN  /\ latest \in Seq(Text)
             /\ Len(latest) = IF Len(lines) = logEntrySlots THEN logEntrySlots
                              ELSE Len(lines) + 1
             /\ latest[Len(latest)] = text
             /\ Len(lines) = logEntrySlots =>
                  \A i \in 1..(Len(latest) - 1) : latest[i] = lines[i + 1]
             /\ Len(lines) # logEntrySlots =>
                  \A i \in 1..(Len(latest) - 1) : latest[i] = lines[i]
<1> DEFINE more == Append(lines, text)
<1>1. Len(lines) \in Nat
  BY LenProperties
<1>2. /\ more \in Seq(Text) /\ Len(more) = Len(lines) + 1
      /\ \A i \in 1..Len(lines) : more[i] = lines[i]
      /\ more[Len(lines) + 1] = text
  BY AppendProperties
<1> HIDE DEF more
<1>3. CASE Len(lines) = logEntrySlots
  <2>1. Latest(more) = Tail(more)
    BY <1>2, <1>3, SlotsAssumption DEF Latest
  <2>2. more # <<>>
    BY <1>1, <1>2
  <2>3. /\ Tail(more) \in Seq(Text) /\ Len(Tail(more)) = Len(more) - 1
        /\ \A i \in 1..Len(Tail(more)) : Tail(more)[i] = more[i + 1]
    BY <1>2, <2>2, HeadTailProperties
  <2>4. Len(Tail(more)) = logEntrySlots
    BY <1>1, <1>2, <1>3, <2>3
  <2> HIDE DEF more
  <2>5. Tail(more)[logEntrySlots] = text
    BY <1>2, <1>3, <2>3, <2>4, SlotsAssumption
  <2>6. \A i \in 1..(logEntrySlots - 1) : Tail(more)[i] = lines[i + 1]
    BY <1>2, <1>3, <2>3, <2>4, SlotsAssumption
  <2> QED BY <1>3, <2>1, <2>3, <2>4, <2>5, <2>6 DEF more
<1>4. CASE Len(lines) # logEntrySlots
  <2>1. Latest(more) = more
    BY <1>1, <1>2, <1>4, SlotsAssumption DEF Latest
  <2> QED BY <1>1, <1>2, <1>4, <2>1 DEF more
<1> QED BY <1>3, <1>4

LEMMA EndLineInv ==
  ASSUME Inv, EndLine
  PROVE  Inv'
<1>1. line \in Line /\ line # NoLine /\ line' = NoLine
  BY DEF Inv, Typed, EndLine
<1>2. /\ lineLevel = line.selector.level
      /\ outputCurrentLine = Outputs(line.selector)
  BY <1>1 DEF Inv, Speaking
<1>3. Speaking'
  BY <1>1 DEF Speaking, EndLine, BaseAfterLine
<1>4. <<>> \in Text
  BY DEF Text
<1>5. ConsoleLinesWhole'
  BY <1>1, <1>2 DEF Inv, ConsoleLinesWhole, EndLine, Outputs
<1>6. ~Recordable'
  BY <1>1 DEF Recordable
<1>7. CASE Records
  <2>1. errorLine = Cut(line.text) /\ errorLine \in Text
    BY <1>1, <1>2, <1>7 DEF Inv, Typed, KeptLine, Records, Recordable
  <2>2. /\ stage' = IF errorsSetInDataModel = logEntrySlots THEN "scroll" ELSE "set"
        /\ scrolled' = 0
        /\ recorded' = Latest(Append(recorded, errorLine))
        /\ errorLine' = errorLine
    BY <1>7, <2>1 DEF EndLine, Cut
  <2>3. /\ errorsSetInDataModel' = errorsSetInDataModel
        /\ sysLogEntries' = sysLogEntries
    BY DEF EndLine
  <2>4. /\ recorded \in Seq(Text) /\ Len(recorded) \in Nat
        /\ Len(recorded) <= logEntrySlots
        /\ errorsSetInDataModel = Len(recorded)
        /\ \A i \in 1..logEntrySlots :
             sysLogEntries[i] = IF i <= Len(recorded) THEN recorded[i] ELSE NoEntry
    BY <1>7, LenProperties DEF Inv, Typed, Placement, Records, inLogger, Shown
  <2>5. /\ recorded' \in Seq(Text)
        /\ Len(recorded') = IF Len(recorded) = logEntrySlots THEN logEntrySlots
                            ELSE Len(recorded) + 1
        /\ recorded'[Len(recorded')] = errorLine
        /\ Len(recorded) = logEntrySlots =>
             \A i \in 1..(Len(recorded') - 1) : recorded'[i] = recorded[i + 1]
        /\ Len(recorded) # logEntrySlots =>
             \A i \in 1..(Len(recorded') - 1) : recorded'[i] = recorded[i]
    BY <2>1, <2>2, <2>4, LatestLines
  <2>6. console' \in Text
    BY <1>4 DEF Inv, Typed, EndLine
  <2>7. Typed'
    BY <1>1, <2>1, <2>2, <2>3, <2>5, <2>6 DEF Inv, Typed
  <2>8. KeptLine'
    BY <2>2, <2>5 DEF KeptLine, inLogger
  <2>9. Placement'
    <3>1. CASE Len(recorded) = logEntrySlots
      <4>1. stage' = "scroll" /\ Len(recorded') = logEntrySlots
        BY <2>2, <2>4, <2>5, <3>1
      <4>2. ASSUME NEW i \in 1..logEntrySlots, i >= 2
            PROVE  sysLogEntries[i] = recorded'[i - 1]
        <5>1. sysLogEntries[i] = recorded[i]
          BY <2>4, <3>1
        <5>2. i - 1 \in 1..(Len(recorded') - 1)
          BY <4>1, <4>2, SlotsAssumption
        <5> QED BY <2>5, <3>1, <5>1, <5>2
      <4> QED BY <2>2, <2>3, <2>4, <3>1, <4>1, <4>2, SlotsAssumption
              DEF Placement, inLogger
    <3>2. CASE Len(recorded) # logEntrySlots
      <4>1. stage' = "set" /\ Len(recorded') = Len(recorded) + 1
        BY <2>2, <2>4, <2>5, <3>2
      <4>2. ASSUME NEW i \in 1..(Len(recorded') - 1)
            PROVE  sysLogEntries[i] = recorded'[i]
        <5>1. i \in 1..logEntrySlots /\ i <= Len(recorded)
          BY <2>4, <4>1, SlotsAssumption
        <5>2. recorded'[i] = recorded[i]
          BY <2>5, <3>2
        <5> QED BY <2>4, <5>1, <5>2
      <4>3. \A i \in 1..logEntrySlots : i > Len(recorded') => sysLogEntries[i] = NoEntry
        BY <2>4, <4>1
      <4> QED BY <2>3, <2>4, <3>2, <4>1, <4>2, <4>3, SlotsAssumption
              DEF Placement, inLogger
    <3> QED BY <3>1, <3>2
  <2> QED BY <1>3, <1>5, <2>7, <2>8, <2>9 DEF Inv
<1>8. CASE ~Records
  <2>1. errorLine' = LineKept
    BY <1>8 DEF EndLine
  <2>2. UNCHANGED entryVars
    BY <1>8 DEF EndLine, entryVars
  <2>3. Typed'
    BY <1>1, <1>4, <2>1, <2>2 DEF Inv, Typed, EndLine, LineKept, entryVars
  <2>4. KeptLine'
    BY <1>6, <2>1, <2>2 DEF Inv, KeptLine, LineKept, inLogger, entryVars
  <2>5. Placement'
    BY <2>2, PlacementStays DEF Inv
  <2> QED BY <1>3, <1>5, <2>3, <2>4, <2>5 DEF Inv
<1> QED BY <1>7, <1>8

\* What is about lines is not touched while the logger moves the entries.
LEMMA SpeakingStays ==
  ASSUME Speaking, ConsoleLinesWhole, UNCHANGED lineVars
  PROVE  Speaking' /\ ConsoleLinesWhole'
BY DEF Speaking, ConsoleLinesWhole, lineVars, Outputs

LEMMA ScrollUpDebugsInv ==
  ASSUME Inv, ScrollUpDebugs
  PROVE  Inv'
<1>1. Speaking' /\ ConsoleLinesWhole'
  BY SpeakingStays DEF Inv, ScrollUpDebugs
<1>2. /\ stage = "scroll" /\ errorsSetInDataModel = logEntrySlots
      /\ Len(recorded) = logEntrySlots
      /\ scrolled \in Nat /\ scrolled < logEntrySlots - 1
      /\ \A i \in 1..scrolled : sysLogEntries[i] = recorded[i]
      /\ \A i \in 1..logEntrySlots :
           i > scrolled /\ i >= 2 => sysLogEntries[i] = recorded[i - 1]
      /\ errorLine = recorded[Len(recorded)]
      /\ recorded' = recorded /\ errorLine' = errorLine /\ scrolled' = scrolled + 1
  BY DEF Inv, Typed, KeptLine, Placement, ScrollUpDebugs, lineVars
<1>3. sysLogEntries \in [1..logEntrySlots -> Text \cup {NoEntry}]
  BY DEF Inv, Typed
<1>4. scrolled + 1 \in 1..logEntrySlots /\ scrolled + 2 \in 1..logEntrySlots
  BY <1>2, SlotsAssumption
<1>5. sysLogEntries' = [sysLogEntries EXCEPT ![scrolled + 1] = sysLogEntries[scrolled + 2]]
  BY DEF ScrollUpDebugs, SetEntry
<1>6. \A i \in 1..(scrolled + 1) : sysLogEntries'[i] = recorded[i]
  <2>1. sysLogEntries[scrolled + 2] = recorded[scrolled + 1]
    BY <1>2, <1>4
  <2>2. sysLogEntries'[scrolled + 1] = recorded[scrolled + 1]
    BY <1>3, <1>4, <1>5, <2>1
  <2>3. ASSUME NEW i \in 1..scrolled PROVE sysLogEntries'[i] = recorded[i]
    BY <1>2, <1>3, <1>4, <1>5
  <2> QED BY <1>2, <2>2, <2>3
<1>7. \A i \in 1..logEntrySlots :
        i > scrolled + 1 /\ i >= 2 => sysLogEntries'[i] = recorded[i - 1]
  BY <1>2, <1>3, <1>4, <1>5
<1>8. CASE scrolled + 1 < logEntrySlots - 1
  <2>1. stage' = stage /\ errorsSetInDataModel' = errorsSetInDataModel
    BY <1>8 DEF ScrollUpDebugs
  <2>2. Typed'
    BY <1>2, <1>3, <1>4, <1>5, <2>1 DEF Inv, Typed, ScrollUpDebugs, lineVars
  <2>3. KeptLine'
    BY <1>2, <2>1 DEF KeptLine, inLogger
  <2>4. Placement'
    BY <1>2, <1>6, <1>7, <1>8, <2>1 DEF Placement, inLogger
  <2> QED BY <1>1, <2>2, <2>3, <2>4 DEF Inv
<1>9. CASE ~(scrolled + 1 < logEntrySlots - 1)
  <2>1. stage' = "set" /\ errorsSetInDataModel' = errorsSetInDataModel - 1
    BY <1>9 DEF ScrollUpDebugs
  <2>2. Typed'
    BY <1>2, <1>3, <1>4, <1>5, <2>1, SlotsAssumption
       DEF Inv, Typed, ScrollUpDebugs, lineVars
  <2>3. KeptLine'
    BY <1>2, <2>1 DEF KeptLine, inLogger
  <2>4. scrolled + 1 = logEntrySlots - 1
    BY <1>2, <1>9, SlotsAssumption
  <2>5. Placement'
    BY <1>2, <1>6, <2>1, <2>4, SlotsAssumption DEF Placement, inLogger
  <2> QED BY <1>1, <2>2, <2>3, <2>5 DEF Inv
<1> QED BY <1>8, <1>9

LEMMA AddErrorLineInv ==
  ASSUME Inv, AddErrorLine
  PROVE  Inv'
<1>1. Speaking' /\ ConsoleLinesWhole'
  BY SpeakingStays DEF Inv, AddErrorLine
<1>2. /\ stage = "set" /\ stage' = "added"
      /\ recorded' = recorded /\ errorLine' = errorLine
      /\ errorsSetInDataModel' = errorsSetInDataModel
  BY DEF AddErrorLine, lineVars
<1>3. /\ Len(recorded) \in Nat /\ Len(recorded) <= logEntrySlots
      /\ errorsSetInDataModel = Len(recorded) - 1
      /\ errorsSetInDataModel \in Nat
      /\ errorLine = recorded[Len(recorded)] /\ errorLine \in Text
      /\ \A i \in 1..(Len(recorded) - 1) : sysLogEntries[i] = recorded[i]
      /\ \A i \in 1..logEntrySlots : i > Len(recorded) => sysLogEntries[i] = NoEntry
  BY <1>2, LenProperties DEF Inv, Typed, KeptLine, Placement
<1>4. /\ sysLogEntries \in [1..logEntrySlots -> Text \cup {NoEntry}]
      /\ sysLogEntries' = [sysLogEntries EXCEPT ![errorsSetInDataModel + 1] = errorLine]
      /\ errorsSetInDataModel + 1 = Len(recorded)
      /\ Len(recorded) \in 1..logEntrySlots
  BY <1>3, SlotsAssumption DEF Inv, Typed, AddErrorLine, SetEntry
<1>5. Typed'
  BY <1>2, <1>3, <1>4 DEF Inv, Typed, AddErrorLine, lineVars
<1>6. KeptLine'
  BY <1>2 DEF KeptLine, inLogger
<1>7. sysLogEntries' = Shown(recorded)
  <2>1. ASSUME NEW i \in 1..logEntrySlots
        PROVE  sysLogEntries'[i] = IF i <= Len(recorded) THEN recorded[i] ELSE NoEntry
    <3>1. CASE i = Len(recorded)
      BY <1>3, <1>4, <3>1
    <3>2. CASE i < Len(recorded)
      BY <1>3, <1>4, <3>2
    <3>3. CASE i > Len(recorded)
      BY <1>3, <1>4, <3>3
    <3> QED BY <1>3, <3>1, <3>2, <3>3
  <2>2. /\ sysLogEntries' = [i \in 1..logEntrySlots |-> sysLogEntries'[i]]
    BY <1>5 DEF Typed
  <2> QED BY <2>1, <2>2 DEF Shown
<1>8. Placement'
  BY <1>2, <1>3, <1>7 DEF Placement, inLogger, Shown
<1> QED BY <1>1, <1>5, <1>6, <1>8 DEF Inv

LEMMA LeaveLoggerInv ==
  ASSUME Inv, LeaveLogger
  PROVE  Inv'
<1>1. Speaking' /\ ConsoleLinesWhole'
  BY SpeakingStays DEF Inv, LeaveLogger
<1>2. <<>> \in Text
  BY DEF Text
<1>3. Typed'
  BY <1>2 DEF Inv, Typed, LeaveLogger, lineVars
<1>4. KeptLine'
  BY DEF KeptLine, LeaveLogger, Recordable, lineVars, inLogger
<1>5. Placement'
  <2>1. Len(recorded) \in Nat
    BY LenProperties DEF Inv, Typed
  <2> QED BY <2>1 DEF Inv, Placement, LeaveLogger, lineVars, inLogger, Shown
<1> QED BY <1>1, <1>3, <1>4, <1>5 DEF Inv

LEMMA InvStep == Inv /\ [Next]_vars => Inv'
<1> SUFFICES ASSUME Inv, [Next]_vars PROVE Inv'
  OBVIOUS
<1>1. CASE \E selector \in Selectors : BeginLine(selector)
  BY <1>1, BeginLineInv
<1>2. CASE \E b \in {Dec, Hex} : SelectBase(b)
  BY <1>2, SelectBaseInv
<1>3. CASE \/ \E text \in Strings : PutString(text)
           \/ \E n \in Numbers : PutNumber(n)
           \/ \E text \in Characters : PutCharacters(text)
  BY <1>3, PutInv
<1>4. CASE EndLine
  BY <1>4, EndLineInv
<1>5. CASE ScrollUpDebugs
  BY <1>5, ScrollUpDebugsInv
<1>6. CASE AddErrorLine
  BY <1>6, AddErrorLineInv
<1>7. CASE LeaveLogger
  BY <1>7, LeaveLoggerInv
<1>8. CASE UNCHANGED vars
  BY <1>8 DEF vars, Inv, Typed, Speaking, ConsoleLinesWhole, KeptLine, Placement,
              Recordable, Outputs, Shown, inLogger
<1> QED BY <1>1, <1>2, <1>3, <1>4, <1>5, <1>6, <1>7, <1>8 DEF Next

-----------------------------------------------------------------------------
(* Theorems *)

THEOREM Invariance == Spec => []Inv
BY InvInit, InvStep, PTL DEF Spec

\* Outside the logger, whatever was logged by the subscribers of entries, the
\* entries show the latest lines to be shown: Logger::addErrorLineToDebugs is
\* done with one line before the next is recorded, and keeps it until then.
THEOREM LogAlwaysShowsLatest == Spec => []LogShowsLatest
<1>1. Inv => LogShowsLatest
  BY DEF Inv, Placement, LogShowsLatest, inLogger
<1> QED BY <1>1, Invariance, PTL

\* Lines are whole on the console, in the base they chose, because the line
\* being recorded was ended before the first entry is published.
THEOREM ConsoleLinesAlwaysWhole == Spec => []ConsoleLinesWhole
<1>1. Inv => ConsoleLinesWhole
  BY DEF Inv
<1> QED BY <1>1, Invariance, PTL

=============================================================================
