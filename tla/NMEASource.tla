----------------------------- MODULE NMEASource -----------------------------
(***************************************************************************)
(* How NMEASource::service cuts the characters of a stream into lines and  *)
(* hands over those that are NMEA messages.  A line ends with a carriage   *)
(* return and a line feed.  The stream is read in pieces of any size, and  *)
(* one line at most is handed over per call; the rest of the piece waits   *)
(* in the buffer, the beginning of the next line in inputLine.             *)
(***************************************************************************)
EXTENDS Naturals, Sequences, SequencesExt, FiniteSetsExt

CONSTANTS
  maxNMEALineLength,
  CR, LF,
  Characters,    \* all others
  Sentences      \* lines that pass sanityCheck and parseNMEAMessage

ASSUME LineLengthAssumption == maxNMEALineLength \in Nat \ {0}
ASSUME CharactersAssumption == CR # LF /\ {CR, LF} \cap Characters = {}
ASSUME SentencesAssumption ==
  \A s \in Sentences : s \in Seq(Characters) /\ Len(s) \in 1..maxNMEALineLength

VARIABLES
  available,           \* characters stream.available() counts
  buffer,              \* the `remaining' characters from bufferPos on
  carriageReturnFound,
  inputLine,
  handled,             \* the messages the handlers got, in order
  ideal                \* ghost: the lines there are in what was read so far

sourceVars == <<available, buffer, carriageReturnFound, inputLine, handled, ideal>>

NoLine == [line |-> <<>>, ended |-> FALSE, sentences |-> <<>>, faults |-> 0]

SourceInit ==
  /\ available = <<>>
  /\ buffer = <<>>
  /\ carriageReturnFound = FALSE
  /\ inputLine = <<>>
  /\ handled = <<>>
  /\ ideal = NoLine

-----------------------------------------------------------------------------
(* What lines are, character by character, to compare with. *)

Shortened(line) == SubSeq(line, 1, Min({Len(line), maxNMEALineLength}))

\* A carriage return and a line feed without the other are faults, and spoil the
\* line they are in.
IdealStep(i, char) ==
  CASE i.ended /\ char = LF ->
         [i EXCEPT !.line = <<>>, !.ended = FALSE,
                   !.sentences = IF i.line \in Sentences THEN Append(@, i.line) ELSE @]
    [] i.ended /\ char = CR -> [i EXCEPT !.line = <<>>, !.faults = @ + 1]
    [] i.ended /\ char \notin {CR, LF} ->
         [i EXCEPT !.line = <<char>>, !.ended = FALSE, !.faults = @ + 1]
    [] ~i.ended /\ char = CR -> [i EXCEPT !.ended = TRUE]
    [] ~i.ended /\ char # CR ->
         [i EXCEPT !.line = Shortened(Append(@, char)),
                   !.faults = IF char = LF THEN @ + 1 ELSE @]

IdealAfter(i, chars) ==
  LET after[n \in 0..Len(chars)] ==
        IF n = 0 THEN i ELSE IdealStep(after[n - 1], chars[n])
  IN after[Len(chars)]

-----------------------------------------------------------------------------
(* processBuffer *)

\* NMEALine::append, into a string that cuts what does not fit.
AppendTo(line, chars) == Shortened(line \o chars)

\* The carriage return at this position ends a line.
Ends(chars, pos) == chars[pos + 1] = LF

\* Slip: nobody remembers that a line feed is due.
LineFeedNotDue(line) == [done |-> FALSE, return |-> FALSE, line |-> line, rest |-> <<>>]

LineFeedDue(line) == [done |-> FALSE, return |-> TRUE, line |-> line, rest |-> <<>>]

\* processBuffer without carriageReturnFound, from position `start' on.  A
\* carriage return without line feed costs the line and the character after it.
Cut(chars, line) ==
  LET n == Len(chars)
      cutFrom[start \in 1..(n + 1)] ==
        LET returns == {pos \in start..n : chars[pos] = CR}
            pos == Min(returns)
            soFar == IF start = 1 THEN line ELSE <<>>
            text(end) == AppendTo(soFar, SubSeq(chars, start, end))
        IN CASE returns = {} ->
                  [done |-> FALSE, return |-> FALSE, line |-> text(n), rest |-> <<>>]
             [] returns # {} /\ pos = n -> LineFeedDue(text(n - 1))
             [] returns # {} /\ pos < n /\ Ends(chars, pos) ->
                  [done |-> TRUE, return |-> FALSE, line |-> text(pos - 1),
                   rest |-> SubSeq(chars, pos + 2, n)]
             [] OTHER -> cutFrom[pos + 2]
  IN cutFrom[1]

ProcessBuffer(chars, line, return) ==
  IF return /\ Head(chars) = LF
  THEN [done |-> TRUE, return |-> FALSE, line |-> line, rest |-> Tail(chars)]
  ELSE Cut(chars, IF return THEN <<>> ELSE line)

-----------------------------------------------------------------------------
(* service *)

\* Slip: the line stays.
LeaveNoReset(result) ==
  /\ buffer' = result.rest
  /\ carriageReturnFound' = result.return
  /\ inputLine' = result.line
  /\ handled' = IF result.done /\ result.line \in Sentences
                THEN Append(handled, result.line) ELSE handled

\* lineCompleted and inputLine.reset(), if a line was completed.
Leave(result) ==
  /\ buffer' = result.rest
  /\ carriageReturnFound' = result.return
  /\ inputLine' = IF result.done THEN <<>> ELSE result.line
  /\ handled' = IF result.done /\ result.line \in Sentences
                THEN Append(handled, result.line) ELSE handled

Buffered == ProcessBuffer(buffer, inputLine, carriageReturnFound)

\* Slip: only new input makes service look at the buffer.
BufferCompletesOnInput == buffer # <<>> /\ Buffered.done /\ available # <<>>

BufferCompletes == buffer # <<>> /\ Buffered.done

\* The buffer completes a line, and service returns.
ServiceBuffer ==
  /\ BufferCompletes
  /\ Leave(Buffered)
  /\ UNCHANGED <<available, ideal>>

\* What is in the buffer when readAvailableInput is called goes to inputLine.
BeforeRead ==
  IF buffer = <<>>
  THEN [done |-> FALSE, return |-> carriageReturnFound, line |-> inputLine, rest |-> <<>>]
  ELSE Buffered

\* A read may be shorter than asked for ("Truncated NMEA serial read").
ServiceInput ==
  /\ ~BeforeRead.done /\ available # <<>>
  /\ \E n \in 1..Min({Len(available), maxNMEALineLength}) :
       LET chars == SubSeq(available, 1, n)
       IN /\ Leave(ProcessBuffer(chars, BeforeRead.line, BeforeRead.return))
          /\ available' = SubSeq(available, n + 1, Len(available))
          /\ ideal' = IdealAfter(ideal, chars)

ServiceNothing ==
  /\ ~BeforeRead.done /\ available = <<>>
  /\ Leave(BeforeRead)
  /\ UNCHANGED <<available, ideal>>

SourceService == ServiceBuffer \/ ServiceInput \/ ServiceNothing

-----------------------------------------------------------------------------
(* Properties *)

\* `part' is `whole' with some elements left out.
IsPartOf(part, whole) ==
  \E place \in [DOMAIN part -> DOMAIN whole] :
    /\ \A i, j \in DOMAIN part : i < j => place[i] < place[j]
    /\ \A i \in DOMAIN part : part[i] = whole[place[i]]

\* `some', all but as many elements of it, is in `others' as well, in this order.
AllBut(few, some, others) ==
  \E common \in UNION {[1..n -> Range(some)] : n \in 0..Len(some)} :
    /\ IsPartOf(common, some) /\ IsPartOf(common, others)
    /\ Len(common) + few >= Len(some)

\* However the stream is cut into pieces, handlers get only messages that are
\* whole lines of it, once each and in the order they were sent, but for one at
\* each fault: after a carriage return alone the first character of a line may be
\* missing, after a connection that ended within a line that part comes before it.
NothingInvented == AllBut(ideal.faults, handled, ideal.sentences)

\* When the buffer is used up, a message is missing for each carriage return or
\* line feed without the other, or connection that ended within a line, at most.
LosesOnlyAfterFaults == buffer = <<>> => AllBut(ideal.faults, ideal.sentences, handled)

=============================================================================
