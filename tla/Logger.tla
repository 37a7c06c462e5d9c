-------------------------------- MODULE Logger --------------------------------
(***************************************************************************)
(* Util/Logger: lines put together with << and ended with eol, on the      *)
(* console and, from level WARNING on, in the leaves of $SYS that show the *)
(* latest of them.  Assigning to a leaf publishes, and publishing logs: a  *)
(* line recorded is still in errorLine while other lines come and go.      *)
(*                                                                         *)
(* A text is a sequence of characters.  A LoggableItem logs its parts.     *)
(***************************************************************************)
EXTENDS Integers, Sequences

CONSTANTS
  logEntrySlots, maxLogEntryLength,
  logLevel,          \* what setLevel set
  moduleDebugFlags,  \* the modules of enableModuleDebug
  Selectors,         \* levels and modules of lines
  Strings,           \* texts that logString gets
  Characters,        \* texts logged character by character
  Numbers,
  MaxItems,          \* bound on the items of a line
  NoEntry

ASSUME SlotsAssumption == logEntrySlots \in Nat /\ logEntrySlots > 1
ASSUME EntryLengthAssumption == maxLogEntryLength \in Nat /\ maxLogEntryLength > 0
ASSUME TextsAssumption ==
  Strings \subseteq Seq(STRING) /\ Characters \subseteq Seq(STRING) /\ Numbers \subseteq 0..255

LOGGER_LEVEL_DEBUG == 0
LOGGER_LEVEL_WARNING == 1
LOGGER_LEVEL_NOTIFY == 2
LOGGER_LEVEL_ERROR == 3

Dec == 10
Hex == 16

NoLine == [items |-> 0]

VARIABLES
  lineLevel, outputCurrentLine, base,
  console,               \* what is on the last line of the console
  errorLine,
  errorsSetInDataModel, sysLogEntries,
  stage,                 \* the place in addErrorLineToDebugs; "out" of it
  scrolled,              \* entries scrollUpDebugs has assigned
  publishing,            \* the last assignment changed an entry
  line,                  \* the line the program is in the middle of logging
  recorded               \* history: the latest lines to be shown

vars == <<lineLevel, outputCurrentLine, base, console, errorLine, errorsSetInDataModel,
          sysLogEntries, stage, scrolled, publishing, line, recorded>>

entryVars == <<errorsSetInDataModel, sysLogEntries, stage, scrolled, publishing, recorded>>

Init ==
  /\ lineLevel = LOGGER_LEVEL_ERROR
  /\ outputCurrentLine = FALSE
  /\ base = Dec
  /\ console = <<>>
  /\ errorLine = <<>>
  /\ errorsSetInDataModel = 0
  /\ sysLogEntries = [slot \in 1..logEntrySlots |-> NoEntry]
  /\ stage = "out"
  /\ scrolled = 0
  /\ publishing = FALSE
  /\ line = NoLine
  /\ recorded = <<>>

inLogger == stage # "out"

-----------------------------------------------------------------------------
(* Texts of numbers below 256 *)

HexDigits == <<"0", "1", "2", "3", "4", "5", "6", "7", "8", "9", "a", "b", "c", "d", "e", "f">>

Digits(n, b) ==
  LET Digit(place) == HexDigits[((n \div place) % b) + 1]
  IN CASE n < b -> <<Digit(1)>>
       [] n >= b /\ n < b * b -> <<Digit(b), Digit(1)>>
       [] OTHER -> <<Digit(b * b), Digit(b), Digit(1)>>

NumberText(n, b) == (IF b = Hex THEN <<"0", "x">> ELSE <<>>) \o Digits(n, b)

FirstOf(text, n) == SubSeq(text, 1, IF n < Len(text) THEN n ELSE Len(text))

-----------------------------------------------------------------------------
(* Logging an item *)

Outputs(selector) ==
  /\ selector.level >= logLevel
  /\ selector.level = LOGGER_LEVEL_DEBUG => selector.module \in moduleDebugFlags

\* Lines begin when no other is being logged: from anywhere in the program or,
\* within addErrorLineToDebugs, from the subscribers an entry is published to.
BeginLine(selector) ==
  /\ line = NoLine
  /\ inLogger => publishing
  /\ lineLevel' = selector.level
  /\ outputCurrentLine' = Outputs(selector)
  /\ line' = [selector |-> selector, base |-> Dec, text |-> <<>>, items |-> 0]
  /\ UNCHANGED <<base, console, errorLine>> /\ UNCHANGED entryVars

\* The program goes on with the line, which is to say this text.
Continues(text, b) ==
  /\ line # NoLine /\ line.items < MaxItems
  /\ line' = [line EXCEPT !.text = @ \o text, !.base = b, !.items = @ + 1]

SelectBase(b) ==
  /\ Continues(<<>>, b)
  /\ base' = b
  /\ UNCHANGED <<lineLevel, outputCurrentLine, console, errorLine>> /\ UNCHANGED entryVars

\* Whether what is output is kept for an entry as well.
Keeps == lineLevel >= LOGGER_LEVEL_WARNING /\ ~inLogger

\* The text is printed, and errorLine becomes what the caller says.
Output(text, kept) ==
  /\ IF outputCurrentLine
     THEN /\ console' = console \o text
          /\ errorLine' = IF Keeps THEN kept ELSE errorLine
     ELSE UNCHANGED <<console, errorLine>>
  /\ UNCHANGED <<lineLevel, outputCurrentLine, base>> /\ UNCHANGED entryVars

\* logString keeps what fits.
LogString(text) == Output(text, FirstOf(errorLine \o text, maxLogEntryLength - 1))

\* logCharacter, for each of them, keeps everything.
LogCharacters(text) == Output(text, errorLine \o text)

PutString(text) == Continues(text, line.base) /\ LogString(text)

\* The caller's number is meant in the base chosen since the line began; what is
\* logged is in the logger's base.
PutNumber(n) ==
  /\ line # NoLine
  /\ Continues(NumberText(n, line.base), line.base)
  /\ LogString(NumberText(n, base))

\* Lines are taken to have room for what is logged character by character.
PutCharacters(text) ==
  /\ Continues(text, line.base)
  /\ Len(errorLine \o text) < maxLogEntryLength
  /\ LogCharacters(text)

-----------------------------------------------------------------------------
(* Ending a line *)

\* Slip: the base lasts.
BaseAtNextLine == base

BaseAfterLine == Dec

\* Slip: every end of a line clears what is kept.
LineKeptAlways == <<>>

\* What eol leaves in errorLine, unless addErrorLineToDebugs has to run first.
LineKept == IF inLogger THEN errorLine ELSE <<>>

\* As many lines as there are entries.
Latest(lines) == IF Len(lines) > logEntrySlots THEN Tail(lines) ELSE lines

Records == outputCurrentLine /\ lineLevel >= LOGGER_LEVEL_WARNING /\ ~inLogger

\* The line is complete on the console before anything is published.
EndLine ==
  /\ line # NoLine
  /\ line' = NoLine
  /\ base' = BaseAfterLine
  /\ console' = IF outputCurrentLine THEN <<>> ELSE console
  /\ \/ /\ Records
        /\ stage' = IF errorsSetInDataModel = logEntrySlots THEN "scroll" ELSE "set"
        /\ scrolled' = 0
        /\ publishing' = FALSE
        /\ recorded' = Latest(Append(recorded, FirstOf(line.text, maxLogEntryLength - 1)))
        /\ UNCHANGED errorLine
     \/ /\ ~Records
        /\ errorLine' = LineKept
        /\ UNCHANGED <<stage, scrolled, publishing, recorded>>
  /\ UNCHANGED <<lineLevel, outputCurrentLine, errorsSetInDataModel, sysLogEntries>>

\* DataModelStringLeaf::operator =
SetEntry(slot, text) ==
  /\ sysLogEntries' = [sysLogEntries EXCEPT ![slot] = text]
  /\ publishing' = (sysLogEntries[slot] # text)

lineVars == <<lineLevel, outputCurrentLine, base, console, line, recorded>>

\* One turn of the loop in scrollUpDebugs.
ScrollUpDebugs ==
  /\ stage = "scroll" /\ line = NoLine
  /\ SetEntry(scrolled + 1, sysLogEntries[scrolled + 2])
  /\ scrolled' = scrolled + 1
  /\ IF scrolled + 1 < logEntrySlots - 1
     THEN UNCHANGED <<stage, errorsSetInDataModel>>
     ELSE stage' = "set" /\ errorsSetInDataModel' = errorsSetInDataModel - 1
  /\ UNCHANGED errorLine /\ UNCHANGED lineVars

AddErrorLine ==
  /\ stage = "set" /\ line = NoLine
  /\ SetEntry(errorsSetInDataModel + 1, errorLine)
  /\ stage' = "added"
  /\ UNCHANGED <<errorsSetInDataModel, errorLine, scrolled>> /\ UNCHANGED lineVars

\* The end of addErrorLineToDebugs and of eol.
LeaveLogger ==
  /\ stage = "added" /\ line = NoLine
  /\ stage' = "out"
  /\ errorsSetInDataModel' = errorsSetInDataModel + 1
  /\ errorLine' = <<>>
  /\ publishing' = FALSE
  /\ UNCHANGED <<sysLogEntries, scrolled>> /\ UNCHANGED lineVars

Next ==
  \/ \E selector \in Selectors : BeginLine(selector)
  \/ \E b \in {Dec, Hex} : SelectBase(b)
  \/ \E text \in Strings : PutString(text)
  \/ \E n \in Numbers : PutNumber(n)
  \/ \E text \in Characters : PutCharacters(text)
  \/ EndLine
  \/ ScrollUpDebugs
  \/ AddErrorLine
  \/ LeaveLogger

Spec == Init /\ [][Next]_vars

-----------------------------------------------------------------------------
(* Properties *)

\* What the entries show of the lines recorded.
Shown(lines) == [slot \in 1..logEntrySlots |-> IF slot <= Len(lines) THEN lines[slot] ELSE NoEntry]

\* Outside the logger, the entries show the latest lines of level WARNING and
\* above, oldest first, each whole or as much of it as an entry holds, whatever
\* was logged while earlier entries were published.
LogShowsLatest == ~inLogger => sysLogEntries = Shown(recorded)

\* The last line of the console is the line being logged and nothing else: no
\* line is broken by those its recording causes, and each has its numbers in the
\* base that was chosen since it began.
ConsoleLinesWhole ==
  console = IF line # NoLine /\ Outputs(line.selector) THEN line.text ELSE <<>>

=============================================================================
