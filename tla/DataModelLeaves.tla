-------------------------- MODULE DataModelLeaves --------------------------
(***************************************************************************)
(* What the leaves of the data model hold and what their subscribers get   *)
(* to see (DataModelLeaf, DataModelRetainedValueLeaf and the typed leaves  *)
(* under it).  A leaf is published when its value changes; a subscriber    *)
(* that comes later is sent the value retained.                            *)
(*                                                                         *)
(* These are operations on the state; NMEADataModelBridge makes steps of   *)
(* them.  Which leaves a filter comes to, and the arrays of subscribers,   *)
(* are in DataModel; here a leaf has the set of its subscribers.           *)
(***************************************************************************)
EXTENDS Integers, FiniteSets, TopicTree

CONSTANTS
  Leaves,     \* some of LeafTopics
  Sessions    \* subscribers

ASSUME LeavesAssumption == IsFiniteSet(Leaves) /\ Leaves \subseteq LeafTopics
ASSUME CountsAssumption ==
  {"sysBrokerSubscriptionsCount", "sysBrokerMessagesRetainedCount"} \subseteq Leaves

VARIABLES
  content,         \* per leaf, hasBeenSet and value
  retainedValues,  \* how many leaves have one, kept as a count
  watching,        \* per leaf, its subscribers
  shown,           \* per subscriber and leaf, what was published to it last
  removals         \* history: how often a value was removed

leafVars == <<content, retainedValues, watching, shown, removals>>

NoValue == [isSet |-> FALSE]
Holds(value) == [isSet |-> TRUE, value |-> value]

LeavesInit ==
  /\ content = [leaf \in Leaves |-> NoValue]
  /\ retainedValues = 0
  /\ watching = [leaf \in Leaves |-> {}]
  /\ shown = [s \in Sessions |-> [leaf \in Leaves |-> [kind |-> "nothing"]]]
  /\ removals = 0

-----------------------------------------------------------------------------
(* What is published *)

NothingYet == [kind |-> "nothing"]
Blank == [kind |-> "blank"]                 \* an empty payload
Name(value) == [kind |-> "name", name |-> value]
Decimal(negative, whole, digits) ==
  [kind |-> "number", negative |-> negative, whole |-> whole, digits |-> digits]

Magnitude(n) == IF n < 0 THEN -n ELSE n

\* The digits of a number below 1000.
DigitsOf(n) ==
  CASE n < 10 -> <<n>>
    [] n \in 10..99 -> <<n \div 10, n % 10>>
    [] n > 99 -> <<n \div 100, (n \div 10) % 10, n % 10>>

IntegerText(value) == Decimal(value < 0, Magnitude(value), <<>>)

BoolText(value) == IntegerText(IF value THEN 1 ELSE 0)

\* The first digits, no more than there is room for.
FirstDigits(digits, room) == [i \in DOMAIN digits \cap 1..room |-> digits[i]]

One(condition) == IF condition THEN 1 ELSE 0

\* The characters of a number of 16 bits, with its sign and the period after it.
WidthOf(negative, whole) ==
  2 + One(negative) + One(whole > 9) + One(whole > 99) + One(whole > 999) + One(whole > 9999)

\* An etl::string takes as many characters as it is declared to have, its
\* maxStringLength, and the others are lost: 65535.10 does not fit in 7.
Fitting(negative, whole, digits, maxStringLength) ==
  Decimal(negative, whole, FirstDigits(digits, maxStringLength - WidthOf(negative, whole)))

TenthsText(value, maxStringLength) ==
  Fitting(value.whole < 0, Magnitude(value.whole), DigitsOf(value.tenths), maxStringLength)

\* setfill(0) fills with the character that ends a string, not with a zero:
\* there is nothing after the period of 1.05.
HundredthsText(value, maxStringLength) ==
  Fitting(FALSE, value.whole, IF value.hundredths < 10 THEN <<>> ELSE DigitsOf(value.hundredths),
          maxStringLength)

StringText(value) == Name(value)

\* What gpsTime has room for, timeLength characters: hh:mm:ss and six decimals.
TimeInLeaf(time) == [time EXCEPT !.fraction = FirstDigits(@, 6)]

Text(leaf, value) ==
  CASE Element[leaf].type = "tenths" -> TenthsText(value, 7)
    [] Element[leaf].type = "signedTenths" -> TenthsText(value, 8)
    [] Element[leaf].type = "hundredths" -> HundredthsText(value, 8)
    [] Element[leaf].type = "shortHundredths" -> HundredthsText(value, 6)
    [] Element[leaf].type = "bool" -> BoolText(value)
    [] Element[leaf].type \in {"uint16", "uint32"} -> IntegerText(value)
    [] Element[leaf].type = "string" -> StringText(value)
    [] Element[leaf].type = "time" -> StringText(TimeInLeaf(value))

-----------------------------------------------------------------------------
(* Assigning and removing values.  A field's result says which. *)

\* A 16 bit leaf has a member of 8 bits, and a time is cut to what fits.
Member(leaf, value) ==
  CASE Element[leaf].type = "uint16" -> value % 256
    [] Element[leaf].type = "time" -> TimeInLeaf(value)
    [] OTHER -> value

\* Assigning the value that is there publishes nothing.  A value that the member
\* has no room for is never there: it is published each time.
Changes(leaf, value) == ~content[leaf].isSet \/ content[leaf].value # value

\* What becomes of a leaf: what it holds, and what is published, if anything.
Kept(leaf) == [holds |-> content[leaf], published |-> NothingYet]

Assigned(leaf, value) ==
  IF Changes(leaf, value)
  THEN [holds |-> Holds(Member(leaf, value)), published |-> Text(leaf, value)]
  ELSE Kept(leaf)

\* Slip: a value that is removed is only forgotten.
Forgotten(leaf) == [holds |-> NoValue, published |-> NothingYet]

\* removeValue
Removed(leaf) ==
  IF content[leaf].isSet THEN [holds |-> NoValue, published |-> Blank] ELSE Kept(leaf)

Becomes(leaf, result) ==
  CASE result.outcome = "sets" -> Assigned(leaf, result.value)
    [] result.outcome = "removes" -> Removed(leaf)
    [] result.outcome = "keeps" -> Kept(leaf)

Gain(now) == {leaf \in Leaves : now[leaf].isSet /\ ~content[leaf].isSet}
Lose(now) == {leaf \in Leaves : ~now[leaf].isSet /\ content[leaf].isSet}

RetainedRange == 65536   \* of retainedValues, a uint16_t

\* Slip: every assignment counts.
CountsEach(now) ==
  (retainedValues + Cardinality({leaf \in Leaves : now[leaf].isSet})) % RetainedRange

\* updated() counts a leaf that had no value; removeValue counts nothing off.
Updated(now) == (retainedValues + Cardinality(Gain(now))) % RetainedRange

\* Each leaf gets the result there is for it.
Publish(results) ==
  LET becomes == [leaf \in Leaves |->
                    IF leaf \in DOMAIN results THEN Becomes(leaf, results[leaf]) ELSE Kept(leaf)]
      now == [leaf \in Leaves |-> becomes[leaf].holds]
  IN /\ content' = now
     /\ retainedValues' = Updated(now)
     /\ removals' = removals + Cardinality(Lose(now))
     /\ shown' = [s \in Sessions |-> [leaf \in Leaves |->
          IF s \in watching[leaf] /\ becomes[leaf].published # NothingYet
          THEN becomes[leaf].published ELSE shown[s][leaf]]]
     /\ UNCHANGED watching

-----------------------------------------------------------------------------
(* Subscribing *)

Count == "sysBrokerSubscriptionsCount"

\* The count after so many ++ or --, each of which publishes it.
Counted(by) ==
  IF by = 0 THEN content
  ELSE [content EXCEPT ![Count] = Holds(IF @.isSet THEN @.value + by ELSE by)]

\* DataModelRetainedValueLeaf::subscribe on each of the leaves.  Whether it was
\* subscribed before or not, the session is sent the values they retain.
SubscribeTo(s, leaves) ==
  LET new == {leaf \in leaves : s \notin watching[leaf]}
      now == Counted(Cardinality(new))
      watchingNow == [leaf \in Leaves |->
                        IF leaf \in leaves THEN watching[leaf] \cup {s} ELSE watching[leaf]]
      IsSentCount(t) == new # {} /\ t \in watchingNow[Count]
      IsSentRetained(t, leaf) == t = s /\ leaf \in leaves /\ now[leaf].isSet
  IN /\ watching' = watchingNow
     /\ content' = now
     /\ retainedValues' = Updated(now)
     /\ shown' = [t \in Sessions |-> [leaf \in Leaves |->
          IF (leaf = Count /\ IsSentCount(t)) \/ IsSentRetained(t, leaf)
          THEN Text(leaf, now[leaf].value) ELSE shown[t][leaf]]]
     /\ UNCHANGED removals

\* DataModelLeaf::unsubscribe.  What the client was sent is of no account then.
UnsubscribeFrom(s, leaves) ==
  LET old == {leaf \in leaves : s \in watching[leaf]}
      now == Counted(-Cardinality(old))
  IN /\ watching' = [leaf \in Leaves |->
          IF leaf \in old THEN watching[leaf] \ {s} ELSE watching[leaf]]
     /\ content' = now
     /\ shown' = [t \in Sessions |-> [leaf \in Leaves |->
          IF t = s /\ leaf \in old THEN NothingYet
          ELSE IF leaf = Count /\ old # {} /\ t \in watching[leaf]
          THEN Text(leaf, now[leaf].value) ELSE shown[t][leaf]]]
     /\ UNCHANGED <<retainedValues, removals>>

\* DataModel::exportStats
ExportStats ==
  Publish([leaf \in {"sysBrokerMessagesRetainedCount"} |->
             [outcome |-> "sets", value |-> retainedValues]])

-----------------------------------------------------------------------------
(* Properties *)

\* Leaves hold values that were removed or assigned; only sessions watch.
LeavesTypeOK ==
  /\ DOMAIN content = Leaves /\ \A leaf \in Leaves : content[leaf].isSet \in BOOLEAN
  /\ retainedValues \in 0..(RetainedRange - 1) /\ removals \in Nat
  /\ watching \in [Leaves -> SUBSET Sessions]

\* Two numbers that a 16 bit leaf cannot tell apart.
SameModulo256(text, other) ==
  /\ text.kind = "number" /\ other.kind = "number"
  /\ text.whole % 256 = other.whole % 256

\* Every subscriber of a leaf, whenever it came, shows the value the leaf
\* holds, and nothing of a leaf that holds none.  A 16 bit leaf holds its value
\* modulo 256 only, and subscribers may show the number itself.
SubscribersUpToDate ==
  \A leaf \in Leaves : \A s \in watching[leaf] :
    IF ~content[leaf].isSet THEN shown[s][leaf] \in {NothingYet, Blank}
    ELSE \/ shown[s][leaf] = Text(leaf, content[leaf].value)
         \/ /\ Element[leaf].type = "uint16"
            /\ SameModulo256(shown[s][leaf], Text(leaf, content[leaf].value))

\* The count of retained values is that of the leaves that have one, and one
\* more for every value that was ever removed: removeValue does not count it
\* off and the next assignment counts the leaf again.
RetainedCountDrifts ==
  retainedValues = (Cardinality({leaf \in Leaves : content[leaf].isSet}) + removals) % RetainedRange

=============================================================================
