------------------- MODULE NMEADataModelBridge_proofs -------------------
(***************************************************************************)
(* Proofs about the data model's leaves and the bridge that fills them     *)
(* from NMEA lines, for any leaves, sessions, subtrees and streams:        *)
(*                                                                         *)
(*   - what subscribers show is what the leaves hold (AlwaysUpToDate), and *)
(*     the count of retained values drifts by the removals (AlwaysDrifts); *)
(*     the inductive invariant is LeavesInv;                               *)
(*   - the lines that are handled are those the book of sentences allows   *)
(*     (AlwaysHandlesWellFormed): each field accepts its words if and only *)
(*     if they may be there (Readable), each message is accepted if and    *)
(*     only if all entries of the book are (AcceptedByBook);               *)
(*   - on each topic, what was said last is shown, by the book             *)
(*     (AlwaysShowsWhatWasSaid): what a field reads is shown within half a *)
(*     unit (ReadIsShown), each message is bridged to the leaves that the  *)
(*     book names (BridgedByBook); the inductive invariant is ToldInv;     *)
(*   - clients are subscribed to the topics they named (WalksByName): the  *)
(*     walk along the arrays of children comes to the leaves whose names,  *)
(*     built along the parents, begin with that of the node (WalkIsByName).*)
(***************************************************************************)
EXTENDS NMEADataModelBridge, FiniteSetTheorems, SequenceTheorems, TLAPS

-----------------------------------------------------------------------------
(* Leaves: what they hold, what was published, and how many hold something *)

\* Leaves whose values are published: any others never get one.
TextTypes ==
  {"tenths", "signedTenths", "hundredths", "shortHundredths", "bool", "uint16", "uint32", "string",
   "time"}

\* A result that a leaf can be given.
Fits(leaf, result) ==
  /\ leaf # Count
  /\ Element[leaf].type \in TextTypes
  /\ result.outcome \in {"sets", "removes", "keeps"}
  /\ result.outcome = "sets" /\ Element[leaf].type = "uint16" => result.value \in Nat

\* What a subscriber shows is right if the leaf holds this.
UpToDate(leaf, holds, text) ==
  IF ~holds.isSet THEN text \in {NothingYet, Blank}
  ELSE \/ text = Text(leaf, holds.value)
       \/ /\ Element[leaf].type = "uint16"
          /\ SameModulo256(text, Text(leaf, holds.value))

\* Subscriptions are counted once there are any.
CountReady == (\E leaf \in Leaves : watching[leaf] # {}) => content[Count].isSet

\* Nobody shows a topic it does not subscribe to.
Unseen == \A leaf \in Leaves : \A s \in Sessions \ watching[leaf] : shown[s][leaf] = NothingYet

LeavesInv ==
  /\ LeavesTypeOK
  /\ content = [leaf \in Leaves |-> content[leaf]]
  /\ SubscribersUpToDate /\ RetainedCountDrifts
  /\ CountReady /\ Unseen

\* The elements are those of the four parts, which have none in common.
LEMMA ElementsAre ==
  /\ DOMAIN Element = DOMAIN BrokerElements \cup DOMAIN SystemElements \cup DOMAIN GpsElements
                        \cup DOMAIN DepthElements
  /\ \A e \in DOMAIN BrokerElements : Element[e] = BrokerElements[e]
  /\ \A e \in DOMAIN SystemElements : Element[e] = SystemElements[e]
  /\ \A e \in DOMAIN GpsElements : Element[e] = GpsElements[e]
  /\ \A e \in DOMAIN DepthElements : Element[e] = DepthElements[e]
<1> DEFINE of(x) == CASE x \in DOMAIN BrokerElements -> BrokerElements[x]
                      [] x \in DOMAIN SystemElements -> SystemElements[x]
                      [] x \in DOMAIN GpsElements -> GpsElements[x]
                      [] OTHER -> DepthElements[x]
<1>1. /\ DOMAIN BrokerElements \cap DOMAIN SystemElements = {}
      /\ DOMAIN BrokerElements \cap DOMAIN GpsElements = {}
      /\ DOMAIN BrokerElements \cap DOMAIN DepthElements = {}
  BY DEF BrokerElements, SystemElements, GpsElements, DepthElements
<1>2. /\ DOMAIN SystemElements \cap DOMAIN GpsElements = {}
      /\ DOMAIN SystemElements \cap DOMAIN DepthElements = {}
      /\ DOMAIN GpsElements \cap DOMAIN DepthElements = {}
  BY DEF SystemElements, GpsElements, DepthElements
<1>3. /\ \A e \in DOMAIN BrokerElements : of(e) = BrokerElements[e]
      /\ \A e \in DOMAIN SystemElements : of(e) = SystemElements[e]
      /\ \A e \in DOMAIN GpsElements : of(e) = GpsElements[e]
      /\ \A e \in DOMAIN DepthElements : of(e) = DepthElements[e]
  BY <1>1, <1>2
<1>4. Element = [x \in DOMAIN BrokerElements \cup DOMAIN SystemElements \cup DOMAIN GpsElements
                       \cup DOMAIN DepthElements |-> of(x)]
  BY DEF Element
<1> HIDE DEF of
<1> QED BY <1>3, <1>4

\* The two leaves that the data model itself writes, the number of subscriptions
\* and that of retained values, are in the tree.
LEMMA CountIsLeaf ==
  /\ Count \in Leaves /\ "sysBrokerMessagesRetainedCount" \in Leaves
  /\ Element[Count].type = "uint32"
  /\ Element["sysBrokerMessagesRetainedCount"].type = "uint16"
<1>1. /\ Count \in DOMAIN BrokerElements /\ "sysBrokerMessagesRetainedCount" \in DOMAIN BrokerElements
      /\ BrokerElements[Count].type = "uint32"
      /\ BrokerElements["sysBrokerMessagesRetainedCount"].type = "uint16"
  BY DEF BrokerElements, Leaf, Count
<1> QED BY <1>1, ElementsAre, CountsAssumption DEF Count

\* The property, leaf by leaf and subscriber by subscriber.
LEMMA SubscribersAre ==
  SubscribersUpToDate <=>
    \A leaf \in Leaves : \A s \in watching[leaf] : UpToDate(leaf, content[leaf], shown[s][leaf])
BY DEF SubscribersUpToDate, UpToDate

\* What is published is never taken for nothing.
LEMMA TextIsSomething ==
  ASSUME NEW leaf, Element[leaf].type \in TextTypes, NEW value
  PROVE  Text(leaf, value) # NothingYet
<1>1. \A negative, whole, digits : Decimal(negative, whole, digits) # NothingYet
  BY DEF Decimal, NothingYet
<1>2. \A any : Name(any) # NothingYet
  BY DEF Name, NothingYet
<1>3. /\ \A longest : TenthsText(value, longest) # NothingYet
      /\ \A longest : HundredthsText(value, longest) # NothingYet
  BY <1>1, Zenon DEF TenthsText, HundredthsText, Fitting
<1>4. /\ BoolText(value) # NothingYet /\ IntegerText(value) # NothingYet
      /\ StringText(value) # NothingYet /\ StringText(TimeInLeaf(value)) # NothingYet
  BY <1>1, <1>2, Zenon DEF BoolText, IntegerText, StringText
<1> QED BY <1>3, <1>4 DEF Text, TextTypes

\* The first six of the first six digits are those: a time that was cut is not
\* cut any further.
LEMMA CutOnce == \A time : TimeInLeaf(TimeInLeaf(time)) = TimeInLeaf(time)
<1> SUFFICES ASSUME NEW time
             PROVE  TimeInLeaf(TimeInLeaf(time)) = TimeInLeaf(time)
  OBVIOUS
<1> DEFINE digits == FirstDigits(time.fraction, 6)
           cut == TimeInLeaf(time)
<1>1. cut = [time EXCEPT !.fraction = digits]
  BY DEF TimeInLeaf
<1>2. FirstDigits(digits, 6) = digits
  <2> DEFINE places == DOMAIN time.fraction \cap 1..6
  <2>1. digits = [i \in places |-> time.fraction[i]]
    BY DEF FirstDigits
  <2>2. FirstDigits(digits, 6) = [i \in DOMAIN digits \cap 1..6 |-> digits[i]]
    BY DEF FirstDigits
  <2>3. places \cap 1..6 = places
    OBVIOUS
  <2> HIDE DEF digits, places
  <2>4. DOMAIN digits = places /\ \A i \in places : digits[i] = time.fraction[i]
    BY <2>1
  <2>5. FirstDigits(digits, 6) = [i \in places |-> digits[i]]
    BY <2>2, <2>3, <2>4
  <2>6. [i \in places |-> digits[i]] = [i \in places |-> time.fraction[i]]
    BY <2>4
  <2> QED BY <2>1, <2>5, <2>6
<1>3. TimeInLeaf(cut) = [cut EXCEPT !.fraction = FirstDigits(cut.fraction, 6)]
  BY DEF TimeInLeaf
<1> HIDE DEF digits, cut
<1>4. CASE "fraction" \in DOMAIN time
  <2>1. cut.fraction = digits
    BY <1>1, <1>4
  <2>2. [cut EXCEPT !.fraction = digits] = cut
    BY <1>1, <1>4
  <2> QED BY <1>2, <1>3, <2>1, <2>2 DEF cut
<1>5. CASE "fraction" \notin DOMAIN time
  <2>1. DOMAIN cut = DOMAIN time
    BY <1>1
  <2>2. [cut EXCEPT !.fraction = FirstDigits(cut.fraction, 6)] = cut
    BY <1>1, <1>5, <2>1
  <2> QED BY <1>3, <2>2 DEF cut
<1> QED BY <1>4, <1>5

\* The text that is published with a value is that of what the leaf keeps of it,
\* even if the leaf keeps eight bits of sixteen, or a part of a time.
LEMMA TextOfMember ==
  ASSUME NEW leaf, Element[leaf].type \in TextTypes, NEW value,
         Element[leaf].type = "uint16" => value \in Nat
  PROVE  UpToDate(leaf, Holds(Member(leaf, value)), Text(leaf, value))
<1>1. CASE Element[leaf].type \notin {"uint16", "time"}
  BY <1>1 DEF UpToDate, Holds, Member
<1>3. CASE Element[leaf].type = "time"
  <2>1. Member(leaf, value) = TimeInLeaf(value)
    BY <1>3 DEF Member
  <2>2. /\ Text(leaf, value) = StringText(TimeInLeaf(value))
        /\ Text(leaf, TimeInLeaf(value)) = StringText(TimeInLeaf(TimeInLeaf(value)))
    BY <1>3 DEF Text
  <2>3. Text(leaf, Member(leaf, value)) = Text(leaf, value)
    BY <2>1, <2>2, CutOnce
  <2> QED BY <2>3 DEF UpToDate, Holds
<1>2. CASE Element[leaf].type = "uint16"
  <2>1. /\ value \in Nat /\ value % 256 \in Nat /\ (value % 256) % 256 = value % 256
    BY <1>2
  <2>2. \A n \in Nat : Text(leaf, n) = Decimal(FALSE, n, <<>>)
    <3>1. \A n \in Nat : Text(leaf, n) = IntegerText(n)
      BY <1>2 DEF Text
    <3>2. ASSUME NEW n \in Nat
          PROVE  IntegerText(n) = Decimal(FALSE, n, <<>>)
      <4>1. (n < 0) = FALSE /\ Magnitude(n) = n
        BY DEF Magnitude
      <4> QED BY <4>1 DEF IntegerText
    <3> QED BY <3>1, <3>2
  <2>3. SameModulo256(Decimal(FALSE, value, <<>>), Decimal(FALSE, value % 256, <<>>))
    BY <2>1 DEF SameModulo256, Decimal
  <2> QED BY <1>2, <2>1, <2>2, <2>3 DEF UpToDate, Holds, Member
<1> QED BY <1>1, <1>2, <1>3

\* A leaf that is given a result, with its subscribers: those that showed what it
\* held show what it then holds.
LEMMA BecomesUpToDate ==
  ASSUME NEW leaf \in Leaves, NEW result, Fits(leaf, result), NEW text,
         content[leaf].isSet \in BOOLEAN,
         UpToDate(leaf, content[leaf], text)
  PROVE  /\ Becomes(leaf, result).holds.isSet \in BOOLEAN
         /\ UpToDate(leaf, Becomes(leaf, result).holds,
                     IF Becomes(leaf, result).published # NothingYet
                     THEN Becomes(leaf, result).published ELSE text)
<1>1. CASE result.outcome = "sets"
  <2>1. CASE Changes(leaf, result.value)
    <3>1. Becomes(leaf, result) = [holds |-> Holds(Member(leaf, result.value)),
                                   published |-> Text(leaf, result.value)]
      BY <1>1, <2>1 DEF Becomes, Assigned
    <3>2. Text(leaf, result.value) # NothingYet
      BY TextIsSomething DEF Fits
    <3>3. UpToDate(leaf, Holds(Member(leaf, result.value)), Text(leaf, result.value))
      BY <1>1, TextOfMember DEF Fits
    <3>4. Holds(Member(leaf, result.value)).isSet \in BOOLEAN
      BY DEF Holds
    <3> QED BY <3>1, <3>2, <3>3, <3>4
  <2>2. CASE ~Changes(leaf, result.value)
    BY <1>1, <2>2 DEF Becomes, Assigned, Kept
  <2> QED BY <2>1, <2>2
<1>2. CASE result.outcome = "removes"
  <2>1. CASE content[leaf].isSet
    BY <1>2, <2>1 DEF Becomes, Removed, NoValue, Blank, NothingYet, UpToDate
  <2>2. CASE ~content[leaf].isSet
    BY <1>2, <2>2 DEF Becomes, Removed, Kept
  <2> QED BY <2>1, <2>2
<1>3. CASE result.outcome = "keeps"
  BY <1>3 DEF Becomes, Kept
<1> QED BY <1>1, <1>2, <1>3 DEF Fits

\* Elements of T and not S, and of S and not T.
LEMMA Counting ==
  ASSUME NEW S, IsFiniteSet(S), NEW T, IsFiniteSet(T)
  PROVE  /\ Cardinality(S) \in Nat /\ Cardinality(T) \in Nat
         /\ Cardinality(S \ T) \in Nat /\ Cardinality(T \ S) \in Nat
         /\ Cardinality(T) + Cardinality(S \ T) = Cardinality(S) + Cardinality(T \ S)
<1>1. /\ IsFiniteSet(S \ T) /\ IsFiniteSet(T \ S)
  BY FS_Subset
<1>2. /\ S \cup T = T \cup (S \ T) /\ T \cap (S \ T) = {}
      /\ S \cup T = S \cup (T \ S) /\ S \cap (T \ S) = {}
  OBVIOUS
<1>3. Cardinality(S \cup T) = Cardinality(T) + Cardinality(S \ T) - Cardinality({})
  BY <1>1, <1>2, FS_Union
<1>4. Cardinality(S \cup T) = Cardinality(S) + Cardinality(T \ S) - Cardinality({})
  BY <1>1, <1>2, FS_Union
<1>5. /\ Cardinality(S) \in Nat /\ Cardinality(T) \in Nat
      /\ Cardinality(S \ T) \in Nat /\ Cardinality(T \ S) \in Nat
  BY <1>1, FS_CardinalityType
<1> QED BY <1>3, <1>4, <1>5, FS_EmptySet

\* A count kept modulo its range.
LEMMA CountedOn ==
  ASSUME NEW a \in Nat, NEW b \in Nat, NEW c \in Nat, NEW d \in Nat, NEW r \in Nat,
         c + d = a + b
  PROVE  /\ (((a + r) % RetainedRange) + b) % RetainedRange = (c + (r + d)) % RetainedRange
         /\ (((a + r) % RetainedRange) + b) % RetainedRange \in 0..(RetainedRange - 1)
         /\ r + d \in Nat
<1>1. \A m, n \in Nat : ((m % RetainedRange) + n) % RetainedRange = (m + n) % RetainedRange
  BY DEF RetainedRange
<1>2. \A m \in Nat : m % RetainedRange \in 0..(RetainedRange - 1)
  BY DEF RetainedRange
<1>3. (((a + r) % RetainedRange) + b) % RetainedRange = ((a + r) + b) % RetainedRange
  BY <1>1
<1>4. (a + r) + b = c + (r + d) /\ (a + r) + b \in Nat
  OBVIOUS
<1>5. ((a + r) + b) % RetainedRange \in 0..(RetainedRange - 1)
  BY <1>2, <1>4
<1> QED BY <1>3, <1>4, <1>5

\* updated() counts the leaves that gain a value, so the count drifts by those
\* that lost one.
LEMMA Drifts ==
  ASSUME LeavesTypeOK, RetainedCountDrifts, NEW now
  PROVE  /\ Updated(now) \in 0..(RetainedRange - 1)
         /\ removals + Cardinality(Lose(now)) \in Nat
         /\ Updated(now) = (Cardinality({leaf \in Leaves : now[leaf].isSet})
                            + (removals + Cardinality(Lose(now)))) % RetainedRange
<1> DEFINE S == {leaf \in Leaves : content[leaf].isSet}
           T == {leaf \in Leaves : now[leaf].isSet}
<1>1. Gain(now) = T \ S /\ Lose(now) = S \ T
  BY DEF Gain, Lose
<1>2. IsFiniteSet(S) /\ IsFiniteSet(T)
  BY LeavesAssumption, FS_Subset
<1>3. retainedValues = (Cardinality(S) + removals) % RetainedRange
  BY DEF RetainedCountDrifts
<1>4. removals \in Nat
  BY DEF LeavesTypeOK
<1> HIDE DEF S, T
<1>5. Updated(now) = (retainedValues + Cardinality(T \ S)) % RetainedRange
  BY <1>1 DEF Updated
<1>6. /\ Cardinality(S) \in Nat /\ Cardinality(T) \in Nat
      /\ Cardinality(S \ T) \in Nat /\ Cardinality(T \ S) \in Nat
      /\ Cardinality(T) + Cardinality(S \ T) = Cardinality(S) + Cardinality(T \ S)
  BY <1>2, Counting
<1>7. Updated(now) = (((Cardinality(S) + removals) % RetainedRange) + Cardinality(T \ S))
                     % RetainedRange
  BY <1>3, <1>5
<1>8. /\ Updated(now) = (Cardinality(T) + (removals + Cardinality(S \ T))) % RetainedRange
      /\ Updated(now) \in 0..(RetainedRange - 1)
      /\ removals + Cardinality(S \ T) \in Nat
  <2> DEFINE a == Cardinality(S)
             b == Cardinality(T \ S)
             c == Cardinality(T)
             d == Cardinality(S \ T)
  <2>1. a \in Nat /\ b \in Nat /\ c \in Nat /\ d \in Nat /\ c + d = a + b
    BY <1>6
  <2>2. Updated(now) = (((a + removals) % RetainedRange) + b) % RetainedRange
    BY <1>7
  <2> HIDE DEF a, b, c, d
  <2>3. /\ (((a + removals) % RetainedRange) + b) % RetainedRange
           = (c + (removals + d)) % RetainedRange
        /\ (((a + removals) % RetainedRange) + b) % RetainedRange \in 0..(RetainedRange - 1)
        /\ removals + d \in Nat
    BY <1>4, <2>1, CountedOn
  <2>4. /\ Updated(now) = (c + (removals + d)) % RetainedRange
        /\ Updated(now) \in 0..(RetainedRange - 1)
        /\ removals + d \in Nat
    BY <2>2, <2>3, Zenon
  <2> QED BY <2>4, Zenon DEF c, d
<1> QED BY <1>1, <1>8, Zenon DEF T

\* A step that counts by updated() keeps the count off by the removals.
LEMMA DriftKept ==
  ASSUME LeavesTypeOK, RetainedCountDrifts, NEW now,
         content' = now, retainedValues' = Updated(now),
         removals' = removals + Cardinality(Lose(now))
  PROVE  RetainedCountDrifts' /\ retainedValues' \in 0..(RetainedRange - 1) /\ removals' \in Nat
<1>1. retainedValues' \in 0..(RetainedRange - 1)
  BY Drifts, Zenon
<1>2. removals' \in Nat
  BY Drifts, Zenon
<1>3. RetainedCountDrifts'
  BY Drifts, Zenon DEF RetainedCountDrifts
<1> QED BY <1>1, <1>2, <1>3, Zenon

\* Leaves that are given what fits them.
LEMMA PublishKeeps ==
  ASSUME LeavesInv, NEW results,
         \A leaf \in Leaves : leaf \in DOMAIN results => Fits(leaf, results[leaf]),
         Publish(results)
  PROVE  LeavesInv'
<1> DEFINE becomes == [leaf \in Leaves |->
                         IF leaf \in DOMAIN results THEN Becomes(leaf, results[leaf]) ELSE Kept(leaf)]
           now == [leaf \in Leaves |-> becomes[leaf].holds]
           text(s, leaf) == IF becomes[leaf].published # NothingYet
                            THEN becomes[leaf].published ELSE shown[s][leaf]
<1>1. /\ content' = now
      /\ retainedValues' = Updated(now)
      /\ removals' = removals + Cardinality(Lose(now))
      /\ shown' = [s \in Sessions |-> [leaf \in Leaves |->
           IF s \in watching[leaf] THEN text(s, leaf) ELSE shown[s][leaf]]]
      /\ watching' = watching
  BY DEF Publish
<1>2. /\ \A leaf \in Leaves : content[leaf].isSet \in BOOLEAN
      /\ watching \in [Leaves -> SUBSET Sessions]
  BY DEF LeavesInv, LeavesTypeOK
<1>3. ASSUME NEW leaf \in Leaves
      PROVE  /\ becomes[leaf].holds.isSet \in BOOLEAN
             /\ \A s \in watching[leaf] : UpToDate(leaf, becomes[leaf].holds, text(s, leaf))
             /\ leaf = Count => becomes[leaf].holds = content[leaf]
  <2>1. \A s \in watching[leaf] : UpToDate(leaf, content[leaf], shown[s][leaf])
    BY SubscribersAre DEF LeavesInv
  <2>2. CASE leaf \in DOMAIN results
    <3>1. becomes[leaf] = Becomes(leaf, results[leaf]) /\ Fits(leaf, results[leaf]) /\ leaf # Count
      BY <2>2 DEF Fits
    <3>2. Becomes(leaf, results[leaf]).holds.isSet \in BOOLEAN
      <4> DEFINE blank == IF content[leaf].isSet THEN Text(leaf, content[leaf].value) ELSE Blank
      <4>1. UpToDate(leaf, content[leaf], blank)
        BY DEF UpToDate
      <4> HIDE DEF blank
      <4> QED BY <1>2, <3>1, <4>1, BecomesUpToDate
    <3>3. ASSUME NEW s \in watching[leaf]
          PROVE  UpToDate(leaf, becomes[leaf].holds, text(s, leaf))
      <4>1. UpToDate(leaf, content[leaf], shown[s][leaf])
        BY <2>1
      <4> HIDE DEF becomes
      <4> QED BY <1>2, <3>1, <4>1, BecomesUpToDate
    <3> HIDE DEF becomes, text
    <3> QED BY <3>1, <3>2, <3>3
  <2>3. CASE leaf \notin DOMAIN results
    <3>1. becomes[leaf].holds = content[leaf] /\ becomes[leaf].published = NothingYet
      BY <2>3 DEF Kept
    <3> HIDE DEF becomes
    <3> QED BY <1>2, <2>1, <3>1
  <2> QED BY <2>2, <2>3
<1> HIDE DEF becomes
<1>4. /\ \A leaf \in Leaves : now[leaf] = becomes[leaf].holds /\ now[leaf].isSet \in BOOLEAN
      /\ DOMAIN now = Leaves /\ now = [leaf \in Leaves |-> now[leaf]]
  BY <1>3
<1>10. \A leaf \in Leaves : now[leaf].isSet \in BOOLEAN
  BY <1>4
<1> HIDE DEF now, text
<1>5. RetainedCountDrifts' /\ retainedValues' \in 0..(RetainedRange - 1) /\ removals' \in Nat
  <2>1. LeavesTypeOK /\ RetainedCountDrifts
    BY DEF LeavesInv
  <2> QED BY <1>1, <1>10, <2>1, DriftKept, Zenon
<1>6. LeavesTypeOK' /\ (content = [leaf \in Leaves |-> content[leaf]])'
  <2>1. content' = [leaf \in Leaves |-> content'[leaf]] /\ DOMAIN content' = Leaves
    BY <1>1, <1>4
  <2>2. \A leaf \in Leaves : content'[leaf].isSet \in BOOLEAN
    BY <1>1, <1>10
  <2>3. watching' \in [Leaves -> SUBSET Sessions]
    BY <1>1, <1>2
  <2>4. LeavesTypeOK'
    BY <1>5, <2>1, <2>2, <2>3 DEF LeavesTypeOK
  <2> QED BY <2>1, <2>4
<1>7. SubscribersUpToDate'
  <2>1. ASSUME NEW leaf \in Leaves, NEW s \in watching[leaf]
        PROVE  UpToDate(leaf, now[leaf], shown'[s][leaf])
    <3>1. s \in Sessions
      BY <1>2
    <3>2. shown'[s][leaf] = text(s, leaf)
      BY <1>1, <3>1
    <3> QED BY <1>3, <1>4, <3>2
  <2>2. content' = now /\ watching' = watching
    BY <1>1
  <2> QED BY <2>1, <2>2 DEF UpToDate, SubscribersUpToDate
<1>8. CountReady'
  BY <1>1, <1>3, <1>4, CountIsLeaf DEF LeavesInv, CountReady
<1>9. Unseen'
  BY <1>1, <1>2 DEF LeavesInv, Unseen
<1> QED BY <1>5, <1>6, <1>7, <1>8, <1>9 DEF LeavesInv

\* DataModel::exportStats
LEMMA ExportKeeps ==
  ASSUME LeavesInv, ExportStats
  PROVE  LeavesInv'
<1> DEFINE results == [leaf \in {"sysBrokerMessagesRetainedCount"} |->
                         [outcome |-> "sets", value |-> retainedValues]]
<1>1. Publish(results)
  BY DEF ExportStats
<1>2. retainedValues \in Nat
  <2>1. retainedValues \in 0..(RetainedRange - 1)
    BY DEF LeavesInv, LeavesTypeOK
  <2>2. \A n \in 0..(RetainedRange - 1) : n \in Nat
    BY DEF RetainedRange
  <2> QED BY <2>1, <2>2
<1>3. ASSUME NEW leaf \in Leaves, leaf \in DOMAIN results
      PROVE  Fits(leaf, results[leaf])
  BY <1>2, <1>3, CountIsLeaf DEF Fits, Count, TextTypes
<1> HIDE DEF results
<1> QED BY <1>1, <1>3, PublishKeeps

\* Counting subscriptions changes only the leaf that shows their number, and only
\* if there is something to count.
LEMMA CountedIs ==
  ASSUME LeavesInv, NEW by \in Int
  PROVE  /\ DOMAIN Counted(by) = Leaves /\ Counted(by) = [leaf \in Leaves |-> Counted(by)[leaf]]
         /\ \A leaf \in Leaves : Counted(by)[leaf].isSet \in BOOLEAN
         /\ \A leaf \in Leaves \ {Count} : Counted(by)[leaf] = content[leaf]
         /\ by # 0 => Counted(by)[Count].isSet
         /\ by = 0 => Counted(by) = content
         /\ content[Count].isSet => Counted(by)[Count].isSet
<1>1. /\ content = [leaf \in Leaves |-> content[leaf]] /\ DOMAIN content = Leaves
      /\ \A leaf \in Leaves : content[leaf].isSet \in BOOLEAN
  BY DEF LeavesInv, LeavesTypeOK
<1>2. CASE by = 0
  BY <1>1, <1>2 DEF Counted
<1>3. CASE by # 0
  <2> DEFINE value == Holds(IF content[Count].isSet THEN content[Count].value + by ELSE by)
  <2>1. Counted(by) = [content EXCEPT ![Count] = value]
    BY <1>3 DEF Counted
  <2>2. value.isSet = TRUE
    BY DEF Holds
  <2> HIDE DEF value
  <2> QED BY <1>1, <1>3, <2>1, <2>2, CountIsLeaf
<1> QED BY <1>2, <1>3

\* There is nothing to count if there are no leaves.
LEMMA NoneCounted ==
  ASSUME NEW leaves, IsFiniteSet(leaves)
  PROVE  /\ Cardinality(leaves) \in Int /\ -Cardinality(leaves) \in Int
         /\ Cardinality(leaves) = 0 <=> leaves = {}
         /\ -Cardinality(leaves) = 0 <=> leaves = {}
<1>1. Cardinality(leaves) \in Nat /\ (Cardinality(leaves) = 0 <=> leaves = {})
  BY FS_CardinalityType, FS_EmptySet
<1> QED BY <1>1

\* DataModelRetainedValueLeaf::subscribe on some leaves
LEMMA SubscribeKeeps ==
  ASSUME LeavesInv, NEW s \in Sessions, NEW leaves \in SUBSET Leaves, SubscribeTo(s, leaves)
  PROVE  LeavesInv'
<1> DEFINE new == {leaf \in leaves : s \notin watching[leaf]}
           now == Counted(Cardinality(new))
           watchingNow == [leaf \in Leaves |->
                             IF leaf \in leaves THEN watching[leaf] \cup {s} ELSE watching[leaf]]
           IsSentCount(t) == new # {} /\ t \in watchingNow[Count]
           IsSentRetained(t, leaf) == t = s /\ leaf \in leaves /\ now[leaf].isSet
           shownNow == [t \in Sessions |-> [leaf \in Leaves |->
                          IF (leaf = Count /\ IsSentCount(t)) \/ IsSentRetained(t, leaf)
                          THEN Text(leaf, now[leaf].value) ELSE shown[t][leaf]]]
<1>1. /\ watching' = watchingNow
      /\ content' = now
      /\ retainedValues' = Updated(now)
      /\ shown' = shownNow
      /\ removals' = removals
  BY DEF SubscribeTo
<1>2. /\ LeavesTypeOK /\ RetainedCountDrifts /\ Unseen /\ CountReady
      /\ watching \in [Leaves -> SUBSET Sessions]
      /\ removals \in Nat /\ Count \in Leaves
      /\ \A leaf \in Leaves : \A t \in watching[leaf] : UpToDate(leaf, content[leaf], shown[t][leaf])
  BY CountIsLeaf, SubscribersAre DEF LeavesInv, LeavesTypeOK
<1>3. IsFiniteSet(new)
  BY LeavesAssumption, FS_Subset
<1>4. /\ Cardinality(new) \in Int /\ (Cardinality(new) = 0 <=> new = {})
  BY <1>3, NoneCounted
<1> HIDE DEF now
<1>5. /\ DOMAIN now = Leaves /\ now = [leaf \in Leaves |-> now[leaf]]
      /\ \A leaf \in Leaves : now[leaf].isSet \in BOOLEAN
      /\ \A leaf \in Leaves \ {Count} : now[leaf] = content[leaf]
      /\ new # {} => now[Count].isSet
      /\ new = {} => now = content
      /\ content[Count].isSet => now[Count].isSet
  BY <1>4, CountedIs DEF now
<1>6. RetainedCountDrifts' /\ retainedValues' \in 0..(RetainedRange - 1) /\ removals' \in Nat
  <2>1. Lose(now) = {}
    BY <1>5 DEF Lose
  <2>2. removals' = removals + Cardinality(Lose(now))
    BY <1>1, <1>2, <2>1, FS_EmptySet
  <2> QED BY <1>1, <1>2, <2>2, DriftKept, Zenon
<1>7. watchingNow \in [Leaves -> SUBSET Sessions]
  BY <1>2
<1>8. ASSUME NEW leaf \in Leaves, NEW t \in watchingNow[leaf]
      PROVE  UpToDate(leaf, now[leaf], shownNow[t][leaf])
  <2>1. t \in Sessions
    BY <1>7
  <2>2. shownNow[t][leaf] = IF (leaf = Count /\ IsSentCount(t)) \/ IsSentRetained(t, leaf)
                            THEN Text(leaf, now[leaf].value) ELSE shown[t][leaf]
    BY <2>1
  <2>3. CASE (leaf = Count /\ IsSentCount(t)) \/ IsSentRetained(t, leaf)
    <3>1. now[leaf].isSet /\ shownNow[t][leaf] = Text(leaf, now[leaf].value)
      BY <1>5, <2>2, <2>3
    <3> HIDE DEF shownNow
    <3> QED BY <3>1 DEF UpToDate
  <2>4. CASE ~((leaf = Count /\ IsSentCount(t)) \/ IsSentRetained(t, leaf))
    <3>1. now[leaf] = content[leaf]
      BY <1>5, <2>4
    <3>2. shownNow[t][leaf] = shown[t][leaf]
      BY <2>2, <2>4
    <3>3. CASE t \in watching[leaf]
      <4> HIDE DEF shownNow
      <4> QED BY <1>2, <3>1, <3>2, <3>3
    <3>4. CASE t \notin watching[leaf]
      <4>1. t = s /\ leaf \in leaves
        BY <3>4
      <4>2. ~now[leaf].isSet
        BY <2>4, <4>1
      <4>3. shown[t][leaf] = NothingYet
        BY <1>2, <2>1, <3>4 DEF Unseen
      <4> HIDE DEF shownNow
      <4> QED BY <3>2, <4>2, <4>3 DEF UpToDate
    <3> QED BY <3>3, <3>4
  <2> QED BY <2>3, <2>4
<1>9. ASSUME NEW leaf \in Leaves, NEW t \in Sessions \ watchingNow[leaf]
      PROVE  shownNow[t][leaf] = NothingYet
  <2>1. t \notin watching[leaf] /\ ~(t = s /\ leaf \in leaves)
    BY <1>2
  <2>2. shown[t][leaf] = NothingYet
    BY <1>2, <2>1 DEF Unseen
  <2>3. ~(leaf = Count /\ IsSentCount(t)) /\ ~IsSentRetained(t, leaf)
    BY <2>1
  <2> QED BY <2>2, <2>3
<1>10. (\E leaf \in Leaves : watchingNow[leaf] # {}) => now[Count].isSet
  <2>1. CASE new # {}
    BY <1>5, <2>1
  <2>2. CASE new = {}
    <3>1. watchingNow = watching
      BY <1>2, <2>2
    <3> HIDE DEF watchingNow
    <3> QED BY <1>2, <1>5, <2>2, <3>1 DEF CountReady
  <2> QED BY <2>1, <2>2
<1> HIDE DEF watchingNow, shownNow, new
<1>11. LeavesTypeOK'
  BY <1>1, <1>5, <1>6, <1>7, Zenon DEF LeavesTypeOK
<1>12. (content = [leaf \in Leaves |-> content[leaf]])'
  BY <1>1, <1>5
<1>13. SubscribersUpToDate'
  BY <1>1, <1>8 DEF SubscribersUpToDate, UpToDate
<1>14. CountReady' /\ Unseen'
  BY <1>1, <1>9, <1>10 DEF CountReady, Unseen
<1> QED BY <1>6, <1>11, <1>12, <1>13, <1>14 DEF LeavesInv

\* DataModelLeaf::unsubscribe on some leaves
LEMMA UnsubscribeKeeps ==
  ASSUME LeavesInv, NEW s \in Sessions, NEW leaves \in SUBSET Leaves, UnsubscribeFrom(s, leaves)
  PROVE  LeavesInv'
<1> DEFINE old == {leaf \in leaves : s \in watching[leaf]}
           now == Counted(-Cardinality(old))
           watchingNow == [leaf \in Leaves |->
                             IF leaf \in old THEN watching[leaf] \ {s} ELSE watching[leaf]]
           shownNow == [t \in Sessions |-> [leaf \in Leaves |->
                          IF t = s /\ leaf \in old THEN NothingYet
                          ELSE IF leaf = Count /\ old # {} /\ t \in watching[leaf]
                          THEN Text(leaf, now[leaf].value) ELSE shown[t][leaf]]]
<1>1. /\ watching' = watchingNow
      /\ content' = now
      /\ retainedValues' = retainedValues
      /\ shown' = shownNow
      /\ removals' = removals
  BY DEF UnsubscribeFrom
<1>2. /\ LeavesTypeOK /\ RetainedCountDrifts /\ Unseen /\ CountReady
      /\ watching \in [Leaves -> SUBSET Sessions]
      /\ Count \in Leaves
      /\ \A leaf \in Leaves : \A t \in watching[leaf] : UpToDate(leaf, content[leaf], shown[t][leaf])
  BY CountIsLeaf, SubscribersAre DEF LeavesInv, LeavesTypeOK
<1>3. IsFiniteSet(old)
  BY LeavesAssumption, FS_Subset
<1>4. /\ -Cardinality(old) \in Int /\ (-Cardinality(old) = 0 <=> old = {})
  BY <1>3, NoneCounted
<1>5. old # {} => content[Count].isSet
  BY <1>2 DEF CountReady
<1> HIDE DEF now
<1>6. /\ DOMAIN now = Leaves /\ now = [leaf \in Leaves |-> now[leaf]]
      /\ \A leaf \in Leaves : now[leaf].isSet \in BOOLEAN
      /\ \A leaf \in Leaves \ {Count} : now[leaf] = content[leaf]
      /\ old # {} => now[Count].isSet
      /\ old = {} => now = content
      /\ content[Count].isSet => now[Count].isSet
  BY <1>4, CountedIs DEF now
<1>7. \A leaf \in Leaves : now[leaf].isSet = content[leaf].isSet
  <2>1. \A leaf \in Leaves : content[leaf].isSet \in BOOLEAN
    BY <1>2 DEF LeavesTypeOK
  <2> QED BY <1>5, <1>6, <2>1
<1>8. RetainedCountDrifts'
  <2>1. {leaf \in Leaves : now[leaf].isSet} = {leaf \in Leaves : content[leaf].isSet}
    BY <1>7
  <2> QED BY <1>1, <1>2, <2>1, Zenon DEF RetainedCountDrifts
<1>9. watchingNow \in [Leaves -> SUBSET Sessions]
  BY <1>2
<1>10. ASSUME NEW leaf \in Leaves, NEW t \in watchingNow[leaf]
       PROVE  UpToDate(leaf, now[leaf], shownNow[t][leaf])
  <2>1. t \in Sessions /\ t \in watching[leaf] /\ ~(t = s /\ leaf \in old)
    BY <1>2, <1>9
  <2>2. shownNow[t][leaf] = IF leaf = Count /\ old # {}
                            THEN Text(leaf, now[leaf].value) ELSE shown[t][leaf]
    BY <2>1
  <2> HIDE DEF shownNow, watchingNow, old
  <2>3. CASE leaf = Count /\ old # {}
    BY <1>6, <2>2, <2>3 DEF UpToDate
  <2>4. CASE ~(leaf = Count /\ old # {})
    <3>1. now[leaf] = content[leaf]
      BY <1>6, <2>4
    <3> QED BY <1>2, <2>1, <2>2, <2>4, <3>1
  <2> QED BY <2>3, <2>4
<1>11. ASSUME NEW leaf \in Leaves, NEW t \in Sessions \ watchingNow[leaf]
       PROVE  shownNow[t][leaf] = NothingYet
  <2>1. CASE t = s /\ leaf \in old
    BY <2>1
  <2>2. CASE ~(t = s /\ leaf \in old)
    <3>1. t \notin watching[leaf]
      BY <1>2, <2>2
    <3>2. shown[t][leaf] = NothingYet
      BY <1>2, <3>1 DEF Unseen
    <3> QED BY <2>2, <3>1, <3>2
  <2> QED BY <2>1, <2>2
<1>12. (\E leaf \in Leaves : watchingNow[leaf] # {}) => now[Count].isSet
  <2>1. ASSUME NEW leaf \in Leaves, watchingNow[leaf] # {}
        PROVE  watching[leaf] # {}
    BY <1>2, <2>1
  <2> HIDE DEF watchingNow
  <2> QED BY <1>2, <1>6, <2>1 DEF CountReady
<1> HIDE DEF watchingNow, shownNow, old
<1>13. LeavesTypeOK'
  BY <1>1, <1>2, <1>6, <1>9, Zenon DEF LeavesTypeOK
<1>14. (content = [leaf \in Leaves |-> content[leaf]])'
  BY <1>1, <1>6
<1>15. SubscribersUpToDate'
  BY <1>1, <1>10 DEF SubscribersUpToDate, UpToDate
<1>16. CountReady' /\ Unseen'
  BY <1>1, <1>11, <1>12 DEF CountReady, Unseen
<1> QED BY <1>8, <1>13, <1>14, <1>15, <1>16 DEF LeavesInv

-----------------------------------------------------------------------------
(* What is bridged fits the leaves *)

\* What may be done with a leaf.
IsResult(result) == result.outcome \in {"sets", "removes", "keeps"}

ShortLeaves == {"gpsNumberSatellites", "gpsDifferentialReferenceStation"}

\* Leaves of the GPS and of the depths are text or numbers; two have sixteen bits.
LEMMA TypesOfElements ==
  /\ \A e \in DOMAIN GpsElements :
       /\ GpsElements[e].type \in TextTypes \cup {"node"}
       /\ GpsElements[e].type = "uint16" => e \in ShortLeaves
  /\ \A e \in DOMAIN DepthElements :
       /\ DepthElements[e].type \in TextTypes \cup {"node"}
       /\ DepthElements[e].type # "uint16"
<1>1. ASSUME NEW e \in DOMAIN GpsElements
      PROVE  /\ GpsElements[e].type \in TextTypes \cup {"node"}
             /\ GpsElements[e].type = "uint16" => e \in ShortLeaves
  BY DEF GpsElements, Leaf, Node, TextTypes, ShortLeaves
<1>2. ASSUME NEW e \in DOMAIN DepthElements
      PROVE  /\ DepthElements[e].type \in TextTypes \cup {"node"}
             /\ DepthElements[e].type # "uint16"
  BY DEF DepthElements, Leaf, Node, TextTypes
<1> QED BY <1>1, <1>2

\* Any result fits a leaf that the bridge fills.
LEMMA BridgedLeaf ==
  ASSUME NEW leaf \in Leaves, leaf \in DOMAIN GpsElements \cup DOMAIN DepthElements,
         NEW result, IsResult(result),
         leaf \in ShortLeaves /\ result.outcome = "sets" => result.value \in Nat
  PROVE  Fits(leaf, result)
<1>1. leaf # Count
  BY DEF Count, GpsElements, DepthElements
<1>2. Element[leaf].type # "node"
  BY LeavesAssumption DEF LeafTopics
<1>3. CASE leaf \in DOMAIN GpsElements
  BY <1>1, <1>2, <1>3, ElementsAre, TypesOfElements DEF Fits, IsResult
<1>4. CASE leaf \in DOMAIN DepthElements
  BY <1>1, <1>2, <1>4, ElementsAre, TypesOfElements DEF Fits, IsResult
<1> QED BY <1>3, <1>4

\* What a field may make of a word: nothing, or what may be done with a leaf.
IsFieldResult(result) == result # Rejected => IsResult(result)

\* The shapes of what fields make of words.
LEMMA OutcomesAre ==
  /\ \A condition, value : IsFieldResult(AcceptedIf(condition, value))
  /\ \A value : IsFieldResult(Sets(value)) /\ IsResult(Sets(value))
  /\ \A optional : IsFieldResult(NothingIfOptional(optional))
  /\ IsFieldResult(Removes) /\ IsFieldResult(Keeps) /\ IsFieldResult(Rejected)
BY DEF IsFieldResult, IsResult, AcceptedIf, NothingIfOptional, Sets, Removes, Keeps, Rejected

\* Each field gives a result or rejects.
LEMMA FieldResults ==
  ASSUME NEW w, NEW side, NEW optional
  PROVE  /\ IsFieldResult(TenthsUInt16(w, optional))
         /\ IsFieldResult(TenthsInt16(w, optional))
         /\ IsFieldResult(HundredthsUInt8(w)) /\ IsFieldResult(HundredthsUInt16(w))
         /\ \A highest : IsFieldResult(UInt16(w, optional, highest))
         /\ IsFieldResult(Time(w)) /\ IsFieldResult(Date(w))
         /\ IsFieldResult(Latitude(w, side)) /\ IsFieldResult(Longitude(w, side))
         /\ IsFieldResult(MagneticVariation(w, side))
         /\ IsFieldResult(GPSQuality(w)) /\ IsFieldResult(GPSFixMode(w))
         /\ IsFieldResult(DataValid(w)) /\ IsFieldResult(FAAModeIndicator(w))
         /\ IsFieldResult(SatelliteIDs(w))
<1>1. IsFieldResult(TenthsUInt16(w, optional))
  BY DEF TenthsUInt16, AcceptedIf, NothingIfOptional, IsFieldResult, IsResult, Sets, Removes,
         Rejected
<1>2. IsFieldResult(TenthsInt16(w, optional))
  BY DEF TenthsInt16, AcceptedIf, NothingIfOptional, IsFieldResult, IsResult, Sets, Removes,
         Rejected
<1>3. IsFieldResult(HundredthsUInt8(w)) /\ IsFieldResult(HundredthsUInt16(w))
  BY OutcomesAre DEF HundredthsUInt8, HundredthsUInt16
<1>4. \A highest : IsFieldResult(UInt16(w, optional, highest))
  BY OutcomesAre, Zenon DEF UInt16
<1>5. IsFieldResult(Time(w))
  BY OutcomesAre DEF Time
<1>6. IsFieldResult(Date(w))
  <2>1. CASE w = Missing
    BY <2>1, OutcomesAre DEF Date
  <2>2. CASE w = Empty /\ w # Missing
    BY <2>2, OutcomesAre DEF Date
  <2>3. CASE w # Empty /\ w # Missing
    BY <2>3, OutcomesAre DEF Date
  <2> QED BY <2>1, <2>2, <2>3
<1>7. IsFieldResult(Latitude(w, side)) /\ IsFieldResult(Longitude(w, side))
  BY OutcomesAre DEF Latitude, Longitude
<1>8. IsFieldResult(MagneticVariation(w, side))
  <2>1. CASE w = Missing \/ side = Missing
    BY <2>1, OutcomesAre DEF MagneticVariation
  <2>2. CASE w # Missing /\ side # Missing /\ Empty \in {w, side}
    BY <2>2, OutcomesAre DEF MagneticVariation
  <2>3. CASE w # Missing /\ side # Missing /\ Empty \notin {w, side}
    BY <2>3, OutcomesAre DEF MagneticVariation
  <2> QED BY <2>1, <2>2, <2>3
<1>9. IsFieldResult(GPSQuality(w)) /\ IsFieldResult(GPSFixMode(w)) /\ IsFieldResult(DataValid(w))
  BY OutcomesAre DEF GPSQuality, GPSFixMode, DataValid
<1>10. IsFieldResult(FAAModeIndicator(w))
  <2>1. CASE w \in Absent
    <3>1. w.kind # "letter"
      BY <2>1 DEF Absent, Missing, Empty
    <3> QED BY <2>1, <3>1, OutcomesAre DEF FAAModeIndicator
  <2>2. CASE w \notin Absent /\ w.kind = "letter"
    BY <2>2, OutcomesAre DEF FAAModeIndicator
  <2>3. CASE w \notin Absent /\ w.kind # "letter"
    BY <2>3, OutcomesAre DEF FAAModeIndicator
  <2> QED BY <2>1, <2>2, <2>3
<1>11. IsFieldResult(SatelliteIDs(w))
  <2> DEFINE words == [i \in 1..12 |-> w[i + 2]]
             ids == [k \in DOMAIN Present(words) |-> Present(words)[k].whole]
             allRead == \A i \in 1..12 : UInt16(words[i], TRUE, 65535) # Rejected
  <2>1. SatelliteIDs(w) = AcceptedIf(allRead, ids)
    BY DEF SatelliteIDs
  <2>2. SatelliteIDs(w) = IF allRead THEN Sets(ids) ELSE Rejected
    BY <2>1 DEF AcceptedIf
  <2> HIDE DEF words, ids, allRead
  <2> QED BY <2>2, OutcomesAre
<1> QED
  BY <1>1, <1>2, <1>3, <1>4, <1>5, <1>6, <1>7, <1>8, <1>9, <1>10, <1>11

-----------------------------------------------------------------------------
AnyWord == Words \cup {Missing}

\* Only a number can be the value of a whole number.
LEMMA WholeIsNatural ==
  ASSUME NEW w \in AnyWord, NEW optional, NEW highest,
         UInt16(w, optional, highest).outcome = "sets"
  PROVE  UInt16(w, optional, highest).value \in Nat
<1>1. w.kind = "number" => w.whole \in Nat
  BY DEF AnyWord, Words, Missing, Empty, Garbled
<1>2. w \notin Absent
  <2>1. NothingIfOptional(optional).outcome # "sets"
    BY DEF NothingIfOptional, Removes, Rejected
  <2> QED BY <2>1, Zenon DEF UInt16
<1>3. UInt16(w, optional, highest) = AcceptedIf(NoDecimals(w) /\ IsUnsigned(w, highest), w.whole)
  BY <1>2, Zenon DEF UInt16
<1>4. w.kind = "number" /\ UInt16(w, optional, highest) = Sets(w.whole)
  BY <1>3 DEF AcceptedIf, IsUnsigned, Rejected
<1> QED BY <1>1, <1>4 DEF Sets

\* Results that leaves can be given, the 16 bit ones natural numbers.
CanBeBridged(results) ==
  /\ DOMAIN results \subseteq DOMAIN GpsElements \cup DOMAIN DepthElements
  /\ \A leaf \in DOMAIN results : IsResult(results[leaf])
  /\ \A leaf \in ShortLeaves \cap DOMAIN results :
       results[leaf].outcome = "sets" => results[leaf].value \in Nat

\* What can be bridged fits.
LEMMA AllFit ==
  ASSUME NEW results, CanBeBridged(results)
  PROVE  \A leaf \in Leaves : leaf \in DOMAIN results => Fits(leaf, results[leaf])
BY BridgedLeaf DEF CanBeBridged

\* An accepted message is bridged to leaves that can be given it: DBK, DBS, DBT
LEMMA DepthsBridged ==
  ASSUME NEW w, Accepted(DBK(w))
  PROVE  /\ CanBeBridged(bridgeNMEADBKMessage(DBK(w)))
         /\ CanBeBridged(bridgeNMEADBSMessage(DBK(w)))
         /\ CanBeBridged(bridgeNMEADBTMessage(DBK(w)))
<1> DEFINE f == DBK(w)
<1>1. /\ f.depthFeet # Rejected /\ f.depthMeters # Rejected /\ f.depthFathoms # Rejected
  BY DEF Accepted, DBK
<1>2. /\ f.depthFeet = TenthsUInt16(w[1], TRUE)
      /\ f.depthMeters = TenthsUInt16(w[3], TRUE)
      /\ f.depthFathoms = TenthsUInt16(w[5], TRUE)
  BY DEF DBK
<1> HIDE DEF f
<1>3. IsResult(f.depthFeet) /\ IsResult(f.depthMeters) /\ IsResult(f.depthFathoms)
  BY <1>1, <1>2, FieldResults DEF IsFieldResult
<1>4. CanBeBridged(bridgeNMEADBKMessage(f))
  BY <1>3 DEF CanBeBridged, ShortLeaves, bridgeNMEADBKMessage, DepthElements
<1>5. CanBeBridged(bridgeNMEADBSMessage(f))
  BY <1>3 DEF CanBeBridged, ShortLeaves, bridgeNMEADBSMessage, DepthElements
<1>6. CanBeBridged(bridgeNMEADBTMessage(f))
  BY <1>3 DEF CanBeBridged, ShortLeaves, bridgeNMEADBTMessage, DepthElements
<1> QED BY <1>4, <1>5, <1>6 DEF f

\* the same for GGA
LEMMA GGABridged ==
  ASSUME NEW w, w[7] \in AnyWord, w[14] \in AnyWord, Accepted(GGA(w))
  PROVE  CanBeBridged(bridgeNMEAGGAMessage(GGA(w)))
<1> DEFINE f == GGA(w)
<1>1. /\ f.time # Rejected /\ f.latitude # Rejected /\ f.longitude # Rejected
      /\ f.gpsQuality # Rejected /\ f.numberSatellites # Rejected
      /\ f.horizontalDilutionOfPrecision # Rejected /\ f.antennaAltitude # Rejected
      /\ f.geoidalSeparation # Rejected /\ f.gpsDataAge # Rejected
      /\ f.differentialReferenceStation # Rejected
  <2>1. DOMAIN f = {"time", "latitude", "longitude", "gpsQuality", "numberSatellites",
                    "horizontalDilutionOfPrecision", "antennaAltitude", "m",
                    "geoidalSeparation", "m2", "gpsDataAge", "differentialReferenceStation"}
    BY DEF GGA
  <2> HIDE DEF f
  <2> QED BY <2>1 DEF Accepted, f
<1>2. /\ f.time = Time(w[1]) /\ f.latitude = Latitude(w[2], w[3])
      /\ f.longitude = Longitude(w[4], w[5]) /\ f.gpsQuality = GPSQuality(w[6])
      /\ f.horizontalDilutionOfPrecision = HundredthsUInt16(w[8])
      /\ f.antennaAltitude = TenthsInt16(w[9], FALSE)
      /\ f.geoidalSeparation = TenthsInt16(w[11], FALSE)
      /\ f.gpsDataAge = TenthsUInt16(w[13], TRUE)
  BY DEF GGA
<1>3. /\ f.numberSatellites = UInt16(w[7], FALSE, 12)
      /\ f.differentialReferenceStation = UInt16(w[14], TRUE, 1023)
  BY DEF GGA
<1> HIDE DEF f
<1>4. /\ IsResult(f.time) /\ IsResult(f.latitude) /\ IsResult(f.longitude)
      /\ IsResult(f.gpsQuality)
      /\ IsResult(f.horizontalDilutionOfPrecision)
  BY <1>1, <1>2, FieldResults DEF IsFieldResult
<1>5. /\ IsResult(f.antennaAltitude)
      /\ IsResult(f.geoidalSeparation) /\ IsResult(f.gpsDataAge)
  BY <1>1, <1>2, FieldResults DEF IsFieldResult
<1>6. /\ IsResult(f.numberSatellites) /\ IsResult(f.differentialReferenceStation)
      /\ f.numberSatellites.outcome = "sets" => f.numberSatellites.value \in Nat
      /\ f.differentialReferenceStation.outcome = "sets" =>
           f.differentialReferenceStation.value \in Nat
  <2> DEFINE no == FALSE
             yes == TRUE
  <2>1. /\ f.numberSatellites = UInt16(w[7], no, 12)
        /\ f.differentialReferenceStation = UInt16(w[14], yes, 1023)
    BY <1>3
  <2> HIDE DEF no, yes
  <2> QED BY <1>1, <2>1, FieldResults, WholeIsNatural DEF IsFieldResult
<1>7. CanBeBridged(bridgeNMEAGGAMessage(f))
  BY <1>4, <1>5, <1>6 DEF CanBeBridged, ShortLeaves, bridgeNMEAGGAMessage, GpsElements
<1> QED BY <1>7 DEF f

\* the same for GLL
LEMMA GLLBridged ==
  ASSUME NEW w, Accepted(GLL(w))
  PROVE  CanBeBridged(bridgeNMEAGLLMessage(GLL(w)))
<1> DEFINE f == GLL(w)
<1>1. DOMAIN f = {"latitude", "longitude", "time", "dataValid", "faaModeIndicator"}
  BY DEF GLL
<1>2. /\ f.latitude = Latitude(w[1], w[2]) /\ f.longitude = Longitude(w[3], w[4])
      /\ f.time = Time(w[5]) /\ f.dataValid = DataValid(w[6])
      /\ f.faaModeIndicator = FAAModeIndicator(w[7])
  BY DEF GLL
<1>3. Accepted(f)
  OBVIOUS
<1> HIDE DEF f
<1>4. /\ f.latitude # Rejected /\ f.longitude # Rejected /\ f.time # Rejected
      /\ f.dataValid # Rejected /\ f.faaModeIndicator # Rejected
  BY <1>1, <1>3 DEF Accepted
<1>5. /\ IsResult(f.latitude) /\ IsResult(f.longitude) /\ IsResult(f.time)
      /\ IsResult(f.dataValid) /\ IsResult(f.faaModeIndicator)
  BY <1>2, <1>4, FieldResults DEF IsFieldResult
<1>6. CanBeBridged(bridgeNMEAGLLMessage(f))
  BY <1>5 DEF CanBeBridged, ShortLeaves, bridgeNMEAGLLMessage, GpsElements
<1> QED BY <1>6 DEF f

\* the same for GSA
LEMMA GSABridged ==
  ASSUME NEW w, Accepted(GSA(w))
  PROVE  CanBeBridged(bridgeNMEAGSAMessage(GSA(w)))
<1> DEFINE f == GSA(w)
           mode == Sets(IF f.automaticMode.value THEN "Automatic" ELSE "Manual")
<1>1. DOMAIN f = {"automaticMode", "gpsFixMode", "satelliteIDs", "pdop", "hdop", "vdop"}
  BY DEF GSA
<1>2. /\ f.gpsFixMode = GPSFixMode(w[2]) /\ f.satelliteIDs = SatelliteIDs(w)
      /\ f.pdop = HundredthsUInt8(w[15]) /\ f.hdop = HundredthsUInt8(w[16])
      /\ f.vdop = HundredthsUInt8(w[17])
  BY DEF GSA
<1>3. Accepted(f)
  OBVIOUS
<1>4. IsResult(mode)
  BY OutcomesAre
<1>5. bridgeNMEAGSAMessage(f) =
        [gpsSatelliteSelectionMode |-> mode, gpsFixMode |-> f.gpsFixMode,
         gpsActiveSatellites |-> f.satelliteIDs,
         gpsPDOP |-> f.pdop, gpsHDOP |-> f.hdop, gpsVDOP |-> f.vdop]
  BY DEF bridgeNMEAGSAMessage
<1> HIDE DEF f, mode
<1>6. /\ f.gpsFixMode # Rejected /\ f.satelliteIDs # Rejected
      /\ f.pdop # Rejected /\ f.hdop # Rejected /\ f.vdop # Rejected
  BY <1>1, <1>3 DEF Accepted
<1>7. /\ IsResult(f.gpsFixMode) /\ IsResult(f.satelliteIDs)
      /\ IsResult(f.pdop) /\ IsResult(f.hdop) /\ IsResult(f.vdop)
  BY <1>2, <1>6, FieldResults DEF IsFieldResult
<1>8. CanBeBridged(bridgeNMEAGSAMessage(f))
  BY <1>4, <1>5, <1>7 DEF CanBeBridged, ShortLeaves, GpsElements
<1> QED BY <1>8 DEF f

\* the same for GST
LEMMA GSTBridged ==
  ASSUME NEW w, Accepted(GST(w))
  PROVE  CanBeBridged(bridgeNMEAGSTMessage(GST(w)))
<1> DEFINE f == GST(w)
           no == FALSE
           yes == TRUE
<1>1. DOMAIN f = {"time", "standardDeviationOfRangeInputsRMS", "standardDeviationOfSemiMajorAxis",
                  "standardDeviationOfSemiMinorAxis", "orientationOfSemiMajorAxis",
                  "standardDeviationOfLatitudeError", "standardDeviationOfLongitudeError",
                  "standardDeviationOfAltitudeError"}
  BY DEF GST
<1>2. /\ f.standardDeviationOfRangeInputsRMS = TenthsUInt16(w[2], no)
      /\ f.standardDeviationOfSemiMajorAxis = TenthsUInt16(w[3], yes)
      /\ f.standardDeviationOfSemiMinorAxis = TenthsUInt16(w[4], yes)
      /\ f.orientationOfSemiMajorAxis = TenthsUInt16(w[5], yes)
      /\ f.standardDeviationOfLatitudeError = TenthsUInt16(w[6], no)
      /\ f.standardDeviationOfLongitudeError = TenthsUInt16(w[7], no)
      /\ f.standardDeviationOfAltitudeError = TenthsUInt16(w[8], no)
  BY DEF GST
<1>3. Accepted(f)
  OBVIOUS
<1> HIDE DEF f, no, yes
<1>4. /\ f.standardDeviationOfRangeInputsRMS # Rejected
      /\ f.standardDeviationOfSemiMajorAxis # Rejected
      /\ f.standardDeviationOfSemiMinorAxis # Rejected
      /\ f.orientationOfSemiMajorAxis # Rejected
      /\ f.standardDeviationOfLatitudeError # Rejected
      /\ f.standardDeviationOfLongitudeError # Rejected
      /\ f.standardDeviationOfAltitudeError # Rejected
  BY <1>1, <1>3 DEF Accepted
<1>5. /\ IsResult(f.standardDeviationOfRangeInputsRMS)
      /\ IsResult(f.standardDeviationOfSemiMajorAxis)
      /\ IsResult(f.standardDeviationOfSemiMinorAxis)
      /\ IsResult(f.orientationOfSemiMajorAxis)
      /\ IsResult(f.standardDeviationOfLatitudeError)
      /\ IsResult(f.standardDeviationOfLongitudeError)
      /\ IsResult(f.standardDeviationOfAltitudeError)
  BY <1>2, <1>4, FieldResults DEF IsFieldResult
<1>6. CanBeBridged(bridgeNMEAGSTMessage(f))
  BY <1>5 DEF CanBeBridged, ShortLeaves, bridgeNMEAGSTMessage, GpsElements
<1> QED BY <1>6 DEF f

\* the same for RMC
LEMMA RMCBridged ==
  ASSUME NEW w, Accepted(RMC(w))
  PROVE  CanBeBridged(bridgeNMEARMCMessage(RMC(w)))
<1> DEFINE f == RMC(w)
           no == FALSE
           yes == TRUE
<1>1. DOMAIN f = {"time", "dataValid", "latitude", "longitude", "speedOverGround",
                  "trackMadeGood", "date", "magneticVariation", "faaModeIndicator"}
  BY DEF RMC
<1>2. /\ f.time = Time(w[1]) /\ f.dataValid = DataValid(w[2])
      /\ f.latitude = Latitude(w[3], w[4]) /\ f.longitude = Longitude(w[5], w[6])
      /\ f.speedOverGround = TenthsUInt16(w[7], no) /\ f.trackMadeGood = TenthsUInt16(w[8], yes)
      /\ f.date = Date(w[9]) /\ f.magneticVariation = MagneticVariation(w[10], w[11])
      /\ f.faaModeIndicator = FAAModeIndicator(w[12])
  BY DEF RMC
<1>3. Accepted(f)
  OBVIOUS
<1> HIDE DEF f, no, yes
<1>4. /\ f.time # Rejected /\ f.dataValid # Rejected /\ f.latitude # Rejected
      /\ f.longitude # Rejected /\ f.speedOverGround # Rejected /\ f.trackMadeGood # Rejected
      /\ f.date # Rejected /\ f.magneticVariation # Rejected /\ f.faaModeIndicator # Rejected
  BY <1>1, <1>3 DEF Accepted
<1>5. /\ IsResult(f.time) /\ IsResult(f.dataValid) /\ IsResult(f.latitude)
      /\ IsResult(f.longitude) /\ IsResult(f.speedOverGround) /\ IsResult(f.trackMadeGood)
      /\ IsResult(f.date) /\ IsResult(f.magneticVariation) /\ IsResult(f.faaModeIndicator)
  BY <1>2, <1>4, FieldResults DEF IsFieldResult
<1>6. CanBeBridged(bridgeNMEARMCMessage(f))
  BY <1>5 DEF CanBeBridged, ShortLeaves, bridgeNMEARMCMessage, GpsElements
<1> QED BY <1>6 DEF f

\* the same for VTG
LEMMA VTGBridged ==
  ASSUME NEW w, Accepted(VTG(w))
  PROVE  CanBeBridged(bridgeNMEAVTGMessage(VTG(w)))
<1> DEFINE f == VTG(w)
           next == IF wordIsT(w) THEN 2 ELSE 1
           numbers == [i \in 1..4 |-> w[(i - 1) * next + 1]]
           no == FALSE
           yes == TRUE
<1>1. DOMAIN f = {"trackMadeGoodTrue", "trackMadeGoodMagnetic", "m", "speedOverGround", "n",
                  "speedOverGroundKmPerH", "k", "faaModeIndicator"}
  BY DEF VTG
<1>2. /\ f.trackMadeGoodTrue = TenthsUInt16(numbers[1], yes)
      /\ f.trackMadeGoodMagnetic \in {Rejected, TenthsUInt16(numbers[2], yes)}
      /\ f.speedOverGround = TenthsUInt16(numbers[3], no)
      /\ f.speedOverGroundKmPerH = TenthsUInt16(numbers[4], no)
      /\ f.faaModeIndicator = FAAModeIndicator(w[4 * next + 1])
  BY DEF VTG
<1>3. Accepted(f)
  OBVIOUS
<1> HIDE DEF f, no, yes, numbers, next
<1>4. /\ f.trackMadeGoodTrue # Rejected /\ f.trackMadeGoodMagnetic # Rejected
      /\ f.speedOverGround # Rejected /\ f.speedOverGroundKmPerH # Rejected
      /\ f.faaModeIndicator # Rejected
  BY <1>1, <1>3 DEF Accepted
<1>5. /\ IsResult(f.trackMadeGoodTrue) /\ IsResult(f.trackMadeGoodMagnetic)
      /\ IsResult(f.speedOverGround) /\ IsResult(f.speedOverGroundKmPerH)
      /\ IsResult(f.faaModeIndicator)
  BY <1>2, <1>4, FieldResults DEF IsFieldResult
<1>6. CanBeBridged(bridgeNMEAVTGMessage(f))
  BY <1>5 DEF CanBeBridged, ShortLeaves, bridgeNMEAVTGMessage, GpsElements
<1> QED BY <1>6 DEF f

\* The lines of a stream
Lines == [type : STRING, words : Seq(Words), encapsulated : BOOLEAN]

\* Beyond the words of a line all are missing.
LEMMA WordTyped ==
  ASSUME NEW words \in Seq(Words), NEW i \in Nat \ {0}
  PROVE  Word(words, i) \in AnyWord
<1>1. CASE i > Len(words) \/ (i = Len(words) /\ words[i] = Empty)
  BY <1>1 DEF Word, AnyWord
<1>2. CASE ~(i > Len(words) \/ (i = Len(words) /\ words[i] = Empty))
  <2>1. i \in 1..Len(words)
    BY <1>2
  <2>2. words[i] \in Words
    BY <2>1
  <2>3. Word(words, i) = words[i]
    BY <1>2 DEF Word
  <2> QED BY <2>2, <2>3 DEF AnyWord
<1> QED BY <1>1, <1>2

\* Whatever message of these is bridged, leaves can be given what it says.
LEMMA MessagesBridged ==
  ASSUME NEW type \in MessageTypes \ Ignored, NEW words \in Seq(Words),
         Accepted(FieldsOf(type, AllWords(words)))
  PROVE  CanBeBridged(BridgedTo(type, FieldsOf(type, AllWords(words))))
<1> DEFINE w == AllWords(words)
<1>1. w[7] \in AnyWord /\ w[14] \in AnyWord
  BY WordTyped DEF AllWords, MaxWords
<1>2. type \in {"DBK", "DBS", "DBT", "GGA", "GLL", "GSA", "GST", "RMC", "VTG"}
  BY DEF MessageTypes, Ignored
<1> HIDE DEF w
<1>3. CASE type = "DBK"
  <2>1. FieldsOf(type, w) = DBK(w) /\ BridgedTo(type, DBK(w)) = bridgeNMEADBKMessage(DBK(w))
    BY <1>3 DEF FieldsOf, BridgedTo
  <2> QED BY <2>1, DepthsBridged DEF w
<1>4. CASE type = "DBS"
  <2>1. FieldsOf(type, w) = DBK(w) /\ BridgedTo(type, DBK(w)) = bridgeNMEADBSMessage(DBK(w))
    BY <1>4 DEF FieldsOf, BridgedTo, DBS
  <2> QED BY <2>1, DepthsBridged DEF w
<1>5. CASE type = "DBT"
  <2>1. FieldsOf(type, w) = DBK(w) /\ BridgedTo(type, DBK(w)) = bridgeNMEADBTMessage(DBK(w))
    BY <1>5 DEF FieldsOf, BridgedTo, DBT
  <2> QED BY <2>1, DepthsBridged DEF w
<1>6. CASE type = "GGA"
  <2>1. FieldsOf(type, w) = GGA(w) /\ BridgedTo(type, GGA(w)) = bridgeNMEAGGAMessage(GGA(w))
    BY <1>6 DEF FieldsOf, BridgedTo
  <2> QED BY <1>1, <2>1, GGABridged DEF w
<1>7. CASE type = "GLL"
  <2>1. FieldsOf(type, w) = GLL(w) /\ BridgedTo(type, GLL(w)) = bridgeNMEAGLLMessage(GLL(w))
    BY <1>7 DEF FieldsOf, BridgedTo
  <2> QED BY <2>1, GLLBridged DEF w
<1>8. CASE type = "GSA"
  <2>1. FieldsOf(type, w) = GSA(w) /\ BridgedTo(type, GSA(w)) = bridgeNMEAGSAMessage(GSA(w))
    BY <1>8 DEF FieldsOf, BridgedTo
  <2> QED BY <2>1, GSABridged DEF w
<1>9. CASE type = "GST"
  <2>1. FieldsOf(type, w) = GST(w) /\ BridgedTo(type, GST(w)) = bridgeNMEAGSTMessage(GST(w))
    BY <1>9 DEF FieldsOf, BridgedTo
  <2> QED BY <2>1, GSTBridged DEF w
<1>10. CASE type = "RMC"
  <2>1. FieldsOf(type, w) = RMC(w) /\ BridgedTo(type, RMC(w)) = bridgeNMEARMCMessage(RMC(w))
    BY <1>10 DEF FieldsOf, BridgedTo
  <2> QED BY <2>1, RMCBridged DEF w
<1>11. CASE type = "VTG"
  <2>1. FieldsOf(type, w) = VTG(w) /\ BridgedTo(type, VTG(w)) = bridgeNMEAVTGMessage(VTG(w))
    BY <1>11 DEF FieldsOf, BridgedTo
  <2> QED BY <2>1, VTGBridged DEF w
<1> QED BY <1>2, <1>3, <1>4, <1>5, <1>6, <1>7, <1>8, <1>9, <1>10, <1>11

-----------------------------------------------------------------------------
(* Steps *)

\* Before any line, nothing is held, shown or counted.
LEMMA InitiallyInv ==
  ASSUME Init
  PROVE  LeavesInv /\ stream \in Seq(Lines)
<1>1. LeavesInit /\ stream \in Streams
  BY DEF Init
<1>2. stream \in Seq(Lines)
  BY <1>1, StreamsAssumption DEF Lines
<1>3. /\ content = [leaf \in Leaves |-> NoValue] /\ retainedValues = 0 /\ removals = 0
      /\ watching = [leaf \in Leaves |-> {}]
      /\ shown = [s \in Sessions |-> [leaf \in Leaves |-> [kind |-> "nothing"]]]
  BY <1>1 DEF LeavesInit
<1>4. LeavesTypeOK /\ content = [leaf \in Leaves |-> content[leaf]]
  <2>1. /\ DOMAIN content = Leaves /\ \A leaf \in Leaves : content[leaf].isSet \in BOOLEAN
        /\ content = [leaf \in Leaves |-> content[leaf]]
    BY <1>3 DEF NoValue
  <2>2. retainedValues \in 0..(RetainedRange - 1) /\ removals \in Nat
    BY <1>3 DEF RetainedRange
  <2>3. watching \in [Leaves -> SUBSET Sessions]
    BY <1>3
  <2> QED BY <2>1, <2>2, <2>3 DEF LeavesTypeOK
<1>5. SubscribersUpToDate /\ CountReady
  BY <1>3 DEF SubscribersUpToDate, CountReady
<1>6. RetainedCountDrifts
  <2>1. {leaf \in Leaves : content[leaf].isSet} = {}
    BY <1>3 DEF NoValue
  <2>2. Cardinality({}) = 0
    BY FS_EmptySet
  <2> QED BY <1>3, <2>1, <2>2 DEF RetainedCountDrifts, RetainedRange
<1>7. Unseen
  BY <1>3 DEF Unseen, NothingYet
<1> QED BY <1>2, <1>4, <1>5, <1>6, <1>7 DEF LeavesInv

\* Lines that are not bridged, and the broker's own steps, leave the leaves alone.
LEMMA LeavesStutter ==
  ASSUME LeavesInv, UNCHANGED leafVars
  PROVE  LeavesInv'
BY DEF LeavesInv, leafVars, LeavesTypeOK, SubscribersUpToDate, RetainedCountDrifts, CountReady, Unseen

\* NMEADataModelBridge::processMessage
LEMMA LineKeeps ==
  ASSUME LeavesInv, stream \in Seq(Lines), HandleLine
  PROVE  LeavesInv' /\ stream' \in Seq(Lines)
<1> DEFINE line == Head(stream)
           message == parseNMEAMessage(line)
<1>1. line \in Lines /\ stream' \in Seq(Lines)
  BY DEF HandleLine
<1>2. lineCompleted(line)
  BY DEF HandleLine
<1>3. line.type \in STRING /\ line.words \in Seq(Words)
  BY <1>1 DEF Lines
<1> HIDE DEF line
<1>4. CASE UNCHANGED leafVars
  BY <1>1, <1>4, LeavesStutter
<1>5. CASE ~UNCHANGED leafVars
  <2> DEFINE fields == FieldsOf(line.type, AllWords(line.words))
  <2>1. message.type # "none" /\ message.type \notin Ignored
        /\ Publish(BridgedTo(message.type, message.fields))
    BY <1>2, <1>5 DEF lineCompleted, processMessage
  <2>2. /\ line.type \in MessageTypes /\ Accepted(fields)
        /\ message = [type |-> line.type, fields |-> fields]
    BY <2>1 DEF parseNMEAMessage, NoMessage
  <2> HIDE DEF message, fields
  <2>3. message.type = line.type /\ message.fields = fields
    BY <2>2
  <2>4. CanBeBridged(BridgedTo(line.type, fields))
    BY <1>3, <2>1, <2>2, <2>3, MessagesBridged DEF fields
  <2>5. Publish(BridgedTo(line.type, fields))
    BY <2>1, <2>3
  <2>6. LeavesInv'
    BY <2>4, <2>5, AllFit, PublishKeeps
  <2> QED BY <1>1, <2>6
<1> QED BY <1>4, <1>5

\* Every step keeps the invariant.
LEMMA NextKeeps ==
  ASSUME LeavesInv, stream \in Seq(Lines), [Next]_vars
  PROVE  LeavesInv' /\ stream' \in Seq(Lines)
<1>1. CASE HandleLine
  BY <1>1, LineKeeps
<1>2. ASSUME NEW s \in Sessions, NEW e \in Subtrees, Subscribe(s, e)
      PROVE  LeavesInv' /\ stream' \in Seq(Lines)
  <2>1. SubscribeTo(s, Below(e) \cap Leaves) /\ stream' = stream
    BY <1>2 DEF Subscribe
  <2>2. Below(e) \cap Leaves \in SUBSET Leaves
    OBVIOUS
  <2> QED BY <2>1, <2>2, SubscribeKeeps
<1>3. ASSUME NEW s \in Sessions, NEW e \in Subtrees, Unsubscribe(s, e)
      PROVE  LeavesInv' /\ stream' \in Seq(Lines)
  <2>1. UnsubscribeFrom(s, Below(e) \cap Leaves) /\ stream' = stream
    BY <1>3 DEF Unsubscribe
  <2>2. Below(e) \cap Leaves \in SUBSET Leaves
    OBVIOUS
  <2> QED BY <2>1, <2>2, UnsubscribeKeeps
<1>4. CASE Export
  BY <1>4, ExportKeeps DEF Export
<1>5. CASE UNCHANGED vars
  BY <1>5, LeavesStutter DEF vars
<1> QED BY <1>1, <1>2, <1>3, <1>4, <1>5 DEF Next

\* Whatever lines come, and whoever subscribes to what in between, the leaves, the
\* subscribers of DataModelRetainedValueLeaf and the counters of the data model
\* stay as LeavesInv says: the four actions, with all that publish, subscribe and
\* unsubscribe do, keep it.
THEOREM LeavesInvariant == Spec => [](LeavesInv /\ stream \in Seq(Lines))
<1>1. Init => LeavesInv /\ stream \in Seq(Lines)
  BY InitiallyInv
<1>2. (LeavesInv /\ stream \in Seq(Lines)) /\ [Next]_vars
        => (LeavesInv /\ stream \in Seq(Lines))'
  BY NextKeeps
<1> QED BY <1>1, <1>2, PTL DEF Spec

\* A client that subscribed to a topic shows what the leaf holds, though leaves are
\* only published when they change and sent once when they are subscribed to.
THEOREM AlwaysUpToDate == Spec => []SubscribersUpToDate
<1>1. LeavesInv => SubscribersUpToDate
  BY DEF LeavesInv
<1> QED BY <1>1, LeavesInvariant, PTL

\* The statistic of retained values is too high by one for every value that was
\* removed, modulo its 16 bits: updated() counts up and nothing counts down.
THEOREM AlwaysDrifts == Spec => []RetainedCountDrifts
<1>1. LeavesInv => RetainedCountDrifts
  BY DEF LeavesInv
<1> QED BY <1>1, LeavesInvariant, PTL

-----------------------------------------------------------------------------
(* Fields accept what the book says may be there *)

\* A word is known by its kind.
LEMMA WordShapes ==
  ASSUME NEW w \in AnyWord
  PROVE  /\ w.kind \in {"missing", "empty", "garbled", "letter", "number", "time", "date", "angle"}
         /\ w.kind = "missing" <=> w = Missing
         /\ w.kind = "empty" <=> w = Empty
         /\ w \in Absent <=> w.kind \in {"missing", "empty"}
         /\ w.kind = "letter" => w = Letter(w.letter) /\ w.letter \in STRING
         /\ w.kind = "number" => /\ w = Number(w.negative, w.whole, w.decimals)
                                 /\ w.negative \in BOOLEAN /\ w.whole \in Nat
                                 /\ w.decimals \in Seq(0..9)
         /\ w.kind = "time" => w.hours \in Nat /\ w.minutes \in Nat /\ w.seconds \in Nat
         /\ w.kind = "date" => w.day \in Nat /\ w.month \in Nat /\ w.year \in Nat
         /\ w.kind = "angle" => /\ w.degrees \in Nat /\ w.minutes \in Nat
                                /\ w.fraction \in Seq(0..9)
<1> USE DEF Missing, Empty, Garbled, Absent, Letter, Number
<1>1. CASE w \in {Missing, Empty, Garbled}
  BY <1>1
<1>2. CASE w \in [kind : {"letter"}, letter : STRING]
  BY <1>2
<1>3. CASE w \in [kind : {"number"}, negative : BOOLEAN, whole : Nat, decimals : Seq(0..9)]
  BY <1>3
<1>4. CASE w \in [kind : {"time"}, hours : Nat, minutes : Nat, seconds : Nat, fraction : Seq(0..9)]
  BY <1>4
<1>5. CASE w \in [kind : {"date"}, day : Nat, month : Nat, year : Nat]
  BY <1>5
<1>6. CASE w \in [kind : {"angle"}, degrees : Nat, minutes : Nat, fraction : Seq(0..9)]
  BY <1>6
<1> QED BY <1>1, <1>2, <1>3, <1>4, <1>5, <1>6 DEF AnyWord, Words

\* A word is one of two letters.
LEMMA OneLetter ==
  ASSUME NEW w \in AnyWord
  PROVE  \A a, b : IsOneOf(w, {a, b}) <=> w \in {Letter(a), Letter(b)}
<1>1. \A c : Letter(c).kind = "letter" /\ Letter(c).letter = c
  BY DEF Letter
<1>2. w.kind = "letter" => w = Letter(w.letter)
  BY WordShapes
<1> QED BY <1>1, <1>2 DEF IsOneOf

\* What is not rejected is a result for a leaf.
LEMMA Outcomes ==
  /\ \A condition, value :
       /\ AcceptedIf(condition, value) # Rejected <=> condition
       /\ condition => AcceptedIf(condition, value) = Sets(value)
  /\ \A value : /\ Sets(value) # Rejected /\ Sets(value) # Keeps
                /\ Sets(value).outcome = "sets" /\ Sets(value).value = value
  /\ \A optional : NothingIfOptional(optional) # Rejected <=> optional
  /\ NothingIfOptional(TRUE) = Removes
  /\ Removes # Rejected /\ Keeps # Rejected /\ Removes.outcome = "removes" /\ Keeps.outcome = "keeps"
BY DEF AcceptedIf, Rejected, Sets, NothingIfOptional, Removes, Keeps

\* Fields of words that may, and may not, be absent
Optional == TRUE
Required == FALSE

\* Numbers in the ranges that fields ask for
IsUInt16(w) == IsUnsigned(w, 65535)
IsInt16(w) == IsSigned(w, -32768, 32767)
IsUInt8(w) == IsUnsigned(w, 255)
IsWholeUInt16(w) == IsWhole(w, 0, 65535)
IsStation(w) == IsWhole(w, 0, 1023)
IsByte(w) == IsWhole(w, 0, 255)
ReadWholeUInt16(w, optional) == UInt16(w, optional, 65535)
ReadStation(w) == UInt16(w, Optional, 1023)
ReadByte(w) == UInt8(w, Required, 255)

\* When a field of numbers accepts a word
LEMMA NumberFields ==
  ASSUME NEW w \in AnyWord
  PROVE  /\ TenthsUInt16(w, Required) # Rejected <=> IsUInt16(w)
         /\ TenthsUInt16(w, Optional) # Rejected <=> w \in Absent \/ IsUInt16(w)
         /\ TenthsInt16(w, Required) # Rejected <=> IsInt16(w)
         /\ HundredthsUInt8(w) # Rejected <=> IsUInt8(w)
         /\ HundredthsUInt16(w) # Rejected <=> IsUInt16(w)
         /\ UInt16(w, Required, 12) # Rejected <=> IsWhole(w, 0, 12)
         /\ ReadStation(w) # Rejected <=> w \in Absent \/ IsStation(w)
         /\ ReadWholeUInt16(w, Required) # Rejected <=> IsWholeUInt16(w)
         /\ ReadWholeUInt16(w, Optional) # Rejected <=> w \in Absent \/ IsWholeUInt16(w)
         /\ UInt8(w, Required, 9) # Rejected <=> IsWhole(w, 0, 9)
         /\ ReadByte(w) # Rejected <=> IsByte(w)
         /\ UInt8(w, Optional, 99) # Rejected <=> w \in Absent \/ IsWhole(w, 0, 99)
         /\ Int8(w, Required, -90, 90) # Rejected <=> IsWhole(w, -90, 90)
<1>1. /\ w \in Absent => w.kind # "number"
      /\ w.kind = "number" => w.negative \in BOOLEAN /\ w.whole \in Nat
  BY WordShapes
<1>2. \A n \in Nat : NoDecimals(w) /\ IsUnsigned(w, n) <=> IsWhole(w, 0, n)
  BY <1>1 DEF NoDecimals, IsUnsigned, IsWhole, IsSigned, SignedWhole
<1>3. NoDecimals(w) /\ IsSigned(w, -90, 90) <=> IsWhole(w, -90, 90)
  BY <1>1 DEF NoDecimals, IsWhole, IsSigned, SignedWhole
<1>4. w \in Absent => \A m, n : ~IsUnsigned(w, n) /\ ~IsSigned(w, m, n) /\ ~IsWhole(w, m, n)
  BY <1>1 DEF IsUnsigned, IsSigned, IsWhole
<1> USE DEF AcceptedIf, NothingIfOptional, Rejected, Removes, Sets
<1>5. TenthsUInt16(w, Required) # Rejected <=> IsUInt16(w)
  BY <1>2, <1>3, <1>4 DEF TenthsUInt16, IsUInt16, Required
<1>6. TenthsUInt16(w, Optional) # Rejected <=> w \in Absent \/ IsUInt16(w)
  BY <1>2, <1>3, <1>4 DEF TenthsUInt16, IsUInt16, Optional
<1>7. TenthsInt16(w, Required) # Rejected <=> IsInt16(w)
  BY <1>2, <1>3, <1>4 DEF TenthsInt16, IsInt16, Required
<1>8. HundredthsUInt8(w) # Rejected <=> IsUInt8(w)
  BY <1>2, <1>3, <1>4 DEF HundredthsUInt8, IsUInt8
<1>9. HundredthsUInt16(w) # Rejected <=> IsUInt16(w)
  BY <1>2, <1>3, <1>4 DEF HundredthsUInt16, IsUInt16
<1>10. UInt16(w, Required, 12) # Rejected <=> IsWhole(w, 0, 12)
  BY <1>2, <1>3, <1>4 DEF UInt16, Required
<1>11. ReadStation(w) # Rejected <=> w \in Absent \/ IsStation(w)
  BY <1>2, <1>3, <1>4 DEF UInt16, ReadStation, IsStation, Optional
<1>12. ReadWholeUInt16(w, Required) # Rejected <=> IsWholeUInt16(w)
  BY <1>2, <1>3, <1>4 DEF UInt16, ReadWholeUInt16, IsWholeUInt16, Required
<1>13. ReadWholeUInt16(w, Optional) # Rejected <=> w \in Absent \/ IsWholeUInt16(w)
  BY <1>2, <1>3, <1>4 DEF UInt16, ReadWholeUInt16, IsWholeUInt16, Optional
<1>14. UInt8(w, Required, 9) # Rejected <=> IsWhole(w, 0, 9)
  BY <1>2, <1>3, <1>4 DEF UInt8, Required
<1>15. ReadByte(w) # Rejected <=> IsByte(w)
  BY <1>2, <1>3, <1>4 DEF UInt8, ReadByte, IsByte, Required
<1>16. UInt8(w, Optional, 99) # Rejected <=> w \in Absent \/ IsWhole(w, 0, 99)
  BY <1>2, <1>3, <1>4 DEF UInt8, Optional
<1>17. Int8(w, Required, -90, 90) # Rejected <=> IsWhole(w, -90, 90)
  BY <1>2, <1>3, <1>4 DEF Int8, Required
<1> HIDE DEF AcceptedIf, NothingIfOptional, Rejected, Removes, Sets
<1> QED
  BY <1>5, <1>6, <1>7, <1>8, <1>9, <1>10, <1>11, <1>12, <1>13, <1>14, <1>15, <1>16, <1>17, Zenon

\* A time of day whose fraction is a number of 32 bits
IsTimeOfDay(w) ==
  /\ w.kind = "time" /\ w.hours < 24 /\ w.minutes < 60 /\ w.seconds < 60
  /\ FitsUInt32(w.fraction)

\* When a field of letters, a time, a date or an angle accepts its words
LEMMA OtherFields ==
  ASSUME NEW w \in AnyWord, NEW side \in AnyWord
  PROVE  /\ Time(w) # Rejected <=> IsTimeOfDay(w)
         /\ Date(w) # Rejected <=> w = Empty \/ (w.kind = "date" /\ w.day < 32 /\ w.month < 13)
         /\ Latitude(w, side) # Rejected <=>
              w.kind = "angle" /\ w.degrees <= 90 /\ w.minutes < 60 /\ IsOneOf(side, {"N", "S"})
         /\ Longitude(w, side) # Rejected <=>
              w.kind = "angle" /\ w.degrees <= 180 /\ w.minutes < 60 /\ IsOneOf(side, {"E", "W"})
         /\ MagneticVariation(w, side) # Rejected <=>
              /\ Missing \notin {w, side}
              /\ Empty \in {w, side} \/ (IsUInt8(w) /\ IsOneOf(side, {"E", "W"}))
         /\ GPSQuality(w) # Rejected <=> IsWhole(w, 0, 8)
         /\ GPSFixMode(w) # Rejected <=> IsWhole(w, 0, 3)
         /\ DataValid(w) # Rejected <=> IsOneOf(w, {"A", "V"})
         /\ FAAModeIndicator(w) # Rejected <=> w \in Absent \/ IsOneOf(w, DOMAIN ModeName)
         /\ RadioChannelCode(w) # Rejected <=> IsOneOf(w, {"A", "B"}) \/ IsWhole(w, 1, 2)
<1>1. Time(w) # Rejected <=> IsTimeOfDay(w)
  <2>1. w.kind = "time" => w.hours \in Nat /\ w.minutes \in Nat /\ w.seconds \in Nat
    BY WordShapes
  <2>2. \A n \in Nat : (n <= 23 <=> n < 24) /\ (n <= 59 <=> n < 60)
    OBVIOUS
  <2> QED BY <2>1, <2>2, Outcomes DEF Time, IsTimeOfDay
<1>2. Date(w) # Rejected <=> w = Empty \/ (w.kind = "date" /\ w.day < 32 /\ w.month < 13)
  <2>1. w.kind = "date" => w.day \in Nat /\ w.month \in Nat
    BY WordShapes
  <2>2. \A n \in Nat : (n <= 31 <=> n < 32) /\ (n <= 12 <=> n < 13)
    OBVIOUS
  <2>3. Missing.kind # "date" /\ Missing # Empty
    BY DEF Missing, Empty
  <2>4. CASE w = Missing
    BY <2>3, <2>4 DEF Date
  <2>5. CASE w = Empty
    BY <2>3, <2>5, Outcomes DEF Date
  <2>6. CASE w # Missing /\ w # Empty
    BY <2>1, <2>2, <2>6, Outcomes DEF Date
  <2> QED BY <2>4, <2>5, <2>6
<1>3. /\ IsOneOf(side, {"N", "S"}) <=> side \in {Letter("N"), Letter("S")}
      /\ IsOneOf(side, {"E", "W"}) <=> side \in {Letter("E"), Letter("W")}
      /\ side \in {Letter("W"), Letter("E")} <=> side \in {Letter("E"), Letter("W")}
  BY OneLetter
<1>4. \A highest : IsCoordinate(w, highest) <=> w.kind = "angle" /\ w.degrees <= highest /\ w.minutes < 60
  <2>1. w.kind = "angle" => w.minutes \in Nat
    BY WordShapes
  <2>2. \A n \in Nat : n <= 59 <=> n < 60
    OBVIOUS
  <2> QED BY <2>1, <2>2 DEF IsCoordinate
<1>5. Latitude(w, side) # Rejected <=>
        w.kind = "angle" /\ w.degrees <= 90 /\ w.minutes < 60 /\ IsOneOf(side, {"N", "S"})
  BY <1>3, <1>4, Outcomes DEF Latitude
<1>6. Longitude(w, side) # Rejected <=>
        w.kind = "angle" /\ w.degrees <= 180 /\ w.minutes < 60 /\ IsOneOf(side, {"E", "W"})
  BY <1>3, <1>4, Outcomes DEF Longitude
<1>7. MagneticVariation(w, side) # Rejected <=>
        /\ Missing \notin {w, side}
        /\ Empty \in {w, side} \/ (IsUInt8(w) /\ IsOneOf(side, {"E", "W"}))
  <2>1. CASE Missing \in {w, side}
    BY <2>1, Outcomes DEF MagneticVariation
  <2>2. CASE Missing \notin {w, side} /\ Empty \in {w, side}
    BY <2>2, Outcomes DEF MagneticVariation
  <2>3. CASE Missing \notin {w, side} /\ Empty \notin {w, side}
    BY <1>3, <2>3, Outcomes DEF MagneticVariation, IsUInt8
  <2> QED BY <2>1, <2>2, <2>3
<1>8. /\ IsDigit(w, 8) <=> IsWhole(w, 0, 8)
      /\ IsDigit(w, 3) <=> IsWhole(w, 0, 3)
  <2>1. w.kind = "number" => w.negative \in BOOLEAN /\ w.whole \in Nat
    BY WordShapes
  <2> QED BY <2>1 DEF IsDigit, NoDecimals, IsUnsigned, IsWhole, IsSigned, SignedWhole
<1>9. GPSQuality(w) # Rejected <=> IsWhole(w, 0, 8)
  BY <1>8, Outcomes DEF GPSQuality
<1>10. GPSFixMode(w) # Rejected <=> IsWhole(w, 0, 3)
  BY <1>8, Outcomes DEF GPSFixMode
<1>11. DataValid(w) # Rejected <=> IsOneOf(w, {"A", "V"})
  <2>1. IsOneOf(w, {"A", "V"}) <=> w \in {Letter("A"), Letter("V")}
    BY OneLetter
  <2> QED BY <2>1 DEF DataValid, AcceptedIf, Rejected, Sets
<1>12. FAAModeIndicator(w) # Rejected <=> w \in Absent \/ IsOneOf(w, DOMAIN ModeName)
  <2>1. w \in Absent => w.kind # "letter"
    BY WordShapes
  <2>2. CASE w \in Absent
    BY <2>1, <2>2, Outcomes DEF FAAModeIndicator
  <2>3. CASE w.kind = "letter"
    BY <2>1, <2>3, Outcomes DEF FAAModeIndicator, IsOneOf
  <2>4. CASE w \notin Absent /\ w.kind # "letter"
    BY <2>4, Outcomes DEF FAAModeIndicator, IsOneOf
  <2> QED BY <2>2, <2>3, <2>4
<1>13. RadioChannelCode(w) # Rejected <=> IsOneOf(w, {"A", "B"}) \/ IsWhole(w, 1, 2)
  <2>1. /\ w.kind = "letter" => w = Letter(w.letter)
        /\ w.kind = "number" => w = Number(w.negative, w.whole, w.decimals)
                                /\ w.negative \in BOOLEAN /\ w.whole \in Nat
    BY WordShapes
  <2>2. /\ w = Number(FALSE, 1, <<>>) \/ w = Number(FALSE, 2, <<>>) => IsWhole(w, 1, 2)
    BY DEF Number, IsWhole, IsSigned, SignedWhole
  <2>3. IsWhole(w, 1, 2) => w = Number(FALSE, 1, <<>>) \/ w = Number(FALSE, 2, <<>>)
    <3> SUFFICES ASSUME IsWhole(w, 1, 2)
                 PROVE  w = Number(FALSE, 1, <<>>) \/ w = Number(FALSE, 2, <<>>)
      OBVIOUS
    <3>1. w.kind = "number" /\ w.decimals = <<>> /\ w.negative = FALSE
      BY <2>1 DEF IsWhole, IsSigned, SignedWhole
    <3>2. w.whole = 1 \/ w.whole = 2
      BY <2>1, <3>1 DEF IsWhole, IsSigned, SignedWhole
    <3> QED BY <2>1, <3>1, <3>2
  <2>4. IsOneOf(w, {"A", "B"}) <=> w = Letter("A") \/ w = Letter("B")
    BY OneLetter
  <2>5. RadioChannelCode(w) # Rejected <=>
          \/ w = Letter("A") \/ w = Number(FALSE, 1, <<>>)
          \/ w = Letter("B") \/ w = Number(FALSE, 2, <<>>)
    BY Outcomes DEF RadioChannelCode
  <2> QED BY <2>2, <2>3, <2>4, <2>5
<1> QED BY <1>1, <1>2, <1>5, <1>6, <1>7, <1>9, <1>10, <1>11, <1>12, <1>13

\* The mode of GSA as it is bridged, the IDs, and one satellite of GSV
Selection(w) ==
  AcceptedIf(w \in {Letter("A"), Letter("M")}, IF w = Letter("A") THEN "Automatic" ELSE "Manual")

IDs(ws) ==
  AcceptedIf(\A k \in 1..12 : ReadWholeUInt16(ws[k], Optional) # Rejected,
             [k \in DOMAIN Present(ws) |-> Present(ws)[k].whole])

SatelliteHere(ws) ==
  AcceptedIf(\/ ws[1] = Missing
             \/ /\ ReadWholeUInt16(ws[1], Required) # Rejected
                /\ Int8(ws[2], Required, -90, 90) # Rejected
                /\ TenthsUInt16(ws[3], Required) # Rejected
                /\ UInt8(ws[4], Optional, 99) # Rejected,
             ws[1])

\* What a field for a `what' makes of the words it is given.
Reads(what, ws) ==
  CASE what = "tenths" -> TenthsUInt16(ws[1], Required)
    [] what = "tenths?" -> TenthsUInt16(ws[1], Optional)
    [] what = "tenths?!" -> IF ws[1] = Missing THEN Rejected ELSE TenthsUInt16(ws[1], Optional)
    [] what = "signedTenths" -> TenthsInt16(ws[1], Required)
    [] what = "hundredths" -> HundredthsUInt16(ws[1])
    [] what = "shortHundredths" -> HundredthsUInt8(ws[1])
    [] what = "time" -> Time(ws[1])
    [] what = "date?" -> Date(ws[1])
    [] what = "latitude" -> Latitude(ws[1], ws[2])
    [] what = "longitude" -> Longitude(ws[1], ws[2])
    [] what = "variation?" -> MagneticVariation(ws[1], ws[2])
    [] what = "quality" -> GPSQuality(ws[1])
    [] what = "satellites" -> UInt16(ws[1], Required, 12)
    [] what = "station?" -> ReadStation(ws[1])
    [] what = "valid" -> DataValid(ws[1])
    [] what = "mode?" -> FAAModeIndicator(ws[1])
    [] what = "selection" -> Selection(ws[1])
    [] what = "fix" -> GPSFixMode(ws[1])
    [] what = "IDs" -> IDs(ws)
    [] what = "satellite?" -> SatelliteHere(ws)
    [] what = "digit" -> UInt8(ws[1], Required, 9)
    [] what = "byte" -> ReadByte(ws[1])
    [] what = "word?" -> ReadWholeUInt16(ws[1], Optional)
    [] what = "channel" -> RadioChannelCode(ws[1])
    [] what = "text" -> AcceptedIf(ws[1] # Missing, ws[1])
    [] OTHER -> ConstantWord(ws[1], what)

Letters == {"f", "M", "F", "N", "K"}

Fields ==
  Letters \cup
  {"tenths", "tenths?", "tenths?!", "signedTenths", "hundredths", "shortHundredths",
   "time", "date?", "latitude", "longitude", "variation?", "quality", "satellites",
   "station?", "valid", "mode?", "selection", "fix", "IDs", "satellite?",
   "digit", "byte", "word?", "channel", "text"}

\* Reads, case by case.
LEMMA ReadsIs ==
  ASSUME NEW ws
  PROVE  /\ Reads("tenths", ws) = TenthsUInt16(ws[1], Required)
         /\ Reads("tenths?", ws) = TenthsUInt16(ws[1], Optional)
         /\ Reads("tenths?!", ws) = (IF ws[1] = Missing THEN Rejected ELSE TenthsUInt16(ws[1], Optional))
         /\ Reads("signedTenths", ws) = TenthsInt16(ws[1], Required)
         /\ Reads("hundredths", ws) = HundredthsUInt16(ws[1])
         /\ Reads("shortHundredths", ws) = HundredthsUInt8(ws[1])
         /\ Reads("time", ws) = Time(ws[1])
         /\ Reads("date?", ws) = Date(ws[1])
         /\ Reads("latitude", ws) = Latitude(ws[1], ws[2])
         /\ Reads("longitude", ws) = Longitude(ws[1], ws[2])
         /\ Reads("variation?", ws) = MagneticVariation(ws[1], ws[2])
         /\ Reads("quality", ws) = GPSQuality(ws[1])
         /\ Reads("satellites", ws) = UInt16(ws[1], Required, 12)
         /\ Reads("station?", ws) = ReadStation(ws[1])
         /\ Reads("valid", ws) = DataValid(ws[1])
         /\ Reads("mode?", ws) = FAAModeIndicator(ws[1])
         /\ Reads("selection", ws) = Selection(ws[1])
         /\ Reads("fix", ws) = GPSFixMode(ws[1])
         /\ Reads("IDs", ws) = IDs(ws)
         /\ Reads("satellite?", ws) = SatelliteHere(ws)
         /\ Reads("digit", ws) = UInt8(ws[1], Required, 9)
         /\ Reads("byte", ws) = ReadByte(ws[1])
         /\ Reads("word?", ws) = ReadWholeUInt16(ws[1], Optional)
         /\ Reads("channel", ws) = RadioChannelCode(ws[1])
         /\ Reads("text", ws) = AcceptedIf(ws[1] # Missing, ws[1])
         /\ \A letter \in Letters : Reads(letter, ws) = ConstantWord(ws[1], letter)
BY DEF Reads, Letters

\* MayBe, case by case.
LEMMA MayBeIs ==
  ASSUME NEW ws
  PROVE  /\ MayBe("tenths", ws) <=> IsUInt16(ws[1])
         /\ MayBe("tenths?", ws) <=> ws[1] \in Absent \/ IsUInt16(ws[1])
         /\ MayBe("tenths?!", ws) <=> ws[1] # Missing /\ (ws[1] = Empty \/ IsUInt16(ws[1]))
         /\ MayBe("signedTenths", ws) <=> IsInt16(ws[1])
         /\ MayBe("hundredths", ws) <=> IsUInt16(ws[1])
         /\ MayBe("shortHundredths", ws) <=> IsUInt8(ws[1])
         /\ MayBe("time", ws) <=> IsTimeOfDay(ws[1])
         /\ MayBe("date?", ws) <=>
              ws[1] = Empty \/ (ws[1].kind = "date" /\ ws[1].day < 32 /\ ws[1].month < 13)
         /\ MayBe("latitude", ws) <=>
              /\ ws[1].kind = "angle" /\ ws[1].degrees <= 90 /\ ws[1].minutes < 60
              /\ IsOneOf(ws[2], {"N", "S"})
         /\ MayBe("longitude", ws) <=>
              /\ ws[1].kind = "angle" /\ ws[1].degrees <= 180 /\ ws[1].minutes < 60
              /\ IsOneOf(ws[2], {"E", "W"})
         /\ MayBe("variation?", ws) <=>
              /\ Missing \notin {ws[1], ws[2]}
              /\ Empty \in {ws[1], ws[2]} \/ (IsUInt8(ws[1]) /\ IsOneOf(ws[2], {"E", "W"}))
         /\ MayBe("quality", ws) <=> IsWhole(ws[1], 0, 8)
         /\ MayBe("satellites", ws) <=> IsWhole(ws[1], 0, 12)
         /\ MayBe("station?", ws) <=> ws[1] \in Absent \/ IsStation(ws[1])
         /\ MayBe("valid", ws) <=> IsOneOf(ws[1], {"A", "V"})
         /\ MayBe("mode?", ws) <=> ws[1] \in Absent \/ IsOneOf(ws[1], DOMAIN ModeName)
         /\ MayBe("selection", ws) <=> IsOneOf(ws[1], {"A", "M"})
         /\ MayBe("fix", ws) <=> IsWhole(ws[1], 0, 3)
         /\ MayBe("IDs", ws) <=> \A k \in 1..12 : ws[k] \in Absent \/ IsWholeUInt16(ws[k])
         /\ MayBe("satellite?", ws) <=>
              \/ ws[1] = Missing
              \/ /\ IsWholeUInt16(ws[1]) /\ IsWhole(ws[2], -90, 90) /\ IsUInt16(ws[3])
                 /\ ws[4] \in Absent \/ IsWhole(ws[4], 0, 99)
         /\ MayBe("digit", ws) <=> IsWhole(ws[1], 0, 9)
         /\ MayBe("byte", ws) <=> IsByte(ws[1])
         /\ MayBe("word?", ws) <=> ws[1] \in Absent \/ IsWholeUInt16(ws[1])
         /\ MayBe("channel", ws) <=> IsOneOf(ws[1], {"A", "B"}) \/ IsWhole(ws[1], 1, 2)
         /\ MayBe("text", ws) <=> ws[1] # Missing
         /\ \A letter \in Letters : MayBe(letter, ws) <=> ws[1] = Letter(letter)
BY DEF MayBe, Letters, IsUInt16, IsInt16, IsUInt8, IsStation, IsWholeUInt16, IsByte, IsTimeOfDay

\* A field accepts its words exactly if the book says that they may be there:
\* the limits of the number types of the fields NMEAxxx are those of the book.
LEMMA Readable ==
  ASSUME NEW what \in Fields, NEW ws, \A k \in 1..Width(what) : ws[k] \in AnyWord
  PROVE  Reads(what, ws) # Rejected <=> MayBe(what, ws)
<1>1. ws[1] \in AnyWord
  <2>1. 1 \in 1..Width(what)
    BY DEF Width
  <2> QED BY <2>1
<1>2. CASE what = "tenths"
  BY <1>1, <1>2, NumberFields, ReadsIs, MayBeIs
<1>3. CASE what = "tenths?"
  BY <1>1, <1>3, NumberFields, ReadsIs, MayBeIs
<1>4. CASE what = "signedTenths"
  BY <1>1, <1>4, NumberFields, ReadsIs, MayBeIs
<1>5. CASE what = "hundredths"
  BY <1>1, <1>5, NumberFields, ReadsIs, MayBeIs
<1>6. CASE what = "shortHundredths"
  BY <1>1, <1>6, NumberFields, ReadsIs, MayBeIs
<1>7. CASE what = "satellites"
  BY <1>1, <1>7, NumberFields, ReadsIs, MayBeIs
<1>8. CASE what = "station?"
  BY <1>1, <1>8, NumberFields, ReadsIs, MayBeIs
<1>9. CASE what = "digit"
  BY <1>1, <1>9, NumberFields, ReadsIs, MayBeIs
<1>10. CASE what = "byte"
  BY <1>1, <1>10, NumberFields, ReadsIs, MayBeIs
<1>11. CASE what = "word?"
  BY <1>1, <1>11, NumberFields, ReadsIs, MayBeIs
<1>12. CASE what = "tenths?!"
  <2>1. TenthsUInt16(ws[1], Optional) # Rejected <=> ws[1] \in Absent \/ IsUInt16(ws[1])
    BY <1>1, NumberFields
  <2>2. ws[1] \in Absent <=> ws[1] = Missing \/ ws[1] = Empty
    BY DEF Absent
  <2>3. MayBe("tenths?!", ws) <=> ws[1] # Missing /\ (ws[1] = Empty \/ IsUInt16(ws[1]))
    BY MayBeIs
  <2>4. Reads("tenths?!", ws) =
          IF ws[1] = Missing THEN Rejected ELSE TenthsUInt16(ws[1], Optional)
    BY ReadsIs
  <2> QED BY <1>12, <2>1, <2>2, <2>3, <2>4
<1>13. CASE what = "quality"
  BY <1>1, <1>13, OtherFields, ReadsIs, MayBeIs
<1>14. CASE what = "fix"
  BY <1>1, <1>14, OtherFields, ReadsIs, MayBeIs
<1>15. CASE what = "valid"
  BY <1>1, <1>15, OtherFields, ReadsIs, MayBeIs
<1>16. CASE what = "mode?"
  BY <1>1, <1>16, OtherFields, ReadsIs, MayBeIs
<1>17. CASE what = "channel"
  BY <1>1, <1>17, OtherFields, ReadsIs, MayBeIs
<1>18. CASE what = "time"
  BY <1>1, <1>18, OtherFields, ReadsIs, MayBeIs
<1>19. CASE what = "date?"
  BY <1>1, <1>19, OtherFields, ReadsIs, MayBeIs
<1>20. CASE what = "latitude"
  <2>1. ws[2] \in AnyWord
    BY <1>20 DEF Width
  <2>2. Reads(what, ws) = Latitude(ws[1], ws[2])
    BY <1>20, ReadsIs
  <2>3. Latitude(ws[1], ws[2]) # Rejected <=> MayBe("latitude", ws)
    BY <1>1, <2>1, OtherFields, MayBeIs, Zenon
  <2> QED BY <1>20, <2>2, <2>3
<1>21. CASE what = "longitude"
  <2>1. ws[2] \in AnyWord
    BY <1>21 DEF Width
  <2>2. Reads(what, ws) = Longitude(ws[1], ws[2])
    BY <1>21, ReadsIs
  <2>3. Longitude(ws[1], ws[2]) # Rejected <=> MayBe("longitude", ws)
    BY <1>1, <2>1, OtherFields, MayBeIs, Zenon
  <2> QED BY <1>21, <2>2, <2>3
<1>22. CASE what = "variation?"
  <2>1. ws[2] \in AnyWord
    BY <1>22 DEF Width
  <2>2. Reads(what, ws) = MagneticVariation(ws[1], ws[2])
    BY <1>22, ReadsIs
  <2>3. MagneticVariation(ws[1], ws[2]) # Rejected <=> MayBe("variation?", ws)
    BY <1>1, <2>1, OtherFields, MayBeIs, Zenon
  <2> QED BY <1>22, <2>2, <2>3
<1>23. CASE what = "selection"
  <2>1. IsOneOf(ws[1], {"A", "M"}) <=> ws[1] \in {Letter("A"), Letter("M")}
    BY <1>1, OneLetter
  <2>2. Reads(what, ws) = Selection(ws[1]) /\ (MayBe(what, ws) <=> IsOneOf(ws[1], {"A", "M"}))
    BY <1>23, ReadsIs, MayBeIs
  <2>3. Selection(ws[1]) # Rejected <=> ws[1] \in {Letter("A"), Letter("M")}
    BY DEF Selection, AcceptedIf, Rejected, Sets
  <2> QED BY <2>1, <2>2, <2>3
<1>24. CASE what = "IDs"
  <2>1. \A k \in 1..12 : ws[k] \in AnyWord
    BY <1>24 DEF Width
  <2>2. \A k \in 1..12 : ReadWholeUInt16(ws[k], Optional) # Rejected <=>
                           ws[k] \in Absent \/ IsWholeUInt16(ws[k])
    BY <2>1, NumberFields
  <2>3. IDs(ws) # Rejected <=> \A k \in 1..12 : ReadWholeUInt16(ws[k], Optional) # Rejected
    BY Outcomes, Zenon DEF IDs
  <2> QED BY <1>24, <2>2, <2>3, ReadsIs, MayBeIs
<1>25. CASE what = "satellite?"
  <2>1. /\ \A k \in 1..4 : ws[k] \in AnyWord
        /\ 2 \in 1..4 /\ 3 \in 1..4 /\ 4 \in 1..4
    BY <1>25 DEF Width
  <2>2. /\ ReadWholeUInt16(ws[1], Required) # Rejected <=> IsWholeUInt16(ws[1])
        /\ Int8(ws[2], Required, -90, 90) # Rejected <=> IsWhole(ws[2], -90, 90)
        /\ TenthsUInt16(ws[3], Required) # Rejected <=> IsUInt16(ws[3])
        /\ UInt8(ws[4], Optional, 99) # Rejected <=> ws[4] \in Absent \/ IsWhole(ws[4], 0, 99)
    BY <1>1, <2>1, NumberFields
  <2>3. SatelliteHere(ws) # Rejected <=>
          \/ ws[1] = Missing
          \/ /\ ReadWholeUInt16(ws[1], Required) # Rejected
             /\ Int8(ws[2], Required, -90, 90) # Rejected
             /\ TenthsUInt16(ws[3], Required) # Rejected
             /\ UInt8(ws[4], Optional, 99) # Rejected
    BY Outcomes, Zenon DEF SatelliteHere
  <2> QED BY <1>25, <2>2, <2>3, ReadsIs, MayBeIs
<1>26. CASE what = "text"
  <2>1. Reads(what, ws) = AcceptedIf(ws[1] # Missing, ws[1]) /\ (MayBe(what, ws) <=> ws[1] # Missing)
    BY <1>26, ReadsIs, MayBeIs
  <2> QED BY <2>1 DEF AcceptedIf, Rejected, Sets
<1>27. CASE what \in Letters
  <2>1. Reads(what, ws) = ConstantWord(ws[1], what) /\ (MayBe(what, ws) <=> ws[1] = Letter(what))
    BY <1>27, ReadsIs, MayBeIs
  <2> QED BY <2>1, Outcomes DEF ConstantWord
<1> QED
  BY <1>2, <1>3, <1>4, <1>5, <1>6, <1>7, <1>8, <1>9, <1>10, <1>11, <1>12, <1>13, <1>14,
     <1>15, <1>16, <1>17, <1>18, <1>19, <1>20, <1>21, <1>22, <1>23, <1>24, <1>25, <1>26,
     <1>27 DEF Fields

\* What a field makes of the words from a position on.
Found(words, at, what) == Reads(what, [k \in 1..Width(what) |-> Word(words, at + k - 1)])

\* The number of words of a field.
LEMMA Widths ==
  ASSUME NEW what \in Fields
  PROVE  /\ Width(what) \in 1..12
         /\ what \in {"latitude", "longitude", "variation?"} => Width(what) = 2
         /\ what = "IDs" => Width(what) = 12
         /\ what = "satellite?" => Width(what) = 4
BY DEF Width

\* By the book the words are there, exactly if they are accepted.
LEMMA FoundIfThere ==
  ASSUME NEW words \in Seq(Words), NEW entry, entry.at \in Nat \ {0}, entry.what \in Fields
  PROVE  Found(words, entry.at, entry.what) # Rejected <=> MayBe(entry.what, WordsOf(entry, words))
<1> DEFINE ws == [k \in 1..Width(entry.what) |-> Word(words, entry.at + k - 1)]
<1>1. Width(entry.what) \in 1..12
  BY Widths
<1>2. \A k \in 1..Width(entry.what) : ws[k] \in AnyWord
  <2>1. ASSUME NEW k \in 1..Width(entry.what)
        PROVE  entry.at + k - 1 \in Nat \ {0}
    BY <1>1
  <2> QED BY <2>1, WordTyped
<1>3. WordsOf(entry, words) = ws
  BY DEF WordsOf
<1>4. Found(words, entry.at, entry.what) = Reads(entry.what, ws)
  BY DEF Found
<1> HIDE DEF ws
<1> QED BY <1>2, <1>3, <1>4, Readable

\* Found, case by case, in terms of the words as NMEALine::getWord gives them.
LEMMA FoundIs ==
  ASSUME NEW words, NEW at \in 1..23
  PROVE  /\ Found(words, at, "tenths") = TenthsUInt16(AllWords(words)[at], Required)
         /\ Found(words, at, "tenths?") = TenthsUInt16(AllWords(words)[at], Optional)
         /\ Found(words, at, "tenths?!") =
              IF AllWords(words)[at] = Missing THEN Rejected ELSE TenthsUInt16(AllWords(words)[at], Optional)
         /\ Found(words, at, "signedTenths") = TenthsInt16(AllWords(words)[at], Required)
         /\ Found(words, at, "hundredths") = HundredthsUInt16(AllWords(words)[at])
         /\ Found(words, at, "shortHundredths") = HundredthsUInt8(AllWords(words)[at])
         /\ Found(words, at, "time") = Time(AllWords(words)[at])
         /\ Found(words, at, "date?") = Date(AllWords(words)[at])
         /\ Found(words, at, "latitude") = Latitude(AllWords(words)[at], AllWords(words)[at + 1])
         /\ Found(words, at, "longitude") = Longitude(AllWords(words)[at], AllWords(words)[at + 1])
         /\ Found(words, at, "variation?") = MagneticVariation(AllWords(words)[at], AllWords(words)[at + 1])
         /\ Found(words, at, "quality") = GPSQuality(AllWords(words)[at])
         /\ Found(words, at, "satellites") = UInt16(AllWords(words)[at], Required, 12)
         /\ Found(words, at, "station?") = ReadStation(AllWords(words)[at])
         /\ Found(words, at, "valid") = DataValid(AllWords(words)[at])
         /\ Found(words, at, "mode?") = FAAModeIndicator(AllWords(words)[at])
         /\ Found(words, at, "selection") = Selection(AllWords(words)[at])
         /\ Found(words, at, "fix") = GPSFixMode(AllWords(words)[at])
         /\ Found(words, at, "digit") = UInt8(AllWords(words)[at], Required, 9)
         /\ Found(words, at, "byte") = ReadByte(AllWords(words)[at])
         /\ Found(words, at, "word?") = ReadWholeUInt16(AllWords(words)[at], Optional)
         /\ Found(words, at, "channel") = RadioChannelCode(AllWords(words)[at])
         /\ Found(words, at, "text") = AcceptedIf(AllWords(words)[at] # Missing, AllWords(words)[at])
         /\ \A letter \in Letters : Found(words, at, letter) = ConstantWord(AllWords(words)[at], letter)
<1> DEFINE one == [k \in 1..1 |-> Word(words, at + k - 1)]
           two == [k \in 1..2 |-> Word(words, at + k - 1)]
<1>1. at \in 1..MaxWords /\ at + 1 \in 1..MaxWords
  BY DEF MaxWords
<1>2. one[1] = AllWords(words)[at] /\ two[1] = AllWords(words)[at] /\ two[2] = AllWords(words)[at + 1]
  BY <1>1 DEF AllWords
<1>3. \A what \in Fields \ {"latitude", "longitude", "variation?", "IDs", "satellite?"} :
        Found(words, at, what) = Reads(what, one)
  BY DEF Found, Width
<1>4. \A what \in {"latitude", "longitude", "variation?"} :
        Found(words, at, what) = Reads(what, two)
  BY DEF Found, Width
<1> HIDE DEF one, two
<1>5. Found(words, at, "tenths") = TenthsUInt16(AllWords(words)[at], Required)
  BY <1>2, <1>3, ReadsIs DEF Fields
<1>6. Found(words, at, "tenths?") = TenthsUInt16(AllWords(words)[at], Optional)
  BY <1>2, <1>3, ReadsIs DEF Fields
<1>7. Found(words, at, "tenths?!") =
              IF AllWords(words)[at] = Missing THEN Rejected ELSE TenthsUInt16(AllWords(words)[at], Optional)
  BY <1>2, <1>3, ReadsIs DEF Fields
<1>8. Found(words, at, "signedTenths") = TenthsInt16(AllWords(words)[at], Required)
  BY <1>2, <1>3, ReadsIs DEF Fields
<1>9. Found(words, at, "hundredths") = HundredthsUInt16(AllWords(words)[at])
  BY <1>2, <1>3, ReadsIs DEF Fields
<1>10. Found(words, at, "shortHundredths") = HundredthsUInt8(AllWords(words)[at])
  BY <1>2, <1>3, ReadsIs DEF Fields
<1>11. Found(words, at, "time") = Time(AllWords(words)[at])
  BY <1>2, <1>3, ReadsIs DEF Fields
<1>12. Found(words, at, "date?") = Date(AllWords(words)[at])
  BY <1>2, <1>3, ReadsIs DEF Fields
<1>13. Found(words, at, "latitude") = Latitude(AllWords(words)[at], AllWords(words)[at + 1])
  BY <1>2, <1>4, ReadsIs DEF Fields
<1>14. Found(words, at, "longitude") = Longitude(AllWords(words)[at], AllWords(words)[at + 1])
  BY <1>2, <1>4, ReadsIs DEF Fields
<1>15. Found(words, at, "variation?") = MagneticVariation(AllWords(words)[at], AllWords(words)[at + 1])
  BY <1>2, <1>4, ReadsIs DEF Fields
<1>16. Found(words, at, "quality") = GPSQuality(AllWords(words)[at])
  BY <1>2, <1>3, ReadsIs DEF Fields
<1>17. Found(words, at, "satellites") = UInt16(AllWords(words)[at], Required, 12)
  BY <1>2, <1>3, ReadsIs DEF Fields
<1>18. Found(words, at, "station?") = ReadStation(AllWords(words)[at])
  BY <1>2, <1>3, ReadsIs DEF Fields
<1>19. Found(words, at, "valid") = DataValid(AllWords(words)[at])
  BY <1>2, <1>3, ReadsIs DEF Fields
<1>20. Found(words, at, "mode?") = FAAModeIndicator(AllWords(words)[at])
  BY <1>2, <1>3, ReadsIs DEF Fields
<1>21. Found(words, at, "selection") = Selection(AllWords(words)[at])
  BY <1>2, <1>3, ReadsIs DEF Fields
<1>22. Found(words, at, "fix") = GPSFixMode(AllWords(words)[at])
  BY <1>2, <1>3, ReadsIs DEF Fields
<1>23. Found(words, at, "digit") = UInt8(AllWords(words)[at], Required, 9)
  BY <1>2, <1>3, ReadsIs DEF Fields
<1>24. Found(words, at, "byte") = ReadByte(AllWords(words)[at])
  BY <1>2, <1>3, ReadsIs DEF Fields
<1>25. Found(words, at, "word?") = ReadWholeUInt16(AllWords(words)[at], Optional)
  BY <1>2, <1>3, ReadsIs DEF Fields
<1>26. Found(words, at, "channel") = RadioChannelCode(AllWords(words)[at])
  BY <1>2, <1>3, ReadsIs DEF Fields
<1>27. Found(words, at, "text") = AcceptedIf(AllWords(words)[at] # Missing, AllWords(words)[at])
  BY <1>2, <1>3, ReadsIs DEF Fields
<1>28. \A letter \in Letters : Found(words, at, letter) = ConstantWord(AllWords(words)[at], letter)
  <2>1. ASSUME NEW letter \in Letters
        PROVE  Found(words, at, letter) = ConstantWord(AllWords(words)[at], letter)
    <3>1. Found(words, at, letter) = Reads(letter, one)
      BY <1>3 DEF Fields, Letters
    <3>2. Reads(letter, one) = ConstantWord(one[1], letter)
      BY ReadsIs
    <3> QED BY <1>2, <3>1, <3>2
  <2> QED BY <2>1
<1> QED
  BY <1>5, <1>6, <1>7, <1>8, <1>9, <1>10, <1>11, <1>12, <1>13, <1>14, <1>15, <1>16, <1>17,
     <1>18, <1>19, <1>20, <1>21, <1>22, <1>23, <1>24, <1>25, <1>26, <1>27, <1>28, Zenon

-----------------------------------------------------------------------------
(* Messages are read entry by entry of the book *)

\* The field for an entry accepts its words.
IsRead(words, entry) == Found(words, entry.at, entry.what) # Rejected

\* Whether an entry is read depends on its place and its kind.
LEMMA EntryRead ==
  ASSUME NEW words, NEW at, NEW what, NEW leaf
  PROVE  /\ IsRead(words, Entry(at, what, leaf)) <=> Found(words, at, what) # Rejected
         /\ IsRead(words, Silent(at, what)) <=> Found(words, at, what) # Rejected
BY DEF IsRead, Entry, Silent

\* A message is accepted if and only if all its entries in the book are, and its
\* fields are bridged to the leaves that the entries name: DBK, DBS, DBT
LEMMA DepthsByBook ==
  ASSUME NEW words, NEW f, f = DBK(AllWords(words)), NEW feet, NEW meters, NEW fathoms
  PROVE  /\ Accepted(f) <=> \A entry \in DepthEntries(feet, meters, fathoms) : IsRead(words, entry)
         /\ f.depthFeet = Found(words, 1, "tenths?") /\ f.depthMeters = Found(words, 3, "tenths?")
         /\ f.depthFathoms = Found(words, 5, "tenths?")
<1> DEFINE w == AllWords(words)
<1>1. DOMAIN f = {"depthFeet", "f", "depthMeters", "m", "depthFathoms", "ftm"}
  BY DEF DBK
<1>2. /\ f.depthFeet = TenthsUInt16(w[1], Optional) /\ f.f = ConstantWord(w[2], "f")
      /\ f.depthMeters = TenthsUInt16(w[3], Optional) /\ f.m = ConstantWord(w[4], "M")
      /\ f.depthFathoms = TenthsUInt16(w[5], Optional) /\ f.ftm = ConstantWord(w[6], "F")
  BY DEF DBK, Optional
<1> HIDE DEF w
<1>3. /\ f.depthFeet = Found(words, 1, "tenths?") /\ f.f = Found(words, 2, "f")
      /\ f.depthMeters = Found(words, 3, "tenths?") /\ f.m = Found(words, 4, "M")
      /\ f.depthFathoms = Found(words, 5, "tenths?") /\ f.ftm = Found(words, 6, "F")
  BY <1>2, FoundIs DEF w, MaxWords, Letters
<1>4. (\A entry \in DepthEntries(feet, meters, fathoms) : IsRead(words, entry)) <=>
      /\ Found(words, 1, "tenths?") # Rejected /\ Found(words, 2, "f") # Rejected
      /\ Found(words, 3, "tenths?") # Rejected /\ Found(words, 4, "M") # Rejected
      /\ Found(words, 5, "tenths?") # Rejected /\ Found(words, 6, "F") # Rejected
  BY EntryRead DEF DepthEntries
<1>5. Accepted(f) <=>
      /\ f.depthFeet # Rejected /\ f.f # Rejected /\ f.depthMeters # Rejected
      /\ f.m # Rejected /\ f.depthFathoms # Rejected /\ f.ftm # Rejected
  BY <1>1 DEF Accepted
<1> QED BY <1>3, <1>4, <1>5

\* the same for GGA
LEMMA GGAByBook ==
  ASSUME NEW words, NEW f, f = GGA(AllWords(words))
  PROVE  /\ Accepted(f) <=> \A entry \in Book("GGA", words) : IsRead(words, entry)
         /\ \A entry \in Book("GGA", words) : entry.leaf # "none" =>
              bridgeNMEAGGAMessage(f)[entry.leaf] = Found(words, entry.at, entry.what)
<1> DEFINE w == AllWords(words)
<1>1. DOMAIN f = {"time", "latitude", "longitude", "gpsQuality", "numberSatellites",
                  "horizontalDilutionOfPrecision", "antennaAltitude", "m", "geoidalSeparation",
                  "m2", "gpsDataAge", "differentialReferenceStation"}
  BY DEF GGA
<1>2. /\ f.time = Time(w[1]) /\ f.latitude = Latitude(w[2], w[3])
      /\ f.longitude = Longitude(w[4], w[5]) /\ f.gpsQuality = GPSQuality(w[6])
      /\ f.numberSatellites = UInt16(w[7], Required, 12)
      /\ f.horizontalDilutionOfPrecision = HundredthsUInt16(w[8])
      /\ f.antennaAltitude = TenthsInt16(w[9], Required) /\ f.m = ConstantWord(w[10], "M")
      /\ f.geoidalSeparation = TenthsInt16(w[11], Required) /\ f.m2 = ConstantWord(w[12], "M")
      /\ f.gpsDataAge = TenthsUInt16(w[13], Optional)
      /\ f.differentialReferenceStation = ReadStation(w[14])
  BY DEF GGA, Required, Optional, ReadStation
<1> HIDE DEF w
<1>3. /\ f.time = Found(words, 1, "time") /\ f.latitude = Found(words, 2, "latitude")
      /\ f.longitude = Found(words, 4, "longitude") /\ f.gpsQuality = Found(words, 6, "quality")
      /\ f.numberSatellites = Found(words, 7, "satellites")
      /\ f.horizontalDilutionOfPrecision = Found(words, 8, "hundredths")
      /\ f.antennaAltitude = Found(words, 9, "signedTenths") /\ f.m = Found(words, 10, "M")
      /\ f.geoidalSeparation = Found(words, 11, "signedTenths") /\ f.m2 = Found(words, 12, "M")
      /\ f.gpsDataAge = Found(words, 13, "tenths?")
      /\ f.differentialReferenceStation = Found(words, 14, "station?")
  BY <1>2, FoundIs DEF w, Letters
<1>4. (\A entry \in Book("GGA", words) : IsRead(words, entry)) <=>
        /\ Found(words, 1, "time") # Rejected /\ Found(words, 2, "latitude") # Rejected
        /\ Found(words, 4, "longitude") # Rejected /\ Found(words, 6, "quality") # Rejected
        /\ Found(words, 7, "satellites") # Rejected /\ Found(words, 8, "hundredths") # Rejected
        /\ Found(words, 9, "signedTenths") # Rejected /\ Found(words, 10, "M") # Rejected
        /\ Found(words, 11, "signedTenths") # Rejected /\ Found(words, 12, "M") # Rejected
        /\ Found(words, 13, "tenths?") # Rejected /\ Found(words, 14, "station?") # Rejected
  BY EntryRead DEF Book
<1>5. Accepted(f) <=>
        /\ f.time # Rejected /\ f.latitude # Rejected /\ f.longitude # Rejected
        /\ f.gpsQuality # Rejected /\ f.numberSatellites # Rejected
        /\ f.horizontalDilutionOfPrecision # Rejected /\ f.antennaAltitude # Rejected
        /\ f.m # Rejected /\ f.geoidalSeparation # Rejected /\ f.m2 # Rejected
        /\ f.gpsDataAge # Rejected /\ f.differentialReferenceStation # Rejected
  BY <1>1 DEF Accepted
<1>6. \A entry \in Book("GGA", words) : entry.leaf # "none" =>
        bridgeNMEAGGAMessage(f)[entry.leaf] = Found(words, entry.at, entry.what)
  BY <1>3 DEF Book, Entry, Silent, bridgeNMEAGGAMessage
<1> QED BY <1>3, <1>4, <1>5, <1>6

\* the same for GLL
LEMMA GLLByBook ==
  ASSUME NEW words, NEW f, f = GLL(AllWords(words))
  PROVE  /\ Accepted(f) <=> \A entry \in Book("GLL", words) : IsRead(words, entry)
         /\ \A entry \in Book("GLL", words) : entry.leaf # "none" =>
              bridgeNMEAGLLMessage(f)[entry.leaf] = Found(words, entry.at, entry.what)
<1> DEFINE w == AllWords(words)
<1>1. DOMAIN f = {"latitude", "longitude", "time", "dataValid", "faaModeIndicator"}
  BY DEF GLL
<1>2. /\ f.latitude = Latitude(w[1], w[2]) /\ f.longitude = Longitude(w[3], w[4])
      /\ f.time = Time(w[5]) /\ f.dataValid = DataValid(w[6])
      /\ f.faaModeIndicator = FAAModeIndicator(w[7])
  BY DEF GLL
<1> HIDE DEF w
<1>3. /\ f.latitude = Found(words, 1, "latitude") /\ f.longitude = Found(words, 3, "longitude")
      /\ f.time = Found(words, 5, "time") /\ f.dataValid = Found(words, 6, "valid")
      /\ f.faaModeIndicator = Found(words, 7, "mode?")
  BY <1>2, FoundIs DEF w
<1>4. (\A entry \in Book("GLL", words) : IsRead(words, entry)) <=>
        /\ Found(words, 1, "latitude") # Rejected /\ Found(words, 3, "longitude") # Rejected
        /\ Found(words, 5, "time") # Rejected /\ Found(words, 6, "valid") # Rejected
        /\ Found(words, 7, "mode?") # Rejected
  BY EntryRead DEF Book
<1>5. Accepted(f) <=>
        /\ f.latitude # Rejected /\ f.longitude # Rejected /\ f.time # Rejected
        /\ f.dataValid # Rejected /\ f.faaModeIndicator # Rejected
  BY <1>1 DEF Accepted
<1>6. \A entry \in Book("GLL", words) : entry.leaf # "none" =>
        bridgeNMEAGLLMessage(f)[entry.leaf] = Found(words, entry.at, entry.what)
  BY <1>3 DEF Book, Entry, Silent, bridgeNMEAGLLMessage
<1> QED BY <1>3, <1>4, <1>5, <1>6

\* the same for GST
LEMMA GSTByBook ==
  ASSUME NEW words, NEW f, f = GST(AllWords(words))
  PROVE  /\ Accepted(f) <=> \A entry \in Book("GST", words) : IsRead(words, entry)
         /\ \A entry \in Book("GST", words) : entry.leaf # "none" =>
              bridgeNMEAGSTMessage(f)[entry.leaf] = Found(words, entry.at, entry.what)
<1> DEFINE w == AllWords(words)
<1>1. DOMAIN f = {"time", "standardDeviationOfRangeInputsRMS", "standardDeviationOfSemiMajorAxis",
                  "standardDeviationOfSemiMinorAxis", "orientationOfSemiMajorAxis",
                  "standardDeviationOfLatitudeError", "standardDeviationOfLongitudeError",
                  "standardDeviationOfAltitudeError"}
  BY DEF GST
<1>2. /\ f.time = Time(w[1]) /\ f.standardDeviationOfRangeInputsRMS = TenthsUInt16(w[2], Required)
      /\ f.standardDeviationOfSemiMajorAxis = TenthsUInt16(w[3], Optional)
      /\ f.standardDeviationOfSemiMinorAxis = TenthsUInt16(w[4], Optional)
      /\ f.orientationOfSemiMajorAxis = TenthsUInt16(w[5], Optional)
      /\ f.standardDeviationOfLatitudeError = TenthsUInt16(w[6], Required)
      /\ f.standardDeviationOfLongitudeError = TenthsUInt16(w[7], Required)
      /\ f.standardDeviationOfAltitudeError = TenthsUInt16(w[8], Required)
  BY DEF GST, Required, Optional
<1> HIDE DEF w
<1>3. /\ f.time = Found(words, 1, "time")
      /\ f.standardDeviationOfRangeInputsRMS = Found(words, 2, "tenths")
      /\ f.standardDeviationOfSemiMajorAxis = Found(words, 3, "tenths?")
      /\ f.standardDeviationOfSemiMinorAxis = Found(words, 4, "tenths?")
      /\ f.orientationOfSemiMajorAxis = Found(words, 5, "tenths?")
      /\ f.standardDeviationOfLatitudeError = Found(words, 6, "tenths")
      /\ f.standardDeviationOfLongitudeError = Found(words, 7, "tenths")
      /\ f.standardDeviationOfAltitudeError = Found(words, 8, "tenths")
  BY <1>2, FoundIs DEF w
<1>4. (\A entry \in Book("GST", words) : IsRead(words, entry)) <=>
        /\ Found(words, 1, "time") # Rejected /\ Found(words, 2, "tenths") # Rejected
        /\ Found(words, 3, "tenths?") # Rejected /\ Found(words, 4, "tenths?") # Rejected
        /\ Found(words, 5, "tenths?") # Rejected /\ Found(words, 6, "tenths") # Rejected
        /\ Found(words, 7, "tenths") # Rejected /\ Found(words, 8, "tenths") # Rejected
  BY EntryRead DEF Book
<1>5. Accepted(f) <=>
        /\ f.time # Rejected /\ f.standardDeviationOfRangeInputsRMS # Rejected
        /\ f.standardDeviationOfSemiMajorAxis # Rejected
        /\ f.standardDeviationOfSemiMinorAxis # Rejected
        /\ f.orientationOfSemiMajorAxis # Rejected
        /\ f.standardDeviationOfLatitudeError # Rejected
        /\ f.standardDeviationOfLongitudeError # Rejected
        /\ f.standardDeviationOfAltitudeError # Rejected
  BY <1>1 DEF Accepted
<1>6. \A entry \in Book("GST", words) : entry.leaf # "none" =>
        bridgeNMEAGSTMessage(f)[entry.leaf] = Found(words, entry.at, entry.what)
  BY <1>3 DEF Book, Entry, Silent, bridgeNMEAGSTMessage
<1> QED BY <1>3, <1>4, <1>5, <1>6

\* the same for RMC
LEMMA RMCByBook ==
  ASSUME NEW words, NEW f, f = RMC(AllWords(words))
  PROVE  /\ Accepted(f) <=> \A entry \in Book("RMC", words) : IsRead(words, entry)
         /\ \A entry \in Book("RMC", words) : entry.leaf # "none" =>
              bridgeNMEARMCMessage(f)[entry.leaf] = Found(words, entry.at, entry.what)
<1> DEFINE w == AllWords(words)
<1>1. DOMAIN f = {"time", "dataValid", "latitude", "longitude", "speedOverGround",
                  "trackMadeGood", "date", "magneticVariation", "faaModeIndicator"}
  BY DEF RMC
<1>2. /\ f.time = Time(w[1]) /\ f.dataValid = DataValid(w[2]) /\ f.latitude = Latitude(w[3], w[4])
      /\ f.longitude = Longitude(w[5], w[6]) /\ f.speedOverGround = TenthsUInt16(w[7], Required)
      /\ f.trackMadeGood = TenthsUInt16(w[8], Optional) /\ f.date = Date(w[9])
      /\ f.magneticVariation = MagneticVariation(w[10], w[11])
      /\ f.faaModeIndicator = FAAModeIndicator(w[12])
  BY DEF RMC, Required, Optional
<1> HIDE DEF w
<1>3. /\ f.time = Found(words, 1, "time") /\ f.dataValid = Found(words, 2, "valid")
      /\ f.latitude = Found(words, 3, "latitude") /\ f.longitude = Found(words, 5, "longitude")
      /\ f.speedOverGround = Found(words, 7, "tenths")
      /\ f.trackMadeGood = Found(words, 8, "tenths?") /\ f.date = Found(words, 9, "date?")
      /\ f.magneticVariation = Found(words, 10, "variation?")
      /\ f.faaModeIndicator = Found(words, 12, "mode?")
  BY <1>2, FoundIs DEF w
<1>4. (\A entry \in Book("RMC", words) : IsRead(words, entry)) <=>
        /\ Found(words, 1, "time") # Rejected /\ Found(words, 2, "valid") # Rejected
        /\ Found(words, 3, "latitude") # Rejected /\ Found(words, 5, "longitude") # Rejected
        /\ Found(words, 7, "tenths") # Rejected /\ Found(words, 8, "tenths?") # Rejected
        /\ Found(words, 9, "date?") # Rejected /\ Found(words, 10, "variation?") # Rejected
        /\ Found(words, 12, "mode?") # Rejected
  BY EntryRead DEF Book
<1>5. Accepted(f) <=>
        /\ f.time # Rejected /\ f.dataValid # Rejected /\ f.latitude # Rejected
        /\ f.longitude # Rejected /\ f.speedOverGround # Rejected /\ f.trackMadeGood # Rejected
        /\ f.date # Rejected /\ f.magneticVariation # Rejected /\ f.faaModeIndicator # Rejected
  BY <1>1 DEF Accepted
<1>6. \A entry \in Book("RMC", words) : entry.leaf # "none" =>
        bridgeNMEARMCMessage(f)[entry.leaf] = Found(words, entry.at, entry.what)
  BY <1>3 DEF Book, Entry, Silent, bridgeNMEARMCMessage
<1> QED BY <1>3, <1>4, <1>5, <1>6

\* TXT is not bridged, but accepted in the same way.
LEMMA TXTByBook ==
  ASSUME NEW words, NEW f, f = TXT(AllWords(words))
  PROVE  Accepted(f) <=> \A entry \in Book("TXT", words) : IsRead(words, entry)
<1> DEFINE w == AllWords(words)
<1>1. DOMAIN f = {"totalSentences", "sentenceNumber", "textIdentifier", "text"}
  BY DEF TXT
<1>2. /\ f.totalSentences = ReadByte(w[1]) /\ f.sentenceNumber = ReadByte(w[2])
      /\ f.textIdentifier = ReadByte(w[3]) /\ f.text = AcceptedIf(w[4] # Missing, w[4])
  BY DEF TXT, ReadByte, Required
<1> HIDE DEF w
<1>3. /\ f.totalSentences = Found(words, 1, "byte") /\ f.sentenceNumber = Found(words, 2, "byte")
      /\ f.textIdentifier = Found(words, 3, "byte") /\ f.text = Found(words, 4, "text")
  BY <1>2, FoundIs DEF w
<1>4. (\A entry \in Book("TXT", words) : IsRead(words, entry)) <=>
        /\ Found(words, 1, "byte") # Rejected /\ Found(words, 2, "byte") # Rejected
        /\ Found(words, 3, "byte") # Rejected /\ Found(words, 4, "text") # Rejected
  BY EntryRead DEF Book
<1>5. Accepted(f) <=>
        /\ f.totalSentences # Rejected /\ f.sentenceNumber # Rejected
        /\ f.textIdentifier # Rejected /\ f.text # Rejected
  BY <1>1 DEF Accepted
<1> QED BY <1>3, <1>4, <1>5

\* the same for VDM and VDO
LEMMA VDMVDOByBook ==
  ASSUME NEW words, NEW f, f = VDMVDO(AllWords(words)), NEW type \in {"VDM", "VDO"}
  PROVE  Accepted(f) <=> \A entry \in Book(type, words) : IsRead(words, entry)
<1> DEFINE w == AllWords(words)
<1>1. DOMAIN f = {"totalFragments", "fragmentNumber", "messageId", "radioChannelCode"}
  BY DEF VDMVDO
<1>2. /\ f.totalFragments = ReadByte(w[1]) /\ f.fragmentNumber = ReadByte(w[2])
      /\ f.messageId = ReadWholeUInt16(w[3], Optional)
      /\ f.radioChannelCode = RadioChannelCode(w[4])
  BY DEF VDMVDO, Optional, ReadByte, ReadWholeUInt16, Required
<1> HIDE DEF w
<1>3. /\ f.totalFragments = Found(words, 1, "byte") /\ f.fragmentNumber = Found(words, 2, "byte")
      /\ f.messageId = Found(words, 3, "word?") /\ f.radioChannelCode = Found(words, 4, "channel")
  BY <1>2, FoundIs DEF w
<1>4. (\A entry \in Book(type, words) : IsRead(words, entry)) <=>
        /\ Found(words, 1, "byte") # Rejected /\ Found(words, 2, "byte") # Rejected
        /\ Found(words, 3, "word?") # Rejected /\ Found(words, 4, "channel") # Rejected
  BY EntryRead DEF Book
<1>5. Accepted(f) <=>
        /\ f.totalFragments # Rejected /\ f.fragmentNumber # Rejected /\ f.messageId # Rejected
        /\ f.radioChannelCode # Rejected
  BY <1>1 DEF Accepted
<1> QED BY <1>3, <1>4, <1>5

\* The twelve words of satellite IDs, as GSA reads them and as the book has them.
LEMMA SatelliteIDsFound ==
  ASSUME NEW words
  PROVE  SatelliteIDs(AllWords(words)) = Found(words, 3, "IDs")
<1> DEFINE ws == [k \in 1..12 |-> Word(words, 3 + k - 1)]
           w == AllWords(words)
           accepted(v) == AcceptedIf(\A k \in 1..12 : UInt16(v[k], TRUE, 65535) # Rejected,
                                     [k \in DOMAIN Present(v) |-> Present(v)[k].whole])
<1>1. ws = [i \in 1..12 |-> w[i + 2]]
  <2>1. ASSUME NEW i \in 1..12
        PROVE  w[i + 2] = Word(words, 3 + i - 1)
    <3>1. i + 2 \in 1..MaxWords /\ 3 + i - 1 = i + 2
      BY DEF MaxWords
    <3> QED BY <3>1 DEF AllWords
  <2> HIDE DEF w
  <2> QED BY <2>1
<1>2. Found(words, 3, "IDs") = IDs(ws)
  <2>1. Found(words, 3, "IDs") = Reads("IDs", ws)
    BY DEF Found, Width
  <2> HIDE DEF ws
  <2> QED BY <2>1, ReadsIs
<1>3. SatelliteIDs(w) = accepted([i \in 1..12 |-> w[i + 2]])
  BY DEF SatelliteIDs
<1>4. IDs(ws) = accepted(ws)
  BY DEF IDs, ReadWholeUInt16, Optional
<1> HIDE DEF ws, w, accepted
<1> QED BY <1>1, <1>2, <1>3, <1>4 DEF w

\* GSA keeps a Boolean for its first word; the bridge makes a name of it.
LEMMA SelectionIs ==
  ASSUME NEW w, NEW mode,
         mode = AcceptedIf(w \in {Letter("A"), Letter("M")}, w = Letter("A"))
  PROVE  /\ mode # Rejected <=> Selection(w) # Rejected
         /\ mode # Rejected =>
              Sets(IF mode.value THEN "Automatic" ELSE "Manual") = Selection(w)
BY DEF AcceptedIf, Selection, Rejected, Sets

\* GSA by the book
LEMMA GSAByBook ==
  ASSUME NEW words, NEW f, f = GSA(AllWords(words))
  PROVE  /\ Accepted(f) <=> \A entry \in Book("GSA", words) : IsRead(words, entry)
         /\ Accepted(f) => \A entry \in Book("GSA", words) : entry.leaf # "none" =>
              bridgeNMEAGSAMessage(f)[entry.leaf] = Found(words, entry.at, entry.what)
<1> DEFINE w == AllWords(words)
           mode == Sets(IF f.automaticMode.value THEN "Automatic" ELSE "Manual")
<1>1. DOMAIN f = {"automaticMode", "gpsFixMode", "satelliteIDs", "pdop", "hdop", "vdop"}
  BY DEF GSA
<1>2. /\ f.automaticMode = AcceptedIf(w[1] \in {Letter("A"), Letter("M")}, w[1] = Letter("A"))
      /\ f.gpsFixMode = GPSFixMode(w[2]) /\ f.satelliteIDs = SatelliteIDs(w)
      /\ f.pdop = HundredthsUInt8(w[15]) /\ f.hdop = HundredthsUInt8(w[16])
      /\ f.vdop = HundredthsUInt8(w[17])
  BY DEF GSA
<1>3. bridgeNMEAGSAMessage(f) =
        [gpsSatelliteSelectionMode |-> mode, gpsFixMode |-> f.gpsFixMode,
         gpsActiveSatellites |-> f.satelliteIDs,
         gpsPDOP |-> f.pdop, gpsHDOP |-> f.hdop, gpsVDOP |-> f.vdop]
  BY DEF bridgeNMEAGSAMessage
<1>4. /\ f.automaticMode # Rejected <=> Selection(w[1]) # Rejected
      /\ f.automaticMode # Rejected => mode = Selection(w[1])
  BY <1>2, SelectionIs
<1> HIDE DEF w, mode
<1>5. /\ Selection(w[1]) = Found(words, 1, "selection") /\ f.gpsFixMode = Found(words, 2, "fix")
      /\ f.satelliteIDs = Found(words, 3, "IDs") /\ f.pdop = Found(words, 15, "shortHundredths")
      /\ f.hdop = Found(words, 16, "shortHundredths")
      /\ f.vdop = Found(words, 17, "shortHundredths")
  BY <1>2, SatelliteIDsFound, FoundIs DEF w
<1>6. (\A entry \in Book("GSA", words) : IsRead(words, entry)) <=>
        /\ Found(words, 1, "selection") # Rejected /\ Found(words, 2, "fix") # Rejected
        /\ Found(words, 3, "IDs") # Rejected /\ Found(words, 15, "shortHundredths") # Rejected
        /\ Found(words, 16, "shortHundredths") # Rejected
        /\ Found(words, 17, "shortHundredths") # Rejected
  BY EntryRead DEF Book
<1>7. Accepted(f) <=>
        /\ f.automaticMode # Rejected /\ f.gpsFixMode # Rejected /\ f.satelliteIDs # Rejected
        /\ f.pdop # Rejected /\ f.hdop # Rejected /\ f.vdop # Rejected
  BY <1>1 DEF Accepted
<1>8. Accepted(f) => \A entry \in Book("GSA", words) : entry.leaf # "none" =>
        bridgeNMEAGSAMessage(f)[entry.leaf] = Found(words, entry.at, entry.what)
  <2> SUFFICES ASSUME Accepted(f)
               PROVE  \A entry \in Book("GSA", words) : entry.leaf # "none" =>
                        bridgeNMEAGSAMessage(f)[entry.leaf] = Found(words, entry.at, entry.what)
    OBVIOUS
  <2>1. mode = Found(words, 1, "selection")
    BY <1>4, <1>5, <1>7
  <2> QED BY <1>3, <1>5, <2>1 DEF Book, Entry
<1> QED BY <1>4, <1>5, <1>6, <1>7, <1>8

\* The words of one satellite of GSV
LEMMA SatelliteFound ==
  ASSUME NEW words, NEW i \in 1..16
  PROVE  LET w == AllWords(words)
         IN  Found(words, i, "satellite?") # Rejected <=>
               w[i] = Missing \/ Accepted(Satellite(w, i))
<1> DEFINE ws == [k \in 1..4 |-> Word(words, i + k - 1)]
           w == AllWords(words)
           f == Satellite(w, i)
<1>1. ws[1] = w[i] /\ ws[2] = w[i + 1] /\ ws[3] = w[i + 2] /\ ws[4] = w[i + 3]
  BY DEF AllWords, MaxWords
<1>2. Found(words, i, "satellite?") = SatelliteHere(ws)
  <2>1. Found(words, i, "satellite?") = Reads("satellite?", ws)
    BY DEF Found, Width
  <2> HIDE DEF ws
  <2> QED BY <2>1, ReadsIs
<1> HIDE DEF ws, w
<1>3. DOMAIN f = {"id", "elevation", "azimuth", "signalToNoiseRatio"}
  BY DEF Satellite
<1>4. /\ f.id = ReadWholeUInt16(w[i], Required) /\ f.elevation = Int8(w[i + 1], Required, -90, 90)
      /\ f.azimuth = TenthsUInt16(w[i + 2], Required)
      /\ f.signalToNoiseRatio = UInt8(w[i + 3], Optional, 99)
  BY DEF Satellite, Required, Optional, ReadWholeUInt16
<1> HIDE DEF f
<1>5. Accepted(f) <=> /\ f.id # Rejected /\ f.elevation # Rejected
                      /\ f.azimuth # Rejected /\ f.signalToNoiseRatio # Rejected
  BY <1>3 DEF Accepted
<1>6. SatelliteHere(ws) # Rejected <=>
        \/ ws[1] = Missing
        \/ /\ ReadWholeUInt16(ws[1], Required) # Rejected
           /\ Int8(ws[2], Required, -90, 90) # Rejected
           /\ TenthsUInt16(ws[3], Required) # Rejected /\ UInt8(ws[4], Optional, 99) # Rejected
  BY Outcomes, Zenon DEF SatelliteHere
<1>7. Found(words, i, "satellite?") # Rejected <=> w[i] = Missing \/ Accepted(f)
  BY <1>1, <1>2, <1>4, <1>5, <1>6
<1> QED BY <1>7 DEF w, f

\* GSV, of four satellites at most, by the book; it is not bridged.
LEMMA GSVByBook ==
  ASSUME NEW words, NEW f, f = GSV(AllWords(words))
  PROVE  Accepted(f) <=> \A entry \in Book("GSV", words) : IsRead(words, entry)
<1> DEFINE w == AllWords(words)
           here(i) == w[i] = Missing \/ Accepted(Satellite(w, i))
<1>1. DOMAIN f = {"sentencesInGroup", "sentenceNumber", "numberSatellites", "satelittes"}
  BY DEF GSV
<1>2. /\ f.sentencesInGroup = UInt8(w[1], Required, 9)
      /\ f.sentenceNumber = UInt8(w[2], Required, 9)
      /\ f.numberSatellites = ReadByte(w[3])
  BY DEF GSV, Required, ReadByte
<1>3. f.satelittes # Rejected <=> \A i \in {4, 8, 12, 16} : here(i)
  BY DEF GSV, AcceptedIf, Rejected, Sets
<1>4. \A i \in {4, 8, 12, 16} : here(i) <=> Found(words, i, "satellite?") # Rejected
  BY SatelliteFound
<1> HIDE DEF w, here
<1>5. /\ f.sentencesInGroup = Found(words, 1, "digit") /\ f.sentenceNumber = Found(words, 2, "digit")
      /\ f.numberSatellites = Found(words, 3, "byte")
  BY <1>2, FoundIs DEF w
<1>6. (\A entry \in Book("GSV", words) : IsRead(words, entry)) <=>
        /\ Found(words, 1, "digit") # Rejected /\ Found(words, 2, "digit") # Rejected
        /\ Found(words, 3, "byte") # Rejected
        /\ \A i \in {4, 8, 12, 16} : Found(words, i, "satellite?") # Rejected
  BY EntryRead DEF Book
<1>7. Accepted(f) <=>
        /\ f.sentencesInGroup # Rejected /\ f.sentenceNumber # Rejected
        /\ f.numberSatellites # Rejected /\ f.satelittes # Rejected
  BY <1>1 DEF Accepted
<1> QED BY <1>3, <1>4, <1>5, <1>6, <1>7

\* After the end of a line there are no words.
LEMMA MissingAfter ==
  ASSUME NEW words \in Seq(Words), Word(words, 3) = Missing
  PROVE  Word(words, 4) = Missing
<1>1. Len(words) \in Nat
  OBVIOUS
<1>2. Missing \notin Words
  BY DEF Missing, Words, Empty, Garbled
<1>3. CASE Len(words) > 3
  <2>1. words[3] \in Words
    BY <1>1, <1>3
  <2>2. Word(words, 3) = words[3]
    <3>1. \A n \in Nat : n > 3 => ~(3 > n) /\ 3 # n
      OBVIOUS
    <3> QED BY <1>1, <1>3, <3>1, Zenon DEF Word
  <2> QED BY <1>2, <2>1, <2>2
<1>4. CASE Len(words) <= 3
  BY <1>1, <1>4 DEF Word
<1> QED BY <1>1, <1>3, <1>4

\* The letters that the old form of VTG leaves out count as read.
LEMMA LetterAccepted ==
  \A c : ConstantWord(Letter(c), c) # Rejected
BY DEF ConstantWord, AcceptedIf, Rejected, Sets

\* VTG with a letter after each number, by the book; without the third word there
\* is no fourth, so that the code's test of the third changes nothing.
LEMMA VTGNewByBook ==
  ASSUME NEW words \in Seq(Words), NEW f, f = VTG(AllWords(words)), wordIsT(AllWords(words))
  PROVE  /\ Accepted(f) <=> \A entry \in Book("VTG", words) : IsRead(words, entry)
         /\ Accepted(f) => \A entry \in Book("VTG", words) : entry.leaf # "none" =>
              bridgeNMEAVTGMessage(f)[entry.leaf] = Found(words, entry.at, entry.what)
<1> DEFINE w == AllWords(words)
<1>1. DOMAIN f = {"trackMadeGoodTrue", "trackMadeGoodMagnetic", "m", "speedOverGround", "n",
                  "speedOverGroundKmPerH", "k", "faaModeIndicator"}
  BY DEF VTG
<1>2. /\ f.trackMadeGoodTrue = TenthsUInt16(w[1], Optional)
      /\ f.trackMadeGoodMagnetic =
           IF w[3] = Missing THEN Rejected ELSE TenthsUInt16(w[3], Optional)
      /\ f.m = ConstantWord(w[4], "M") /\ f.speedOverGround = TenthsUInt16(w[5], Required)
      /\ f.n = ConstantWord(w[6], "N") /\ f.speedOverGroundKmPerH = TenthsUInt16(w[7], Required)
      /\ f.k = ConstantWord(w[8], "K") /\ f.faaModeIndicator = FAAModeIndicator(w[9])
  BY DEF VTG, Required, Optional
<1>3. w[2] = Word(words, 2) /\ w[3] = Word(words, 3) /\ w[4] = Word(words, 4)
  BY DEF AllWords, MaxWords
<1>4. Word(words, 2) = Letter("T")
  BY <1>3 DEF wordIsT
<1> HIDE DEF w
<1>5. w[3] = Missing => ConstantWord(w[4], "M") = Rejected
  <2>1. Missing # Letter("M")
    BY DEF Missing, Letter
  <2> QED BY <1>3, <2>1, MissingAfter DEF ConstantWord, AcceptedIf
<1>6. /\ f.trackMadeGoodTrue = Found(words, 1, "tenths?")
      /\ w[3] # Missing => f.trackMadeGoodMagnetic = Found(words, 3, "tenths?")
      /\ f.m = Found(words, 4, "M") /\ f.speedOverGround = Found(words, 5, "tenths")
      /\ f.n = Found(words, 6, "N") /\ f.speedOverGroundKmPerH = Found(words, 7, "tenths")
      /\ f.k = Found(words, 8, "K") /\ f.faaModeIndicator = Found(words, 9, "mode?")
  BY <1>2, FoundIs DEF w, Letters
<1>7. (\A entry \in Book("VTG", words) : IsRead(words, entry)) <=>
        /\ Found(words, 1, "tenths?") # Rejected /\ Found(words, 3, "tenths?") # Rejected
        /\ Found(words, 4, "M") # Rejected /\ Found(words, 5, "tenths") # Rejected
        /\ Found(words, 6, "N") # Rejected /\ Found(words, 7, "tenths") # Rejected
        /\ Found(words, 8, "K") # Rejected /\ Found(words, 9, "mode?") # Rejected
  BY <1>4, EntryRead DEF Book
<1>8. Accepted(f) <=>
        /\ f.trackMadeGoodTrue # Rejected /\ f.trackMadeGoodMagnetic # Rejected
        /\ f.m # Rejected /\ f.speedOverGround # Rejected /\ f.n # Rejected
        /\ f.speedOverGroundKmPerH # Rejected /\ f.k # Rejected /\ f.faaModeIndicator # Rejected
  BY <1>1 DEF Accepted
<1>9. Accepted(f) => w[3] # Missing
  BY <1>2, <1>8
<1>10. Accepted(f) => \A entry \in Book("VTG", words) : entry.leaf # "none" =>
         bridgeNMEAVTGMessage(f)[entry.leaf] = Found(words, entry.at, entry.what)
  BY <1>4, <1>6, <1>9 DEF Book, Entry, Silent, bridgeNMEAVTGMessage
<1>11. (\A entry \in Book("VTG", words) : IsRead(words, entry)) => w[3] # Missing
  BY <1>2, <1>5, <1>6, <1>7
<1> QED BY <1>6, <1>7, <1>8, <1>9, <1>10, <1>11

\* VTG without letters, by the book
LEMMA VTGOldByBook ==
  ASSUME NEW words \in Seq(Words), NEW f, f = VTG(AllWords(words)), ~wordIsT(AllWords(words))
  PROVE  /\ Accepted(f) <=> \A entry \in Book("VTG", words) : IsRead(words, entry)
         /\ \A entry \in Book("VTG", words) : entry.leaf # "none" =>
              bridgeNMEAVTGMessage(f)[entry.leaf] = Found(words, entry.at, entry.what)
<1> DEFINE w == AllWords(words)
<1>1. DOMAIN f = {"trackMadeGoodTrue", "trackMadeGoodMagnetic", "m", "speedOverGround", "n",
                  "speedOverGroundKmPerH", "k", "faaModeIndicator"}
  BY DEF VTG
<1>2. /\ f.trackMadeGoodTrue = TenthsUInt16(w[1], Optional)
      /\ f.trackMadeGoodMagnetic =
           IF w[2] = Missing THEN Rejected ELSE TenthsUInt16(w[2], Optional)
      /\ f.m = ConstantWord(Letter("M"), "M") /\ f.speedOverGround = TenthsUInt16(w[3], Required)
      /\ f.n = ConstantWord(Letter("N"), "N")
      /\ f.speedOverGroundKmPerH = TenthsUInt16(w[4], Required)
      /\ f.k = ConstantWord(Letter("K"), "K") /\ f.faaModeIndicator = FAAModeIndicator(w[5])
  BY DEF VTG, Required, Optional
<1>3. w[2] = Word(words, 2)
  BY DEF AllWords, MaxWords
<1>4. Word(words, 2) # Letter("T")
  BY <1>3 DEF wordIsT
<1> HIDE DEF w
<1>5. f.m # Rejected /\ f.n # Rejected /\ f.k # Rejected
  BY <1>2, LetterAccepted
<1>6. /\ f.trackMadeGoodTrue = Found(words, 1, "tenths?")
      /\ f.trackMadeGoodMagnetic = Found(words, 2, "tenths?!")
      /\ f.speedOverGround = Found(words, 3, "tenths")
      /\ f.speedOverGroundKmPerH = Found(words, 4, "tenths")
      /\ f.faaModeIndicator = Found(words, 5, "mode?")
  BY <1>2, FoundIs DEF w
<1>7. (\A entry \in Book("VTG", words) : IsRead(words, entry)) <=>
        /\ Found(words, 1, "tenths?") # Rejected /\ Found(words, 2, "tenths?!") # Rejected
        /\ Found(words, 3, "tenths") # Rejected /\ Found(words, 4, "tenths") # Rejected
        /\ Found(words, 5, "mode?") # Rejected
  BY <1>4, EntryRead DEF Book
<1>8. Accepted(f) <=>
        /\ f.trackMadeGoodTrue # Rejected /\ f.trackMadeGoodMagnetic # Rejected
        /\ f.m # Rejected /\ f.speedOverGround # Rejected /\ f.n # Rejected
        /\ f.speedOverGroundKmPerH # Rejected /\ f.k # Rejected /\ f.faaModeIndicator # Rejected
  BY <1>1 DEF Accepted
<1>9. \A entry \in Book("VTG", words) : entry.leaf # "none" =>
        bridgeNMEAVTGMessage(f)[entry.leaf] = Found(words, entry.at, entry.what)
  BY <1>4, <1>6 DEF Book, Entry, bridgeNMEAVTGMessage
<1> QED BY <1>5, <1>6, <1>7, <1>8, <1>9

-----------------------------------------------------------------------------
(* The lines that are handled *)

AnEntry(entry) == entry.at \in Nat \ {0} /\ entry.what \in Fields

\* The book places known fields at words from the first on.
LEMMA BookHasEntries ==
  ASSUME NEW type \in MessageTypes, NEW words
  PROVE  \A entry \in Book(type, words) : AnEntry(entry)
<1>1. CASE type = "DBK"
  BY <1>1 DEF Book, AnEntry, Entry, Silent, Fields, Letters, DepthEntries
<1>2. CASE type = "DBS"
  BY <1>2 DEF Book, AnEntry, Entry, Silent, Fields, Letters, DepthEntries
<1>3. CASE type = "DBT"
  BY <1>3 DEF Book, AnEntry, Entry, Silent, Fields, Letters, DepthEntries
<1>4. CASE type = "GGA"
  BY <1>4 DEF Book, AnEntry, Entry, Silent, Fields, Letters
<1>5. CASE type = "GLL"
  BY <1>5 DEF Book, AnEntry, Entry, Silent, Fields
<1>6. CASE type = "GSA"
  BY <1>6 DEF Book, AnEntry, Entry, Silent, Fields
<1>7. CASE type = "GST"
  BY <1>7 DEF Book, AnEntry, Entry, Silent, Fields
<1>8. CASE type = "GSV"
  BY <1>8 DEF Book, AnEntry, Entry, Silent, Fields
<1>9. CASE type = "RMC"
  BY <1>9 DEF Book, AnEntry, Entry, Silent, Fields
<1>10. CASE type = "TXT"
  BY <1>10 DEF Book, AnEntry, Entry, Silent, Fields
<1>11. CASE type = "VDM"
  BY <1>11 DEF Book, AnEntry, Entry, Silent, Fields
<1>12. CASE type = "VDO"
  BY <1>12 DEF Book, AnEntry, Entry, Silent, Fields
<1>13. CASE type = "VTG" /\ Word(words, 2) = Letter("T")
  BY <1>13 DEF Book, AnEntry, Entry, Silent, Fields, Letters
<1>14. CASE type = "VTG" /\ Word(words, 2) # Letter("T")
  BY <1>14 DEF Book, AnEntry, Entry, Silent, Fields
<1> QED
  BY <1>1, <1>2, <1>3, <1>4, <1>5, <1>6, <1>7, <1>8, <1>9, <1>10, <1>11, <1>12, <1>13,
     <1>14 DEF MessageTypes

\* Any message is accepted if and only if all entries of its type are read.
LEMMA ReadByBook ==
  ASSUME NEW type \in MessageTypes, NEW words \in Seq(Words)
  PROVE  Accepted(FieldsOf(type, AllWords(words))) <=>
           \A entry \in Book(type, words) : IsRead(words, entry)
<1> DEFINE w == AllWords(words)
<1>1. w[2] = Word(words, 2)
  BY DEF AllWords, MaxWords
<1> HIDE DEF w
<1>2. CASE type = "DBK"
  <2>1. FieldsOf(type, w) = DBK(w)
    BY <1>2 DEF FieldsOf
  <2>2. Book(type, words) = DepthEntries("depthBelowKeelFeet", "depthBelowKeelMeters",
                                         "depthBelowKeelFathoms")
    BY <1>2 DEF Book
  <2> QED BY <2>1, <2>2, DepthsByBook DEF w
<1>3. CASE type = "DBS"
  <2>1. FieldsOf(type, w) = DBK(w)
    BY <1>3 DEF FieldsOf, DBS
  <2>2. Book(type, words) = DepthEntries("depthBelowSurfaceFeet", "depthBelowSurfaceMeters",
                                         "depthBelowSurfaceFathoms")
    BY <1>3 DEF Book
  <2> QED BY <2>1, <2>2, DepthsByBook DEF w
<1>4. CASE type = "DBT"
  <2>1. FieldsOf(type, w) = DBK(w)
    BY <1>4 DEF FieldsOf, DBT
  <2>2. Book(type, words) = DepthEntries("depthBelowTransducerFeet", "depthBelowTransducerMeters",
                                         "depthBelowTransducerFathoms")
    BY <1>4 DEF Book
  <2> QED BY <2>1, <2>2, DepthsByBook DEF w
<1>5. CASE type = "GGA"
  <2>1. FieldsOf(type, w) = GGA(w)
    BY <1>5 DEF FieldsOf
  <2> QED BY <1>5, <2>1, GGAByBook DEF w
<1>6. CASE type = "GLL"
  <2>1. FieldsOf(type, w) = GLL(w)
    BY <1>6 DEF FieldsOf
  <2> QED BY <1>6, <2>1, GLLByBook DEF w
<1>7. CASE type = "GSA"
  <2>1. FieldsOf(type, w) = GSA(w)
    BY <1>7 DEF FieldsOf
  <2> QED BY <1>7, <2>1, GSAByBook DEF w
<1>8. CASE type = "GST"
  <2>1. FieldsOf(type, w) = GST(w)
    BY <1>8 DEF FieldsOf
  <2> QED BY <1>8, <2>1, GSTByBook DEF w
<1>9. CASE type = "GSV"
  <2>1. FieldsOf(type, w) = GSV(w)
    BY <1>9 DEF FieldsOf
  <2> QED BY <1>9, <2>1, GSVByBook DEF w
<1>10. CASE type = "RMC"
  <2>1. FieldsOf(type, w) = RMC(w)
    BY <1>10 DEF FieldsOf
  <2> QED BY <1>10, <2>1, RMCByBook DEF w
<1>11. CASE type = "TXT"
  <2>1. FieldsOf(type, w) = TXT(w)
    BY <1>11 DEF FieldsOf
  <2> QED BY <1>11, <2>1, TXTByBook DEF w
<1>12. CASE type \in {"VDM", "VDO"}
  <2>1. FieldsOf(type, w) = VDMVDO(w)
    BY <1>12 DEF FieldsOf
  <2> QED BY <1>12, <2>1, VDMVDOByBook DEF w
<1>13. CASE type = "VTG"
  <2>1. FieldsOf(type, w) = VTG(w)
    BY <1>13 DEF FieldsOf
  <2> QED BY <1>13, <2>1, VTGNewByBook, VTGOldByBook DEF w
<1> QED
  BY <1>2, <1>3, <1>4, <1>5, <1>6, <1>7, <1>8, <1>9, <1>10, <1>11, <1>12, <1>13 DEF MessageTypes, w

\* A message NMEAxxxMessage is read from exactly the lines with the words that
\* the book has, each within the limits the book gives it.
LEMMA AcceptedByBook ==
  ASSUME NEW type \in MessageTypes, NEW words \in Seq(Words)
  PROVE  Accepted(FieldsOf(type, AllWords(words))) <=>
           \A entry \in Book(type, words) : MayBe(entry.what, WordsOf(entry, words))
<1>1. ASSUME NEW entry \in Book(type, words)
      PROVE  IsRead(words, entry) <=> MayBe(entry.what, WordsOf(entry, words))
  BY BookHasEntries, FoundIfThere DEF AnEntry, IsRead
<1> QED BY <1>1, ReadByBook

\* parseNMEAMessage gives a message for the well-formed lines and no others.
LEMMA ParsedIsWellFormed ==
  ASSUME NEW line, line.words \in Seq(Words)
  PROVE  parseNMEAMessage(line).type # "none" <=> IsWellFormed(line)
<1>1. \A type \in MessageTypes : type # "none"
  BY DEF MessageTypes
<1>2. CASE line.type \notin MessageTypes \/ ~IsFramedFor(line.type, line.encapsulated)
  BY <1>2 DEF parseNMEAMessage, NoMessage, IsWellFormed
<1>3. CASE line.type \in MessageTypes /\ IsFramedFor(line.type, line.encapsulated)
  <2> DEFINE fields == FieldsOf(line.type, AllWords(line.words))
  <2>1. Accepted(fields) <=> IsWellFormed(line)
    BY <1>3, AcceptedByBook DEF IsWellFormed
  <2> HIDE DEF fields
  <2>2. parseNMEAMessage(line) =
          IF Accepted(fields) THEN [type |-> line.type, fields |-> fields] ELSE NoMessage
    BY <1>3 DEF parseNMEAMessage, fields
  <2> QED BY <1>1, <1>3, <2>1, <2>2 DEF NoMessage
<1> QED BY <1>2, <1>3

\* A line is counted as handled if and only if it is one of the book.
LEMMA LineCounts ==
  ASSUME HandlesWellFormed, stream \in Seq(Lines), HandleLine
  PROVE  HandlesWellFormed'
<1> DEFINE line == Head(stream)
           message == parseNMEAMessage(line)
<1>1. line \in Lines
  BY DEF HandleLine
<1>2. message.type # "none" <=> IsWellFormed(line)
  BY <1>1, ParsedIsWellFormed DEF Lines
<1>3. lineCompleted(line) /\ Remember(line)
  BY DEF HandleLine
<1> HIDE DEF line
<1>4. messagesCounter' = IF message.type = "none" THEN messagesCounter ELSE messagesCounter + 1
  BY <1>3 DEF lineCompleted
<1>5. wellFormed' = IF IsWellFormed(line) THEN wellFormed + 1 ELSE wellFormed
  BY <1>3 DEF Remember, history
<1> HIDE DEF message
<1> QED BY <1>2, <1>4, <1>5 DEF HandlesWellFormed

\* NMEADataModelBridge::processMessage gets a message from parseNMEAMessage for
\* exactly the lines that are sentences of the book with words that may be there,
\* numbers and fractions of a second within the limits of their types included.
THEOREM AlwaysHandlesWellFormed == Spec => []HandlesWellFormed
<1>1. Init => HandlesWellFormed
  BY DEF Init, HandlesWellFormed
<1>2. (LeavesInv /\ stream \in Seq(Lines)) /\ HandlesWellFormed /\ [Next]_vars
        => HandlesWellFormed'
  <2> SUFFICES ASSUME LeavesInv, stream \in Seq(Lines), HandlesWellFormed, [Next]_vars
               PROVE  HandlesWellFormed'
    OBVIOUS
  <2>1. CASE HandleLine
    BY <2>1, LineCounts
  <2>2. ASSUME ~HandleLine
        PROVE  messagesCounter' = messagesCounter /\ wellFormed' = wellFormed
    BY <2>2 DEF Next, Subscribe, Unsubscribe, Export, vars, history
  <2> QED BY <2>1, <2>2 DEF HandlesWellFormed
<1> QED BY <1>1, <1>2, LeavesInvariant, PTL DEF Spec

-----------------------------------------------------------------------------
(* What is shown of numbers *)

\* The i-th decimal of a number, or a zero.
Digit(digits, i) == IF i <= Len(digits) THEN digits[i] ELSE 0

\* Decimals are digits.
LEMMA DigitIsDigit ==
  ASSUME NEW digits \in Seq(0..9), NEW i \in Nat \ {0}
  PROVE  Digit(digits, i) \in 0..9
BY DEF Digit

\* The size of a number in thousandths
Size(whole, digits) ==
  1000 * whole + 100 * Digit(digits, 1) + 10 * Digit(digits, 2) + Digit(digits, 3)

\* A number is its size and its sign.
LEMMA ThousandthsIs ==
  ASSUME NEW whole, NEW digits
  PROVE  /\ Thousandths(FALSE, whole, digits) = Size(whole, digits)
         /\ Thousandths(TRUE, whole, digits) = -Size(whole, digits)
BY DEF Thousandths, Size, Digit

\* Division by ten takes off the last digit.
LEMMA ByTen ==
  ASSUME NEW n \in Nat, NEW r \in 0..9
  PROVE  (10 * n + r) \div 10 = n
OBVIOUS

\* What fields make of decimals
LEMMA DecimalsAre ==
  ASSUME NEW decimals \in Seq(0..9)
  PROVE  /\ Tenths(decimals) = (10 * Digit(decimals, 1) + Digit(decimals, 2) + 5) \div 10
         /\ Hundredths(decimals) =
              (100 * Digit(decimals, 1) + 10 * Digit(decimals, 2) + Digit(decimals, 3) + 5) \div 10
<1> DEFINE a == Digit(decimals, 1)
           b == Digit(decimals, 2)
           c == Digit(decimals, 3)
<1>1. a \in 0..9 /\ b \in 0..9 /\ c \in 0..9
  BY DigitIsDigit
<1> HIDE DEF a, b, c
<1>2. Len(decimals) \in Nat
  OBVIOUS
<1>3. CASE Len(decimals) = 0
  <2>1. a = 0 /\ b = 0 /\ c = 0
    BY <1>3 DEF Digit, a, b, c
  <2>2. Tenths(decimals) = 0 /\ Hundredths(decimals) = 0
    BY <1>3 DEF Tenths, Hundredths
  <2>3. (10 * a + b + 5) \div 10 = 0 /\ (100 * a + 10 * b + c + 5) \div 10 = 0
    BY <2>1
  <2> QED BY <2>2, <2>3 DEF a, b, c
<1>4. CASE Len(decimals) = 1
  <2>1. a = decimals[1] /\ b = 0 /\ c = 0
    BY <1>4 DEF Digit, a, b, c
  <2>2. Tenths(decimals) = a /\ Hundredths(decimals) = 10 * a
    BY <1>4, <2>1 DEF Tenths, Hundredths
  <2>3. (10 * a + b + 5) \div 10 = a /\ (100 * a + 10 * b + c + 5) \div 10 = 10 * a
    <3>1. 10 * a + b + 5 = 10 * a + 5 /\ 100 * a + 10 * b + c + 5 = 10 * (10 * a) + 5
      BY <1>1, <2>1
    <3>2. a \in Nat /\ 10 * a \in Nat /\ 5 \in 0..9
      BY <1>1
    <3> QED BY <3>1, <3>2, ByTen
  <2> QED BY <2>2, <2>3 DEF a, b, c
<1>5. CASE Len(decimals) = 2
  <2>1. a = decimals[1] /\ b = decimals[2] /\ c = 0
    BY <1>5 DEF Digit, a, b, c
  <2>2. Tenths(decimals) = (10 * a + b + 5) \div 10 /\ Hundredths(decimals) = 10 * a + b
    BY <1>5, <2>1 DEF Tenths, Hundredths
  <2>3. (100 * a + 10 * b + c + 5) \div 10 = 10 * a + b
    <3>1. 100 * a + 10 * b + c + 5 = 10 * (10 * a + b) + 5
      BY <1>1, <2>1
    <3>2. 10 * a + b \in Nat /\ 5 \in 0..9
      BY <1>1
    <3> QED BY <3>1, <3>2, ByTen
  <2> QED BY <2>2, <2>3 DEF a, b, c
<1>6. CASE Len(decimals) # 0 /\ Len(decimals) # 1 /\ Len(decimals) # 2
  <2>1. 1 <= Len(decimals) /\ 2 <= Len(decimals) /\ 3 <= Len(decimals)
    <3>1. \A n \in Nat : n # 0 /\ n # 1 /\ n # 2 => 1 <= n /\ 2 <= n /\ 3 <= n
      OBVIOUS
    <3> QED BY <1>6, <1>2, <3>1, Zenon
  <2>2. a = decimals[1] /\ b = decimals[2] /\ c = decimals[3]
    BY <2>1, Zenon DEF Digit, a, b, c
  <2>3. /\ Tenths(decimals) = (10 * decimals[1] + decimals[2] + 5) \div 10
        /\ Hundredths(decimals) = (100 * decimals[1] + 10 * decimals[2] + decimals[3] + 5) \div 10
    BY <1>6, Zenon DEF Tenths, Hundredths
  <2> QED BY <2>2, <2>3, Zenon DEF a, b, c
<1> QED BY <1>3, <1>4, <1>5, <1>6

\* Rounding to tenths, and to hundredths
LEMMA Rounds ==
  ASSUME NEW a \in 0..9, NEW b \in 0..9, NEW c \in 0..9
  PROVE  /\ LET t == (10 * a + b + 5) \div 10
                d == 100 * a + 10 * b + c - 100 * t
            IN  /\ t \in 0..10 /\ -50 <= d /\ d <= 50
                /\ t = 10 => 100 * a + 10 * b + c >= 950
         /\ LET h == (100 * a + 10 * b + c + 5) \div 10
                d == 100 * a + 10 * b + c - 10 * h
            IN  /\ h \in 0..100 /\ -5 <= d /\ d <= 5
                /\ h < 10 <=> 100 * a + 10 * b + c < 95
                /\ h = 100 <=> 100 * a + 10 * b + c >= 995
OBVIOUS

\* The digits shown of a number of tenths below 1, and of hundredths
LEMMA DigitsAre ==
  /\ \A t \in 0..9 : DigitsOf(t) = <<t>>
  /\ DigitsOf(10) = <<1, 0>>
  /\ \A h \in Nat : 10 <= h /\ h <= 99 => DigitsOf(h) = <<h \div 10, h % 10>>
  /\ DigitsOf(100) = <<1, 0, 0>>
BY DEF DigitsOf

\* The size of a number with one decimal
LEMMA SizeOfTenths ==
  ASSUME NEW whole \in Nat, NEW t \in Nat, NEW digits, digits = <<t>>
  PROVE  Size(whole, digits) = 1000 * whole + 100 * t
<1>1. Digit(digits, 1) = t /\ Digit(digits, 2) = 0 /\ Digit(digits, 3) = 0
  BY DEF Digit
<1> QED BY <1>1 DEF Size

\* With hundredths shown, it has those: two digits, as below .10 none are shown.
LEMMA SizeOfHundredths ==
  ASSUME NEW whole \in Nat, NEW h \in Nat, 10 <= h, h <= 99, NEW digits, digits = DigitsOf(h)
  PROVE  Size(whole, digits) = 1000 * whole + 10 * h
<1> DEFINE m == h \div 10
           n == h % 10
<1>1. h = 10 * m + n /\ m \in Nat /\ n \in Nat
  OBVIOUS
<1>2. digits = <<m, n>>
  BY DigitsAre
<1> HIDE DEF m, n
<1>3. Digit(digits, 1) = m /\ Digit(digits, 2) = n /\ Digit(digits, 3) = 0
  BY <1>2 DEF Digit
<1> QED BY <1>1, <1>3 DEF Size

\* Two numbers with the same sign are as near as their sizes.
LEMMA NearIs ==
  ASSUME NEW w, NEW text, NEW error \in Nat,
         text.kind = "number", text.negative = w.negative, w.negative \in BOOLEAN,
         Size(w.whole, w.decimals) \in Int, Size(text.whole, text.digits) \in Int,
         -error <= Size(w.whole, w.decimals) - Size(text.whole, text.digits),
         Size(w.whole, w.decimals) - Size(text.whole, text.digits) <= error
  PROVE  IsNear(w, text, error)
<1> DEFINE s == Size(w.whole, w.decimals)
           z == Size(text.whole, text.digits)
           ws == Thousandths(w.negative, w.whole, w.decimals)
           zs == Thousandths(text.negative, text.whole, text.digits)
<1>1. CASE w.negative = TRUE
  <2>1. ws = -s /\ zs = -z
    BY <1>1, ThousandthsIs
  <2> HIDE DEF s, z, ws, zs
  <2>2. Magnitude(ws - zs) <= error
    BY <2>1 DEF Magnitude, s, z
  <2> QED BY <2>2 DEF IsNear, ws, zs
<1>2. CASE w.negative = FALSE
  <2>1. ws = s /\ zs = z
    BY <1>2, ThousandthsIs
  <2> HIDE DEF s, z, ws, zs
  <2>2. Magnitude(ws - zs) <= error
    BY <2>1 DEF Magnitude, s, z
  <2> QED BY <2>2 DEF IsNear, ws, zs
<1> QED BY <1>1, <1>2

\* What t tenths, shown as this digit, are of a number
AreTenths(t, digits, whole, decimals) ==
  /\ t \in 0..10
  /\ t = 10 => Size(0, decimals) >= 950
  /\ Size(whole, decimals) \in Int /\ Size(whole, digits) \in Int
  /\ -50 <= Size(whole, decimals) - Size(whole, digits)
  /\ Size(whole, decimals) - Size(whole, digits) <= 50

\* The first decimal rounded, as a digit
LEMMA NearInTenths ==
  ASSUME NEW whole \in Nat, NEW decimals \in Seq(0..9),
         NEW t, t = Tenths(decimals), NEW digits, digits = <<t>>
  PROVE  AreTenths(t, digits, whole, decimals)
<1> DEFINE a == Digit(decimals, 1)
           b == Digit(decimals, 2)
           c == Digit(decimals, 3)
<1>1. a \in 0..9 /\ b \in 0..9 /\ c \in 0..9 /\ t = (10 * a + b + 5) \div 10
  BY DigitIsDigit, DecimalsAre
<1>2. Size(whole, decimals) = 1000 * whole + 100 * a + 10 * b + c
  BY DEF Size
<1>3. Size(0, decimals) = 1000 * 0 + 100 * a + 10 * b + c
  BY DEF Size
<1> HIDE DEF a, b, c
<1>4. /\ t \in 0..10
      /\ -50 <= 100 * a + 10 * b + c - 100 * t
      /\ 100 * a + 10 * b + c - 100 * t <= 50
      /\ t = 10 => 100 * a + 10 * b + c >= 950
  BY <1>1, Rounds
<1>5. Size(whole, digits) = 1000 * whole + 100 * t
  BY <1>4, SizeOfTenths
<1> QED BY <1>1, <1>2, <1>3, <1>4, <1>5 DEF AreTenths

\* A whole number that may have a sign
LEMMA SignedMagnitude ==
  ASSUME NEW negative \in BOOLEAN, NEW whole \in Nat,
         NEW number, number = IF negative THEN -whole ELSE whole
  PROVE  /\ Magnitude(number) = whole
         /\ (number < 0) = (negative /\ whole > 0)
<1>1. CASE negative
  BY <1>1 DEF Magnitude
<1>2. CASE ~negative
  BY <1>2 DEF Magnitude
<1> QED BY <1>1, <1>2

\* A number with another sign
LEMMA WithSign ==
  ASSUME NEW w, NEW negative, NEW whole, NEW decimals, NEW sign,
         w = Number(negative, whole, decimals)
  PROVE  [w EXCEPT !.negative = sign] = Number(sign, whole, decimals)
BY DEF Number

\* The characters of a number up to its period
LEMMA WidthIs ==
  ASSUME NEW negative \in BOOLEAN, NEW whole \in Nat
  PROVE  /\ WidthOf(negative, whole) \in 1..7
         /\ whole <= 9999 => WidthOf(negative, whole) <= 6
         /\ ~negative => WidthOf(negative, whole) <= 6
         /\ ~negative /\ whole <= 9999 => WidthOf(negative, whole) <= 5
         /\ ~negative /\ whole <= 999 => WidthOf(negative, whole) <= 4
         /\ ~negative /\ whole <= 99 => WidthOf(negative, whole) <= 3
<1> DEFINE digits == 1 + One(whole > 9) + One(whole > 99) + One(whole > 999) + One(whole > 9999)
           sign == One(negative)
<1>1. /\ digits \in 1..5 /\ (whole <= 9999 => digits <= 4)
      /\ (whole <= 999 => digits <= 3) /\ (whole <= 99 => digits <= 2)
  BY DEF One
<1>2. sign \in 0..1 /\ (~negative => sign = 0)
  BY DEF One
<1>3. WidthOf(negative, whole) = 1 + sign + digits
  <2>1. /\ One(negative) \in Int /\ One(whole > 9) \in Int /\ One(whole > 99) \in Int
        /\ One(whole > 999) \in Int /\ One(whole > 9999) \in Int
    BY DEF One
  <2> QED BY <2>1 DEF WidthOf
<1> HIDE DEF digits, sign
<1> QED BY <1>1, <1>2, <1>3

\* Digits that there is room for
LEMMA DigitsFit ==
  ASSUME NEW digits \in Seq(Nat), NEW room \in Int, Len(digits) <= room
  PROVE  FirstDigits(digits, room) = digits
<1>1. DOMAIN digits \cap 1..room = DOMAIN digits
  <2>1. DOMAIN digits = 1..Len(digits) /\ Len(digits) \in Nat
    OBVIOUS
  <2> QED BY <2>1
<1>2. FirstDigits(digits, room) = [i \in DOMAIN digits |-> digits[i]]
  BY <1>1 DEF FirstDigits
<1>3. digits = [i \in DOMAIN digits |-> digits[i]]
  OBVIOUS
<1> QED BY <1>2, <1>3

\* The digits of 10 and of 100 without the last
LEMMA DigitsCut ==
  /\ FirstDigits(<<1, 0>>, 1) = <<1>>
  /\ FirstDigits(<<1, 0, 0>>, 2) = <<1, 0>>
<1>1. FirstDigits(<<1, 0>>, 1) = <<1>>
  <2> DEFINE d == <<1, 0>>
  <2>1. DOMAIN d = 1..2 /\ d[1] = 1
    OBVIOUS
  <2> HIDE DEF d
  <2>2. DOMAIN d \cap 1..1 = 1..1
    BY <2>1
  <2>3. FirstDigits(d, 1) = [i \in 1..1 |-> d[i]]
    BY <2>2 DEF FirstDigits
  <2>4. [i \in 1..1 |-> d[i]] = <<1>>
    BY <2>1
  <2> QED BY <2>3, <2>4 DEF d
<1>2. FirstDigits(<<1, 0, 0>>, 2) = <<1, 0>>
  <2> DEFINE d == <<1, 0, 0>>
  <2>1. DOMAIN d = 1..3 /\ d[1] = 1 /\ d[2] = 0
    OBVIOUS
  <2> HIDE DEF d
  <2>2. DOMAIN d \cap 1..2 = 1..2
    BY <2>1
  <2>3. FirstDigits(d, 2) = [i \in 1..2 |-> d[i]]
    BY <2>2 DEF FirstDigits
  <2>4. [i \in 1..2 |-> d[i]] = <<1, 0>>
    BY <2>1
  <2> QED BY <2>3, <2>4 DEF d
<1> QED BY <1>1, <1>2

\* A number as a leaf in tenths shows it
LEMMA TenthsShown ==
  ASSUME NEW w, w.negative \in BOOLEAN, w.whole \in Nat, w.decimals \in Seq(0..9),
         w = Number(w.negative, w.whole, w.decimals),
         NEW longest \in {7, 8}, w.negative => longest = 8,
         NEW number, number = IF w.negative THEN -w.whole ELSE w.whole
  PROVE  IsShownInTenths(w, TenthsText([whole |-> number, tenths |-> Tenths(w.decimals)], longest))
<1> DEFINE t == Tenths(w.decimals)
           digits == <<t>>
           sign == w.negative /\ w.whole > 0
           room == longest - WidthOf(sign, w.whole)
           text == Decimal(sign, w.whole, FirstDigits(DigitsOf(t), room))
<1>1. TenthsText([whole |-> number, tenths |-> t], longest) = text
  <2>1. Magnitude(number) = w.whole /\ (number < 0) = sign
    BY SignedMagnitude
  <2> QED BY <2>1 DEF TenthsText, Fitting
<1>6. room \in Int /\ room >= 1 /\ (w.whole <= 9999 => room >= 2)
  <2> DEFINE width == WidthOf(sign, w.whole)
  <2>1. sign \in BOOLEAN /\ w.whole \in Nat /\ longest \in {7, 8} /\ (sign => longest = 8)
    OBVIOUS
  <2>2. room = longest - width
    OBVIOUS
  <2> HIDE DEF sign, room
  <2>3. /\ width \in 1..7 /\ (w.whole <= 9999 => width <= 6)
        /\ ~sign => width <= 6 /\ (w.whole <= 9999 => width <= 5)
    BY ONLY <2>1, WidthIs
  <2> HIDE DEF width
  <2>4. CASE sign
    <3>1. longest = 8
      BY <2>1, <2>4
    <3> QED BY ONLY <2>1, <2>2, <2>3, <3>1
  <2>5. CASE ~sign
    BY ONLY <2>1, <2>2, <2>3, <2>5
  <2> QED BY <2>4, <2>5
<1> HIDE DEF room
<1>2. t = Tenths(w.decimals) /\ digits = <<t>>
  OBVIOUS
<1> HIDE DEF t, digits
<1>3. AreTenths(t, digits, w.whole, w.decimals)
  BY <1>2, NearInTenths, Zenon
<1>4. CASE t = 10
  <2>1. Rest(w) = Size(0, w.decimals)
    BY ThousandthsIs DEF Rest
  <2>2. text = Decimal(sign, w.whole, FirstDigits(<<1, 0>>, room))
    BY <1>4, DigitsAre
  <2>3. Rest(w) >= 950
    BY <1>3, <1>4, <2>1 DEF AreTenths
  <2>4. CASE room >= 2
    <3>1. <<1, 0>> \in Seq(Nat) /\ Len(<<1, 0>>) <= room
      BY <1>6, <2>4
    <3>2. FirstDigits(<<1, 0>>, room) = <<1, 0>>
      BY <1>6, <3>1, DigitsFit
    <3>3. text = Decimal(sign, w.whole, <<1, 0>>)
      BY <2>2, <3>2
    <3> HIDE DEF text
    <3>4. IsShownInTenths(w, text)
      BY <2>3, <3>3 DEF IsShownInTenths
    <3> QED BY <1>1, <3>4 DEF t
  <2>5. CASE ~(room >= 2)
    <3>1. room = 1 /\ w.whole > 9999
      BY <1>6, <2>5
    <3>2. sign = w.negative
      BY <3>1
    <3>3. text = Decimal(w.negative, w.whole, <<1>>)
      BY <2>2, <3>1, <3>2, DigitsCut
    <3> HIDE DEF text
    <3>4. IsShownInTenths(w, text)
      BY <2>3, <3>1, <3>3 DEF IsShownInTenths
    <3> QED BY <1>1, <3>4 DEF t
  <2> QED BY <2>4, <2>5
<1>5. CASE t # 10
  <2>1. FirstDigits(DigitsOf(t), room) = digits
    <3>1. t \in 0..9
      BY <1>3, <1>5 DEF AreTenths
    <3>2. DigitsOf(t) = digits
      BY <1>2, <3>1, DigitsAre
    <3>3. digits \in Seq(Nat) /\ Len(digits) <= room
      BY <1>2, <1>6, <3>1
    <3> QED BY <1>6, <3>2, <3>3, DigitsFit
  <2>2. text.kind = "number" /\ text.negative = (w.negative /\ w.whole > 0)
        /\ text.whole = w.whole /\ text.digits = digits
    BY <2>1 DEF Decimal
  <2> HIDE DEF text
  <2>3. CASE ~w.negative \/ w.whole > 0
    <3>1. text.negative = w.negative
      BY <2>2, <2>3
    <3>2. IsNear(w, text, 50)
      BY <1>3, <2>2, <3>1, NearIs DEF AreTenths
    <3> QED BY <1>1, <3>2 DEF IsShownInTenths, t
  <2>4. CASE w.negative /\ ~(w.whole > 0)
    <3> DEFINE no == FALSE
               v == [w EXCEPT !.negative = no]
    <3>1. text.negative = no /\ w.whole = 0
      <4>1. \A n \in Nat : ~(n > 0) => n = 0
        OBVIOUS
      <4> QED BY <2>2, <2>4, <4>1, Zenon
    <3> HIDE DEF no
    <3>2. v = Number(no, w.whole, w.decimals)
      BY WithSign
    <3>3. v.negative = no /\ v.whole = w.whole /\ v.decimals = w.decimals
      BY <3>2 DEF Number
    <3> HIDE DEF v
    <3>4. v.negative \in BOOLEAN
      BY <3>3 DEF no
    <3>5. IsNear(v, text, 50)
      BY <1>3, <2>2, <3>1, <3>3, <3>4, NearIs DEF AreTenths
    <3>6. IsNear([w EXCEPT !.negative = FALSE], text, 50)
      BY <3>5 DEF v, no
    <3> QED BY <1>1, <2>4, <3>1, <3>6 DEF IsShownInTenths, t
  <2> QED BY <2>3, <2>4
<1> QED BY <1>4, <1>5, Zenon

\* What h hundredths, shown as these digits, are of a number
AreHundredths(h, digits, whole, decimals) ==
  /\ h \in Nat /\ h <= 100
  /\ h < 10 => Size(0, decimals) < 95
  /\ h = 100 => Size(0, decimals) >= 995
  /\ 10 <= h /\ h <= 99 =>
       /\ Size(0, decimals) \in Int
       /\ 95 <= Size(0, decimals) /\ Size(0, decimals) <= 994
       /\ Size(whole, decimals) \in Int /\ Size(whole, digits) \in Int
       /\ -5 <= Size(whole, decimals) - Size(whole, digits)
       /\ Size(whole, decimals) - Size(whole, digits) <= 5

\* The first two decimals rounded, as digits
LEMMA NearInHundredths ==
  ASSUME NEW whole \in Nat, NEW decimals \in Seq(0..9),
         NEW h, h = Hundredths(decimals), NEW digits, digits = DigitsOf(h)
  PROVE  AreHundredths(h, digits, whole, decimals)
<1> DEFINE a == Digit(decimals, 1)
           b == Digit(decimals, 2)
           c == Digit(decimals, 3)
<1>1. a \in 0..9 /\ b \in 0..9 /\ c \in 0..9 /\ h = (100 * a + 10 * b + c + 5) \div 10
  BY DigitIsDigit, DecimalsAre
<1>2. Size(whole, decimals) = 1000 * whole + 100 * a + 10 * b + c
  BY DEF Size
<1>3. Size(0, decimals) = 1000 * 0 + 100 * a + 10 * b + c
  BY DEF Size
<1> HIDE DEF a, b, c
<1>4. /\ h \in Nat /\ h <= 100
      /\ -5 <= 100 * a + 10 * b + c - 10 * h
      /\ 100 * a + 10 * b + c - 10 * h <= 5
      /\ h < 10 <=> 100 * a + 10 * b + c < 95
      /\ h = 100 <=> 100 * a + 10 * b + c >= 995
  BY <1>1, Rounds
<1>5. 10 <= h /\ h <= 99 => Size(whole, digits) = 1000 * whole + 10 * h
  BY <1>4, SizeOfHundredths
<1>6. CASE h < 10 \/ h = 100
  BY <1>1, <1>3, <1>4, <1>6 DEF AreHundredths
<1>7. CASE 10 <= h /\ h <= 99
  <2>1. Size(whole, digits) = 1000 * whole + 10 * h
    BY <1>5, <1>7
  <2> QED BY <1>1, <1>2, <1>3, <1>4, <1>7, <2>1 DEF AreHundredths
<1> QED BY <1>4, <1>6, <1>7

\* A number as a leaf in hundredths shows it
LEMMA HundredthsShown ==
  ASSUME NEW w, w.negative = FALSE, w.whole \in Nat, w.decimals \in Seq(0..9),
         NEW longest, longest = 8 \/ (longest = 6 /\ w.whole <= 999)
  PROVE  IsShownInHundredths(
           w, HundredthsText([whole |-> w.whole, hundredths |-> Hundredths(w.decimals)], longest))
<1> DEFINE h == Hundredths(w.decimals)
           digits == DigitsOf(h)
           no == FALSE
           room == longest - WidthOf(no, w.whole)
           text == Decimal(no, w.whole, FirstDigits(IF h < 10 THEN <<>> ELSE digits, room))
<1>1. HundredthsText([whole |-> w.whole, hundredths |-> h], longest) = text
  BY DEF HundredthsText, Fitting
<1>9. room \in Int /\ room >= 2 /\ (w.whole <= 99 => room >= 3)
  <2> DEFINE width == WidthOf(no, w.whole)
  <2>1. no \in BOOLEAN /\ ~no /\ w.whole \in Nat
    OBVIOUS
  <2>2. room = longest - width
    OBVIOUS
  <2> HIDE DEF no, room
  <2>3. /\ width \in 1..6 /\ (w.whole <= 9999 => width <= 5)
        /\ (w.whole <= 999 => width <= 4) /\ (w.whole <= 99 => width <= 3)
    BY ONLY <2>1, WidthIs
  <2>4. longest = 8 \/ (longest = 6 /\ w.whole <= 999)
    OBVIOUS
  <2> HIDE DEF width
  <2> QED BY ONLY <2>1, <2>2, <2>3, <2>4
<1> HIDE DEF room
<1>2. Rest(w) = Size(0, w.decimals)
  BY ThousandthsIs DEF Rest
<1>3. h = Hundredths(w.decimals) /\ digits = DigitsOf(h)
  OBVIOUS
<1> HIDE DEF h, digits, no
<1>4. AreHundredths(h, digits, w.whole, w.decimals)
  BY <1>3, NearInHundredths, Zenon
<1>5. CASE h < 10
  <2>2. FirstDigits(<<>>, room) = <<>>
    <3>1. <<>> \in Seq(Nat) /\ Len(<<>>) <= room
      BY <1>9
    <3> QED BY <1>9, <3>1, DigitsFit
  <2>1. text = Decimal(no, w.whole, <<>>) /\ Rest(w) < 95
    BY <1>2, <1>4, <1>5, <2>2 DEF AreHundredths
  <2> HIDE DEF text
  <2> QED BY <1>1, <2>1 DEF IsShownInHundredths, h, no
<1>6. CASE h = 100
  <2>1. ~(h < 10)
    BY <1>6
  <2>2. digits = <<1, 0, 0>>
    BY <1>3, <1>6, DigitsAre
  <2>3. text = Decimal(no, w.whole, FirstDigits(<<1, 0, 0>>, room)) /\ Rest(w) >= 995
    BY <1>2, <1>4, <1>6, <2>1, <2>2 DEF AreHundredths
  <2>4. CASE room >= 3
    <3>1. <<1, 0, 0>> \in Seq(Nat) /\ Len(<<1, 0, 0>>) <= room
      BY <1>9, <2>4
    <3>2. FirstDigits(<<1, 0, 0>>, room) = <<1, 0, 0>>
      BY <1>9, <3>1, DigitsFit
    <3>3. text = Decimal(no, w.whole, <<1, 0, 0>>)
      BY <2>3, <3>2
    <3> HIDE DEF text
    <3> QED BY <1>1, <2>3, <3>3 DEF IsShownInHundredths, h, no
  <2>5. CASE ~(room >= 3)
    <3>1. room = 2 /\ w.whole > 99
      BY <1>9, <2>5
    <3>2. text = Decimal(no, w.whole, <<1, 0>>)
      BY <2>3, <3>1, DigitsCut
    <3> HIDE DEF text
    <3> QED BY <1>1, <2>3, <3>1, <3>2 DEF IsShownInHundredths, h, no
  <2> QED BY <2>4, <2>5
<1>7. CASE 10 <= h /\ h <= 99
  <2>1. ~(h < 10)
    BY <1>4, <1>7 DEF AreHundredths
  <2>2. text = Decimal(no, w.whole, digits)
    <3>1. digits = <<h \div 10, h % 10>>
      BY <1>3, <1>4, <1>7, DigitsAre DEF AreHundredths
    <3>2. h \div 10 \in Nat /\ h % 10 \in Nat
      BY <1>4 DEF AreHundredths
    <3>3. digits \in Seq(Nat) /\ Len(digits) <= room
      BY <1>9, <3>1, <3>2
    <3>4. FirstDigits(digits, room) = digits
      BY <1>9, <3>3, DigitsFit
    <3> QED BY <2>1, <3>4
  <2>3. text.kind = "number" /\ text.negative = no /\ text.whole = w.whole /\ text.digits = digits
    BY <2>2 DEF Decimal
  <2>4. Rest(w) \in 95..994
    <3>1. Rest(w) \in Int /\ 95 <= Rest(w) /\ Rest(w) <= 994
      BY <1>2, <1>4, <1>7 DEF AreHundredths
    <3> DEFINE r == Rest(w)
    <3>2. r \in Int /\ 95 <= r /\ r <= 994
      BY <3>1
    <3> HIDE DEF r
    <3>3. r \in 95..994
      BY ONLY <3>2
    <3> QED BY ONLY <3>3 DEF r
  <2> HIDE DEF text
  <2>5. text.negative = w.negative /\ w.negative \in BOOLEAN
    BY <2>3 DEF no
  <2>6. IsNear(w, text, 5)
    BY <1>4, <1>7, <2>3, <2>5, NearIs DEF AreHundredths
  <2> QED BY <1>1, <2>4, <2>6 DEF IsShownInHundredths, h
<1>8. h < 10 \/ h = 100 \/ (10 <= h /\ h <= 99)
  BY <1>4 DEF AreHundredths
<1> QED BY <1>5, <1>6, <1>7, <1>8, Zenon

\* Minutes in hundred thousandths, as they are read
HundredThousandths(angle) ==
  100000 * angle.minutes + 10000 * Digit(angle.fraction, 1) + 1000 * Digit(angle.fraction, 2)
    + 100 * Digit(angle.fraction, 3) + 10 * Digit(angle.fraction, 4) + Digit(angle.fraction, 5)

\* The last digit of a minute is rounded away.
LEMMA MinutesShown ==
  ASSUME NEW angle, angle.minutes \in Nat, angle.fraction \in Seq(0..9)
  PROVE  Magnitude(10 * TenThousandths(angle) - HundredThousandths(angle)) <= 5
<1> DEFINE m == angle.minutes
           a == Digit(angle.fraction, 1)
           b == Digit(angle.fraction, 2)
           c == Digit(angle.fraction, 3)
           d == Digit(angle.fraction, 4)
           e == Digit(angle.fraction, 5)
           carry == IF e >= 5 THEN 1 ELSE 0
           cut == TenThousandths(angle)
           read == HundredThousandths(angle)
<1>1. m \in Nat /\ a \in 0..9 /\ b \in 0..9 /\ c \in 0..9 /\ d \in 0..9 /\ e \in 0..9
  BY DigitIsDigit
<1>2. cut = 10000 * m + 1000 * a + 100 * b + 10 * c + d + carry
  BY DEF TenThousandths, Digit
<1>3. read = 100000 * m + 10000 * a + 1000 * b + 100 * c + 10 * d + e
  BY DEF HundredThousandths
<1> HIDE DEF m, a, b, c, d, e, cut, read
<1>4. 10 * cut - read \in -5..5
  BY ONLY <1>1, <1>2, <1>3
<1>5. Magnitude(10 * cut - read) <= 5
  BY ONLY <1>4 DEF Magnitude
<1> QED BY <1>5 DEF cut, read

\* A latitude or longitude as its topic shows it
LEMMA AngleShown ==
  ASSUME NEW ws, ws[1].minutes \in Nat, ws[1].fraction \in Seq(0..9)
  PROVE  IsShownAsAngle(ws, Name(Coordinate(ws[1], ws[2])))
<1> DEFINE w == ws[1]
           text == Name(Coordinate(w, ws[2]))
<1>1. /\ text.kind = "name" /\ text.name.degrees = w.degrees /\ text.name.side = ws[2].letter
      /\ text.name.minutes = TenThousandths(w)
  BY DEF Name, Coordinate
<1>2. Magnitude(10 * TenThousandths(w) - HundredThousandths(w)) <= 5
  BY MinutesShown
<1> HIDE DEF text
<1>3. IsShownAsAngle(ws, text)
  BY <1>1, <1>2 DEF IsShownAsAngle, HundredThousandths, Digit
<1> QED BY <1>3 DEF text

-----------------------------------------------------------------------------
(* What is shown after a result *)

\* What a leaf holds after it was given a result.
Held(leaf, result, holds) ==
  /\ holds.isSet <=> result.outcome = "sets"
  /\ holds.isSet => holds.value \in {result.value, Member(leaf, result.value)}

\* What may be shown of it, by the type of the leaf.
ShownFor(type, result, text) ==
  /\ result.outcome = "removes" => text \in {NothingYet, Blank}
  /\ result.outcome = "sets" =>
       /\ type = "tenths" => text = TenthsText(result.value, 7)
       /\ type = "signedTenths" => text = TenthsText(result.value, 8)
       /\ type = "hundredths" => text = HundredthsText(result.value, 8)
       /\ type = "shortHundredths" => text = HundredthsText(result.value, 6)
       /\ type = "bool" => text = BoolText(result.value)
       /\ type = "string" => text = Name(result.value)
       /\ type = "time" => text = Name(TimeInLeaf(result.value))
       /\ type = "uint16" => SameModulo256(text, Decimal(FALSE, result.value, <<>>))

\* A leaf that was given a result holds it.
LEMMA BecomesHeld ==
  ASSUME NEW leaf \in Leaves, content[leaf].isSet \in BOOLEAN,
         NEW result, result.outcome \in {"sets", "removes"}
  PROVE  Held(leaf, result, Becomes(leaf, result).holds)
<1>1. CASE result.outcome = "sets"
  <2>1. Becomes(leaf, result) = Assigned(leaf, result.value)
    BY <1>1 DEF Becomes
  <2>2. CASE Changes(leaf, result.value)
    BY <1>1, <2>1, <2>2 DEF Assigned, Holds, Held
  <2>3. CASE ~Changes(leaf, result.value)
    BY <1>1, <2>1, <2>3 DEF Assigned, Kept, Changes, Held
  <2> QED BY <2>2, <2>3
<1>2. CASE result.outcome = "removes"
  BY <1>2 DEF Becomes, Removed, Kept, NoValue, Held
<1> QED BY <1>1, <1>2

\* Whoever is up to date with a leaf shows what it was given.
LEMMA HeldIsShown ==
  ASSUME NEW leaf, NEW result, result.outcome \in {"sets", "removes"},
         Element[leaf].type \in TextTypes,
         result.outcome = "sets" /\ Element[leaf].type = "uint16" => result.value \in Nat,
         NEW holds, Held(leaf, result, holds), NEW text, UpToDate(leaf, holds, text)
  PROVE  ShownFor(Element[leaf].type, result, text)
<1>1. CASE result.outcome = "removes"
  BY <1>1 DEF Held, UpToDate, ShownFor
<1>2. CASE result.outcome = "sets" /\ Element[leaf].type \notin {"uint16", "time"}
  <2>1. holds.isSet /\ holds.value = result.value
    BY <1>2 DEF Held, Member
  <2>2. text = Text(leaf, result.value)
    BY <1>2, <2>1 DEF UpToDate
  <2> QED BY <1>2, <2>2 DEF Text, ShownFor, StringText
<1>4. CASE result.outcome = "sets" /\ Element[leaf].type = "time"
  <2>1. holds.isSet /\ holds.value \in {result.value, TimeInLeaf(result.value)}
    BY <1>4 DEF Held, Member
  <2>2. text = Text(leaf, holds.value)
    BY <1>4, <2>1 DEF UpToDate
  <2>3. Text(leaf, holds.value) = Name(TimeInLeaf(holds.value))
    BY <1>4 DEF Text, StringText
  <2>4. TimeInLeaf(holds.value) = TimeInLeaf(result.value)
    BY <2>1, CutOnce
  <2> QED BY <1>4, <2>2, <2>3, <2>4 DEF ShownFor
<1>3. CASE result.outcome = "sets" /\ Element[leaf].type = "uint16"
  <2> DEFINE n == result.value
             v == holds.value
  <2>1. holds.isSet /\ n \in Nat /\ (v = n \/ v = n % 256)
    BY <1>3 DEF Held, Member
  <2>2. Text(leaf, v) = IntegerText(v)
    BY <1>3 DEF Text
  <2>3. text = IntegerText(v) \/ SameModulo256(text, IntegerText(v))
    BY <1>3, <2>1, <2>2 DEF UpToDate
  <2> HIDE DEF n, v
  <2>4. v \in Nat /\ v % 256 = n % 256
    BY <2>1
  <2>5. IntegerText(v).kind = "number" /\ IntegerText(v).whole = v
    BY <2>4 DEF IntegerText, Magnitude, Decimal
  <2>6. text.kind = "number" /\ text.whole % 256 = v % 256
    BY <2>3, <2>5 DEF SameModulo256
  <2>7. SameModulo256(text, Decimal(FALSE, n, <<>>))
    BY <2>4, <2>6 DEF SameModulo256, Decimal
  <2> QED BY <1>3, <2>7 DEF ShownFor, n
<1> QED BY <1>1, <1>2, <1>3, <1>4

-----------------------------------------------------------------------------
(* What may be shown of words, and what fields make of them *)

\* The type of the leaf that shows a `what'
TypeFor(what) ==
  CASE what \in {"tenths", "tenths?", "tenths?!"} -> "tenths"
    [] what \in {"signedTenths", "variation?"} -> "signedTenths"
    [] what \in {"hundredths", "shortHundredths", "time"} -> what
    [] what = "valid" -> "bool"
    [] what \in {"satellites", "station?"} -> "uint16"
    [] OTHER -> "string"

\* What leaves show
Shown ==
  {"tenths", "tenths?", "tenths?!", "signedTenths", "hundredths", "shortHundredths",
   "time", "date?", "latitude", "longitude", "variation?", "quality", "satellites",
   "station?", "valid", "mode?", "selection", "fix", "IDs"}

DateOf(w) == [month |-> w.month, day |-> w.day, year |-> 2000 + w.year]

\* MayShow, case by case: words that are there
LEMMA MayShowIs ==
  ASSUME NEW ws, NEW text
  PROVE  /\ ws[1] \notin Absent =>
              /\ \A what \in {"tenths", "tenths?", "tenths?!", "signedTenths"} :
                   MayShow(what, ws, text) <=> IsShownInTenths(ws[1], text)
              /\ \A what \in {"hundredths", "shortHundredths"} :
                   MayShow(what, ws, text) <=> IsShownInHundredths(ws[1], text)
              /\ MayShow("time", ws, text) <=> text = Name(TimeInLeaf(ws[1]))
              /\ MayShow("date?", ws, text) <=> text = Name(DateOf(ws[1]))
              /\ \A what \in {"latitude", "longitude"} :
                   MayShow(what, ws, text) <=> IsShownAsAngle(ws, text)
              /\ MayShow("quality", ws, text) <=> text = Name(QualityName[ws[1].whole + 1])
              /\ \A what \in {"satellites", "station?"} :
                   MayShow(what, ws, text) <=>
                     SameModulo256(text, Decimal(FALSE, ws[1].whole, <<>>))
              /\ MayShow("valid", ws, text) <=>
                   text = Decimal(FALSE, IF ws[1] = Letter("A") THEN 1 ELSE 0, <<>>)
              /\ MayShow("mode?", ws, text) <=> text = Name(ModeName[ws[1].letter])
              /\ MayShow("selection", ws, text) <=>
                   text = Name(IF ws[1] = Letter("A") THEN "Automatic" ELSE "Manual")
              /\ MayShow("fix", ws, text) <=> text = Name(<<"None", "2D", "3D">>[ws[1].whole])
         /\ Empty \notin {ws[1], ws[2]} =>
              (MayShow("variation?", ws, text) <=>
                 IsShownInTenths([ws[1] EXCEPT !.negative = (ws[2] = Letter("E"))], text))
         /\ MayShow("IDs", ws, text) <=>
              text = Name([k \in DOMAIN Present(ws) |-> Present(ws)[k].whole])
<1> USE DEF MayShow
<1>1. ASSUME ws[1] \notin Absent
      PROVE  /\ \A what \in {"tenths", "tenths?", "tenths?!", "signedTenths"} :
                  MayShow(what, ws, text) <=> IsShownInTenths(ws[1], text)
             /\ \A what \in {"hundredths", "shortHundredths"} :
                  MayShow(what, ws, text) <=> IsShownInHundredths(ws[1], text)
             /\ \A what \in {"latitude", "longitude"} :
                  MayShow(what, ws, text) <=> IsShownAsAngle(ws, text)
             /\ \A what \in {"satellites", "station?"} :
                   MayShow(what, ws, text) <=>
                     SameModulo256(text, Decimal(FALSE, ws[1].whole, <<>>))
  BY <1>1
<1>2. ASSUME ws[1] \notin Absent
      PROVE  MayShow("time", ws, text) <=> text = Name(TimeInLeaf(ws[1]))
  BY <1>2 DEF TimeInLeaf
<1>3. ASSUME ws[1] \notin Absent
      PROVE  MayShow("date?", ws, text) <=> text = Name(DateOf(ws[1]))
  <2>1. ws[1] # Empty
    BY <1>3 DEF Absent
  <2> QED BY <1>3, <2>1 DEF DateOf
<1>4. ASSUME ws[1] \notin Absent
      PROVE  MayShow("quality", ws, text) <=> text = Name(QualityName[ws[1].whole + 1])
  BY <1>4
<1>5. ASSUME ws[1] \notin Absent
      PROVE  MayShow("valid", ws, text) <=>
               text = Decimal(FALSE, IF ws[1] = Letter("A") THEN 1 ELSE 0, <<>>)
  BY <1>5
<1>6. ASSUME ws[1] \notin Absent
      PROVE  /\ MayShow("mode?", ws, text) <=> text = Name(ModeName[ws[1].letter])
             /\ MayShow("selection", ws, text) <=>
                   text = Name(IF ws[1] = Letter("A") THEN "Automatic" ELSE "Manual")
             /\ MayShow("fix", ws, text) <=> text = Name(<<"None", "2D", "3D">>[ws[1].whole])
  BY <1>6
<1>7. ASSUME Empty \notin {ws[1], ws[2]}
      PROVE  MayShow("variation?", ws, text) <=>
                 IsShownInTenths([ws[1] EXCEPT !.negative = (ws[2] = Letter("E"))], text)
  BY <1>7
<1>8. MayShow("IDs", ws, text) <=>
        text = Name([k \in DOMAIN Present(ws) |-> Present(ws)[k].whole])
  OBVIOUS
<1> HIDE DEF MayShow
<1> QED BY <1>1, <1>2, <1>3, <1>4, <1>5, <1>6, <1>7, <1>8, Zenon

\* Words that are absent, where they may be
LEMMA MayShowNothing ==
  ASSUME NEW ws, NEW text, text \in {NothingYet, Blank}
  PROVE  /\ ws[1] \in Absent =>
              \A what \in {"tenths?", "tenths?!", "station?"} : MayShow(what, ws, text)
         /\ ws[1] = Empty => MayShow("date?", ws, text)
         /\ Empty \in {ws[1], ws[2]} => MayShow("variation?", ws, text)
<1>1. ASSUME ws[1] \in Absent
      PROVE  \A what \in {"tenths?", "tenths?!", "station?"} : MayShow(what, ws, text)
  <2>1. MayShow("tenths?", ws, text) /\ MayShow("tenths?!", ws, text)
    BY <1>1 DEF MayShow
  <2>2. MayShow("station?", ws, text) <=> text \in {NothingYet, Blank}
    BY ONLY <1>1 DEF MayShow, Name, Decimal
  <2> QED BY <2>1, <2>2
<1>2. ASSUME ws[1] = Empty
      PROVE  MayShow("date?", ws, text)
  <2>1. ws[1] \in Absent
    BY <1>2 DEF Absent
  <2> QED BY <1>2, <2>1 DEF MayShow
<1>3. ASSUME Empty \in {ws[1], ws[2]}
      PROVE  MayShow("variation?", ws, text)
  BY <1>3 DEF MayShow
<1> QED BY <1>1, <1>2, <1>3

\* What ShownFor says of results
LEMMA ShownIf ==
  ASSUME NEW type, NEW value, NEW text
  PROVE  /\ ShownFor(type, Removes, text) => text \in {NothingYet, Blank}
         /\ ShownFor("tenths", Sets(value), text) => text = TenthsText(value, 7)
         /\ ShownFor("signedTenths", Sets(value), text) => text = TenthsText(value, 8)
         /\ ShownFor("hundredths", Sets(value), text) => text = HundredthsText(value, 8)
         /\ ShownFor("shortHundredths", Sets(value), text) => text = HundredthsText(value, 6)
         /\ ShownFor("bool", Sets(value), text) => text = BoolText(value)
         /\ ShownFor("string", Sets(value), text) => text = Name(value)
         /\ ShownFor("time", Sets(value), text) => text = Name(TimeInLeaf(value))
         /\ ShownFor("uint16", Sets(value), text) =>
              SameModulo256(text, Decimal(FALSE, value, <<>>))
BY Outcomes DEF ShownFor

\* TypeFor, case by case.
LEMMA TypesFor ==
  /\ \A what \in {"tenths", "tenths?", "tenths?!"} : TypeFor(what) = "tenths"
  /\ \A what \in {"signedTenths", "variation?"} : TypeFor(what) = "signedTenths"
  /\ \A what \in {"hundredths", "shortHundredths", "time"} : TypeFor(what) = what
  /\ TypeFor("valid") = "bool"
  /\ \A what \in {"satellites", "station?"} : TypeFor(what) = "uint16"
  /\ \A what \in {"date?", "latitude", "longitude", "quality", "mode?", "selection",
                  "fix", "IDs"} : TypeFor(what) = "string"
BY DEF TypeFor

\* What is accepted is set.
LEMMA AcceptedSets ==
  ASSUME NEW condition, NEW value, AcceptedIf(condition, value) # Rejected
  PROVE  condition /\ AcceptedIf(condition, value) = Sets(value)
BY DEF AcceptedIf, Rejected, Sets

\* An optional word that is absent removes the value, and a required one is there.
LEMMA NothingRemoves ==
  ASSUME NEW optional, NothingIfOptional(optional) # Rejected
  PROVE  NothingIfOptional(optional) = Removes
BY DEF NothingIfOptional, Rejected, Removes

\* Numbers in tenths without a sign
LEMMA UnsignedTenthsRead ==
  ASSUME NEW w \in AnyWord, NEW optional, TenthsUInt16(w, optional) # Rejected,
         NEW text, ShownFor("tenths", TenthsUInt16(w, optional), text)
  PROVE  IF w \in Absent THEN text \in {NothingYet, Blank} ELSE IsShownInTenths(w, text)
<1>1. CASE w \in Absent
  <2>1. TenthsUInt16(w, optional) = Removes
    BY <1>1, NothingRemoves DEF TenthsUInt16
  <2> QED BY <1>1, <2>1, ShownIf
<1>2. CASE w \notin Absent
  <2> DEFINE value == [whole |-> w.whole, tenths |-> Tenths(w.decimals)]
  <2>1. TenthsUInt16(w, optional) = AcceptedIf(IsUnsigned(w, 65535), value)
    BY <1>2 DEF TenthsUInt16
  <2> HIDE DEF value
  <2>2. IsUnsigned(w, 65535) /\ TenthsUInt16(w, optional) = Sets(value)
    BY <2>1, AcceptedSets
  <2>3. text = TenthsText(value, 7)
    <3>1. ShownFor("tenths", Sets(value), text)
      BY <2>2
    <3> QED BY ONLY <3>1, ShownIf
  <2>4. /\ w.kind = "number" /\ w.negative = FALSE /\ w.whole \in Nat /\ w.decimals \in Seq(0..9)
        /\ w = Number(w.negative, w.whole, w.decimals)
    BY <2>2, WordShapes DEF IsUnsigned
  <2>5. w.whole = (IF w.negative THEN -w.whole ELSE w.whole) /\ w.negative \in BOOLEAN
    BY <2>4
  <2> DEFINE longest == 7
  <2>7. longest \in {7, 8} /\ (w.negative => longest = 8)
    BY <2>4
  <2> HIDE DEF longest
  <2>6. IsShownInTenths(
          w, TenthsText([whole |-> w.whole, tenths |-> Tenths(w.decimals)], longest))
    BY ONLY <2>4, <2>5, <2>7, TenthsShown
  <2> QED BY <1>2, <2>3, <2>6 DEF value, longest
<1> QED BY <1>1, <1>2

\* Numbers in tenths that may have one
LEMMA SignedTenthsRead ==
  ASSUME NEW w \in AnyWord, TenthsInt16(w, Required) # Rejected,
         NEW text, ShownFor("signedTenths", TenthsInt16(w, Required), text)
  PROVE  w \notin Absent /\ IsShownInTenths(w, text)
<1>1. w \notin Absent
  BY DEF TenthsInt16, NothingIfOptional, Required
<1> DEFINE value == [whole |-> SignedWhole(w), tenths |-> Tenths(w.decimals)]
<1>2. TenthsInt16(w, Required) = AcceptedIf(IsSigned(w, -32768, 32767), value)
  BY <1>1 DEF TenthsInt16
<1> HIDE DEF value
<1>3. IsSigned(w, -32768, 32767) /\ TenthsInt16(w, Required) = Sets(value)
  BY <1>2, AcceptedSets
<1>4. text = TenthsText(value, 8)
  <2>1. ShownFor("signedTenths", Sets(value), text)
    BY <1>3
  <2> QED BY ONLY <2>1, ShownIf
<1>5. /\ w.kind = "number" /\ w.negative \in BOOLEAN /\ w.whole \in Nat /\ w.decimals \in Seq(0..9)
      /\ w = Number(w.negative, w.whole, w.decimals)
  BY <1>3, WordShapes DEF IsSigned
<1> DEFINE longest == 8
<1>6. /\ SignedWhole(w) = IF w.negative THEN -w.whole ELSE w.whole
      /\ longest \in {7, 8} /\ (w.negative => longest = 8)
  BY DEF SignedWhole
<1> HIDE DEF longest
<1>7. IsShownInTenths(
        w, TenthsText([whole |-> SignedWhole(w), tenths |-> Tenths(w.decimals)], longest))
  BY ONLY <1>5, <1>6, TenthsShown
<1> QED BY <1>1, <1>4, <1>7 DEF value, longest

\* Numbers in hundredths
LEMMA HundredthsRead ==
  ASSUME NEW w \in AnyWord, NEW type \in {"hundredths", "shortHundredths"}, NEW highest,
         highest = (IF type = "hundredths" THEN 65535 ELSE 255), NEW result,
         result = AcceptedIf(IsUnsigned(w, highest),
                             [whole |-> w.whole, hundredths |-> Hundredths(w.decimals)]),
         result # Rejected, NEW text, ShownFor(type, result, text)
  PROVE  w \notin Absent /\ IsShownInHundredths(w, text)
<1> DEFINE value == [whole |-> w.whole, hundredths |-> Hundredths(w.decimals)]
<1>1. result = AcceptedIf(IsUnsigned(w, highest), value)
  OBVIOUS
<1> HIDE DEF value
<1>2. IsUnsigned(w, highest) /\ result = Sets(value)
  BY <1>1, AcceptedSets
<1> DEFINE longest == IF type = "hundredths" THEN 8 ELSE 6
<1>3. text = HundredthsText(value, longest)
  <2>1. CASE type = "hundredths"
    <3>1. ShownFor("hundredths", Sets(value), text) /\ longest = 8
      BY <1>2, <2>1
    <3>2. text = HundredthsText(value, 8)
      BY ONLY <3>1, ShownIf
    <3> QED BY <3>1, <3>2
  <2>2. CASE type = "shortHundredths"
    <3>1. ShownFor("shortHundredths", Sets(value), text) /\ longest = 6
      BY <1>2, <2>2
    <3>2. text = HundredthsText(value, 6)
      BY ONLY <3>1, ShownIf
    <3> QED BY <3>1, <3>2
  <2> QED BY <2>1, <2>2
<1>4. /\ w.kind = "number" /\ w.negative = FALSE /\ w.whole \in Nat /\ w.decimals \in Seq(0..9)
  BY <1>2, WordShapes DEF IsUnsigned
<1>5. w \notin Absent
  BY <1>4, WordShapes
<1>7. longest = 8 \/ (longest = 6 /\ w.whole <= 999)
  BY <1>2, <1>4 DEF IsUnsigned
<1> HIDE DEF longest
<1>6. IsShownInHundredths(
        w, HundredthsText([whole |-> w.whole, hundredths |-> Hundredths(w.decimals)], longest))
  BY ONLY <1>4, <1>7, HundredthsShown, Zenon
<1> QED BY <1>3, <1>5, <1>6 DEF value

\* Whole numbers
LEMMA WholeRead ==
  ASSUME NEW w \in AnyWord, NEW optional, NEW highest, UInt16(w, optional, highest) # Rejected,
         NEW text, ShownFor("uint16", UInt16(w, optional, highest), text)
  PROVE  IF w \in Absent THEN optional /\ text \in {NothingYet, Blank}
         ELSE SameModulo256(text, Decimal(FALSE, w.whole, <<>>))
<1>1. CASE w \in Absent
  <2>1. UInt16(w, optional, highest) = NothingIfOptional(optional)
    BY <1>1 DEF UInt16
  <2>2. optional /\ UInt16(w, optional, highest) = Removes
    BY <2>1, NothingRemoves DEF NothingIfOptional
  <2> QED BY <1>1, <2>2, ShownIf
<1>2. CASE w \notin Absent
  <2>1. UInt16(w, optional, highest) = AcceptedIf(NoDecimals(w) /\ IsUnsigned(w, highest), w.whole)
    BY <1>2 DEF UInt16
  <2>2. UInt16(w, optional, highest) = Sets(w.whole)
    BY <2>1, AcceptedSets
  <2> QED BY <1>2, <2>2, ShownIf
<1> QED BY <1>1, <1>2

\* A time is shown as it is, to six decimals.
LEMMA TimeRead ==
  ASSUME NEW w \in AnyWord, Time(w) # Rejected, NEW text, ShownFor("time", Time(w), text)
  PROVE  w \notin Absent /\ text = Name(TimeInLeaf(w))
<1>1. w.kind = "time" /\ Time(w) = Sets(w)
  BY AcceptedSets DEF Time
<1>2. w \notin Absent
  BY <1>1, WordShapes
<1> QED BY <1>1, <1>2, ShownIf

\* A date, or none
LEMMA DateRead ==
  ASSUME NEW w \in AnyWord, Date(w) # Rejected, NEW text, ShownFor("string", Date(w), text)
  PROVE  \/ w = Empty /\ text \in {NothingYet, Blank}
         \/ w \notin Absent /\ text = Name(DateOf(w))
<1>1. w # Missing
  <2>1. w = Missing => Date(w) = Rejected
    BY DEF Date, Missing, Empty
  <2> QED BY <2>1
<1>2. CASE w = Empty
  <2>1. Date(w) = Removes
    BY <1>1, <1>2 DEF Date
  <2> QED BY <1>2, <2>1, ShownIf
<1>3. CASE w # Empty
  <2> DEFINE value == [month |-> w.month, day |-> w.day, year |-> w.year + century]
  <2>1. Date(w) = AcceptedIf(w.kind = "date" /\ w.day <= 31 /\ w.month <= 12, value)
    BY <1>1, <1>3 DEF Date
  <2> HIDE DEF value
  <2>2. w.kind = "date" /\ Date(w) = Sets(value)
    BY <2>1, AcceptedSets
  <2>3. text = Name(value)
    BY <2>2, ShownIf
  <2>4. w.year \in Nat
    BY <2>2, WordShapes
  <2>5. value = DateOf(w)
    BY <2>4 DEF value, DateOf, century
  <2>6. w \notin Absent
    BY <1>1, <1>3 DEF Absent
  <2> QED BY <2>3, <2>5, <2>6
<1> QED BY <1>2, <1>3

\* A latitude or longitude
LEMMA AngleRead ==
  ASSUME NEW ws, ws[1] \in AnyWord, NEW result, result # Rejected,
         result = Latitude(ws[1], ws[2]) \/ result = Longitude(ws[1], ws[2]),
         NEW text, ShownFor("string", result, text)
  PROVE  ws[1] \notin Absent /\ IsShownAsAngle(ws, text)
<1>1. ws[1].kind = "angle" /\ result = Sets(Coordinate(ws[1], ws[2]))
  BY AcceptedSets DEF Latitude, Longitude, IsCoordinate
<1>2. text = Name(Coordinate(ws[1], ws[2]))
  BY <1>1, ShownIf
<1>3. ws[1].minutes \in Nat /\ ws[1].fraction \in Seq(0..9) /\ ws[1] \notin Absent
  BY <1>1, WordShapes
<1> QED BY <1>2, <1>3, AngleShown

\* The magnetic variation: west is positive and the sign stands for east.
LEMMA VariationRead ==
  ASSUME NEW w \in AnyWord, NEW side, MagneticVariation(w, side) # Rejected,
         NEW text, ShownFor("signedTenths", MagneticVariation(w, side), text)
  PROVE  IF Empty \in {w, side} THEN text \in {NothingYet, Blank}
         ELSE IsShownInTenths([w EXCEPT !.negative = (side = Letter("E"))], text)
<1>1. w # Missing /\ side # Missing
  BY DEF MagneticVariation
<1>2. CASE Empty \in {w, side}
  <2>1. MagneticVariation(w, side) = Removes
    BY <1>1, <1>2 DEF MagneticVariation
  <2> QED BY <1>2, <2>1, ShownIf
<1>3. CASE Empty \notin {w, side}
  <2> DEFINE number == IF side = Letter("W") THEN w.whole ELSE -w.whole
             value == [whole |-> number, tenths |-> Tenths(w.decimals)]
             sign == (side = Letter("E"))
             v == [w EXCEPT !.negative = sign]
  <2>1. MagneticVariation(w, side) =
          AcceptedIf(IsUnsigned(w, 255) /\ side \in {Letter("W"), Letter("E")}, value)
    BY <1>1, <1>3 DEF MagneticVariation
  <2> HIDE DEF value
  <2>2. IsUnsigned(w, 255) /\ side \in {Letter("W"), Letter("E")}
        /\ MagneticVariation(w, side) = Sets(value)
    BY <2>1, AcceptedSets
  <2>3. text = TenthsText(value, 8)
    <3>1. ShownFor("signedTenths", Sets(value), text)
      BY <2>2
    <3> QED BY ONLY <3>1, ShownIf
  <2>4. /\ w.whole \in Nat /\ w.decimals \in Seq(0..9)
        /\ w = Number(w.negative, w.whole, w.decimals)
    BY <2>2, WordShapes DEF IsUnsigned
  <2>5. sign \in BOOLEAN
    OBVIOUS
  <2>6. number = IF sign THEN -w.whole ELSE w.whole
    <3>1. Letter("W") # Letter("E")
      BY DEF Letter
    <3> QED BY <2>2, <3>1
  <2>7. v = Number(sign, w.whole, w.decimals)
    BY ONLY <2>4, WithSign
  <2> HIDE DEF number, sign, v
  <2>8. v.negative = sign /\ v.whole = w.whole /\ v.decimals = w.decimals
    BY <2>7 DEF Number
  <2> DEFINE longest == 8
  <2>11. longest \in {7, 8} /\ (v.negative => longest = 8)
    OBVIOUS
  <2> HIDE DEF longest
  <2>9. IsShownInTenths(v, TenthsText([whole |-> number, tenths |-> Tenths(v.decimals)], longest))
    <3>1. /\ v.negative \in BOOLEAN /\ v.whole \in Nat /\ v.decimals \in Seq(0..9)
          /\ v = Number(v.negative, v.whole, v.decimals)
          /\ number = IF v.negative THEN -v.whole ELSE v.whole
      BY <2>4, <2>5, <2>6, <2>7, <2>8
    <3> QED BY ONLY <2>11, <3>1, TenthsShown
  <2>10. IsShownInTenths(v, text)
    BY <2>3, <2>8, <2>9 DEF value, longest
  <2> QED BY <1>3, <2>10 DEF v, sign
<1> QED BY <1>2, <1>3

\* Words that stand for something
LEMMA NamesRead ==
  ASSUME NEW w \in AnyWord, NEW text
  PROVE  /\ GPSQuality(w) # Rejected /\ ShownFor("string", GPSQuality(w), text) =>
              w \notin Absent /\ text = Name(QualityName[w.whole + 1])
         /\ GPSFixMode(w) # Rejected /\ GPSFixMode(w) # Keeps
              /\ ShownFor("string", GPSFixMode(w), text) =>
              w \notin Absent /\ text = Name(<<"None", "2D", "3D">>[w.whole])
         /\ FAAModeIndicator(w) # Rejected /\ FAAModeIndicator(w) # Keeps
              /\ ShownFor("string", FAAModeIndicator(w), text) =>
              w \notin Absent /\ text = Name(ModeName[w.letter])
         /\ DataValid(w) # Rejected /\ ShownFor("bool", DataValid(w), text) =>
              /\ w \notin Absent
              /\ text = Decimal(FALSE, IF w = Letter("A") THEN 1 ELSE 0, <<>>)
         /\ Selection(w) # Rejected /\ ShownFor("string", Selection(w), text) =>
              w \notin Absent /\ text = Name(IF w = Letter("A") THEN "Automatic" ELSE "Manual")
<1>1. /\ \A highest : IsUnsigned(w, highest) => w \notin Absent
      /\ \A c : w = Letter(c) => w \notin Absent
      /\ w.kind = "letter" => w \notin Absent
  BY WordShapes DEF IsUnsigned, Letter
<1>2. ASSUME GPSQuality(w) # Rejected, ShownFor("string", GPSQuality(w), text)
      PROVE  w \notin Absent /\ text = Name(QualityName[w.whole + 1])
  <2>1. IsDigit(w, 8) /\ GPSQuality(w) = Sets(QualityName[w.whole + 1])
    BY <1>2, AcceptedSets DEF GPSQuality
  <2> QED BY <1>1, <1>2, <2>1, ShownIf DEF IsDigit
<1>3. ASSUME GPSFixMode(w) # Rejected, GPSFixMode(w) # Keeps,
             ShownFor("string", GPSFixMode(w), text)
      PROVE  w \notin Absent /\ text = Name(<<"None", "2D", "3D">>[w.whole])
  <2> DEFINE name == <<"None", "2D", "3D">>[w.whole]
  <2>1. IsDigit(w, 3) /\ GPSFixMode(w) = Sets(name)
    BY <1>3 DEF GPSFixMode
  <2> HIDE DEF name
  <2>2. w \notin Absent
    BY <1>1, <2>1 DEF IsDigit
  <2>3. text = Name(name)
    BY <1>3, <2>1, ShownIf
  <2> QED BY <2>2, <2>3 DEF name
<1>4. ASSUME FAAModeIndicator(w) # Rejected, FAAModeIndicator(w) # Keeps,
             ShownFor("string", FAAModeIndicator(w), text)
      PROVE  w \notin Absent /\ text = Name(ModeName[w.letter])
  <2>1. w \notin Absent
    <3>1. w \in Absent => w.kind # "letter"
      BY WordShapes
    <3> QED BY <1>4, <3>1 DEF FAAModeIndicator
  <2>2. FAAModeIndicator(w) = Sets(ModeName[w.letter])
    BY <1>4, <2>1 DEF FAAModeIndicator
  <2> QED BY <1>4, <2>1, <2>2, ShownIf
<1>5. ASSUME DataValid(w) # Rejected, ShownFor("bool", DataValid(w), text)
      PROVE  w \notin Absent /\ text = Decimal(FALSE, IF w = Letter("A") THEN 1 ELSE 0, <<>>)
  <2>1. w \in {Letter("A"), Letter("V")} /\ DataValid(w) = Sets(w = Letter("A"))
    BY <1>5, AcceptedSets DEF DataValid
  <2>2. text = BoolText(w = Letter("A"))
    BY <1>5, <2>1, ShownIf
  <2>3. IntegerText(1) = Decimal(FALSE, 1, <<>>) /\ IntegerText(0) = Decimal(FALSE, 0, <<>>)
    <3>1. (1 < 0) = FALSE /\ (0 < 0) = FALSE /\ Magnitude(1) = 1 /\ Magnitude(0) = 0
      BY DEF Magnitude
    <3> QED BY ONLY <3>1, Zenon DEF IntegerText
  <2>4. BoolText(w = Letter("A")) = Decimal(FALSE, IF w = Letter("A") THEN 1 ELSE 0, <<>>)
    <3>1. CASE w = Letter("A")
      BY <2>3, <3>1 DEF BoolText
    <3>2. CASE w # Letter("A")
      BY <2>3, <3>2 DEF BoolText
    <3> QED BY <3>1, <3>2
  <2> QED BY <1>1, <2>1, <2>2, <2>4
<1>6. ASSUME Selection(w) # Rejected, ShownFor("string", Selection(w), text)
      PROVE  w \notin Absent /\ text = Name(IF w = Letter("A") THEN "Automatic" ELSE "Manual")
  <2> DEFINE name == IF w = Letter("A") THEN "Automatic" ELSE "Manual"
  <2>1. Selection(w) = AcceptedIf(w \in {Letter("A"), Letter("M")}, name)
    BY DEF Selection
  <2> HIDE DEF name
  <2>2. w \in {Letter("A"), Letter("M")} /\ Selection(w) = Sets(name)
    BY <1>6, <2>1, AcceptedSets
  <2>3. text = Name(name)
    BY <1>6, <2>2, ShownIf
  <2>4. w \notin Absent
    BY <1>1, <2>2
  <2> QED BY <2>3, <2>4 DEF name
<1> QED BY <1>2, <1>3, <1>4, <1>5, <1>6, Zenon

\* The IDs of satellites
LEMMA IDsRead ==
  ASSUME NEW ws, IDs(ws) # Rejected, NEW text, ShownFor("string", IDs(ws), text)
  PROVE  text = Name([k \in DOMAIN Present(ws) |-> Present(ws)[k].whole])
<1> DEFINE ids == [k \in DOMAIN Present(ws) |-> Present(ws)[k].whole]
           allRead == \A k \in 1..12 : ReadWholeUInt16(ws[k], Optional) # Rejected
<1>1. IDs(ws) = AcceptedIf(allRead, ids)
  BY DEF IDs
<1> HIDE DEF ids, allRead
<1>2. IDs(ws) = Sets(ids)
  BY <1>1, AcceptedSets
<1>3. text = Name(ids)
  BY <1>2, ShownIf
<1> QED BY <1>3 DEF ids

\* A number in tenths, in all the ways the book has it
LEMMA TenthsMayShow ==
  ASSUME NEW what \in {"tenths", "tenths?", "tenths?!", "signedTenths"}, NEW ws, ws[1] \in AnyWord,
         Reads(what, ws) # Rejected, NEW text, ShownFor(TypeFor(what), Reads(what, ws), text)
  PROVE  MayShow(what, ws, text)
<1>1. CASE what = "signedTenths"
  <2>1. Reads(what, ws) = TenthsInt16(ws[1], Required)
    BY <1>1, ReadsIs
  <2>2. ws[1] \notin Absent /\ IsShownInTenths(ws[1], text)
    BY <1>1, <2>1, SignedTenthsRead, TypesFor
  <2> QED BY <1>1, <2>2, MayShowIs
<1>2. CASE what # "signedTenths"
  <2> DEFINE optional == what # "tenths"
  <2>1. Reads(what, ws) = TenthsUInt16(ws[1], optional)
    BY <1>2, ReadsIs DEF Optional, Required
  <2>2. ws[1] \in Absent => what # "tenths"
    <3>1. ws[1] \in Absent => TenthsUInt16(ws[1], optional) = NothingIfOptional(optional)
      BY DEF TenthsUInt16
    <3>2. optional \/ NothingIfOptional(optional) = Rejected
      BY DEF NothingIfOptional
    <3> QED BY <2>1, <3>1, <3>2
  <2> HIDE DEF optional
  <2>4. TypeFor(what) = "tenths"
    BY <1>2, TypesFor
  <2>3. IF ws[1] \in Absent THEN text \in {NothingYet, Blank} ELSE IsShownInTenths(ws[1], text)
    BY <2>1, <2>4, UnsignedTenthsRead
  <2> QED BY <1>2, <2>2, <2>3, MayShowIs, MayShowNothing
<1> QED BY <1>1, <1>2

\* A number in hundredths, of either width
LEMMA HundredthsMayShow ==
  ASSUME NEW what \in {"hundredths", "shortHundredths"}, NEW ws, ws[1] \in AnyWord,
         Reads(what, ws) # Rejected, NEW text, ShownFor(what, Reads(what, ws), text)
  PROVE  MayShow(what, ws, text)
<1> DEFINE highest == IF what = "hundredths" THEN 65535 ELSE 255
<1>1. Reads(what, ws) = AcceptedIf(IsUnsigned(ws[1], highest),
                             [whole |-> ws[1].whole, hundredths |-> Hundredths(ws[1].decimals)])
  BY ReadsIs DEF HundredthsUInt16, HundredthsUInt8
<1>3. highest = IF what = "hundredths" THEN 65535 ELSE 255
  OBVIOUS
<1> HIDE DEF highest
<1>2. ws[1] \notin Absent /\ IsShownInHundredths(ws[1], text)
  BY <1>1, <1>3, HundredthsRead
<1> QED BY <1>2, MayShowIs

\* A number of a satellite or a station
LEMMA WholeMayShow ==
  ASSUME NEW what \in {"satellites", "station?"}, NEW ws, ws[1] \in AnyWord,
         Reads(what, ws) # Rejected, NEW text, ShownFor("uint16", Reads(what, ws), text)
  PROVE  MayShow(what, ws, text)
<1> DEFINE optional == what = "station?"
           highest == IF what = "station?" THEN 1023 ELSE 12
<1>1. Reads(what, ws) = UInt16(ws[1], optional, highest)
  <2>1. Reads("satellites", ws) = UInt16(ws[1], FALSE, 12)
        /\ Reads("station?", ws) = UInt16(ws[1], TRUE, 1023)
    <3>1. Reads("satellites", ws) = UInt16(ws[1], Required, 12)
      BY ReadsIs
    <3>2. Reads("station?", ws) = ReadStation(ws[1])
      BY ReadsIs
    <3> QED BY ONLY <3>1, <3>2, Zenon DEF Optional, Required, ReadStation
  <2>2. CASE what = "satellites"
    <3>1. optional = FALSE /\ highest = 12
      BY <2>2
    <3> QED BY <2>1, <2>2, <3>1, Zenon
  <2>3. CASE what = "station?"
    <3>1. optional = TRUE /\ highest = 1023
      BY <2>3
    <3> QED BY <2>1, <2>3, <3>1, Zenon
  <2> QED BY <2>2, <2>3
<1> HIDE DEF highest
<1>2. IF ws[1] \in Absent THEN optional /\ text \in {NothingYet, Blank}
      ELSE SameModulo256(text, Decimal(FALSE, ws[1].whole, <<>>))
  <2> HIDE DEF optional
  <2> QED BY <1>1, WholeRead
<1> QED BY <1>2, MayShowIs, MayShowNothing

\* A time
LEMMA TimeMayShow ==
  ASSUME NEW ws, ws[1] \in AnyWord, Reads("time", ws) # Rejected,
         NEW text, ShownFor("time", Reads("time", ws), text)
  PROVE  MayShow("time", ws, text)
<1>1. Reads("time", ws) = Time(ws[1])
  BY ReadsIs
<1>2. ws[1] \notin Absent /\ text = Name(TimeInLeaf(ws[1]))
  BY <1>1, TimeRead
<1> QED BY <1>2, MayShowIs

\* Dates, positions and words that stand for something
LEMMA NamesMayShow ==
  ASSUME NEW what \in {"date?", "latitude", "longitude", "quality", "mode?", "selection",
                       "fix", "IDs"},
         NEW ws, ws[1] \in AnyWord,
         Reads(what, ws) # Rejected, Reads(what, ws) # Keeps,
         NEW text, ShownFor("string", Reads(what, ws), text)
  PROVE  MayShow(what, ws, text)
<1>2. CASE what = "date?"
  <2>1. Reads(what, ws) = Date(ws[1])
    BY <1>2, ReadsIs
  <2>2. \/ ws[1] = Empty /\ text \in {NothingYet, Blank}
        \/ ws[1] \notin Absent /\ text = Name(DateOf(ws[1]))
    BY <2>1, DateRead
  <2> QED BY <1>2, <2>2, MayShowIs, MayShowNothing
<1>3. CASE what \in {"latitude", "longitude"}
  <2>1. Reads(what, ws) = Latitude(ws[1], ws[2]) \/ Reads(what, ws) = Longitude(ws[1], ws[2])
    BY <1>3, ReadsIs
  <2>2. ws[1] \notin Absent /\ IsShownAsAngle(ws, text)
    BY <2>1, AngleRead
  <2> QED BY <1>3, <2>2, MayShowIs
<1>4. CASE what = "quality"
  <2>1. Reads(what, ws) = GPSQuality(ws[1])
    BY <1>4, ReadsIs
  <2>2. ws[1] \notin Absent /\ text = Name(QualityName[ws[1].whole + 1])
    BY <2>1, NamesRead
  <2> QED BY <1>4, <2>2, MayShowIs
<1>5. CASE what = "mode?"
  <2>1. Reads(what, ws) = FAAModeIndicator(ws[1])
    BY <1>5, ReadsIs
  <2>2. ws[1] \notin Absent /\ text = Name(ModeName[ws[1].letter])
    BY <2>1, NamesRead
  <2> QED BY <1>5, <2>2, MayShowIs
<1>6. CASE what = "selection"
  <2>1. Reads(what, ws) = Selection(ws[1])
    BY <1>6, ReadsIs
  <2>2. ws[1] \notin Absent /\ text = Name(IF ws[1] = Letter("A") THEN "Automatic" ELSE "Manual")
    BY <2>1, NamesRead
  <2> QED BY <1>6, <2>2, MayShowIs
<1>7. CASE what = "fix"
  <2>1. Reads(what, ws) = GPSFixMode(ws[1])
    BY <1>7, ReadsIs
  <2>2. ws[1] \notin Absent /\ text = Name(<<"None", "2D", "3D">>[ws[1].whole])
    BY <2>1, NamesRead
  <2> QED BY <1>7, <2>2, MayShowIs
<1>8. CASE what = "IDs"
  <2>1. Reads(what, ws) = IDs(ws)
    BY <1>8, ReadsIs
  <2>2. text = Name([k \in DOMAIN Present(ws) |-> Present(ws)[k].whole])
    BY <2>1, IDsRead
  <2> QED BY <1>8, <2>2, MayShowIs
<1> QED BY <1>2, <1>3, <1>4, <1>5, <1>6, <1>7, <1>8

\* What a field makes of words it accepts is shown as the book says, after the
\* string of its leaf has cut it.
LEMMA ReadIsShown ==
  ASSUME NEW what \in Shown, NEW ws, ws[1] \in AnyWord,
         Reads(what, ws) # Rejected, Reads(what, ws) # Keeps,
         NEW text, ShownFor(TypeFor(what), Reads(what, ws), text)
  PROVE  MayShow(what, ws, text)
<1>1. CASE what \in {"tenths", "tenths?", "tenths?!", "signedTenths"}
  BY <1>1, TypesFor, TenthsMayShow
<1>2. CASE what \in {"hundredths", "shortHundredths"}
  BY <1>2, TypesFor, HundredthsMayShow
<1>3. CASE what \in {"satellites", "station?"}
  BY <1>3, TypesFor, WholeMayShow
<1>7. CASE what = "time"
  BY <1>7, TypesFor, TimeMayShow
<1>4. CASE what \in {"date?", "latitude", "longitude", "quality", "mode?", "selection",
                     "fix", "IDs"}
  BY <1>4, TypesFor, NamesMayShow
<1>5. CASE what = "valid"
  <2>1. Reads(what, ws) = DataValid(ws[1]) /\ TypeFor(what) = "bool"
    BY <1>5, ReadsIs, TypesFor
  <2>2. ws[1] \notin Absent
        /\ text = Decimal(FALSE, IF ws[1] = Letter("A") THEN 1 ELSE 0, <<>>)
    BY <2>1, NamesRead
  <2> QED BY <1>5, <2>2, MayShowIs
<1>6. CASE what = "variation?"
  <2>1. Reads(what, ws) = MagneticVariation(ws[1], ws[2]) /\ TypeFor(what) = "signedTenths"
    BY <1>6, ReadsIs, TypesFor
  <2>2. IF Empty \in {ws[1], ws[2]} THEN text \in {NothingYet, Blank}
        ELSE IsShownInTenths([ws[1] EXCEPT !.negative = (ws[2] = Letter("E"))], text)
    BY <2>1, VariationRead
  <2> QED BY <1>6, <2>2, MayShowIs, MayShowNothing
<1> QED BY <1>1, <1>2, <1>3, <1>4, <1>5, <1>6, <1>7 DEF Shown

-----------------------------------------------------------------------------
(* Where the book places what a message says *)

\* The leaves that the bridge fills, by their types; ShortLeaves are the others.
TenthsLeaves ==
  {"depthBelowKeelFeet", "depthBelowKeelMeters", "depthBelowKeelFathoms",
   "depthBelowSurfaceFeet", "depthBelowSurfaceMeters", "depthBelowSurfaceFathoms",
   "depthBelowTransducerFeet", "depthBelowTransducerMeters", "depthBelowTransducerFathoms"}
  \cup
  {"gpsSpeedOverGround", "gpsSpeedOverGroundKmPerH", "gpsTrackMadeGoodTrue",
   "gpsTrackMadeGoodMagnetic", "gpsDataAge",
   "gpsStandardDeviationOfRangeInputsRMS", "gpsStandardDeviationOfSemiMajorAxis",
   "gpsStandardDeviationOfSemiMinorAxis", "gpsOrientationOfSemiMajorAxis",
   "gpsStandardDeviationOfLatitudeError", "gpsStandardDeviationOfLongitudeError",
   "gpsStandardDeviationOfAltitudeError"}
SignedLeaves == {"gpsAltitude", "gpsMagneticVariation", "gpsGeoidalSeparation"}
HundredthsLeaves == {"gpsHorizontalDilutionOfPrecision"}
PrecisionLeaves == {"gpsPDOP", "gpsHDOP", "gpsVDOP"}
BoolLeaves == {"gpsDataValid"}
StringLeaves ==
  {"gpsDate", "gpsLatitude", "gpsLongitude", "gpsFAAModeindicator", "gpsGPSQuality",
   "gpsSatelliteSelectionMode", "gpsFixMode", "gpsActiveSatellites"}

\* The leaf is of the type that shows what an entry says.
IsPlaced(entry) ==
  \/ entry.what \in {"tenths", "tenths?", "tenths?!"} /\ entry.leaf \in TenthsLeaves
  \/ entry.what \in {"signedTenths", "variation?"} /\ entry.leaf \in SignedLeaves
  \/ entry.what = "hundredths" /\ entry.leaf \in HundredthsLeaves
  \/ entry.what = "shortHundredths" /\ entry.leaf \in PrecisionLeaves
  \/ entry.what = "time" /\ entry.leaf = "gpsTime"
  \/ entry.what = "valid" /\ entry.leaf \in BoolLeaves
  \/ entry.what \in {"satellites", "station?"} /\ entry.leaf \in ShortLeaves
  \/ /\ entry.what \in {"date?", "latitude", "longitude", "quality", "mode?",
                         "selection", "fix", "IDs"}
     /\ entry.leaf \in StringLeaves

\* What the tables of the tree say of their types
LEMMA TypesInTables ==
  /\ \A e \in TenthsLeaves : Element[e].type = "tenths"
  /\ \A e \in SignedLeaves : Element[e].type = "signedTenths"
  /\ \A e \in HundredthsLeaves : Element[e].type = "hundredths"
  /\ \A e \in PrecisionLeaves : Element[e].type = "shortHundredths"
  /\ Element["gpsTime"].type = "time"
  /\ \A e \in BoolLeaves : Element[e].type = "bool"
  /\ \A e \in ShortLeaves : Element[e].type = "uint16"
  /\ \A e \in StringLeaves : Element[e].type = "string"
<1>1. ASSUME NEW e \in TenthsLeaves
      PROVE  \/ e \in DOMAIN DepthElements /\ DepthElements[e].type = "tenths"
             \/ e \in DOMAIN GpsElements /\ GpsElements[e].type = "tenths"
  BY DEF TenthsLeaves, DepthElements, GpsElements, Leaf
<1>2. ASSUME NEW e \in HundredthsLeaves
      PROVE  e \in DOMAIN GpsElements /\ GpsElements[e].type = "hundredths"
  BY DEF HundredthsLeaves, GpsElements, Leaf
<1>6. ASSUME NEW e \in SignedLeaves
      PROVE  e \in DOMAIN GpsElements /\ GpsElements[e].type = "signedTenths"
  BY DEF SignedLeaves, GpsElements, Leaf
<1>7. ASSUME NEW e \in PrecisionLeaves
      PROVE  e \in DOMAIN GpsElements /\ GpsElements[e].type = "shortHundredths"
  BY DEF PrecisionLeaves, GpsElements, Leaf
<1>8. "gpsTime" \in DOMAIN GpsElements /\ GpsElements["gpsTime"].type = "time"
  BY DEF GpsElements, Leaf
<1>3. ASSUME NEW e \in BoolLeaves
      PROVE  e \in DOMAIN GpsElements /\ GpsElements[e].type = "bool"
  BY DEF BoolLeaves, GpsElements, Leaf
<1>4. ASSUME NEW e \in ShortLeaves
      PROVE  e \in DOMAIN GpsElements /\ GpsElements[e].type = "uint16"
  BY DEF ShortLeaves, GpsElements, Leaf
<1>5. ASSUME NEW e \in StringLeaves
      PROVE  e \in DOMAIN GpsElements /\ GpsElements[e].type = "string"
  BY DEF StringLeaves, GpsElements, Leaf
<1> QED BY <1>1, <1>2, <1>3, <1>4, <1>5, <1>6, <1>7, <1>8, ElementsAre

\* An entry is placed at a leaf of its type.
LEMMA PlacedIsTyped ==
  ASSUME NEW entry, IsPlaced(entry)
  PROVE  entry.what \in Shown /\ Element[entry.leaf].type = TypeFor(entry.what)
<1>1. entry.what \in Shown
  BY DEF IsPlaced, Shown
<1>2. Element[entry.leaf].type = TypeFor(entry.what)
  BY TypesInTables, TypesFor DEF IsPlaced
<1> QED BY <1>1, <1>2

\* Entries for depths are placed at leaves in tenths.
LEMMA DepthEntriesPlaced ==
  ASSUME NEW feet \in TenthsLeaves, NEW meters \in TenthsLeaves, NEW fathoms \in TenthsLeaves,
         NEW entry \in DepthEntries(feet, meters, fathoms), entry.leaf # "none"
  PROVE  IsPlaced(entry) /\ entry.leaf \in {feet, meters, fathoms}
BY DEF DepthEntries, Entry, Silent, IsPlaced

\* The messages that are ignored have no leaves in the book.
LEMMA IgnoredSilent ==
  ASSUME NEW type \in Ignored, NEW words, NEW entry \in Book(type, words)
  PROVE  entry.leaf = "none"
BY DEF Book, Silent, Entry, Ignored

\* Any entry that has a leaf is placed at one of its type.
LEMMA EntriesPlaced ==
  ASSUME NEW type \in MessageTypes, NEW words, NEW entry \in Book(type, words), entry.leaf # "none"
  PROVE  IsPlaced(entry)
<1>1. CASE type \in {"DBK", "DBS", "DBT"}
  <2>1. {"depthBelowKeelFeet", "depthBelowKeelMeters", "depthBelowKeelFathoms",
         "depthBelowSurfaceFeet", "depthBelowSurfaceMeters", "depthBelowSurfaceFathoms",
         "depthBelowTransducerFeet", "depthBelowTransducerMeters",
         "depthBelowTransducerFathoms"} \subseteq TenthsLeaves
    BY DEF TenthsLeaves
  <2> QED BY <1>1, <2>1, DepthEntriesPlaced DEF Book
<1>2. CASE type = "GGA"
  BY <1>2 DEF Book, IsPlaced, Entry, Silent, TenthsLeaves, SignedLeaves, HundredthsLeaves,
              ShortLeaves, StringLeaves
<1>3. CASE type = "GLL"
  BY <1>3 DEF Book, IsPlaced, Entry, Silent, BoolLeaves, StringLeaves
<1>4. CASE type = "GSA"
  BY <1>4 DEF Book, IsPlaced, Entry, Silent, PrecisionLeaves, StringLeaves
<1>5. CASE type = "GST"
  BY <1>5 DEF Book, IsPlaced, Entry, Silent, TenthsLeaves
<1>6. CASE type = "RMC"
  BY <1>6 DEF Book, IsPlaced, Entry, Silent, TenthsLeaves, SignedLeaves, BoolLeaves, StringLeaves
<1>7. CASE type = "VTG" /\ Word(words, 2) = Letter("T")
  BY <1>7 DEF Book, IsPlaced, Entry, Silent, TenthsLeaves, StringLeaves
<1>8. CASE type = "VTG" /\ Word(words, 2) # Letter("T")
  BY <1>8 DEF Book, IsPlaced, Entry, Silent, TenthsLeaves, StringLeaves
<1>9. CASE type \in Ignored
  BY <1>9, IgnoredSilent
<1> QED
  BY <1>1, <1>2, <1>3, <1>4, <1>5, <1>6, <1>7, <1>8, <1>9 DEF MessageTypes, Ignored

\* The entries have these leaves.
HaveLeaves(entries, leaves) ==
  /\ \A entry \in entries : entry.leaf # "none" => entry.leaf \in leaves
  /\ \A leaf \in leaves : leaf # "none" /\ \E entry \in entries : entry.leaf = leaf

\* Results for exactly the leaves of entries, and what their words are read as
ByEntries(results, entries, words) ==
  /\ HaveLeaves(entries, DOMAIN results)
  /\ \A entry \in entries : entry.leaf # "none" =>
       results[entry.leaf] = Found(words, entry.at, entry.what)

\* The leaf of an entry is the one it was written with.
LEMMA LeafOfEntry ==
  \A at, what, leaf : Entry(at, what, leaf).leaf = leaf
BY DEF Entry

\* The three kinds of depth are bridged as the book places them.
LEMMA DepthsByEntries ==
  ASSUME NEW words, NEW feet, NEW meters, NEW fathoms, "none" \notin {feet, meters, fathoms},
         NEW results, DOMAIN results = {feet, meters, fathoms},
         results[feet] = DBK(AllWords(words)).depthFeet,
         results[meters] = DBK(AllWords(words)).depthMeters,
         results[fathoms] = DBK(AllWords(words)).depthFathoms
  PROVE  ByEntries(results, DepthEntries(feet, meters, fathoms), words)
<1> DEFINE entries == DepthEntries(feet, meters, fathoms)
<1>1. /\ results[feet] = Found(words, 1, "tenths?") /\ results[meters] = Found(words, 3, "tenths?")
      /\ results[fathoms] = Found(words, 5, "tenths?")
  BY DepthsByBook
<1>2. \A entry \in entries : entry.leaf # "none" =>
        /\ entry.leaf \in {feet, meters, fathoms}
        /\ results[entry.leaf] = Found(words, entry.at, entry.what)
  BY <1>1 DEF DepthEntries, Entry, Silent
<1>3. /\ Entry(1, "tenths?", feet) \in entries /\ Entry(3, "tenths?", meters) \in entries
      /\ Entry(5, "tenths?", fathoms) \in entries
  BY DEF DepthEntries
<1> HIDE DEF entries
<1>4. \A leaf \in {feet, meters, fathoms} :
        leaf # "none" /\ \E entry \in entries : entry.leaf = leaf
  BY <1>3, LeafOfEntry
<1> QED BY <1>2, <1>4 DEF ByEntries, HaveLeaves, entries

\* The leaves of a message are those that the entries name: GGA
LEMMA GGAHaveLeaves ==
  ASSUME NEW words, NEW f
  PROVE  HaveLeaves(Book("GGA", words), DOMAIN bridgeNMEAGGAMessage(f))
<1> DEFINE entries == Book("GGA", words)
           leaves == {"gpsTime", "gpsLatitude", "gpsLongitude", "gpsGPSQuality",
                      "gpsNumberSatellites", "gpsHorizontalDilutionOfPrecision", "gpsAltitude",
                      "gpsGeoidalSeparation", "gpsDataAge", "gpsDifferentialReferenceStation"}
<1>1. DOMAIN bridgeNMEAGGAMessage(f) = leaves
  BY DEF bridgeNMEAGGAMessage
<1>2. \A entry \in entries : entry.leaf # "none" => entry.leaf \in leaves
  BY DEF Book, Entry, Silent
<1>3. /\ Entry(1, "time", "gpsTime") \in entries
      /\ Entry(2, "latitude", "gpsLatitude") \in entries
      /\ Entry(4, "longitude", "gpsLongitude") \in entries
      /\ Entry(6, "quality", "gpsGPSQuality") \in entries
      /\ Entry(7, "satellites", "gpsNumberSatellites") \in entries
      /\ Entry(8, "hundredths", "gpsHorizontalDilutionOfPrecision") \in entries
      /\ Entry(9, "signedTenths", "gpsAltitude") \in entries
      /\ Entry(11, "signedTenths", "gpsGeoidalSeparation") \in entries
      /\ Entry(13, "tenths?", "gpsDataAge") \in entries
      /\ Entry(14, "station?", "gpsDifferentialReferenceStation") \in entries
  BY DEF Book
<1> HIDE DEF entries
<1>4. \A leaf \in leaves : leaf # "none" /\ \E entry \in entries : entry.leaf = leaf
  BY <1>3, LeafOfEntry
<1> QED BY <1>1, <1>2, <1>4 DEF HaveLeaves, entries

\* the same for GLL
LEMMA GLLHaveLeaves ==
  ASSUME NEW words, NEW f
  PROVE  HaveLeaves(Book("GLL", words), DOMAIN bridgeNMEAGLLMessage(f))
<1> DEFINE entries == Book("GLL", words)
           leaves == {"gpsLatitude", "gpsLongitude", "gpsTime", "gpsDataValid",
                      "gpsFAAModeindicator"}
<1>1. DOMAIN bridgeNMEAGLLMessage(f) = leaves
  BY DEF bridgeNMEAGLLMessage
<1>2. \A entry \in entries : entry.leaf # "none" => entry.leaf \in leaves
  BY DEF Book, Entry, Silent
<1>3. /\ Entry(1, "latitude", "gpsLatitude") \in entries
      /\ Entry(3, "longitude", "gpsLongitude") \in entries
      /\ Entry(5, "time", "gpsTime") \in entries
      /\ Entry(6, "valid", "gpsDataValid") \in entries
      /\ Entry(7, "mode?", "gpsFAAModeindicator") \in entries
  BY DEF Book
<1> HIDE DEF entries
<1>4. \A leaf \in leaves : leaf # "none" /\ \E entry \in entries : entry.leaf = leaf
  BY <1>3, LeafOfEntry
<1> QED BY <1>1, <1>2, <1>4 DEF HaveLeaves, entries

\* the same for GSA
LEMMA GSAHaveLeaves ==
  ASSUME NEW words, NEW f
  PROVE  HaveLeaves(Book("GSA", words), DOMAIN bridgeNMEAGSAMessage(f))
<1> DEFINE entries == Book("GSA", words)
           leaves == {"gpsSatelliteSelectionMode", "gpsFixMode", "gpsActiveSatellites",
                      "gpsPDOP", "gpsHDOP", "gpsVDOP"}
<1>1. DOMAIN bridgeNMEAGSAMessage(f) = leaves
  BY DEF bridgeNMEAGSAMessage
<1>2. \A entry \in entries : entry.leaf # "none" => entry.leaf \in leaves
  BY DEF Book, Entry, Silent
<1>3. /\ Entry(1, "selection", "gpsSatelliteSelectionMode") \in entries
      /\ Entry(2, "fix", "gpsFixMode") \in entries
      /\ Entry(3, "IDs", "gpsActiveSatellites") \in entries
      /\ Entry(15, "shortHundredths", "gpsPDOP") \in entries
      /\ Entry(16, "shortHundredths", "gpsHDOP") \in entries
      /\ Entry(17, "shortHundredths", "gpsVDOP") \in entries
  BY DEF Book
<1> HIDE DEF entries
<1>4. \A leaf \in leaves : leaf # "none" /\ \E entry \in entries : entry.leaf = leaf
  BY <1>3, LeafOfEntry
<1> QED BY <1>1, <1>2, <1>4 DEF HaveLeaves, entries

\* the same for GST
LEMMA GSTHaveLeaves ==
  ASSUME NEW words, NEW f
  PROVE  HaveLeaves(Book("GST", words), DOMAIN bridgeNMEAGSTMessage(f))
<1> DEFINE entries == Book("GST", words)
           leaves == {"gpsStandardDeviationOfRangeInputsRMS",
                      "gpsStandardDeviationOfSemiMajorAxis",
                      "gpsStandardDeviationOfSemiMinorAxis", "gpsOrientationOfSemiMajorAxis",
                      "gpsStandardDeviationOfLatitudeError",
                      "gpsStandardDeviationOfLongitudeError",
                      "gpsStandardDeviationOfAltitudeError"}
<1>1. DOMAIN bridgeNMEAGSTMessage(f) = leaves
  BY DEF bridgeNMEAGSTMessage
<1>2. \A entry \in entries : entry.leaf # "none" => entry.leaf \in leaves
  BY DEF Book, Entry, Silent
<1>3. /\ Entry(2, "tenths", "gpsStandardDeviationOfRangeInputsRMS") \in entries
      /\ Entry(3, "tenths?", "gpsStandardDeviationOfSemiMajorAxis") \in entries
      /\ Entry(4, "tenths?", "gpsStandardDeviationOfSemiMinorAxis") \in entries
      /\ Entry(5, "tenths?", "gpsOrientationOfSemiMajorAxis") \in entries
      /\ Entry(6, "tenths", "gpsStandardDeviationOfLatitudeError") \in entries
      /\ Entry(7, "tenths", "gpsStandardDeviationOfLongitudeError") \in entries
      /\ Entry(8, "tenths", "gpsStandardDeviationOfAltitudeError") \in entries
  BY DEF Book
<1> HIDE DEF entries
<1>4. \A leaf \in leaves : leaf # "none" /\ \E entry \in entries : entry.leaf = leaf
  BY <1>3, LeafOfEntry
<1> QED BY <1>1, <1>2, <1>4 DEF HaveLeaves, entries

\* the same for RMC
LEMMA RMCHaveLeaves ==
  ASSUME NEW words, NEW f
  PROVE  HaveLeaves(Book("RMC", words), DOMAIN bridgeNMEARMCMessage(f))
<1> DEFINE entries == Book("RMC", words)
           leaves == {"gpsTime", "gpsDataValid", "gpsLatitude", "gpsLongitude",
                      "gpsSpeedOverGround", "gpsTrackMadeGoodTrue", "gpsDate",
                      "gpsMagneticVariation", "gpsFAAModeindicator"}
<1>1. DOMAIN bridgeNMEARMCMessage(f) = leaves
  BY DEF bridgeNMEARMCMessage
<1>2. \A entry \in entries : entry.leaf # "none" => entry.leaf \in leaves
  BY DEF Book, Entry, Silent
<1>3. /\ Entry(1, "time", "gpsTime") \in entries
      /\ Entry(2, "valid", "gpsDataValid") \in entries
      /\ Entry(3, "latitude", "gpsLatitude") \in entries
      /\ Entry(5, "longitude", "gpsLongitude") \in entries
      /\ Entry(7, "tenths", "gpsSpeedOverGround") \in entries
      /\ Entry(8, "tenths?", "gpsTrackMadeGoodTrue") \in entries
      /\ Entry(9, "date?", "gpsDate") \in entries
      /\ Entry(10, "variation?", "gpsMagneticVariation") \in entries
      /\ Entry(12, "mode?", "gpsFAAModeindicator") \in entries
  BY DEF Book
<1> HIDE DEF entries
<1>4. \A leaf \in leaves : leaf # "none" /\ \E entry \in entries : entry.leaf = leaf
  BY <1>3, LeafOfEntry
<1> QED BY <1>1, <1>2, <1>4 DEF HaveLeaves, entries

\* the same for VTG, with letters
LEMMA VTGNewHaveLeaves ==
  ASSUME NEW words, Word(words, 2) = Letter("T"), NEW f
  PROVE  HaveLeaves(Book("VTG", words), DOMAIN bridgeNMEAVTGMessage(f))
<1> DEFINE entries == Book("VTG", words)
           leaves == {"gpsTrackMadeGoodTrue", "gpsTrackMadeGoodMagnetic", "gpsSpeedOverGround",
                      "gpsSpeedOverGroundKmPerH", "gpsFAAModeindicator"}
<1>1. DOMAIN bridgeNMEAVTGMessage(f) = leaves
  BY DEF bridgeNMEAVTGMessage
<1>2. \A entry \in entries : entry.leaf # "none" => entry.leaf \in leaves
  BY DEF Book, Entry, Silent
<1>3. /\ Entry(1, "tenths?", "gpsTrackMadeGoodTrue") \in entries
      /\ Entry(3, "tenths?", "gpsTrackMadeGoodMagnetic") \in entries
      /\ Entry(5, "tenths", "gpsSpeedOverGround") \in entries
      /\ Entry(7, "tenths", "gpsSpeedOverGroundKmPerH") \in entries
      /\ Entry(9, "mode?", "gpsFAAModeindicator") \in entries
  BY DEF Book
<1> HIDE DEF entries
<1>4. \A leaf \in leaves : leaf # "none" /\ \E entry \in entries : entry.leaf = leaf
  BY <1>3, LeafOfEntry
<1> QED BY <1>1, <1>2, <1>4 DEF HaveLeaves, entries

\* the same for VTG, without
LEMMA VTGOldHaveLeaves ==
  ASSUME NEW words, Word(words, 2) # Letter("T"), NEW f
  PROVE  HaveLeaves(Book("VTG", words), DOMAIN bridgeNMEAVTGMessage(f))
<1> DEFINE entries == Book("VTG", words)
           leaves == {"gpsTrackMadeGoodTrue", "gpsTrackMadeGoodMagnetic", "gpsSpeedOverGround",
                      "gpsSpeedOverGroundKmPerH", "gpsFAAModeindicator"}
<1>1. DOMAIN bridgeNMEAVTGMessage(f) = leaves
  BY DEF bridgeNMEAVTGMessage
<1>2. \A entry \in entries : entry.leaf # "none" => entry.leaf \in leaves
  BY DEF Book, Entry, Silent
<1>3. /\ Entry(1, "tenths?", "gpsTrackMadeGoodTrue") \in entries
      /\ Entry(2, "tenths?!", "gpsTrackMadeGoodMagnetic") \in entries
      /\ Entry(3, "tenths", "gpsSpeedOverGround") \in entries
      /\ Entry(4, "tenths", "gpsSpeedOverGroundKmPerH") \in entries
      /\ Entry(5, "mode?", "gpsFAAModeindicator") \in entries
  BY DEF Book
<1> HIDE DEF entries
<1>4. \A leaf \in leaves : leaf # "none" /\ \E entry \in entries : entry.leaf = leaf
  BY <1>3, LeafOfEntry
<1> QED BY <1>1, <1>2, <1>4 DEF HaveLeaves, entries

\* Every accepted message is bridged entry by entry of the book.
LEMMA BridgedByBook ==
  ASSUME NEW type \in MessageTypes \ Ignored, NEW words \in Seq(Words),
         Accepted(FieldsOf(type, AllWords(words)))
  PROVE  ByEntries(BridgedTo(type, FieldsOf(type, AllWords(words))), Book(type, words), words)
<1> DEFINE w == AllWords(words)
           fields == FieldsOf(type, w)
<1>1. w[2] = Word(words, 2)
  BY DEF AllWords, MaxWords
<1>2. type \in {"DBK", "DBS", "DBT", "GGA", "GLL", "GSA", "GST", "RMC", "VTG"}
  BY DEF MessageTypes, Ignored
<1> HIDE DEF w
<1>3. CASE type = "DBK"
  <2> DEFINE results == bridgeNMEADBKMessage(DBK(w))
             entries == DepthEntries("depthBelowKeelFeet", "depthBelowKeelMeters",
                                     "depthBelowKeelFathoms")
  <2>1. BridgedTo(type, fields) = results
    BY <1>3 DEF FieldsOf, BridgedTo
  <2>2. Book(type, words) = entries
    BY <1>3 DEF Book
  <2>3. /\ DOMAIN results =
             {"depthBelowKeelFeet", "depthBelowKeelMeters", "depthBelowKeelFathoms"}
        /\ results["depthBelowKeelFeet"] = DBK(w).depthFeet
        /\ results["depthBelowKeelMeters"] = DBK(w).depthMeters
        /\ results["depthBelowKeelFathoms"] = DBK(w).depthFathoms
    BY DEF bridgeNMEADBKMessage
  <2> HIDE DEF results
  <2>4. ByEntries(results, entries, words)
    BY <2>3, DepthsByEntries DEF w
  <2> QED BY <2>1, <2>2, <2>4 DEF w
<1>4. CASE type = "DBS"
  <2> DEFINE results == bridgeNMEADBSMessage(DBK(w))
             entries == DepthEntries("depthBelowSurfaceFeet", "depthBelowSurfaceMeters",
                                     "depthBelowSurfaceFathoms")
  <2>1. BridgedTo(type, fields) = results
    BY <1>4 DEF FieldsOf, BridgedTo, DBS
  <2>2. Book(type, words) = entries
    BY <1>4 DEF Book
  <2>3. /\ DOMAIN results =
             {"depthBelowSurfaceFeet", "depthBelowSurfaceMeters", "depthBelowSurfaceFathoms"}
        /\ results["depthBelowSurfaceFeet"] = DBK(w).depthFeet
        /\ results["depthBelowSurfaceMeters"] = DBK(w).depthMeters
        /\ results["depthBelowSurfaceFathoms"] = DBK(w).depthFathoms
    BY DEF bridgeNMEADBSMessage
  <2> HIDE DEF results
  <2>4. ByEntries(results, entries, words)
    BY <2>3, DepthsByEntries DEF w
  <2> QED BY <2>1, <2>2, <2>4 DEF w
<1>5. CASE type = "DBT"
  <2> DEFINE results == bridgeNMEADBTMessage(DBK(w))
             entries == DepthEntries("depthBelowTransducerFeet", "depthBelowTransducerMeters",
                                     "depthBelowTransducerFathoms")
  <2>1. BridgedTo(type, fields) = results
    BY <1>5 DEF FieldsOf, BridgedTo, DBT
  <2>2. Book(type, words) = entries
    BY <1>5 DEF Book
  <2>3. /\ DOMAIN results =
             {"depthBelowTransducerFeet", "depthBelowTransducerMeters", "depthBelowTransducerFathoms"}
        /\ results["depthBelowTransducerFeet"] = DBK(w).depthFeet
        /\ results["depthBelowTransducerMeters"] = DBK(w).depthMeters
        /\ results["depthBelowTransducerFathoms"] = DBK(w).depthFathoms
    BY DEF bridgeNMEADBTMessage
  <2> HIDE DEF results
  <2>4. ByEntries(results, entries, words)
    BY <2>3, DepthsByEntries DEF w
  <2> QED BY <2>1, <2>2, <2>4 DEF w
<1>6. CASE type = "GGA"
  <2>1. fields = GGA(w) /\ BridgedTo(type, fields) = bridgeNMEAGGAMessage(GGA(w))
    BY <1>6 DEF FieldsOf, BridgedTo
  <2>2. \A entry \in Book("GGA", words) : entry.leaf # "none" =>
          bridgeNMEAGGAMessage(GGA(w))[entry.leaf] = Found(words, entry.at, entry.what)
    BY GGAByBook DEF w
  <2> QED BY <1>6, <2>1, <2>2, GGAHaveLeaves DEF ByEntries, w
<1>7. CASE type = "GLL"
  <2>1. fields = GLL(w) /\ BridgedTo(type, fields) = bridgeNMEAGLLMessage(GLL(w))
    BY <1>7 DEF FieldsOf, BridgedTo
  <2>2. \A entry \in Book("GLL", words) : entry.leaf # "none" =>
          bridgeNMEAGLLMessage(GLL(w))[entry.leaf] = Found(words, entry.at, entry.what)
    BY GLLByBook DEF w
  <2> QED BY <1>7, <2>1, <2>2, GLLHaveLeaves DEF ByEntries, w
<1>8. CASE type = "GSA"
  <2>1. fields = GSA(w) /\ BridgedTo(type, fields) = bridgeNMEAGSAMessage(GSA(w))
    BY <1>8 DEF FieldsOf, BridgedTo
  <2>2. \A entry \in Book("GSA", words) : entry.leaf # "none" =>
          bridgeNMEAGSAMessage(GSA(w))[entry.leaf] = Found(words, entry.at, entry.what)
    BY <2>1, GSAByBook DEF w
  <2> QED BY <1>8, <2>1, <2>2, GSAHaveLeaves DEF ByEntries, w
<1>9. CASE type = "GST"
  <2>1. fields = GST(w) /\ BridgedTo(type, fields) = bridgeNMEAGSTMessage(GST(w))
    BY <1>9 DEF FieldsOf, BridgedTo
  <2>2. \A entry \in Book("GST", words) : entry.leaf # "none" =>
          bridgeNMEAGSTMessage(GST(w))[entry.leaf] = Found(words, entry.at, entry.what)
    BY GSTByBook DEF w
  <2> QED BY <1>9, <2>1, <2>2, GSTHaveLeaves DEF ByEntries, w
<1>10. CASE type = "RMC"
  <2>1. fields = RMC(w) /\ BridgedTo(type, fields) = bridgeNMEARMCMessage(RMC(w))
    BY <1>10 DEF FieldsOf, BridgedTo
  <2>2. \A entry \in Book("RMC", words) : entry.leaf # "none" =>
          bridgeNMEARMCMessage(RMC(w))[entry.leaf] = Found(words, entry.at, entry.what)
    BY RMCByBook DEF w
  <2> QED BY <1>10, <2>1, <2>2, RMCHaveLeaves DEF ByEntries, w
<1>11. CASE type = "VTG"
  <2>1. fields = VTG(w) /\ BridgedTo(type, fields) = bridgeNMEAVTGMessage(VTG(w))
    BY <1>11 DEF FieldsOf, BridgedTo
  <2>2. \A entry \in Book("VTG", words) : entry.leaf # "none" =>
          bridgeNMEAVTGMessage(VTG(w))[entry.leaf] = Found(words, entry.at, entry.what)
    BY <2>1, VTGNewByBook, VTGOldByBook DEF w
  <2> QED BY <1>11, <2>1, <2>2, VTGNewHaveLeaves, VTGOldHaveLeaves DEF ByEntries, w
<1> QED BY <1>2, <1>3, <1>4, <1>5, <1>6, <1>7, <1>8, <1>9, <1>10, <1>11 DEF w

-----------------------------------------------------------------------------
(* What was said last is what is shown *)

\* A leaf is kept as it is exactly when a sentence says nothing of it.
LEMMA KeepsIs ==
  ASSUME NEW what \in Shown, NEW ws, ws[1] \in AnyWord, Reads(what, ws) # Rejected
  PROVE  Reads(what, ws).outcome = "keeps" <=>
           \/ what = "mode?" /\ ws[1] \in Absent
           \/ what = "fix" /\ ws[1] = Number(FALSE, 0, <<>>)
<1> DEFINE w == ws[1]
<1>1. /\ \A condition, value : AcceptedIf(condition, value).outcome # "keeps"
      /\ \A optional : NothingIfOptional(optional).outcome # "keeps"
      /\ Removes.outcome # "keeps" /\ Rejected.outcome # "keeps" /\ Keeps.outcome = "keeps"
      /\ \A value : Sets(value).outcome # "keeps"
  BY DEF AcceptedIf, NothingIfOptional, Removes, Rejected, Keeps, Sets
<1>2. /\ \A optional : TenthsUInt16(w, optional).outcome # "keeps"
      /\ TenthsInt16(w, Required).outcome # "keeps"
      /\ HundredthsUInt16(w).outcome # "keeps" /\ HundredthsUInt8(w).outcome # "keeps"
  BY <1>1 DEF TenthsUInt16, TenthsInt16, HundredthsUInt16, HundredthsUInt8
<1>3. /\ \A optional, highest : UInt16(w, optional, highest).outcome # "keeps"
      /\ Time(w).outcome # "keeps" /\ GPSQuality(w).outcome # "keeps"
      /\ DataValid(w).outcome # "keeps" /\ Selection(w).outcome # "keeps"
      /\ Latitude(w, ws[2]).outcome # "keeps" /\ Longitude(w, ws[2]).outcome # "keeps"
      /\ IDs(ws).outcome # "keeps"
  BY <1>1, Zenon DEF UInt16, Time, GPSQuality, DataValid, Selection, Latitude, Longitude, IDs
<1>4. Date(w).outcome # "keeps" /\ MagneticVariation(w, ws[2]).outcome # "keeps"
  BY <1>1 DEF Date, MagneticVariation
<1>5. FAAModeIndicator(w).outcome = "keeps" <=> w \in Absent
  <2>1. CASE w \in Absent
    <3>1. w.kind # "letter"
      BY <2>1, WordShapes
    <3> QED BY <1>1, <2>1, <3>1 DEF FAAModeIndicator
  <2>2. CASE w \notin Absent
    BY <1>1, <2>2 DEF FAAModeIndicator
  <2> QED BY <2>1, <2>2
<1>6. GPSFixMode(w) # Rejected => (GPSFixMode(w).outcome = "keeps" <=> w = Number(FALSE, 0, <<>>))
  <2> SUFFICES ASSUME GPSFixMode(w) # Rejected
               PROVE  GPSFixMode(w).outcome = "keeps" <=> w = Number(FALSE, 0, <<>>)
    OBVIOUS
  <2>1. IsDigit(w, 3)
    BY DEF GPSFixMode
  <2>2. w.kind = "number" /\ w.negative = FALSE /\ w.decimals = <<>>
        /\ w = Number(w.negative, w.whole, w.decimals)
    BY <2>1, WordShapes DEF IsDigit, IsUnsigned, NoDecimals
  <2>3. w = Number(FALSE, 0, <<>>) <=> w.whole = 0
    <3>1. w.whole = 0 => w = Number(FALSE, 0, <<>>)
      BY ONLY <2>2, Zenon
    <3>2. Number(FALSE, 0, <<>>).whole = 0
      BY DEF Number
    <3> QED BY <3>1, <3>2
  <2>4. GPSFixMode(w).outcome = "keeps" <=> w.whole = 0
    BY <1>1, <2>1 DEF GPSFixMode
  <2> QED BY <2>3, <2>4
<1>7. CASE what = "mode?"
  BY <1>5, <1>7, ReadsIs
<1>8. CASE what = "fix"
  BY <1>6, <1>8, ReadsIs
<1>9. CASE what \in {"tenths", "tenths?", "signedTenths", "hundredths", "shortHundredths"}
  BY <1>2, <1>9, ReadsIs
<1>10. CASE what = "tenths?!"
  BY <1>1, <1>2, <1>10, ReadsIs
<1>11. CASE what \in {"time", "date?", "latitude", "longitude", "variation?", "quality"}
  BY <1>3, <1>4, <1>11, ReadsIs
<1>12. CASE what \in {"satellites", "station?"}
  <2>1. /\ Reads("satellites", ws) = UInt16(w, Required, 12)
        /\ Reads("station?", ws) = ReadStation(w)
    BY ReadsIs
  <2>2. UInt16(w, Required, 12).outcome # "keeps" /\ ReadStation(w).outcome # "keeps"
    <3> DEFINE station == 1023
    <3>1. ReadStation(w) = UInt16(w, Optional, station)
      BY DEF ReadStation
    <3> HIDE DEF station
    <3>2. ReadStation(w).outcome # "keeps"
      BY <1>3, <3>1, Zenon
    <3>3. UInt16(w, Required, 12).outcome # "keeps"
      BY <1>3
    <3> QED BY <3>2, <3>3
  <2> QED BY <1>12, <2>1, <2>2
<1>13. CASE what \in {"valid", "selection", "IDs"}
  BY <1>3, <1>13, ReadsIs
<1> QED BY <1>7, <1>8, <1>9, <1>10, <1>11, <1>12, <1>13 DEF Shown

\* The leaves that the data model writes itself
OwnLeaves == {Count, "sysBrokerMessagesRetainedCount"}

\* Whoever is up to date with a leaf shows what the last sentence said of it; no
\* sentence says anything of the leaves that the data model writes itself.
ToldInv ==
  /\ told = [leaf \in Leaves |-> told[leaf]]
  /\ \A leaf \in OwnLeaves : told[leaf] = Untold
  /\ \A leaf \in Leaves : told[leaf] # Untold =>
       \A text : UpToDate(leaf, content[leaf], text) =>
         MayShow(told[leaf].what, told[leaf].words, text)

\* Steps that tell nothing and change no other leaves
LEMMA ToldKept ==
  ASSUME ToldInv, UNCHANGED told,
         \A leaf \in Leaves \ OwnLeaves : content'[leaf] = content[leaf]
  PROVE  ToldInv'
BY DEF ToldInv

\* Subscribing and unsubscribing write the count of subscriptions only.
LEMMA CountedElsewhere ==
  ASSUME NEW by, NEW leaf, leaf # Count
  PROVE  Counted(by)[leaf] = content[leaf]
BY DEF Counted

\* No sentence is bridged to the data model's own leaves.
LEMMA OwnNotBridged ==
  OwnLeaves \cap (DOMAIN GpsElements \cup DOMAIN DepthElements) = {}
BY DEF OwnLeaves, Count, GpsElements, DepthElements

\* A leaf that is given what a sentence says shows it as the book has it.
LEMMA SaidIsShown ==
  ASSUME LeavesInv, NEW leaf \in Leaves, NEW what \in Shown, TypeFor(what) = Element[leaf].type,
         NEW ws, ws[1] \in AnyWord, Reads(what, ws) # Rejected,
         Reads(what, ws).outcome # "keeps", Fits(leaf, Reads(what, ws)),
         NEW text, UpToDate(leaf, Becomes(leaf, Reads(what, ws)).holds, text)
  PROVE  MayShow(what, ws, text)
<1> DEFINE result == Reads(what, ws)
           holds == Becomes(leaf, result).holds
<1>1. result.outcome \in {"sets", "removes"} /\ Element[leaf].type \in TextTypes
      /\ (result.outcome = "sets" /\ Element[leaf].type = "uint16" => result.value \in Nat)
  BY DEF Fits
<1>2. content[leaf].isSet \in BOOLEAN
  BY DEF LeavesInv, LeavesTypeOK
<1> HIDE DEF result
<1>3. Held(leaf, result, holds)
  BY <1>1, <1>2, BecomesHeld
<1> HIDE DEF holds
<1>4. UpToDate(leaf, holds, text)
  BY DEF holds, result
<1>5. ShownFor(TypeFor(what), result, text)
  <2>1. ShownFor(Element[leaf].type, result, text)
    BY <1>1, <1>3, <1>4, HeldIsShown
  <2> QED BY <2>1
<1>6. Reads(what, ws) # Keeps
  BY DEF Keeps
<1> QED BY <1>5, <1>6, ReadIsShown DEF result

\* What a leaf holds after an accepted message is bridged.
LEMMA LineIsTold ==
  ASSUME LeavesInv, ToldInv, NEW line \in Lines, IsWellFormed(line), line.type \notin Ignored,
         Publish(BridgedTo(line.type, FieldsOf(line.type, AllWords(line.words)))),
         Remember(line)
  PROVE  ToldInv'
<1> DEFINE words == line.words
           fields == FieldsOf(line.type, AllWords(words))
           results == BridgedTo(line.type, fields)
           book == Book(line.type, words)
           entries == {entry \in book : Tells(entry, words)}
           EntryFor(leaf) == CHOOSE entry \in entries : entry.leaf = leaf
<1>1. line.type \in MessageTypes \ Ignored /\ words \in Seq(Words)
  BY DEF Lines, IsWellFormed
<1>2. Accepted(fields)
  BY <1>1, AcceptedByBook DEF IsWellFormed
<1>3. ByEntries(results, book, words) /\ CanBeBridged(results)
  BY <1>1, <1>2, BridgedByBook, MessagesBridged
<1>4. \A leaf \in Leaves :
        content'[leaf] = IF leaf \in DOMAIN results THEN Becomes(leaf, results[leaf]).holds
                         ELSE content[leaf]
  BY DEF Publish, Kept
<1>5. told' = [leaf \in Leaves |->
                 IF \E entry \in entries : entry.leaf = leaf
                 THEN [what |-> EntryFor(leaf).what, words |-> WordsOf(EntryFor(leaf), words)]
                 ELSE told[leaf]]
  BY DEF Remember, history
<1>6. \A entry \in book : IsRead(words, entry) /\ AnEntry(entry)
  BY <1>1, <1>2, ReadByBook, BookHasEntries
<1>7. ASSUME NEW entry \in book, entry.leaf # "none"
      PROVE  LET ws == WordsOf(entry, words)
             IN /\ entry.what \in Shown /\ Element[entry.leaf].type = TypeFor(entry.what)
                /\ ws[1] \in AnyWord /\ Reads(entry.what, ws) # Rejected
                /\ entry.leaf \in DOMAIN results /\ results[entry.leaf] = Reads(entry.what, ws)
  <2>1. IsPlaced(entry)
    BY <1>1, <1>7, EntriesPlaced
  <2>2. entry.what \in Shown /\ Element[entry.leaf].type = TypeFor(entry.what)
    BY <2>1, PlacedIsTyped
  <2>3. WordsOf(entry, words)[1] \in AnyWord
    <3>1. entry.at \in Nat \ {0} /\ entry.what \in Fields
      BY <1>6 DEF AnEntry
    <3>2. 1 \in 1..Width(entry.what)
      BY <3>1, Widths
    <3>3. entry.at + 1 - 1 = entry.at
      BY <3>1
    <3>4. WordsOf(entry, words)[1] = Word(words, entry.at)
      BY <3>2, <3>3 DEF WordsOf
    <3> QED BY <1>1, <3>1, <3>4, WordTyped
  <2>4. Found(words, entry.at, entry.what) = Reads(entry.what, WordsOf(entry, words))
    BY DEF Found, WordsOf
  <2>5. Found(words, entry.at, entry.what) # Rejected
    BY <1>6 DEF IsRead
  <2>6. entry.leaf \in DOMAIN results
        /\ results[entry.leaf] = Found(words, entry.at, entry.what)
    BY <1>3, <1>7 DEF ByEntries, HaveLeaves
  <2> QED BY <2>2, <2>3, <2>4, <2>5, <2>6
<1>8. \A leaf \in DOMAIN results : \E entry \in book : entry.leaf = leaf /\ entry.leaf # "none"
  BY <1>3 DEF ByEntries, HaveLeaves
<1> HIDE DEF results, fields, book
<1>9. ASSUME NEW leaf \in Leaves, \E entry \in entries : entry.leaf = leaf
      PROVE  /\ leaf \notin OwnLeaves
             /\ \A text : UpToDate(leaf, content'[leaf], text) =>
                  MayShow(told'[leaf].what, told'[leaf].words, text)
  <2> DEFINE e == EntryFor(leaf)
             ws == WordsOf(e, words)
  <2>1. e \in entries /\ e.leaf = leaf
    BY <1>9
  <2>2. told'[leaf] = [what |-> e.what, words |-> ws]
    BY <1>5, <1>9
  <2>3. e \in book /\ Tells(e, words) /\ e.leaf = leaf
    BY <2>1
  <2> HIDE DEF e
  <2>4. e.leaf # "none" /\ ~(e.what = "mode?" /\ ws[1] \in Absent)
        /\ ~(e.what = "fix" /\ ws[1] = Number(FALSE, 0, <<>>))
    BY <2>3 DEF Tells
  <2> HIDE DEF ws
  <2>5. /\ e.what \in Shown /\ Element[leaf].type = TypeFor(e.what)
        /\ ws[1] \in AnyWord /\ Reads(e.what, ws) # Rejected
        /\ leaf \in DOMAIN results /\ results[leaf] = Reads(e.what, ws)
    BY <1>7, <2>3, <2>4 DEF ws
  <2>6. Reads(e.what, ws).outcome # "keeps"
    BY <2>4, <2>5, KeepsIs
  <2>7. Fits(leaf, Reads(e.what, ws))
    BY <1>3, <2>5, AllFit
  <2>8. content'[leaf] = Becomes(leaf, Reads(e.what, ws)).holds
    BY <1>4, <2>5
  <2>9. leaf \notin OwnLeaves
    BY <1>3, <2>5, OwnNotBridged DEF CanBeBridged
  <2>10. \A text : UpToDate(leaf, content'[leaf], text) => MayShow(e.what, ws, text)
    BY <2>5, <2>6, <2>7, <2>8, SaidIsShown
  <2>11. told'[leaf].what = e.what /\ told'[leaf].words = ws
    BY <2>2 DEF ws
  <2> QED BY <2>9, <2>10, <2>11
<1>10. ASSUME NEW leaf \in Leaves, ~\E entry \in entries : entry.leaf = leaf
       PROVE  told'[leaf] = told[leaf] /\ content'[leaf] = content[leaf]
  <2>1. told'[leaf] = told[leaf]
    BY <1>5, <1>10
  <2>2. CASE leaf \in DOMAIN results
    <3>1. PICK entry \in book : entry.leaf = leaf /\ entry.leaf # "none"
      BY <1>8, <2>2
    <3>2. ~Tells(entry, words)
      BY <1>10, <3>1
    <3> DEFINE ws == WordsOf(entry, words)
    <3>3. \/ entry.what = "mode?" /\ ws[1] \in Absent
          \/ entry.what = "fix" /\ ws[1] = Number(FALSE, 0, <<>>)
      BY <3>1, <3>2 DEF Tells
    <3>4. results[leaf].outcome = "keeps"
      <4>1. /\ entry.what \in Shown /\ ws[1] \in AnyWord /\ Reads(entry.what, ws) # Rejected
            /\ results[leaf] = Reads(entry.what, ws)
        BY <1>7, <3>1
      <4> HIDE DEF ws
      <4>2. Reads(entry.what, ws).outcome = "keeps"
        BY ONLY <3>3, <4>1, KeepsIs
      <4> QED BY <4>1, <4>2
    <3>5. Becomes(leaf, results[leaf]).holds = content[leaf]
      BY <3>4 DEF Becomes, Kept
    <3> QED BY <1>4, <2>1, <2>2, <3>5
  <2>3. CASE leaf \notin DOMAIN results
    BY <1>4, <2>1, <2>3
  <2> QED BY <2>2, <2>3
<1>11. told' = [leaf \in Leaves |-> told'[leaf]]
  BY <1>5
<1> HIDE DEF entries
<1>12. \A leaf \in OwnLeaves : told'[leaf] = Untold
  <2>1. OwnLeaves \subseteq Leaves
    BY CountIsLeaf DEF OwnLeaves
  <2> QED BY <1>9, <1>10, <2>1 DEF ToldInv
<1>13. ASSUME NEW leaf \in Leaves, told'[leaf] # Untold
       PROVE  \A text : UpToDate(leaf, content'[leaf], text) =>
                MayShow(told'[leaf].what, told'[leaf].words, text)
  <2>1. CASE \E entry \in entries : entry.leaf = leaf
    BY <1>9, <2>1
  <2>2. CASE ~\E entry \in entries : entry.leaf = leaf
    BY <1>10, <1>13, <2>2 DEF ToldInv
  <2> QED BY <2>1, <2>2
<1> QED BY <1>11, <1>12, <1>13 DEF ToldInv

\* NMEASource::lineCompleted: what other lines say is not told.
LEMMA LineToldKeeps ==
  ASSUME LeavesInv, ToldInv, stream \in Seq(Lines), HandleLine
  PROVE  ToldInv'
<1> DEFINE line == Head(stream)
           message == parseNMEAMessage(line)
           fields == FieldsOf(line.type, AllWords(line.words))
<1>1. line \in Lines /\ lineCompleted(line) /\ Remember(line)
  BY DEF HandleLine
<1>2. line.words \in Seq(Words)
  BY <1>1 DEF Lines
<1>3. message.type # "none" <=> IsWellFormed(line)
  BY <1>2, ParsedIsWellFormed
<1> HIDE DEF line
<1>4. CASE ~IsWellFormed(line)
  <2>1. UNCHANGED content /\ UNCHANGED told
    BY <1>1, <1>3, <1>4 DEF lineCompleted, Remember, history, leafVars
  <2> QED BY <2>1, ToldKept
<1>5. CASE IsWellFormed(line)
  <2>1. /\ line.type \in MessageTypes /\ message = [type |-> line.type, fields |-> fields]
    BY <1>3, <1>5 DEF parseNMEAMessage, NoMessage
  <2>2. processMessage([type |-> line.type, fields |-> fields])
    BY <1>1, <1>3, <1>5, <2>1 DEF lineCompleted
  <2> HIDE DEF message, fields
  <2>3. CASE line.type \in Ignored
    <3>1. UNCHANGED content
      BY <2>2, <2>3 DEF processMessage, leafVars
    <3>2. \A leaf \in Leaves : leaf # "none"
      <4>1. "none" \notin DOMAIN Element
        BY DEF Element, BrokerElements, SystemElements, GpsElements, DepthElements
      <4> QED BY <4>1, LeavesAssumption DEF LeafTopics
    <3>3. \A entry \in Book(line.type, line.words) : entry.leaf \notin Leaves
      BY <2>3, <3>2, IgnoredSilent
    <3>4. told' = [leaf \in Leaves |-> told[leaf]]
      BY <1>1, <1>5, <3>3 DEF Remember
    <3> QED BY <3>1, <3>4, ToldKept DEF ToldInv
  <2>4. CASE line.type \notin Ignored
    <3>1. Publish(BridgedTo(line.type, fields))
      BY <2>2, <2>4 DEF processMessage
    <3> QED BY <1>1, <1>5, <2>4, <3>1, LineIsTold DEF fields
  <2> QED BY <2>3, <2>4
<1> QED BY <1>4, <1>5

\* Every step keeps what was said on show.
LEMMA NextToldKeeps ==
  ASSUME LeavesInv, ToldInv, stream \in Seq(Lines), [Next]_vars
  PROVE  ToldInv'
<1>1. CASE HandleLine
  BY <1>1, LineToldKeeps
<1>2. ASSUME NEW s \in Sessions, NEW e \in Subtrees, Subscribe(s, e)
      PROVE  ToldInv'
  <2>1. \E by : content' = Counted(by)
    BY <1>2 DEF Subscribe, SubscribeTo
  <2>2. UNCHANGED told
    BY <1>2 DEF Subscribe, history
  <2> QED BY <2>1, <2>2, CountedElsewhere, ToldKept DEF OwnLeaves
<1>3. ASSUME NEW s \in Sessions, NEW e \in Subtrees, Unsubscribe(s, e)
      PROVE  ToldInv'
  <2>1. \E by : content' = Counted(by)
    BY <1>3 DEF Unsubscribe, UnsubscribeFrom
  <2>2. UNCHANGED told
    BY <1>3 DEF Unsubscribe, history
  <2> QED BY <2>1, <2>2, CountedElsewhere, ToldKept DEF OwnLeaves
<1>4. CASE Export
  <2>1. \A leaf \in Leaves \ OwnLeaves : content'[leaf] = content[leaf]
    BY <1>4 DEF Export, ExportStats, Publish, Kept, OwnLeaves
  <2>2. UNCHANGED told
    BY <1>4 DEF Export, history
  <2> QED BY <2>1, <2>2, ToldKept
<1>5. CASE UNCHANGED vars
  BY <1>5, ToldKept DEF vars, leafVars, history
<1> QED BY <1>1, <1>2, <1>3, <1>4, <1>5 DEF Next

\* Whatever lines come through NMEASource::lineCompleted, and whoever subscribes to
\* what before, in between or after: on each topic a client shows what the last
\* well-formed sentence said of it, as the book says that it may be shown.
THEOREM AlwaysShowsWhatWasSaid == Spec => []ShowsWhatWasSaid
<1>1. Init => ToldInv
  <2>1. OwnLeaves \subseteq Leaves
    BY CountIsLeaf DEF OwnLeaves
  <2> QED BY <2>1 DEF Init, ToldInv
<1>2. (LeavesInv /\ stream \in Seq(Lines)) /\ ToldInv /\ [Next]_vars => ToldInv'
  BY NextToldKeeps
<1>3. LeavesInv /\ ToldInv => ShowsWhatWasSaid
  BY SubscribersAre DEF LeavesInv, ToldInv, ShowsWhatWasSaid
<1> QED BY <1>1, <1>2, <1>3, LeavesInvariant, PTL DEF Spec

-----------------------------------------------------------------------------
(* The tree of topics, as it is written down *)

\* The part of the tree under $SYS/broker: a node has an array, its children have it as their
\* parent, and every element but the uppermost is in an array.
LEMMA BrokerLinks ==
  /\ DOMAIN BrokerChildren = {e \in DOMAIN BrokerElements : BrokerElements[e].type = "node"}
  /\ \A n \in DOMAIN BrokerChildren : \A c \in BrokerChildren[n] :
       c \in DOMAIN BrokerElements /\ BrokerElements[c].parent = n
  /\ \A e \in DOMAIN BrokerElements : e # "sysBrokerNode" =>
       \E n \in DOMAIN BrokerChildren : e \in BrokerChildren[n]
  /\ BrokerElements["sysBrokerNode"].parent = "sysNode"
<1> USE DEF BrokerChildren, BrokerElements, Leaf, Node
<1>1. DOMAIN BrokerChildren = {e \in DOMAIN BrokerElements : BrokerElements[e].type = "node"}
  OBVIOUS
<1>2. ASSUME NEW n \in DOMAIN BrokerChildren, NEW c \in BrokerChildren[n]
      PROVE  c \in DOMAIN BrokerElements /\ BrokerElements[c].parent = n
  OBVIOUS
<1>3. ASSUME NEW e \in DOMAIN BrokerElements, e # "sysBrokerNode"
      PROVE  \E n \in DOMAIN BrokerChildren : e \in BrokerChildren[n]
  <2>1. \/ e \in BrokerChildren["sysBrokerConnectionsNode"]
        \/ e \in BrokerChildren["sysBrokerSessionsNode"]
        \/ e \in BrokerChildren["sysBrokerClientsNode"]
        \/ e \in BrokerChildren["sysBrokerMessagesRetainedNode"]
        \/ e \in BrokerChildren["sysBrokerMessagesPublishNode"]
        \/ e \in BrokerChildren["sysBrokerMessagesNode"]
        \/ e \in BrokerChildren["sysBrokerSubscriptionsNode"]
        \/ e \in BrokerChildren["sysBrokerNode"]
    BY <1>3
  <2>2. {"sysBrokerConnectionsNode", "sysBrokerSessionsNode", "sysBrokerClientsNode",
         "sysBrokerMessagesRetainedNode", "sysBrokerMessagesPublishNode",
         "sysBrokerMessagesNode", "sysBrokerSubscriptionsNode",
         "sysBrokerNode"} \subseteq DOMAIN BrokerChildren
    OBVIOUS
  <2> HIDE DEF BrokerChildren, BrokerElements
  <2> QED BY <2>1, <2>2
<1>4. BrokerElements["sysBrokerNode"].parent = "sysNode"
  OBVIOUS
<1> HIDE DEF BrokerChildren, BrokerElements
<1> QED BY <1>1, <1>2, <1>3, <1>4

\* Children of one node have different names.
LEMMA BrokerNames ==
  ASSUME NEW n \in DOMAIN BrokerChildren, NEW a \in BrokerChildren[n], NEW b \in BrokerChildren[n],
         a # b
  PROVE  BrokerElements[a].name # BrokerElements[b].name
BY DEF BrokerChildren, BrokerElements, Leaf, Node

\* The rest of $SYS, of which the broker is in another part;
LEMMA SystemLinks ==
  /\ DOMAIN SystemChildren = {e \in DOMAIN SystemElements : SystemElements[e].type = "node"}
  /\ \A n \in DOMAIN SystemChildren : \A c \in SystemChildren[n] : c # "sysBrokerNode" =>
       c \in DOMAIN SystemElements /\ SystemElements[c].parent = n
  /\ \A e \in DOMAIN SystemElements : e # "sysNode" =>
       \E n \in DOMAIN SystemChildren : e \in SystemChildren[n]
  /\ SystemElements["sysNode"].parent = "dataModelRoot"
<1> USE DEF SystemChildren, SystemElements, Leaf, Node
<1>1. DOMAIN SystemChildren = {e \in DOMAIN SystemElements : SystemElements[e].type = "node"}
  OBVIOUS
<1>2. ASSUME NEW n \in DOMAIN SystemChildren, NEW c \in SystemChildren[n], c # "sysBrokerNode"
      PROVE  c \in DOMAIN SystemElements /\ SystemElements[c].parent = n
  <2>1. CASE n = "sysNode"
    BY <1>2, <2>1
  <2>2. CASE n # "sysNode"
    BY <1>2, <2>2
  <2> QED BY <2>1, <2>2
<1>3. ASSUME NEW e \in DOMAIN SystemElements, e # "sysNode"
      PROVE  \E n \in DOMAIN SystemChildren : e \in SystemChildren[n]
  <2>1. \/ e \in SystemChildren["sysNMEAWiFiNode"]
        \/ e \in SystemChildren["sysNMEAUSBNode"]
        \/ e \in SystemChildren["sysNMEANode"]
        \/ e \in SystemChildren["sysDataModelNode"]
        \/ e \in SystemChildren["sysNMEADataModelBridgeNode"]
        \/ e \in SystemChildren["sysLogNode"]
        \/ e \in SystemChildren["sysNode"]
    BY <1>3
  <2>2. {"sysNMEAWiFiNode", "sysNMEAUSBNode", "sysNMEANode", "sysDataModelNode",
         "sysNMEADataModelBridgeNode", "sysLogNode", "sysNode"} \subseteq DOMAIN SystemChildren
    OBVIOUS
  <2> HIDE DEF SystemChildren, SystemElements
  <2> QED BY <2>1, <2>2
<1>4. SystemElements["sysNode"].parent = "dataModelRoot"
  OBVIOUS
<1> HIDE DEF SystemChildren, SystemElements
<1> QED BY <1>1, <1>2, <1>3, <1>4

\* Children of one node have different names.
LEMMA SystemNames ==
  ASSUME NEW n \in DOMAIN SystemChildren, NEW a \in SystemChildren[n], NEW b \in SystemChildren[n],
         a # b, a # "sysBrokerNode", b # "sysBrokerNode"
  PROVE  SystemElements[a].name # SystemElements[b].name
BY DEF SystemChildren, SystemElements, Leaf, Node

\* the part for the position;
LEMMA GpsLinks ==
  /\ DOMAIN GpsChildren = {e \in DOMAIN GpsElements : GpsElements[e].type = "node"}
  /\ \A n \in DOMAIN GpsChildren : \A c \in GpsChildren[n] :
       c \in DOMAIN GpsElements /\ GpsElements[c].parent = n
  /\ \A e \in DOMAIN GpsElements : e # "gpsNode" =>
       \E n \in DOMAIN GpsChildren : e \in GpsChildren[n]
  /\ GpsElements["gpsNode"].parent = "dataModelRoot"
<1> USE DEF GpsChildren, GpsElements, Leaf, Node
<1>1. DOMAIN GpsChildren = {e \in DOMAIN GpsElements : GpsElements[e].type = "node"}
  OBVIOUS
<1>2. ASSUME NEW n \in DOMAIN GpsChildren, NEW c \in GpsChildren[n]
      PROVE  c \in DOMAIN GpsElements /\ GpsElements[c].parent = n
  OBVIOUS
<1>3. ASSUME NEW e \in DOMAIN GpsElements, e # "gpsNode"
      PROVE  \E n \in DOMAIN GpsChildren : e \in GpsChildren[n]
  <2>1. \/ e \in GpsChildren["gpsNode"]
    BY <1>3
  <2>2. {"gpsNode"} \subseteq DOMAIN GpsChildren
    OBVIOUS
  <2> HIDE DEF GpsChildren, GpsElements
  <2> QED BY <2>1, <2>2
<1>4. GpsElements["gpsNode"].parent = "dataModelRoot"
  OBVIOUS
<1> HIDE DEF GpsChildren, GpsElements
<1> QED BY <1>1, <1>2, <1>3, <1>4

\* Children of one node have different names.
LEMMA GpsNames ==
  ASSUME NEW n \in DOMAIN GpsChildren, NEW a \in GpsChildren[n], NEW b \in GpsChildren[n],
         a # b
  PROVE  GpsElements[a].name # GpsElements[b].name
BY DEF GpsChildren, GpsElements, Leaf, Node

\* and that for depths.
LEMMA DepthLinks ==
  /\ DOMAIN DepthChildren = {e \in DOMAIN DepthElements : DepthElements[e].type = "node"}
  /\ \A n \in DOMAIN DepthChildren : \A c \in DepthChildren[n] :
       c \in DOMAIN DepthElements /\ DepthElements[c].parent = n
  /\ \A e \in DOMAIN DepthElements : e # "depthNode" =>
       \E n \in DOMAIN DepthChildren : e \in DepthChildren[n]
  /\ DepthElements["depthNode"].parent = "dataModelRoot"
<1> USE DEF DepthChildren, DepthElements, Leaf, Node
<1>1. DOMAIN DepthChildren = {e \in DOMAIN DepthElements : DepthElements[e].type = "node"}
  OBVIOUS
<1>2. ASSUME NEW n \in DOMAIN DepthChildren, NEW c \in DepthChildren[n]
      PROVE  c \in DOMAIN DepthElements /\ DepthElements[c].parent = n
  OBVIOUS
<1>3. ASSUME NEW e \in DOMAIN DepthElements, e # "depthNode"
      PROVE  \E n \in DOMAIN DepthChildren : e \in DepthChildren[n]
  <2>1. \/ e \in DepthChildren["depthBelowTransducerNode"]
        \/ e \in DepthChildren["depthBelowKeelNode"]
        \/ e \in DepthChildren["depthBelowSurfaceNode"]
        \/ e \in DepthChildren["depthNode"]
    BY <1>3
  <2>2. {"depthBelowTransducerNode", "depthBelowKeelNode", "depthBelowSurfaceNode",
         "depthNode"} \subseteq DOMAIN DepthChildren
    OBVIOUS
  <2> HIDE DEF DepthChildren, DepthElements
  <2> QED BY <2>1, <2>2
<1>4. DepthElements["depthNode"].parent = "dataModelRoot"
  OBVIOUS
<1> HIDE DEF DepthChildren, DepthElements
<1> QED BY <1>1, <1>2, <1>3, <1>4

\* Children of one node have different names.
LEMMA DepthNames ==
  ASSUME NEW n \in DOMAIN DepthChildren, NEW a \in DepthChildren[n], NEW b \in DepthChildren[n],
         a # b
  PROVE  DepthElements[a].name # DepthElements[b].name
BY DEF DepthChildren, DepthElements, Leaf, Node

\* The nodes, by how deep they are.
Nodes1 == {"sysNode", "gpsNode", "depthNode"}
Nodes2 == {"sysBrokerNode", "sysNMEANode", "sysDataModelNode", "sysNMEADataModelBridgeNode",
           "sysLogNode", "depthBelowTransducerNode", "depthBelowKeelNode", "depthBelowSurfaceNode"}
Nodes3 == {"sysBrokerConnectionsNode", "sysBrokerSessionsNode", "sysBrokerClientsNode",
           "sysBrokerMessagesNode", "sysBrokerSubscriptionsNode", "sysNMEAWiFiNode", "sysNMEAUSBNode"}
Nodes4 == {"sysBrokerMessagesRetainedNode", "sysBrokerMessagesPublishNode"}

\* Where the parents of parents end.
Root == "dataModelRoot"

\* The parent.
Up(e) == Element[e].parent

\* The arrays of children are those of the four parts of the tree.
LEMMA ChildrenAre ==
  /\ DOMAIN Children = DOMAIN BrokerChildren \cup DOMAIN SystemChildren \cup DOMAIN GpsChildren
                         \cup DOMAIN DepthChildren \cup {Root}
  /\ \A n \in DOMAIN BrokerChildren : Children[n] = BrokerChildren[n]
  /\ \A n \in DOMAIN SystemChildren : Children[n] = SystemChildren[n]
  /\ \A n \in DOMAIN GpsChildren : Children[n] = GpsChildren[n]
  /\ \A n \in DOMAIN DepthChildren : Children[n] = DepthChildren[n]
  /\ Children[Root] = {"sysNode", "gpsNode", "depthNode"}
BY DEF Children, ChildrenWith, topNodeChildren, BrokerChildren, SystemChildren, GpsChildren,
       DepthChildren, Root

\* The parent of a child is the node that has it in its array,
LEMMA ChildHasParent ==
  ASSUME NEW n \in DOMAIN Children, NEW c \in Children[n]
  PROVE  c \in DOMAIN Element /\ Up(c) = n
<1>1. CASE n \in DOMAIN BrokerChildren
  BY <1>1, ChildrenAre, ElementsAre, BrokerLinks DEF Up
<1>2. CASE n \in DOMAIN SystemChildren /\ c # "sysBrokerNode"
  <2>1. c \in DOMAIN SystemElements /\ SystemElements[c].parent = n
    BY <1>2, ChildrenAre, SystemLinks
  <2> QED BY <2>1, ElementsAre DEF Up
<1>3. CASE n \in DOMAIN SystemChildren /\ c = "sysBrokerNode"
  <2>1. n = "sysNode"
    <3>1. c \in SystemChildren[n]
      BY <1>3, ChildrenAre
    <3> QED BY <1>3, <3>1 DEF SystemChildren
  <2>2. c \in DOMAIN BrokerElements
    BY <1>3 DEF BrokerElements
  <2> QED BY <1>3, <2>1, <2>2, ElementsAre, BrokerLinks DEF Up
<1>4. CASE n \in DOMAIN GpsChildren
  <2>1. c \in DOMAIN GpsElements /\ GpsElements[c].parent = n
    BY <1>4, ChildrenAre, GpsLinks
  <2> QED BY <2>1, ElementsAre DEF Up
<1>5. CASE n \in DOMAIN DepthChildren
  <2>1. c \in DOMAIN DepthElements /\ DepthElements[c].parent = n
    BY <1>5, ChildrenAre, DepthLinks
  <2> QED BY <2>1, ElementsAre DEF Up
<1>6. CASE n = Root
  <2>1. c \in {"sysNode", "gpsNode", "depthNode"}
    BY <1>6, ChildrenAre
  <2>2. /\ "sysNode" \in DOMAIN SystemElements /\ "gpsNode" \in DOMAIN GpsElements
        /\ "depthNode" \in DOMAIN DepthElements
    BY DEF SystemElements, GpsElements, DepthElements
  <2> QED BY <1>6, <2>1, <2>2, ElementsAre, SystemLinks, GpsLinks, DepthLinks DEF Up, Root
<1> QED BY <1>1, <1>2, <1>3, <1>4, <1>5, <1>6, ChildrenAre

\* and every element is in the array of its parent.
LEMMA ParentHasChild ==
  ASSUME NEW e \in DOMAIN Element
  PROVE  Up(e) \in DOMAIN Children /\ e \in Children[Up(e)]
<1>1. \E n \in DOMAIN Children : e \in Children[n]
  <2>1. CASE e \in {"sysBrokerNode", "sysNode", "gpsNode", "depthNode"}
    <3>1. "sysNode" \in DOMAIN SystemChildren /\ "sysBrokerNode" \in SystemChildren["sysNode"]
      BY DEF SystemChildren
    <3> QED BY <2>1, <3>1, ChildrenAre
  <2>2. CASE e \notin {"sysBrokerNode", "sysNode", "gpsNode", "depthNode"}
    <3>1. CASE e \in DOMAIN BrokerElements
      BY <2>2, <3>1, BrokerLinks, ChildrenAre
    <3>2. CASE e \in DOMAIN SystemElements
      BY <2>2, <3>2, SystemLinks, ChildrenAre
    <3>3. CASE e \in DOMAIN GpsElements
      BY <2>2, <3>3, GpsLinks, ChildrenAre
    <3>4. CASE e \in DOMAIN DepthElements
      BY <2>2, <3>4, DepthLinks, ChildrenAre
    <3> QED BY <3>1, <3>2, <3>3, <3>4, ElementsAre
  <2> QED BY <2>1, <2>2
<1> QED BY <1>1, ChildHasParent

\* The root is no element; an element is a node if it has an array.
LEMMA NodesAre ==
  ASSUME NEW e \in DOMAIN Element
  PROVE  e # Root /\ (e \in DOMAIN Children <=> Element[e].type = "node")
<1>1. Root \notin DOMAIN Element
  BY ElementsAre DEF Root, BrokerElements, SystemElements, GpsElements, DepthElements
<1>2. \A x \in DOMAIN BrokerElements :
        x \notin DOMAIN SystemElements \cup DOMAIN GpsElements \cup DOMAIN DepthElements
  BY DEF BrokerElements, SystemElements, GpsElements, DepthElements
<1>3. \A x \in DOMAIN SystemElements : x \notin DOMAIN GpsElements \cup DOMAIN DepthElements
  BY DEF SystemElements, GpsElements, DepthElements
<1>4. \A x \in DOMAIN GpsElements : x \notin DOMAIN DepthElements
  BY DEF GpsElements, DepthElements
<1>5. CASE e \in DOMAIN BrokerElements
  BY <1>1, <1>2, <1>5, ElementsAre, ChildrenAre, BrokerLinks, SystemLinks, GpsLinks, DepthLinks
<1>6. CASE e \in DOMAIN SystemElements
  BY <1>1, <1>2, <1>3, <1>6, ElementsAre, ChildrenAre, BrokerLinks, SystemLinks, GpsLinks, DepthLinks
<1>7. CASE e \in DOMAIN GpsElements
  BY <1>1, <1>2, <1>3, <1>4, <1>7, ElementsAre, ChildrenAre, BrokerLinks, SystemLinks, GpsLinks,
     DepthLinks
<1>8. CASE e \in DOMAIN DepthElements
  BY <1>1, <1>2, <1>3, <1>4, <1>8, ElementsAre, ChildrenAre, BrokerLinks, SystemLinks, GpsLinks,
     DepthLinks
<1> QED BY <1>5, <1>6, <1>7, <1>8, ElementsAre

\* The children of a node have different names.
LEMMA NamesDiffer ==
  ASSUME NEW a \in DOMAIN Element, NEW b \in DOMAIN Element, Up(a) = Up(b),
         Element[a].name = Element[b].name
  PROVE  a = b
<1> DEFINE n == Up(a)
<1>1. n \in DOMAIN Children /\ a \in Children[n] /\ b \in Children[n]
  BY ParentHasChild
<1> HIDE DEF n
<1>2. CASE n \in DOMAIN BrokerChildren
  <2>1. a \in BrokerChildren[n] /\ b \in BrokerChildren[n]
    BY <1>1, <1>2, ChildrenAre
  <2>2. a \in DOMAIN BrokerElements /\ b \in DOMAIN BrokerElements
    BY <1>2, <2>1, BrokerLinks
  <2> QED BY <1>2, <2>1, <2>2, ElementsAre, BrokerNames
<1>3. CASE n \in DOMAIN SystemChildren
  <2>1. a \in SystemChildren[n] /\ b \in SystemChildren[n]
    BY <1>1, <1>3, ChildrenAre
  <2>2. ASSUME NEW c \in SystemChildren[n], c # "sysBrokerNode"
        PROVE  c \in DOMAIN SystemElements /\ Element[c].name = SystemElements[c].name
    BY <1>3, <2>2, SystemLinks, ElementsAre
  <2>3. ASSUME NEW c \in SystemChildren[n], "sysBrokerNode" \in SystemChildren[n], c # "sysBrokerNode"
        PROVE  Element[c].name # Element["sysBrokerNode"].name
    <3>1. n = "sysNode"
      BY <1>3, <2>3 DEF SystemChildren
    <3>2. SystemElements[c].name # "broker"
      BY <2>3, <3>1 DEF SystemChildren, SystemElements, Node
    <3>3. "sysBrokerNode" \in DOMAIN BrokerElements /\ BrokerElements["sysBrokerNode"].name = "broker"
      BY DEF BrokerElements, Node
    <3> QED BY <2>2, <2>3, <3>2, <3>3, ElementsAre
  <2> QED BY <1>3, <2>1, <2>2, <2>3, SystemNames
<1>4. CASE n \in DOMAIN GpsChildren
  <2>1. a \in GpsChildren[n] /\ b \in GpsChildren[n]
    BY <1>1, <1>4, ChildrenAre
  <2>2. a \in DOMAIN GpsElements /\ b \in DOMAIN GpsElements
    BY <1>4, <2>1, GpsLinks
  <2> QED BY <1>4, <2>1, <2>2, ElementsAre, GpsNames
<1>5. CASE n \in DOMAIN DepthChildren
  <2>1. a \in DepthChildren[n] /\ b \in DepthChildren[n]
    BY <1>1, <1>5, ChildrenAre
  <2>2. a \in DOMAIN DepthElements /\ b \in DOMAIN DepthElements
    BY <1>5, <2>1, DepthLinks
  <2> QED BY <1>5, <2>1, <2>2, ElementsAre, DepthNames
<1>6. CASE n = Root
  <2>1. a \in {"sysNode", "gpsNode", "depthNode"} /\ b \in {"sysNode", "gpsNode", "depthNode"}
    BY <1>1, <1>6, ChildrenAre
  <2>2. /\ "sysNode" \in DOMAIN SystemElements /\ SystemElements["sysNode"].name = "$SYS"
        /\ "gpsNode" \in DOMAIN GpsElements /\ GpsElements["gpsNode"].name = "gps"
        /\ "depthNode" \in DOMAIN DepthElements /\ DepthElements["depthNode"].name = "depth"
    BY DEF SystemElements, GpsElements, DepthElements, Node
  <2> QED BY <2>1, <2>2, ElementsAre
<1> QED BY <1>1, <1>2, <1>3, <1>4, <1>5, <1>6, ChildrenAre

\* How far below the root an element is.
Depth(e) ==
  CASE Up(e) = Root -> 1
    [] Up(e) \in Nodes1 -> 2
    [] Up(e) \in Nodes2 -> 3
    [] Up(e) \in Nodes3 -> 4
    [] Up(e) \in Nodes4 -> 5

\* The nodes are at four depths.
LEMMA NodesByDepth ==
  /\ DOMAIN Children = {Root} \cup Nodes1 \cup Nodes2 \cup Nodes3 \cup Nodes4
  /\ \A n \in Nodes1 : Up(n) = Root
  /\ \A n \in Nodes2 : Up(n) \in Nodes1
  /\ \A n \in Nodes3 : Up(n) \in Nodes2
  /\ \A n \in Nodes4 : Up(n) \in Nodes3
<1>1. DOMAIN Children = {Root} \cup Nodes1 \cup Nodes2 \cup Nodes3 \cup Nodes4
  BY ChildrenAre DEF BrokerChildren, SystemChildren, GpsChildren, DepthChildren,
     Nodes1, Nodes2, Nodes3, Nodes4
<1>2. \A n \in Nodes1 : Up(n) = Root
  BY <1>1, ChildrenAre, ChildHasParent DEF Nodes1
<1>3. ASSUME NEW n \in Nodes2
      PROVE  Up(n) \in Nodes1
  <2>1. \/ n \in SystemChildren["sysNode"] /\ "sysNode" \in DOMAIN SystemChildren
        \/ n \in DepthChildren["depthNode"] /\ "depthNode" \in DOMAIN DepthChildren
    BY DEF Nodes2, SystemChildren, DepthChildren
  <2> QED BY <2>1, ChildrenAre, ChildHasParent DEF Nodes1
<1>4. ASSUME NEW n \in Nodes3
      PROVE  Up(n) \in Nodes2
  <2>1. \/ n \in BrokerChildren["sysBrokerNode"] /\ "sysBrokerNode" \in DOMAIN BrokerChildren
        \/ n \in SystemChildren["sysNMEANode"] /\ "sysNMEANode" \in DOMAIN SystemChildren
    BY DEF Nodes3, BrokerChildren, SystemChildren
  <2> QED BY <2>1, ChildrenAre, ChildHasParent DEF Nodes2
<1>5. ASSUME NEW n \in Nodes4
      PROVE  Up(n) \in Nodes3
  <2>1. /\ n \in BrokerChildren["sysBrokerMessagesNode"]
        /\ "sysBrokerMessagesNode" \in DOMAIN BrokerChildren
    BY DEF Nodes4, BrokerChildren
  <2> QED BY <2>1, ChildrenAre, ChildHasParent DEF Nodes3
<1> QED BY <1>1, <1>2, <1>3, <1>4, <1>5

\* An element is one deeper than its parent.
LEMMA Deeper ==
  ASSUME NEW e \in DOMAIN Element
  PROVE  /\ Depth(e) \in 1..5
         /\ Up(e) = Root <=> Depth(e) = 1
         /\ Up(e) # Root => Up(e) \in DOMAIN Element /\ Depth(e) = Depth(Up(e)) + 1
<1>1. Up(e) \in {Root} \cup Nodes1 \cup Nodes2 \cup Nodes3 \cup Nodes4
  BY ParentHasChild, NodesByDepth
<1>2. Up(e) # Root => Up(e) \in DOMAIN Element
  <2>1. /\ DOMAIN BrokerChildren \subseteq DOMAIN Element
        /\ DOMAIN SystemChildren \subseteq DOMAIN Element
        /\ DOMAIN GpsChildren \subseteq DOMAIN Element
        /\ DOMAIN DepthChildren \subseteq DOMAIN Element
    BY BrokerLinks, SystemLinks, GpsLinks, DepthLinks, ElementsAre
  <2> QED BY <2>1, ParentHasChild, ChildrenAre
<1>3. /\ Root \notin Nodes1 \cup Nodes2 \cup Nodes3 \cup Nodes4
      /\ Nodes1 \cap (Nodes2 \cup Nodes3 \cup Nodes4) = {}
      /\ Nodes2 \cap (Nodes3 \cup Nodes4) = {}
      /\ Nodes3 \cap Nodes4 = {}
  BY DEF Root, Nodes1, Nodes2, Nodes3, Nodes4
<1>4. \A x : /\ Up(x) = Root => Depth(x) = 1
             /\ Up(x) \in Nodes1 => Depth(x) = 2
             /\ Up(x) \in Nodes2 => Depth(x) = 3
             /\ Up(x) \in Nodes3 => Depth(x) = 4
             /\ Up(x) \in Nodes4 => Depth(x) = 5
  BY <1>3 DEF Depth
<1> QED BY <1>1, <1>2, <1>3, <1>4, NodesByDepth

\* What is true of the elements under the root, and of an element if it is of its parent,
\* is true of all.
LEMMA DownTheTree ==
  ASSUME NEW T, \A e \in DOMAIN Element : Up(e) = Root \/ Up(e) \in T => e \in T
  PROVE  DOMAIN Element \subseteq T
<1> DEFINE Q(k) == \A e \in DOMAIN Element : Depth(e) = k => e \in T
<1>1. Q(1)
  BY Deeper
<1>2. ASSUME NEW k \in 1..4, Q(k)
      PROVE  Q(k + 1)
  <2> SUFFICES ASSUME NEW e \in DOMAIN Element, Depth(e) = k + 1
               PROVE  e \in T
    OBVIOUS
  <2>1. Depth(e) # 1
    OBVIOUS
  <2>2. Up(e) \in DOMAIN Element /\ Depth(Up(e)) \in 1..5 /\ Depth(e) = Depth(Up(e)) + 1
    BY <2>1, Deeper
  <2>3. Depth(Up(e)) = k
    BY <2>2
  <2> QED BY <1>2, <2>2, <2>3
<1> HIDE DEF Q
<1>3. Q(1) /\ Q(2) /\ Q(3) /\ Q(4) /\ Q(5)
  <2>1. Q(1 + 1)
    BY <1>1, <1>2
  <2>2. Q(2 + 1)
    BY <2>1, <1>2
  <2>3. Q(3 + 1)
    BY <2>2, <1>2
  <2>4. Q(4 + 1)
    BY <2>3, <1>2
  <2> QED BY <1>1, <2>1, <2>2, <2>3, <2>4
<1> QED BY <1>3, Deeper DEF Q

-----------------------------------------------------------------------------
(* The names of topics *)

\* The equation of TopicName.
NamesFrom(names) ==
  names = [e \in DOMAIN Element |->
             IF Element[e].parent = "dataModelRoot" THEN <<Element[e].name>>
             ELSE Append(names[Element[e].parent], Element[e].name)]

\* TopicName is a function with this equation,
LEMMA TopicNameChosen == TopicName = CHOOSE names : NamesFrom(names)
BY Zenon DEF TopicName, NamesFrom

\* A name of an element of each depth.
Name1(e) == <<Element[e].name>>
Name2(e) == Append(Name1(Up(e)), Element[e].name)
Name3(e) == Append(Name2(Up(e)), Element[e].name)
Name4(e) == Append(Name3(Up(e)), Element[e].name)
Name5(e) == Append(Name4(Up(e)), Element[e].name)

\* and there is one, as the tree is not deep.
LEMMA NamesExist == \E names : NamesFrom(names)
<1> DEFINE of(e) == CASE Depth(e) = 1 -> Name1(e)
                      [] Depth(e) = 2 -> Name2(e)
                      [] Depth(e) = 3 -> Name3(e)
                      [] Depth(e) = 4 -> Name4(e)
                      [] Depth(e) = 5 -> Name5(e)
           names == [e \in DOMAIN Element |-> of(e)]
<1>1. ASSUME NEW e \in DOMAIN Element
      PROVE  of(e) = IF Up(e) = Root THEN <<Element[e].name>>
                     ELSE Append(of(Up(e)), Element[e].name)
  <2>1. CASE Up(e) = Root
    BY <2>1, Deeper DEF Name1
  <2>2. CASE Up(e) # Root
    <3>1. Depth(e) \in 1..5 /\ Depth(Up(e)) \in 1..5 /\ Depth(e) = Depth(Up(e)) + 1
      BY <2>2, Deeper
    <3>2. CASE Depth(e) = 2
      <4>1. of(e) = Name2(e) /\ of(Up(e)) = Name1(Up(e))
        BY <3>1, <3>2
      <4> QED BY <2>2, <4>1 DEF Name2
    <3>3. CASE Depth(e) = 3
      <4>1. of(e) = Name3(e) /\ of(Up(e)) = Name2(Up(e))
        BY <3>1, <3>3
      <4> QED BY <2>2, <4>1 DEF Name3
    <3>4. CASE Depth(e) = 4
      <4>1. of(e) = Name4(e) /\ of(Up(e)) = Name3(Up(e))
        BY <3>1, <3>4
      <4> QED BY <2>2, <4>1 DEF Name4
    <3>5. CASE Depth(e) = 5
      <4>1. of(e) = Name5(e) /\ of(Up(e)) = Name4(Up(e))
        BY <3>1, <3>5
      <4> QED BY <2>2, <4>1 DEF Name5
    <3> QED BY <3>1, <3>2, <3>3, <3>4, <3>5
  <2> QED BY <2>1, <2>2
<1> HIDE DEF of
<1>2. ASSUME NEW e \in DOMAIN Element
      PROVE  of(e) = IF Element[e].parent = "dataModelRoot" THEN <<Element[e].name>>
                     ELSE Append(names[Element[e].parent], Element[e].name)
  <2>1. Up(e) # Root => names[Up(e)] = of(Up(e))
    BY Deeper
  <2> QED BY <1>1, <2>1, Zenon DEF Up, Root
<1>3. names = [e \in DOMAIN Element |->
                 IF Element[e].parent = "dataModelRoot" THEN <<Element[e].name>>
                 ELSE Append(names[Element[e].parent], Element[e].name)]
  BY <1>2, Zenon
<1> HIDE DEF names
<1>4. NamesFrom(names)
  BY <1>3, Zenon DEF NamesFrom
<1> QED BY <1>4, Zenon

\* The name of a topic is that of its parent and one more.
LEMMA TopicNameIs ==
  ASSUME NEW e \in DOMAIN Element
  PROVE  TopicName[e] = IF Up(e) = Root THEN <<Element[e].name>>
                        ELSE Append(TopicName[Up(e)], Element[e].name)
<1>1. NamesFrom(TopicName)
  BY TopicNameChosen, NamesExist, Zenon
<1>2. TopicName = [x \in DOMAIN Element |->
                     IF Element[x].parent = "dataModelRoot" THEN <<Element[x].name>>
                     ELSE Append(TopicName[Element[x].parent], Element[x].name)]
  BY <1>1, Zenon DEF NamesFrom
<1> QED BY <1>2, Zenon DEF Up, Root

\* What topics are named after.
Names == {Element[e].name : e \in DOMAIN Element}

\* It has as many names as the element is deep.
LEMMA NameLength ==
  \A e \in DOMAIN Element : TopicName[e] \in Seq(Names) /\ Len(TopicName[e]) = Depth(e)
<1> DEFINE T == {e \in DOMAIN Element : TopicName[e] \in Seq(Names) /\ Len(TopicName[e]) = Depth(e)}
<1>1. ASSUME NEW e \in DOMAIN Element, Up(e) = Root \/ Up(e) \in T
      PROVE  e \in T
  <2> SUFFICES TopicName[e] \in Seq(Names) /\ Len(TopicName[e]) = Depth(e)
    OBVIOUS
  <2>1. Element[e].name \in Names
    BY DEF Names
  <2>2. PICK name \in Names : name = Element[e].name
    BY <2>1
  <2>3. CASE Up(e) = Root
    <3>1. TopicName[e] = <<name>> /\ Depth(e) = 1
      BY <2>2, <2>3, TopicNameIs, Deeper
    <3> QED BY <3>1
  <2>4. CASE Up(e) # Root
    <3>1. PICK up \in Seq(Names) : up = TopicName[Up(e)] /\ Len(up) = Depth(Up(e))
      BY <1>1, <2>4
    <3>2. TopicName[e] = Append(up, name) /\ Depth(e) = Depth(Up(e)) + 1
      BY <2>2, <2>4, <3>1, TopicNameIs, Deeper
    <3>3. Append(up, name) \in Seq(Names) /\ Len(Append(up, name)) = Len(up) + 1
      BY AppendProperties
    <3> QED BY <3>1, <3>2, <3>3
  <2> QED BY <2>3, <2>4
<1>2. DOMAIN Element \subseteq T
  <2> HIDE DEF T
  <2> QED BY <1>1, DownTheTree
<1> QED BY <1>2

\* Every element has a name of its own.
LEMMA NamesTell ==
  \A a, b \in DOMAIN Element : TopicName[a] = TopicName[b] => a = b
<1> DEFINE T == {a \in DOMAIN Element : \A b \in DOMAIN Element : TopicName[a] = TopicName[b] => a = b}
<1>1. ASSUME NEW a \in DOMAIN Element, Up(a) = Root \/ Up(a) \in T
      PROVE  a \in T
  <2> SUFFICES ASSUME NEW b \in DOMAIN Element, TopicName[a] = TopicName[b]
               PROVE  a = b
    OBVIOUS
  <2>1. Depth(a) = Depth(b)
    BY NameLength
  <2>2. Up(a) = Root <=> Up(b) = Root
    BY <2>1, Deeper
  <2>3. CASE Up(a) = Root
    <3>1. <<Element[a].name>> = <<Element[b].name>>
      BY <2>2, <2>3, TopicNameIs
    <3> QED BY <2>2, <2>3, <3>1, NamesDiffer
  <2>4. CASE Up(a) # Root
    <3>1. /\ Up(a) \in T /\ Up(a) \in DOMAIN Element /\ Up(b) \in DOMAIN Element
          /\ Element[a].name \in Names /\ Element[b].name \in Names
      BY <1>1, <2>2, <2>4, Deeper DEF Names
    <3>2. TopicName[Up(a)] \in Seq(Names) /\ TopicName[Up(b)] \in Seq(Names)
      BY <3>1, NameLength
    <3>3. Append(TopicName[Up(a)], Element[a].name) = Append(TopicName[Up(b)], Element[b].name)
      BY <2>2, <2>4, TopicNameIs, Zenon
    <3>4. PICK s \in Seq(Names), t \in Seq(Names), c \in Names, d \in Names :
            s = TopicName[Up(a)] /\ t = TopicName[Up(b)] /\ c = Element[a].name /\ d = Element[b].name
      BY <3>1, <3>2
    <3>5. Append(s, c) = Append(t, d)
      BY <3>3, <3>4
    <3>6. s = t /\ c = d
      BY <3>5, AppendInjective
    <3>7. Up(a) = Up(b)
      BY <3>1, <3>4, <3>6
    <3> QED BY <3>4, <3>6, <3>7, NamesDiffer
  <2> QED BY <2>3, <2>4
<1>2. DOMAIN Element \subseteq T
  <2> HIDE DEF T
  <2> QED BY <1>1, DownTheTree
<1> QED BY <1>2

-----------------------------------------------------------------------------
(* Names that begin with a name *)

\* The name of x begins with that of e.
Begins(e, x) ==
  /\ Len(TopicName[e]) <= Len(TopicName[x])
  /\ SubSeq(TopicName[x], 1, Len(TopicName[e])) = TopicName[e]

\* The leaves whose names begin with that of an element.
LEMMA NamedBelowIs == \A e : NamedBelow(e) = {leaf \in Leaves : Begins(e, leaf)}
BY DEF NamedBelow, Begins

\* The beginning of a sequence that was appended to.
LEMMA BeginningOfAppend ==
  ASSUME NEW S, NEW s \in Seq(S), NEW x \in S, NEW n \in 0..Len(s)
  PROVE  SubSeq(Append(s, x), 1, n) = SubSeq(s, 1, n)
<1> DEFINE t == Append(s, x)
<1>1. t \in Seq(S) /\ Len(t) = Len(s) + 1 /\ \A i \in 1..Len(s) : t[i] = s[i]
  BY AppendProperties
<1> HIDE DEF t
<1>2. Len(s) \in Nat
  OBVIOUS
<1> QED BY <1>1, <1>2

\* The name of an element begins with its own name and what its parent's begins with.
LEMMA BeginsIs ==
  ASSUME NEW e \in DOMAIN Element, NEW x \in DOMAIN Element
  PROVE  Begins(e, x) <=> e = x \/ (Up(x) # Root /\ Begins(e, Up(x)))
<1>1. PICK s \in Seq(Names), t \in Seq(Names) :
        /\ s = TopicName[e] /\ Len(s) = Depth(e)
        /\ t = TopicName[x] /\ Len(t) = Depth(x)
  BY NameLength
<1>2. Depth(e) \in 1..5 /\ Depth(x) \in 1..5
  BY Deeper
<1>3. SubSeq(s, 1, Len(s)) = s /\ SubSeq(t, 1, Len(t)) = t
  BY <1>1
<1>4. s = t <=> e = x
  BY <1>1, NamesTell
<1>5. Begins(e, x) <=> Len(s) <= Len(t) /\ SubSeq(t, 1, Len(s)) = s
  BY <1>1 DEF Begins
<1>6. CASE Len(s) >= Len(t)
  <2>1. Begins(e, x) <=> e = x
    <3>1. ASSUME Begins(e, x)
          PROVE  e = x
      <4>1. Len(s) = Len(t)
        BY <1>1, <1>2, <1>5, <1>6, <3>1
      <4>2. SubSeq(t, 1, Len(t)) = s
        BY <1>5, <3>1, <4>1
      <4> QED BY <1>3, <1>4, <4>2
    <3>2. ASSUME s = t
          PROVE  Begins(e, x)
      <4>1. Len(s) <= Len(t)
        BY <1>1, <1>2, <3>2
      <4> QED BY <1>3, <1>5, <3>2, <4>1
    <3> QED BY <1>4, <3>1, <3>2
  <2>2. Up(x) # Root => ~Begins(e, Up(x))
    <3>1. SUFFICES ASSUME Up(x) # Root
                   PROVE  ~(Len(TopicName[e]) <= Len(TopicName[Up(x)]))
      BY DEF Begins
    <3>2. Up(x) \in DOMAIN Element /\ Depth(Up(x)) \in 1..5 /\ Depth(x) = Depth(Up(x)) + 1
      BY <3>1, Deeper
    <3>3. Len(TopicName[Up(x)]) = Depth(Up(x)) /\ Len(TopicName[e]) = Depth(e)
      BY <3>2, NameLength
    <3> QED BY <1>1, <1>2, <1>6, <3>2, <3>3
  <2> QED BY <2>1, <2>2
<1>7. CASE Len(s) < Len(t)
  <2>1. Up(x) # Root
    <3>1. Depth(x) # 1
      BY <1>1, <1>2, <1>7
    <3> QED BY <3>1, Deeper
  <2>2. e # x
    BY <1>1, <1>2, <1>7
  <2>3. PICK u \in Seq(Names), name \in Names :
          u = TopicName[Up(x)] /\ t = Append(u, name) /\ Len(t) = Len(u) + 1
    <3>1. Up(x) \in DOMAIN Element /\ Depth(Up(x)) \in 1..5 /\ Depth(x) = Depth(Up(x)) + 1
      BY <2>1, Deeper
    <3>2. TopicName[Up(x)] \in Seq(Names) /\ Len(TopicName[Up(x)]) = Depth(Up(x))
      BY <3>1, NameLength
    <3>3. Element[x].name \in Names
      BY DEF Names
    <3>4. TopicName[x] = Append(TopicName[Up(x)], Element[x].name)
      BY <2>1, TopicNameIs
    <3>5. PICK u \in Seq(Names) : u = TopicName[Up(x)]
      BY <3>2
    <3> QED BY <1>1, <3>1, <3>2, <3>3, <3>4, <3>5
  <2>4. Len(s) \in 0..Len(u)
    BY <1>1, <1>2, <1>7, <2>3
  <2>5. SubSeq(t, 1, Len(s)) = SubSeq(u, 1, Len(s))
    BY <2>3, <2>4, BeginningOfAppend
  <2>6. Begins(e, Up(x)) <=> SubSeq(u, 1, Len(s)) = s
    BY <1>1, <2>3, <2>4 DEF Begins
  <2> QED BY <1>1, <1>5, <1>7, <2>1, <2>2, <2>5, <2>6
<1> QED BY <1>1, <1>2, <1>6, <1>7

\* An element whose name begins another one is less deep, or the same.
LEMMA BeginsHigher ==
  ASSUME NEW e \in DOMAIN Element, NEW x \in DOMAIN Element, Begins(e, x)
  PROVE  Depth(e) <= Depth(x) /\ (Depth(e) = Depth(x) => e = x)
<1>1. Len(TopicName[e]) = Depth(e) /\ Len(TopicName[x]) = Depth(x)
  BY NameLength
<1>2. Depth(e) <= Depth(x)
  BY <1>1 DEF Begins
<1>3. ASSUME Depth(e) = Depth(x)
      PROVE  e = x
  <2>1. SUFFICES ~(Up(x) # Root /\ Begins(e, Up(x)))
    BY BeginsIs
  <2>2. SUFFICES ASSUME Up(x) # Root
                 PROVE  ~(Len(TopicName[e]) <= Len(TopicName[Up(x)]))
    BY DEF Begins
  <2>3. Up(x) \in DOMAIN Element /\ Depth(Up(x)) \in 1..5 /\ Depth(x) = Depth(Up(x)) + 1
    BY <2>2, Deeper
  <2>4. Len(TopicName[Up(x)]) = Depth(Up(x))
    BY <2>3, NameLength
  <2> QED BY <1>1, <1>3, <2>3, <2>4
<1> QED BY <1>2, <1>3

-----------------------------------------------------------------------------
(* Walking down *)

\* One step down from each of the elements; leaves stay.
Down(elements) ==
  UNION {IF n \in DOMAIN Children THEN Children[n] ELSE {n} : n \in elements}

\* The walk is four such steps.
LEMMA BelowIsDown == \A e : Below(e) = Down(Down(Down(Down({e}))))
BY DEF Below, Down

\* It comes to an element from its parent, or to a leaf from itself.
LEMMA DownIs ==
  ASSUME NEW elements \in SUBSET DOMAIN Element
  PROVE  /\ Down(elements) \in SUBSET DOMAIN Element
         /\ \A x \in DOMAIN Element :
              x \in Down(elements) <=> \/ x \in elements /\ x \notin DOMAIN Children
                                       \/ Up(x) \in elements
<1>1. ASSUME NEW x \in Down(elements)
      PROVE  /\ x \in DOMAIN Element
             /\ \/ x \in elements /\ x \notin DOMAIN Children
                \/ Up(x) \in elements
  <2>1. PICK n \in elements : x \in IF n \in DOMAIN Children THEN Children[n] ELSE {n}
    BY <1>1 DEF Down
  <2> QED BY <2>1, ChildHasParent
<1>2. ASSUME NEW x \in DOMAIN Element, x \in elements, x \notin DOMAIN Children
      PROVE  x \in Down(elements)
  BY <1>2 DEF Down
<1>3. ASSUME NEW x \in DOMAIN Element, Up(x) \in elements
      PROVE  x \in Down(elements)
  BY <1>3, ParentHasChild DEF Down
<1> QED BY <1>1, <1>2, <1>3

\* What so many steps down from an element come to: the elements so much deeper, and the leaves
\* before, whose names begin with its name.
Reached(e, k, elements) ==
  /\ elements \in SUBSET DOMAIN Element
  /\ \A x \in DOMAIN Element :
       x \in elements <=> /\ Begins(e, x)
                          /\ \/ Depth(x) = Depth(e) + k
                             \/ Depth(x) < Depth(e) + k /\ x \notin DOMAIN Children

\* And another step.
LEMMA DownReaches ==
  ASSUME NEW e \in DOMAIN Element, NEW k \in 0..3, NEW elements, Reached(e, k, elements)
  PROVE  Reached(e, k + 1, Down(elements))
<1>1. elements \in SUBSET DOMAIN Element /\ Depth(e) \in 1..5
  BY Deeper DEF Reached
<1>2. ASSUME NEW x \in DOMAIN Element
      PROVE  x \in Down(elements) <=>
               /\ Begins(e, x)
               /\ \/ Depth(x) = Depth(e) + (k + 1)
                  \/ Depth(x) < Depth(e) + (k + 1) /\ x \notin DOMAIN Children
  <2>1. Depth(x) \in 1..5
    BY Deeper
  <2>2. x \in elements /\ x \notin DOMAIN Children <=>
          Begins(e, x) /\ Depth(x) < Depth(e) + (k + 1) /\ x \notin DOMAIN Children
    BY <1>1, <2>1 DEF Reached
  <2>3. Up(x) \in elements <=> Begins(e, x) /\ Depth(x) = Depth(e) + (k + 1)
    <3>1. CASE Up(x) = Root
      <4>1. Up(x) \notin DOMAIN Element /\ Depth(x) = 1
        BY <3>1, NodesAre, Deeper
      <4> QED BY <1>1, <4>1
    <3>2. CASE Up(x) # Root
      <4>1. /\ Up(x) \in DOMAIN Element /\ Depth(x) = Depth(Up(x)) + 1
            /\ Up(x) \in DOMAIN Children /\ Depth(Up(x)) \in 1..5
        BY <3>2, Deeper, ParentHasChild
      <4>2. Up(x) \in elements <=> Begins(e, Up(x)) /\ Depth(Up(x)) = Depth(e) + k
        BY <4>1 DEF Reached
      <4>3. Depth(x) = Depth(e) + (k + 1) => e # x
        BY <1>1
      <4>4. Begins(e, x) <=> e = x \/ Begins(e, Up(x))
        BY <3>2, BeginsIs
      <4> QED BY <1>1, <4>1, <4>2, <4>3, <4>4
    <3> QED BY <3>1, <3>2
  <2>4. x \in Down(elements) <=> (x \in elements /\ x \notin DOMAIN Children) \/ Up(x) \in elements
    BY <1>1, DownIs
  <2> QED BY <2>2, <2>3, <2>4
<1>3. Down(elements) \in SUBSET DOMAIN Element
  BY <1>1, DownIs
<1> QED BY <1>2, <1>3 DEF Reached

\* DataModelNode::subscribeAll comes from an element to the leaves whose names begin with its name.
THEOREM WalkIsByName ==
  ASSUME NEW e \in DOMAIN Element
  PROVE  Below(e) \cap Leaves = NamedBelow(e)
<1>1. Depth(e) \in 1..5
  BY Deeper
<1>2. Reached(e, 0, {e})
  <2>1. ASSUME NEW x \in DOMAIN Element
        PROVE  x \in {e} <=> /\ Begins(e, x)
                             /\ \/ Depth(x) = Depth(e) + 0
                                \/ Depth(x) < Depth(e) + 0 /\ x \notin DOMAIN Children
    <3>1. Depth(x) \in 1..5
      BY Deeper
    <3>2. Begins(e, x) => Depth(e) <= Depth(x) /\ (Depth(e) = Depth(x) => e = x)
      BY BeginsHigher
    <3>3. Begins(e, e)
      BY BeginsIs
    <3> QED BY <1>1, <3>1, <3>2, <3>3
  <2> QED BY <2>1 DEF Reached
<1>3. Reached(e, 4, Below(e))
  <2>1. Reached(e, 0 + 1, Down({e}))
    BY <1>2, DownReaches
  <2>2. Reached(e, 1 + 1, Down(Down({e})))
    BY <2>1, DownReaches
  <2>3. Reached(e, 2 + 1, Down(Down(Down({e}))))
    BY <2>2, DownReaches
  <2>4. Reached(e, 3 + 1, Down(Down(Down(Down({e})))))
    BY <2>3, DownReaches
  <2> QED BY <2>4, BelowIsDown
<1>4. ASSUME NEW leaf \in Leaves
      PROVE  leaf \in Below(e) <=> Begins(e, leaf)
  <2>1. leaf \in DOMAIN Element /\ leaf \notin DOMAIN Children
    BY LeavesAssumption, NodesAre DEF LeafTopics
  <2>2. Depth(leaf) \in 1..5
    BY <2>1, Deeper
  <2>3. Depth(leaf) = Depth(e) + 4 \/ Depth(leaf) < Depth(e) + 4
    BY <1>1, <2>2
  <2> QED BY <1>3, <2>1, <2>3 DEF Reached
<1> QED BY <1>4, NamedBelowIs

-----------------------------------------------------------------------------
(* Who subscribes to what *)

\* A session is a subscriber of the leaves that it asked for.
WatchInv ==
  /\ watching \in [Leaves -> SUBSET Sessions]
  /\ wanted \in [Sessions -> SUBSET Leaves]
  /\ \A leaf \in Leaves, s \in Sessions : s \in watching[leaf] <=> leaf \in wanted[s]

\* Nobody else's subscriptions change, nor those to other leaves.
LEMMA SubscribeWanted ==
  ASSUME WatchInv, NEW s \in Sessions, NEW e \in Subtrees, Subscribe(s, e)
  PROVE  WatchInv'
<1>1. Below(e) \cap Leaves = NamedBelow(e) /\ NamedBelow(e) \subseteq Leaves
  BY SubtreesAssumption, WalkIsByName DEF NamedBelow
<1>2. /\ watching' = [leaf \in Leaves |-> IF leaf \in NamedBelow(e) THEN watching[leaf] \cup {s}
                                          ELSE watching[leaf]]
      /\ wanted' = [wanted EXCEPT ![s] = @ \cup NamedBelow(e)]
  BY <1>1, Zenon DEF Subscribe, SubscribeTo
<1>3. PICK leaves : leaves = NamedBelow(e) /\ leaves \subseteq Leaves
  BY <1>1
<1> QED BY <1>2, <1>3 DEF WatchInv

\* The same when unsubscribing.
LEMMA UnsubscribeWanted ==
  ASSUME WatchInv, NEW s \in Sessions, NEW e \in Subtrees, Unsubscribe(s, e)
  PROVE  WatchInv'
<1>1. Below(e) \cap Leaves = NamedBelow(e) /\ NamedBelow(e) \subseteq Leaves
  BY SubtreesAssumption, WalkIsByName DEF NamedBelow
<1>2. /\ watching' = [leaf \in Leaves |->
                        IF leaf \in {l \in NamedBelow(e) : s \in watching[l]} THEN watching[leaf] \ {s}
                        ELSE watching[leaf]]
      /\ wanted' = [wanted EXCEPT ![s] = @ \ NamedBelow(e)]
  BY <1>1, Zenon DEF Unsubscribe, UnsubscribeFrom
<1>3. PICK leaves : leaves = NamedBelow(e) /\ leaves \subseteq Leaves
  BY <1>1
<1> QED BY <1>2, <1>3 DEF WatchInv

\* Nothing else changes subscriptions.
LEMMA WatchKeeps ==
  ASSUME WatchInv, [Next]_vars
  PROVE  WatchInv'
<1>1. CASE HandleLine
  <2>1. UNCHANGED <<watching, wanted>>
    BY <1>1 DEF HandleLine, lineCompleted, processMessage, Publish, leafVars
  <2> QED BY <2>1 DEF WatchInv
<1>2. CASE \E s \in Sessions, e \in Subtrees : Subscribe(s, e) \/ Unsubscribe(s, e)
  BY <1>2, SubscribeWanted, UnsubscribeWanted
<1>3. CASE Export
  <2>1. UNCHANGED <<watching, wanted>>
    BY <1>3 DEF Export, ExportStats, Publish
  <2> QED BY <2>1 DEF WatchInv
<1>4. CASE UNCHANGED vars
  BY <1>4 DEF vars, leafVars, WatchInv
<1> QED BY <1>1, <1>2, <1>3, <1>4 DEF Next

\* Walking down the arrays of children of DataModelNode::subscribeAll and unsubscribeAll
\* comes to the leaves whose names, which buildTopicName builds from the parents, begin
\* with that of the element: however clients subscribe and unsubscribe, they are
\* subscribed to what they named.
THEOREM AlwaysWalksByName == Spec => []WalksByName
<1>1. Init => WatchInv
  BY DEF Init, LeavesInit, WatchInv
<1>2. WatchInv /\ [Next]_vars => WatchInv'
  BY WatchKeeps
<1>3. WatchInv => WalksByName
  BY DEF WatchInv, WalksByName
<1> QED BY <1>1, <1>2, <1>3, PTL DEF Spec

=============================================================================
