-------------------------- MODULE DataModel_proofs --------------------------
(***************************************************************************)
(* Proofs about the subscriptions of the data model, for any tree, any     *)
(* filters and any number of sessions.                                     *)
(***************************************************************************)
EXTENDS DataModel, FiniteSetTheorems, WellFoundedInduction, TLAPS

\* The arrays and the filters have their types.
Typed ==
  /\ subscribers \in [Leaves -> [Positions -> Sessions \cup {None}]]
  /\ held \in [Sessions -> SUBSET Filters]

\* What is subscribed was reached by the walk of a filter that is held.
HeldCovers ==
  \A leaf \in Leaves : \A s \in Sessions :
    IsSubscribed(leaf, s) => \E f \in held[s] : leaf \in Subscribes(f)

\* Only valid filters are granted.
HeldValid == \A s \in Sessions : \A f \in held[s] : Valid(f)

Inv == Typed /\ OneEntryEach /\ HeldCovers /\ HeldValid

\* A set of positions has at most one first position.
LEMMA FirstIsUnique ==
  ASSUME NEW positions \in SUBSET Positions, NEW p, NEW q,
         IsFirst(p, positions), IsFirst(q, positions)
  PROVE  p = q
BY SubscribersAssumption DEF IsFirst, Positions

\* Setting the first of some positions keeps the type of an array.
LEMMA SetFirstTyped ==
  ASSUME Typed, NEW leaf \in Leaves, NEW positions, NEW entry \in Sessions \cup {None}
  PROVE  SetFirst(leaf, positions, entry) \in [Positions -> Sessions \cup {None}]
BY DEF Typed, SetFirst

\* Of the only entry of a subscriber nothing is left when it is removed.
LEMMA RemovedIsGone ==
  ASSUME Typed, OneEntryEach, NEW leaf \in Leaves, NEW s \in Sessions,
         NEW pos \in Positions
  PROVE  ArrayWithout(leaf, s)[pos] # s
<1>1. CASE subscribers[leaf][pos] = s
  <2>1. \A other \in PositionsOf(leaf, s) : other = pos
    BY <1>1, SubscribersAssumption DEF OneEntryEach, PositionsOf
  <2>2. IsFirst(pos, PositionsOf(leaf, s))
    BY <1>1, <2>1, SubscribersAssumption DEF IsFirst, PositionsOf, Positions
  <2> QED BY <2>2, SubscribersAssumption DEF ArrayWithout, SetFirst
<1>2. CASE subscribers[leaf][pos] # s
  BY <1>2, SubscribersAssumption DEF ArrayWithout, SetFirst
<1> QED BY <1>1, <1>2

\* Removing touches no entry but those of the subscriber.
LEMMA RemovedOnly ==
  ASSUME NEW leaf \in Leaves, NEW s \in Sessions, NEW pos \in Positions
  PROVE  ArrayWithout(leaf, s)[pos] \in {subscribers[leaf][pos], None}
BY DEF ArrayWithout, SetFirst

\* Initially there are no entries.
LEMMA InvInit == Init => Inv
<1> SUFFICES ASSUME Init PROVE Inv
  OBVIOUS
<1>1. Typed
  BY DEF Init, Typed
<1>2. OneEntryEach
  BY DEF Init, OneEntryEach
<1>3. HeldCovers
  BY SubscribersAssumption DEF Init, HeldCovers, IsSubscribed, PositionsOf
<1>4. HeldValid
  BY DEF Init, HeldValid
<1> QED BY <1>1, <1>2, <1>3, <1>4 DEF Inv

\* DataModel::subscribe keeps the invariant.
LEMMA SubscribeInv ==
  ASSUME Inv, NEW s \in Sessions, NEW f \in Filters, Subscribe(s, f)
  PROVE  Inv'
<1> DEFINE Added(leaf) == leaf \in Subscribes(f) /\ Adds(leaf, s)
<1>1. \A leaf \in Leaves :
        subscribers'[leaf] = IF Added(leaf) THEN ArrayWith(leaf, s) ELSE subscribers[leaf]
  BY DEF Subscribe
<1>2. \A t \in Sessions : held[t] \subseteq held'[t]
  BY DEF Subscribe, Inv, Typed
<1>3. ASSUME NEW leaf \in Leaves, Added(leaf)
      PROVE  f \in held'[s]
  BY <1>3 DEF Subscribe, Grants, Inv, Typed
<1>4. Typed'
  <2>1. subscribers' \in [Leaves -> [Positions -> Sessions \cup {None}]]
    BY SetFirstTyped DEF Subscribe, Inv, Typed, ArrayWith
  <2>2. held' \in [Sessions -> SUBSET Filters]
    BY DEF Subscribe, Inv, Typed
  <2> QED BY <2>1, <2>2 DEF Typed
<1>5. OneEntryEach'
  <2> SUFFICES ASSUME NEW leaf \in Leaves, NEW p \in Positions, NEW q \in Positions,
                      subscribers'[leaf][p] = subscribers'[leaf][q], p # q
               PROVE  subscribers'[leaf][p] = None
    BY DEF OneEntryEach
  <2>1. CASE ~Added(leaf)
    BY <1>1, <2>1 DEF Inv, OneEntryEach
  <2>2. CASE Added(leaf)
    <3>1. subscribers'[leaf] = ArrayWith(leaf, s)
      BY <1>1, <2>2
    <3>2. \A pos \in Positions : subscribers[leaf][pos] # s
      BY <2>2 DEF Adds, IsSubscribed, PositionsOf
    <3>3. ~(IsFirst(p, PositionsOf(leaf, None)) /\ IsFirst(q, PositionsOf(leaf, None)))
      BY FirstIsUnique DEF PositionsOf
    <3> QED BY <3>1, <3>2, <3>3 DEF ArrayWith, SetFirst, Inv, OneEntryEach
  <2> QED BY <2>1, <2>2
<1>6. HeldCovers'
  <2> SUFFICES ASSUME NEW leaf \in Leaves, NEW t \in Sessions, NEW pos \in Positions,
                      subscribers'[leaf][pos] = t
               PROVE  \E g \in held'[t] : leaf \in Subscribes(g)
    BY DEF HeldCovers, IsSubscribed, PositionsOf, Subscribes, Unsubscribes
  <2>1. CASE subscribers[leaf][pos] = t
    BY <2>1, <1>2 DEF Inv, HeldCovers, IsSubscribed, PositionsOf
  <2>2. CASE subscribers[leaf][pos] # t
    <3>1. Added(leaf) /\ t = s
      BY <1>1, <2>2 DEF ArrayWith, SetFirst
    <3> QED BY <3>1, <1>3
  <2> QED BY <2>1, <2>2
<1>7. HeldValid'
  <2>1. Grants(f, s) => Valid(f)
    BY DEF Grants, Subscribes, Unsubscribes
  <2>2. \A t \in Sessions : held'[t] \subseteq held[t] \cup (IF Grants(f, s) THEN {f} ELSE {})
    BY DEF Subscribe, Inv, Typed
  <2> QED BY <2>1, <2>2 DEF Inv, HeldValid, Valid
<1> QED BY <1>4, <1>5, <1>6, <1>7 DEF Inv

\* Removing a subscriber from some leaves keeps types and single entries.
LEMMA RemoveFromInv ==
  ASSUME Inv, NEW s \in Sessions, NEW leaves, RemoveFrom(leaves, s)
  PROVE  /\ subscribers' \in [Leaves -> [Positions -> Sessions \cup {None}]]
         /\ OneEntryEach'
         /\ \A leaf \in Leaves, pos \in Positions :
              /\ subscribers'[leaf][pos] \in {subscribers[leaf][pos], None}
              /\ leaf \in leaves => subscribers'[leaf][pos] # s
<1>1. \A leaf \in Leaves :
        subscribers'[leaf] = IF leaf \in leaves THEN ArrayWithout(leaf, s) ELSE subscribers[leaf]
  BY DEF RemoveFrom
<1>2. subscribers' \in [Leaves -> [Positions -> Sessions \cup {None}]]
  BY SetFirstTyped DEF RemoveFrom, ArrayWithout, Inv, Typed
<1>3. \A leaf \in Leaves, pos \in Positions :
        /\ subscribers'[leaf][pos] \in {subscribers[leaf][pos], None}
        /\ leaf \in leaves => subscribers'[leaf][pos] # s
  BY <1>1, RemovedIsGone, RemovedOnly DEF Inv
<1>4. OneEntryEach'
  BY <1>3 DEF Inv, OneEntryEach
<1> QED BY <1>2, <1>3, <1>4

\* A filter subscribes to nothing that it does not unsubscribe from.
LEMMA UnsubscribesMore == \A f : Subscribes(f) \subseteq Unsubscribes(f)
BY DEF Subscribes

\* DataModel::unsubscribe keeps the invariant.
LEMMA UnsubscribeInv ==
  ASSUME Inv, NEW s \in Sessions, NEW f \in Filters, Unsubscribe(s, f)
  PROVE  Inv'
<1>1. /\ subscribers' \in [Leaves -> [Positions -> Sessions \cup {None}]]
      /\ OneEntryEach'
      /\ \A leaf \in Leaves, pos \in Positions :
           /\ subscribers'[leaf][pos] \in {subscribers[leaf][pos], None}
           /\ leaf \in Unsubscribes(f) => subscribers'[leaf][pos] # s
  BY RemoveFromInv DEF Unsubscribe
<1>2. Typed'
  BY <1>1 DEF Unsubscribe, Inv, Typed
<1>3. HeldCovers'
  <2> SUFFICES ASSUME NEW leaf \in Leaves, NEW t \in Sessions, NEW pos \in Positions,
                      subscribers'[leaf][pos] = t
               PROVE  \E g \in held'[t] : leaf \in Subscribes(g)
    BY DEF HeldCovers, IsSubscribed, PositionsOf, Subscribes, Unsubscribes
  <2>1. subscribers[leaf][pos] = t
    BY <1>1, SubscribersAssumption
  <2>2. PICK g \in held[t] : leaf \in Subscribes(g)
    BY <2>1 DEF Inv, HeldCovers, IsSubscribed, PositionsOf
  <2>3. t = s => g # f
    BY <1>1, <2>2, UnsubscribesMore
  <2>4. g \in held'[t]
    BY <2>2, <2>3 DEF Unsubscribe, Inv, Typed
  <2> QED BY <2>2, <2>4
<1>4. HeldValid'
  BY DEF Unsubscribe, Inv, Typed, HeldValid, Valid
<1> QED BY <1>1, <1>2, <1>3, <1>4 DEF Inv

\* DataModel::unsubscribeAll keeps the invariant.
LEMMA UnsubscribeAllInv ==
  ASSUME Inv, NEW s \in Sessions, UnsubscribeAll(s)
  PROVE  Inv'
<1>1. /\ subscribers' \in [Leaves -> [Positions -> Sessions \cup {None}]]
      /\ OneEntryEach'
      /\ \A leaf \in Leaves, pos \in Positions :
           /\ subscribers'[leaf][pos] \in {subscribers[leaf][pos], None}
           /\ subscribers'[leaf][pos] # s
  BY RemoveFromInv DEF UnsubscribeAll, All
<1>2. Typed'
  BY <1>1 DEF UnsubscribeAll, Inv, Typed
<1>3. HeldCovers'
  <2> SUFFICES ASSUME NEW leaf \in Leaves, NEW t \in Sessions, NEW pos \in Positions,
                      subscribers'[leaf][pos] = t
               PROVE  \E g \in held'[t] : leaf \in Subscribes(g)
    BY DEF HeldCovers, IsSubscribed, PositionsOf, Subscribes, Unsubscribes
  <2>1. subscribers[leaf][pos] = t /\ t # s
    BY <1>1, SubscribersAssumption
  <2>2. PICK g \in held[t] : leaf \in Subscribes(g)
    BY <2>1 DEF Inv, HeldCovers, IsSubscribed, PositionsOf
  <2>3. held'[t] = held[t]
    BY <2>1 DEF UnsubscribeAll, Inv, Typed
  <2> QED BY <2>2, <2>3
<1>4. HeldValid'
  BY DEF UnsubscribeAll, Inv, Typed, HeldValid, Valid
<1> QED BY <1>1, <1>2, <1>3, <1>4 DEF Inv

\* Every step keeps the invariant.
LEMMA InvNext == Inv /\ [Next]_vars => Inv'
<1> SUFFICES ASSUME Inv, [Next]_vars PROVE Inv'
  OBVIOUS
<1>1. ASSUME NEW s \in Sessions, NEW f \in Filters, Subscribe(s, f)
      PROVE  Inv'
  BY <1>1, SubscribeInv
<1>2. ASSUME NEW s \in Sessions, NEW f \in Filters, Unsubscribe(s, f)
      PROVE  Inv'
  BY <1>2, UnsubscribeInv
<1>3. ASSUME NEW s \in Sessions, UnsubscribeAll(s)
      PROVE  Inv'
  BY <1>3, UnsubscribeAllInv
<1>4. ASSUME UNCHANGED vars
      PROVE  Inv'
  BY <1>4 DEF vars, Inv, Typed, OneEntryEach, HeldCovers, HeldValid, IsSubscribed,
              PositionsOf, Subscribes, Unsubscribes, Valid
<1> QED BY <1>1, <1>2, <1>3, <1>4 DEF Next

\* The invariant holds in every state.
LEMMA InvAlways == Spec => []Inv
BY InvInit, InvNext, PTL DEF Spec

\* No session ever has two entries of a leaf.
THEOREM AlwaysOneEntryEach == Spec => []OneEntryEach
<1>1. Inv => OneEntryEach
  BY DEF Inv
<1> QED BY <1>1, InvAlways, PTL

\* Where entries are single, a leaf has room for every session that is not there:
\* otherwise more positions than there are other sessions would hold them.
LEMMA RoomByCounting == Inv => AlwaysRoom
<1> SUFFICES ASSUME Inv, NEW leaf \in Leaves, NEW s \in Sessions, ~IsSubscribed(leaf, s),
                    PositionsOf(leaf, None) = {}
             PROVE  FALSE
  BY DEF AlwaysRoom
<1> DEFINE entries == subscribers[leaf]
           others == Sessions \ {s}
<1>1. entries \in [Positions -> others]
  BY DEF Inv, Typed, IsSubscribed, PositionsOf
<1>2. IsFiniteSet(Positions) /\ Cardinality(Positions) = maxDataModelSubscribers
  BY FS_Interval, SubscribersAssumption DEF Positions
<1>3. IsFiniteSet(others) /\ Cardinality(others) = Cardinality(Sessions) - 1
  BY FS_RemoveElement, SubscribersAssumption
<1>4. Cardinality(Sessions) \in Nat
  BY FS_CardinalityType, SubscribersAssumption
<1>5. Cardinality(others) < Cardinality(Positions)
  BY <1>2, <1>3, <1>4, SubscribersAssumption
<1>6. \E p, q \in Positions : p # q /\ entries[p] = entries[q]
  <2> HIDE DEF entries, others
  <2> QED BY <1>1, <1>2, <1>3, <1>5, FS_PigeonHole
<1>7. \A p \in Positions : entries[p] # None
  BY DEF PositionsOf
<1> QED BY <1>6, <1>7 DEF Inv, OneEntryEach

\* A leaf always has room for a session that is not subscribed to it, for any
\* number of sessions up to the number of positions.
THEOREM RoomForEverySession == Spec => []AlwaysRoom
BY RoomByCounting, InvAlways, PTL

\* The walk of a filter that does not abbreviate names takes its levels for
\* whole names.
LEMMA LevelsAreNames ==
  ASSUME NEW f \in Filters, ~Abbreviates(f), NEW leaf \in Leaves,
         NEW i \in 1..Len(f), NEW k \in 1..Len(leaf)
  PROVE  LevelMatches(f[i], leaf[k]) <=> f[i] \in {"+", leaf[k]}
BY PathsAssumption DEF Abbreviates, LevelMatches

\* Without empty levels, the last level is the last one.
LEMMA LastIsLast ==
  ASSUME NEW f \in Filters, ~Abbreviates(f), NEW i \in 1..Len(f)
  PROVE  IsLastLevel(f, i) <=> i = Len(f)
<1>1. f \in Seq(STRING)
  BY PathsAssumption
<1>2. Len(f) \in Nat
  BY <1>1
<1>3. \A k \in 1..Len(f) : f[k] # ""
  BY DEF Abbreviates
<1>4. i = Len(f) - 1 => i + 1 \in 1..Len(f)
  BY <1>2
<1> QED BY <1>3, <1>4 DEF IsLastLevel

\* Above the element that the walk reaches, the levels match as in MQTT.
LEMMA ReachedAsMQTT ==
  ASSUME NEW f \in Filters, ~Abbreviates(f), NEW leaf \in Leaves, NEW i \in 1..Len(leaf),
         Reaches(f, leaf, i)
  PROVE  \A k \in 1..(i - 1) : f[k] \in {"+", leaf[k]}
<1>1. f \in Seq(STRING) /\ leaf \in Seq(STRING)
  BY PathsAssumption
<1>2. Len(f) \in Nat /\ Len(leaf) \in Nat
  BY <1>1
<1> TAKE k \in 1..(i - 1)
<1>3. k \in 1..Len(f) /\ k \in 1..Len(leaf)
  BY <1>2 DEF Reaches
<1> QED BY <1>3, LevelsAreNames DEF Reaches

\* A valid filter whose levels match the path as in MQTT reaches the element at
\* its last level.
LEMMA MQTTReaches ==
  ASSUME NEW f \in Filters, ~Abbreviates(f), Valid(f), NEW leaf \in Leaves,
         MQTTMatches(f, leaf), Len(f) <= Len(leaf)
  PROVE  Reaches(f, leaf, Len(f))
<1>1. f \in Seq(STRING) /\ leaf \in Seq(STRING)
  BY PathsAssumption
<1>2. Len(f) \in Nat /\ Len(leaf) \in Nat
  BY <1>1
<1> SUFFICES ASSUME NEW k \in 1..(Len(f) - 1)
             PROVE  f[k] # "#" /\ LevelMatches(f[k], leaf[k]) /\ ~IsLastLevel(f, k)
  BY <1>2 DEF Reaches
<1>3. k \in 1..Len(f) /\ k \in 1..Len(leaf) /\ k # Len(f)
  BY <1>2
<1>4. f[k] # "#"
  BY <1>3 DEF Valid
<1>5. LevelMatches(f[k], leaf[k])
  BY <1>3, <1>4, LevelsAreNames DEF MQTTMatches
<1>6. ~IsLastLevel(f, k)
  BY <1>3, LastIsLast
<1> QED BY <1>4, <1>5, <1>6

\* The walk of the tree for a valid filter that does not abbreviate names comes to
\* exactly the leaves that the filter stands for in MQTT, a # after the name of a
\* leaf aside (DataModelRoot, DataModelNode, DataModelElement, DataModelLeaf).
THEOREM WalkIsMatching ==
  ASSUME NEW f \in Filters, ~Abbreviates(f), Valid(f), NEW leaf \in Leaves
  PROVE  leaf \in Subscribes(f) <=> MQTTMatches(f, leaf) /\ Len(f) <= Len(leaf)
<1>1. f \in Seq(STRING) /\ leaf \in Seq(STRING) /\ f # <<>> /\ leaf # <<>>
  BY PathsAssumption
<1>2. Len(f) \in Nat \ {0} /\ Len(leaf) \in Nat \ {0}
  BY <1>1
<1>3. ASSUME ReachesSubtree(f, leaf), leaf \in Subscribes(f)
      PROVE  MQTTMatches(f, leaf) /\ Len(f) <= Len(leaf)
  <2>1. PICK i \in 1..Len(leaf) : Reaches(f, leaf, i) /\ f[i] = "#"
    BY <1>3 DEF ReachesSubtree
  <2>2. i \in 1..Len(f)
    BY <2>1, <1>2 DEF Reaches
  <2>3. i = Len(f)
    BY <2>1, <2>2 DEF Valid
  <2>4. \A k \in 1..(i - 1) : f[k] \in {"+", leaf[k]}
    BY <2>1, ReachedAsMQTT
  <2>5. \A k \in 1..Len(f) : f[k] = "#" \/ (k <= Len(leaf) /\ f[k] \in {"+", leaf[k]})
    BY <2>1, <2>3, <2>4, <1>2
  <2> QED BY <2>1, <2>3, <2>5, <1>2, <1>3 DEF MQTTMatches, Subscribes
<1>4. ASSUME ReachesLeaf(f, leaf), leaf \in Subscribes(f)
      PROVE  MQTTMatches(f, leaf) /\ Len(f) <= Len(leaf)
  <2> DEFINE n == Len(leaf)
  <2>1. Reaches(f, leaf, n) /\ LevelMatches(f[n], leaf[n]) /\ IsLastLevel(f, n)
    BY <1>4 DEF ReachesLeaf
  <2>2. n \in 1..Len(f) /\ n \in 1..Len(leaf)
    BY <2>1, <1>2 DEF Reaches
  <2>3. n = Len(f)
    BY <2>1, <2>2, LastIsLast
  <2>4. \A k \in 1..(n - 1) : f[k] \in {"+", leaf[k]}
    BY <2>1, <2>2, ReachedAsMQTT
  <2>5. f[n] \in {"+", leaf[n]}
    BY <2>1, <2>2, LevelsAreNames
  <2>6. \A k \in 1..Len(f) : k <= Len(leaf) /\ f[k] \in {"+", leaf[k]}
    BY <2>3, <2>4, <2>5, <1>2
  <2> QED BY <2>3, <2>6, <1>2, <1>4 DEF MQTTMatches, Subscribes
<1>5. ASSUME MQTTMatches(f, leaf), Len(f) <= Len(leaf)
      PROVE  leaf \in Subscribes(f)
  <2>1. Reaches(f, leaf, Len(f))
    BY <1>5, MQTTReaches
  <2>2. Len(f) \in 1..Len(leaf)
    BY <1>2, <1>5
  <2>3. CASE f[Len(f)] = "#"
    <3>1. ReachesSubtree(f, leaf)
      BY <2>1, <2>2, <2>3 DEF ReachesSubtree
    <3> QED BY <3>1, <1>5 DEF Subscribes, Unsubscribes, MQTTMatches
  <2>4. CASE f[Len(f)] # "#"
    <3>1. Len(f) = Len(leaf) /\ f[Len(f)] \in {"+", leaf[Len(f)]}
      BY <2>4, <1>2, <1>5 DEF MQTTMatches
    <3>2. LevelMatches(f[Len(f)], leaf[Len(f)])
      BY <3>1, <2>2, <1>2, LevelsAreNames
    <3>3. ReachesLeaf(f, leaf)
      BY <2>1, <3>1, <3>2 DEF ReachesLeaf, IsLastLevel
    <3> QED BY <3>3, <1>5 DEF Subscribes, Unsubscribes, MQTTMatches
  <2> QED BY <2>3, <2>4
<1> QED BY <1>3, <1>4, <1>5 DEF Subscribes, Unsubscribes

\* The filters that a client was granted come to what they stand for in MQTT.
THEOREM AlwaysMatchesAsMQTT == Spec => []MatchesAsMQTT
<1>1. Inv => MatchesAsMQTT
  BY WalkIsMatching DEF Inv, Typed, HeldValid, MatchesAsMQTT
<1> QED BY <1>1, InvAlways, PTL

\* A client is subscribed to nothing it did not ask for, or has unsubscribed from.
THEOREM AlwaysOnlyWhatWasGranted == Spec => []OnlyWhatWasGranted
<1>1. Inv => OnlyWhatWasGranted
  <2> SUFFICES ASSUME Inv, NEW leaf \in Leaves, NEW s \in Sessions, IsSubscribed(leaf, s)
               PROVE  \E f \in held[s] : \/ MQTTMatches(f, leaf)
                                         \/ Abbreviates(f) /\ leaf \in Subscribes(f)
    BY DEF OnlyWhatWasGranted
  <2>1. PICK f \in held[s] : leaf \in Subscribes(f)
    BY DEF Inv, HeldCovers
  <2>2. f \in Filters /\ Valid(f)
    BY DEF Inv, Typed, HeldValid
  <2> QED BY <2>1, <2>2, WalkIsMatching
<1> QED BY <1>1, InvAlways, PTL

-----------------------------------------------------------------------------
(* What $SYS shows of the subscriptions *)

Entries == {e \in Leaves \X Positions : subscribers[e[1]][e[2]] # None}

\* Of a set of natural numbers, one is the least.
LEMMA Least ==
  ASSUME NEW T \in SUBSET Nat, T # {}
  PROVE  \E m \in T : \A k \in T : m <= k
<1> DEFINE Less == {ss \in Nat \X Nat : ss[1] < ss[2]}
<1>1. IsWellFoundedOn(Less, Nat)
  BY NatLessThanWellFounded, Zenon DEF OpToRel
<1>2. \E m \in T : \A k \in T : <<k, m>> \notin Less
  <2> HIDE DEF Less
  <2> QED BY <1>1, WFMin
<1>3. PICK m \in T : \A k \in T : <<k, m>> \notin Less
  BY <1>2
<1>4. ASSUME NEW k \in T
      PROVE  m <= k
  <2>1. k \in Nat /\ m \in Nat
    BY T \subseteq Nat
  <2>2. ~(k < m)
    BY <1>3, <2>1
  <2> QED BY <2>1, <2>2
<1> QED BY <1>4

\* If there are positions, one is the first.
LEMMA FirstExists ==
  ASSUME NEW positions \in SUBSET Positions, positions # {}
  PROVE  \E pos \in positions : IsFirst(pos, positions)
<1>1. positions \in SUBSET Nat
  BY SubscribersAssumption DEF Positions
<1> QED BY <1>1, Least DEF IsFirst

\* Entries of which each leaf of a set has one are as many as the leaves.
LEMMA CountByLeaf ==
  ASSUME NEW leaves \in SUBSET Leaves, NEW E \in SUBSET (Leaves \X Positions),
         \A e \in E : e[1] \in leaves,
         \A leaf \in leaves : \E pos \in Positions : <<leaf, pos>> \in E,
         \A e, d \in E : e[1] = d[1] => e[2] = d[2]
  PROVE  /\ IsFiniteSet(E) /\ IsFiniteSet(leaves)
         /\ Cardinality(E) = Cardinality(leaves)
<1> DEFINE leafOf == [e \in E |-> e[1]]
<1>1. IsFiniteSet(leaves)
  BY FS_Subset, PathsAssumption
<1>2. leafOf \in Surjection(E, leaves)
  BY DEF Surjection
<1>3. leafOf \in Injection(E, leaves)
  <2>1. \A e, d \in E : e[1] = d[1] => e = d
    OBVIOUS
  <2> QED BY <2>1 DEF Injection, IsInjective
<1> HIDE DEF leafOf
<1> QED BY <1>1, <1>2, <1>3, FS_Injection

\* The entries are finitely many.
LEMMA EntriesFinite == IsFiniteSet(Entries)
<1>1. IsFiniteSet(Positions)
  BY FS_Interval, SubscribersAssumption DEF Positions
<1>2. IsFiniteSet(Leaves \X Positions)
  BY <1>1, FS_Product, PathsAssumption
<1> QED BY <1>2, FS_Subset DEF Entries

\* DataModelLeaf::addSubscriber counts up once for each entry it makes.
LEMMA SubscribeCounts ==
  ASSUME Inv, CountTrue, NEW s \in Sessions, NEW f \in Filters, Subscribe(s, f)
  PROVE  CountTrue'
<1> DEFINE adding == {leaf \in Subscribes(f) : Adds(leaf, s)}
           new == {e \in Leaves \X Positions :
                     e[1] \in adding /\ IsFirst(e[2], PositionsOf(e[1], None))}
<1>1. adding \in SUBSET Leaves
  BY DEF Subscribes, Unsubscribes
<1>2. Cardinality(new) = Cardinality(adding) /\ IsFiniteSet(new)
  <2>1. \A leaf \in adding : \E pos \in Positions : <<leaf, pos>> \in new
    BY <1>1, FirstExists DEF Adds, PositionsOf
  <2>2. \A e, d \in new : e[1] = d[1] => e[2] = d[2]
    BY FirstIsUnique DEF PositionsOf
  <2>3. new \in SUBSET (Leaves \X Positions) /\ \A e \in new : e[1] \in adding
    OBVIOUS
  <2> HIDE DEF adding, new
  <2> QED BY <1>1, <2>1, <2>2, <2>3, CountByLeaf
<1>3. Entries' = Entries \cup new
  <2>1. ASSUME NEW e \in Leaves \X Positions
        PROVE  subscribers'[e[1]][e[2]] =
                 IF e \in new THEN s ELSE subscribers[e[1]][e[2]]
    BY DEF Subscribe, ArrayWith, SetFirst
  <2> QED BY <2>1, SubscribersAssumption DEF Entries
<1>4. Entries \cap new = {}
  BY DEF Entries, IsFirst, PositionsOf
<1>5. Cardinality(Entries \cup new) = Cardinality(Entries) + Cardinality(new)
  <2>1. Cardinality(Entries \cap new) = 0
    BY <1>4, FS_EmptySet
  <2>2. Cardinality(Entries) \in Nat /\ Cardinality(new) \in Nat
    BY <1>2, EntriesFinite, FS_CardinalityType
  <2> HIDE DEF new
  <2>3. Cardinality(Entries \cup new) =
          Cardinality(Entries) + Cardinality(new) - Cardinality(Entries \cap new)
    BY <1>2, EntriesFinite, FS_Union
  <2> QED BY <2>1, <2>2, <2>3
<1> QED BY <1>2, <1>3, <1>5 DEF CountTrue, Entries, Subscribe, CountAfterSubscribe

\* DataModelLeaf::unsubscribe counts down once for each entry it clears.
LEMMA RemoveCounts ==
  ASSUME Inv, CountTrue, NEW s \in Sessions, NEW leaves \in SUBSET Leaves,
         RemoveFrom(leaves, s)
  PROVE  CountTrue'
<1> DEFINE losing == {leaf \in leaves : IsSubscribed(leaf, s)}
           old == {e \in Leaves \X Positions :
                     e[1] \in leaves /\ subscribers[e[1]][e[2]] = s}
<1>1. losing \in SUBSET Leaves
  OBVIOUS
<1>2. Cardinality(old) = Cardinality(losing) /\ IsFiniteSet(old)
  <2>1. \A leaf \in losing : \E pos \in Positions : <<leaf, pos>> \in old
    BY DEF IsSubscribed, PositionsOf
  <2>2. \A e, d \in old : e[1] = d[1] => e[2] = d[2]
    BY SubscribersAssumption DEF Inv, OneEntryEach
  <2>3. old \in SUBSET (Leaves \X Positions) /\ \A e \in old : e[1] \in losing
    BY DEF IsSubscribed, PositionsOf
  <2> HIDE DEF losing, old
  <2> QED BY <1>1, <2>1, <2>2, <2>3, CountByLeaf
<1>3. Entries' = Entries \ old
  <2>1. ASSUME NEW e \in Leaves \X Positions
        PROVE  /\ e \in old => subscribers'[e[1]][e[2]] = None
               /\ e \notin old => subscribers'[e[1]][e[2]] = subscribers[e[1]][e[2]]
    <3>1. e \in old => subscribers'[e[1]][e[2]] # s
      BY RemovedIsGone DEF Inv, RemoveFrom
    <3>2. subscribers'[e[1]][e[2]] \in {subscribers[e[1]][e[2]], None}
      BY RemovedOnly DEF RemoveFrom
    <3>3. e \notin old => subscribers'[e[1]][e[2]] = subscribers[e[1]][e[2]]
      BY DEF RemoveFrom, ArrayWithout, SetFirst, IsFirst, PositionsOf
    <3> QED BY <3>1, <3>2, <3>3
  <2> QED BY <2>1, SubscribersAssumption DEF Entries
<1>4. Entries \cap old = old
  BY SubscribersAssumption DEF Entries
<1>5. Cardinality(Entries \ old) = Cardinality(Entries) - Cardinality(old)
  <2> HIDE DEF old
  <2> QED BY <1>4, EntriesFinite, FS_Difference
<1> QED BY <1>2, <1>3, <1>5 DEF CountTrue, Entries, RemoveFrom, CountAfterUnsubscribe

\* $SYS always shows the number of subscriptions there are.
THEOREM AlwaysCountTrue == Spec => []CountTrue
<1>1. Init => CountTrue
  <2> SUFFICES ASSUME Init PROVE CountTrue
    OBVIOUS
  <2>1. Entries = {}
    BY DEF Init, Entries
  <2>2. Cardinality(Entries) = 0
    BY <2>1, FS_EmptySet
  <2> QED BY <2>2 DEF Init, CountTrue, Entries
<1>2. Inv /\ CountTrue /\ [Next]_vars => CountTrue'
  <2> SUFFICES ASSUME Inv, CountTrue, [Next]_vars PROVE CountTrue'
    OBVIOUS
  <2>1. ASSUME NEW s \in Sessions, NEW f \in Filters, Subscribe(s, f)
        PROVE  CountTrue'
    BY <2>1, SubscribeCounts
  <2>2. ASSUME NEW s \in Sessions, NEW f \in Filters, Unsubscribe(s, f)
        PROVE  CountTrue'
    <3>1. Unsubscribes(f) \in SUBSET Leaves
      BY DEF Unsubscribes
    <3> QED BY <2>2, <3>1, RemoveCounts DEF Unsubscribe
  <2>3. ASSUME NEW s \in Sessions, UnsubscribeAll(s)
        PROVE  CountTrue'
    BY <2>3, RemoveCounts DEF UnsubscribeAll, All
  <2>4. ASSUME UNCHANGED vars
        PROVE  CountTrue'
    BY <2>4 DEF vars, CountTrue
  <2> QED BY <2>1, <2>2, <2>3, <2>4 DEF Next
<1> QED BY <1>1, <1>2, InvAlways, PTL DEF Spec

\* The arrays, the counter and the filters always have their types; that the
\* counter never falls below zero follows from what it counts.
THEOREM TypeCorrect == Spec => []TypeOK
<1>1. Inv /\ CountTrue => TypeOK
  <2>1. Cardinality(Entries) \in Nat
    BY EntriesFinite, FS_CardinalityType
  <2> QED BY <2>1 DEF Inv, Typed, CountTrue, Entries, TypeOK
<1> QED BY <1>1, InvAlways, AlwaysCountTrue, PTL

=============================================================================
