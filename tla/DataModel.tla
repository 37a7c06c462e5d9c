----------------------------- MODULE DataModel -----------------------------
(***************************************************************************)
(* The tree of topics and its subscriptions (DataModelRoot, DataModelNode, *)
(* DataModelElement and DataModelLeaf).  A leaf is its path, the sequence  *)
(* of names from the root; a topic filter is a sequence of levels.  Each   *)
(* leaf has an array of subscribers, and $SYS shows how many entries there *)
(* are in all of them.                                                     *)
(*                                                                         *)
(* MQTTBroker has, per leaf, the set of subscribers; it calls the tree for *)
(* one filter of a SUBSCRIBE or UNSUBSCRIBE at a time.                     *)
(***************************************************************************)
EXTENDS Naturals, Sequences, FiniteSets

CONSTANTS
  maxDataModelSubscribers,
  Sessions,        \* subscribers: the session slots of the broker
  Leaves,          \* paths of leaves
  Filters,         \* topic filters that clients send
  PrefixOf,        \* pairs of a level and a name that begins with it
  MixedLevels,     \* levels in which a wildcard is one character of several
  SysNames,        \* names that begin with a $
  MaxHeld,         \* bound on the filters a session holds
  None

ASSUME SubscribersAssumption ==
  /\ maxDataModelSubscribers \in Nat
  /\ IsFiniteSet(Sessions)
  /\ Cardinality(Sessions) <= maxDataModelSubscribers   \* both are 5
  /\ None \notin Sessions
ASSUME PathsAssumption ==
  /\ IsFiniteSet(Leaves)
  /\ \A leaf \in Leaves : leaf \in Seq(STRING) /\ leaf # <<>>
  /\ \A f \in Filters : f \in Seq(STRING) /\ f # <<>>
  /\ \A leaf \in Leaves : \A i \in 1..Len(leaf) :
       /\ <<leaf[i], leaf[i]>> \in PrefixOf
       /\ leaf[i] \notin {"", "+", "#"}
ASSUME HeldAssumption == MaxHeld \in Nat

VARIABLES
  subscribers,        \* per leaf, DataModelLeaf::subscribers
  subscriptionsCount, \* sysBrokerSubscriptionsCount
  held                \* the filters each session's SUBACKs granted, until unsubscribed

vars == <<subscribers, subscriptionsCount, held>>

Positions == 1..maxDataModelSubscribers

Init ==
  /\ subscribers = [leaf \in Leaves |-> [pos \in Positions |-> None]]
  /\ subscriptionsCount = 0
  /\ held = [s \in Sessions |-> {}]

-----------------------------------------------------------------------------
(* Topic filters *)

\* DataModelRoot::checkTopicFilterValidity.  A filter may begin or end with a
\* separator.
Valid(f) ==
  /\ f # <<"">>
  /\ \A i \in 1..Len(f) : f[i] \notin MixedLevels /\ (f[i] = "#" => i = Len(f))
  /\ \A i \in 2..(Len(f) - 1) : f[i] # ""

\* topicFilterMatch says of this level that it is the last one; it also says
\* so of a + before a separator that ends the filter.
IsLastLevel(f, i) ==
  \/ i = Len(f)
  \/ i = Len(f) - 1 /\ f[i] = "+" /\ f[i + 1] = ""

\* topicFilterMatch compares a level with a name up to the end of the level.
LevelMatches(level, name) == level = "+" \/ <<level, name>> \in PrefixOf

\* The walk from the root with filter f comes to the element at depth i of the
\* path of a leaf: every node above matched and was not the last level.
Reaches(f, leaf, i) ==
  /\ i <= Len(f)
  /\ \A k \in 1..(i - 1) : /\ f[k] # "#"
                           /\ LevelMatches(f[k], leaf[k])
                           /\ ~IsLastLevel(f, k)

\* The subtree of an element is taken as a whole.
ReachesSubtree(f, leaf) == \E i \in 1..Len(leaf) : Reaches(f, leaf, i) /\ f[i] = "#"

\* The walk ends at the leaf itself.
ReachesLeaf(f, leaf) ==
  LET n == Len(leaf)
  IN Reaches(f, leaf, n) /\ LevelMatches(f[n], leaf[n]) /\ IsLastLevel(f, n)

IsSys(leaf) == leaf[1] \in SysNames

\* DataModelRoot::unsubscribe and the walks of the nodes and leaves.
Unsubscribes(f) ==
  {leaf \in Leaves : Valid(f) /\ (ReachesSubtree(f, leaf) \/ ReachesLeaf(f, leaf))}

\* Slip: wildcards are not kept from $SYS.
SubscribesSysToo(f) == Unsubscribes(f)

\* DataModelRoot::subscribe keeps a first level that is a wildcard from $SYS.
Subscribes(f) == {leaf \in Unsubscribes(f) : IsSys(leaf) => f[1] \notin {"+", "#"}}

-----------------------------------------------------------------------------
(* The subscribers of a leaf *)

PositionsOf(leaf, s) == {pos \in Positions : subscribers[leaf][pos] = s}
IsSubscribed(leaf, s) == PositionsOf(leaf, s) # {}

IsFirst(pos, candidates) ==
  pos \in candidates /\ \A other \in candidates : pos <= other

\* The first of the positions, if there is any, is set to `entry'.
SetFirst(leaf, positions, entry) ==
  [pos \in Positions |-> IF IsFirst(pos, positions) THEN entry ELSE subscribers[leaf][pos]]

\* Slip: a leaf does not look whether it has the subscriber.
AddsAlways(leaf, s) == PositionsOf(leaf, None) # {}

\* DataModelLeaf::subscribe adds a subscriber that is not there yet (and only
\* updates the cookie of one that is), if it has room.
Adds(leaf, s) == ~IsSubscribed(leaf, s) /\ PositionsOf(leaf, None) # {}

\* Slip: every free position is taken.
ArrayWithEverywhere(leaf, s) ==
  [pos \in Positions |-> IF subscribers[leaf][pos] = None THEN s ELSE subscribers[leaf][pos]]

ArrayWith(leaf, s) == SetFirst(leaf, PositionsOf(leaf, None), s)

ArrayWithout(leaf, s) == SetFirst(leaf, PositionsOf(leaf, s), None)

\* Slip: an update counts as a new subscription.
CountAfterEverySubscribe(leaves, s) == subscriptionsCount + Cardinality(leaves)

CountAfterSubscribe(leaves, s) ==
  subscriptionsCount + Cardinality({leaf \in leaves : Adds(leaf, s)})

CountAfterUnsubscribe(leaves, s) ==
  subscriptionsCount - Cardinality({leaf \in leaves : IsSubscribed(leaf, s)})

\* A filter is granted when a leaf it comes to has the subscriber then.
Grants(f, s) == \E leaf \in Subscribes(f) : IsSubscribed(leaf, s) \/ Adds(leaf, s)

\* DataModel::subscribe for one filter of a SUBSCRIBE.  (A full leaf would end
\* the walk of a subtree; AlwaysRoom says that there is none.)
Subscribe(s, f) ==
  /\ f \in held[s] \/ Cardinality(held[s]) < MaxHeld
  /\ subscribers' = [leaf \in Leaves |->
       IF leaf \in Subscribes(f) /\ Adds(leaf, s)
       THEN ArrayWith(leaf, s) ELSE subscribers[leaf]]
  /\ subscriptionsCount' = CountAfterSubscribe(Subscribes(f), s)
  /\ held' = IF Grants(f, s) THEN [held EXCEPT ![s] = @ \cup {f}] ELSE held

\* DataModelLeaf::unsubscribe on each of the leaves.
RemoveFrom(leaves, s) ==
  /\ subscribers' = [leaf \in Leaves |->
       IF leaf \in leaves THEN ArrayWithout(leaf, s) ELSE subscribers[leaf]]
  /\ subscriptionsCount' = CountAfterUnsubscribe(leaves, s)

\* DataModel::unsubscribe for one filter of an UNSUBSCRIBE.
Unsubscribe(s, f) ==
  /\ RemoveFrom(Unsubscribes(f), s)
  /\ held' = [held EXCEPT ![s] = @ \ {f}]

\* Slip: the walk leaves $SYS alone, as that of a subscription to # does.
AllButSys == {leaf \in Leaves : ~IsSys(leaf)}

\* DataModelNode::unsubscribeAll from the root.
All == Leaves

\* DataModel::unsubscribeAll
UnsubscribeAll(s) ==
  /\ RemoveFrom(All, s)
  /\ held' = [held EXCEPT ![s] = {}]

Next ==
  \E s \in Sessions :
    \/ \E f \in Filters : Subscribe(s, f) \/ Unsubscribe(s, f)
    \/ UnsubscribeAll(s)

Spec == Init /\ [][Next]_vars

-----------------------------------------------------------------------------
(* What MQTT says of topic filters, to compare with. *)

\* A level of a filter that names part of a name, or nothing.
Abbreviates(f) ==
  \E i \in 1..Len(f) :
    \/ f[i] = ""
    \/ \E leaf \in Leaves : \E k \in 1..Len(leaf) :
         f[i] # leaf[k] /\ <<f[i], leaf[k]>> \in PrefixOf

\* Level by level, where a final # stands for any levels or none, and a
\* wildcard at the beginning not for a name with a $.
MQTTMatches(f, leaf) ==
  /\ IsSys(leaf) => f[1] \notin {"+", "#"}
  /\ \A i \in 1..Len(f) : f[i] = "#" \/ (i <= Len(leaf) /\ f[i] \in {"+", leaf[i]})
  /\ Len(f) = Len(leaf) \/ (f[Len(f)] = "#" /\ Len(f) <= Len(leaf) + 1)

-----------------------------------------------------------------------------
(* Properties *)

\* Arrays, counter and filters have their types.
TypeOK ==
  /\ subscribers \in [Leaves -> [Positions -> Sessions \cup {None}]]
  /\ subscriptionsCount \in Nat
  /\ held \in [Sessions -> SUBSET Filters]

\* No subscriber has two entries of a leaf: a value would be sent to it twice
\* and unsubscribing would leave one behind.
OneEntryEach ==
  \A leaf \in Leaves : \A p, q \in Positions :
    subscribers[leaf][p] = subscribers[leaf][q] /\ p # q => subscribers[leaf][p] = None

\* "This shouldn't happen if max sessions == max subscribers": a session that
\* is not subscribed to a leaf finds room there (DataModelLeaf::addSubscriber).
AlwaysRoom ==
  \A leaf \in Leaves : \A s \in Sessions :
    ~IsSubscribed(leaf, s) => PositionsOf(leaf, None) # {}

\* What $SYS/broker/subscriptions/count shows is the number of entries there
\* are, though it is only ever counted up and down.
CountTrue ==
  subscriptionsCount =
    Cardinality({e \in Leaves \X Positions : subscribers[e[1]][e[2]] # None})

\* A client is subscribed only to topics of a filter it was granted and has not
\* unsubscribed from since: one that stands for the topic in MQTT, or one that
\* abbreviates names, which the code takes for the names.
OnlyWhatWasGranted ==
  \A leaf \in Leaves : \A s \in Sessions : IsSubscribed(leaf, s) =>
    \E f \in held[s] : MQTTMatches(f, leaf) \/ (Abbreviates(f) /\ leaf \in Subscribes(f))

\* A filter that was granted and does not abbreviate names comes to exactly
\* the topics it stands for in MQTT; a # after the name of a leaf aside.
MatchesAsMQTT ==
  \A s \in Sessions : \A f \in held[s] : ~Abbreviates(f) =>
    \A leaf \in Leaves :
      leaf \in Subscribes(f) <=> MQTTMatches(f, leaf) /\ Len(f) <= Len(leaf)

=============================================================================
