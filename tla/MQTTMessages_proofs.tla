------------------------- MODULE MQTTMessages_proofs -------------------------
(***************************************************************************)
(* The parsers accept exactly the messages MQTT calls well-formed, for     *)
(* every base of the bytes, payload and number of strings; and a client    *)
(* reads from what it was sent the answers to its requests and the         *)
(* publishes it was handed, in their order, until a message was cut.       *)
(***************************************************************************)
EXTENDS MQTTMessages, SequenceTheorems, FiniteSetTheorems, WellFoundedInduction, TLAPS

-----------------------------------------------------------------------------
(* Induction *)

\* Of a set of natural numbers, one is the least.
LEMMA Least ==
  ASSUME NEW T \in SUBSET Nat, T # {}
  PROVE  \E m \in T : \A k \in T : m <= k
<1> DEFINE Less == {ss \in Nat \X Nat : ss[1] < ss[2]}
<1>1. IsWellFoundedOn(Less, Nat)
  BY NatLessThanWellFounded, Zenon DEF OpToRel
<1>2. \E m \in T : \A k \in T : <<k, m>> \notin Less
  <2> HIDE DEF Less
  <2> QED BY <1>1, WFMin
<1>3. PICK m \in T : \A k \in T : <<k, m>> \notin Less
  BY <1>2
<1>4. ASSUME NEW k \in T
      PROVE  m <= k
  <2>1. k \in Nat /\ m \in Nat
    BY T \subseteq Nat
  <2>2. ~(k < m)
    BY <1>3, <2>1
  <2> QED BY <2>1, <2>2
<1> QED BY <1>4

\* A set that contains 0 and with every number below n the next one, contains all up to n.
LEMMA Induction ==
  ASSUME NEW n \in Nat, NEW S, 0 \in S,
         \A k \in Nat : k < n /\ k \in S => k + 1 \in S
  PROVE  \A k \in Nat : k <= n => k \in S
<1> SUFFICES ASSUME NEW k \in Nat, k <= n, k \notin S PROVE FALSE
  OBVIOUS
<1> DEFINE T == {j \in Nat : j <= n /\ j \notin S}
<1>1. T \in SUBSET Nat /\ T # {}
  OBVIOUS
<1>2. PICK m \in T : \A j \in T : m <= j
  BY <1>1, Least
<1>3. m \in Nat /\ m # 0 /\ m <= n /\ m \notin S
  OBVIOUS
<1>4. m - 1 \in Nat /\ m - 1 < n /\ ~(m <= m - 1) /\ (m - 1) + 1 = m
  BY <1>3
<1>5. m - 1 \in S
  BY <1>2, <1>3, <1>4
<1> QED BY <1>3, <1>4, <1>5

\* Of a set of numbers up to n, one is the greatest: what Max is.
LEMMA MaxIs ==
  ASSUME NEW n \in Nat, NEW T \in SUBSET (0..n), T # {}
  PROVE  Max(T) \in T /\ \A k \in T : k <= Max(T)
<1> DEFINE U == {n - k : k \in T}
<1>0. \A k \in T : k \in Nat /\ n - k \in Nat
  OBVIOUS
<1>1. U \in SUBSET Nat /\ U # {}
  BY <1>0, Zenon
<1>2. PICK m \in U : \A k \in U : m <= k
  BY <1>1, Least
<1>3. PICK x \in T : m = n - x
  BY Zenon
<1>4. ASSUME NEW k \in T
      PROVE  x >= k
  <2>1. m <= n - k
    BY <1>2, Zenon
  <2> QED BY <1>0, <1>3, <2>1
<1>5. \E y \in T : \A k \in T : y >= k
  BY <1>4
<1> HIDE DEF U
<1>6. Max(T) \in T /\ \A k \in T : Max(T) >= k
  BY ONLY <1>5 DEF Max
<1>7. Max(T) \in Nat
  BY <1>0, <1>6
<1> QED BY <1>0, <1>6, <1>7

-----------------------------------------------------------------------------
(* Chains *)

\* Steps from a number to a greater one up to n, one at most from each.
IsSteps(S, n) ==
  /\ S \subseteq (0..n) \X (0..n)
  /\ \A c, d : <<c, d>> \in S => c < d
  /\ \A c, d, e : <<c, d>> \in S /\ <<c, e>> \in S => d = e

\* Each of these numbers is one step from the one before, the first from 0.
Linked(S, cuts) == \A cut \in cuts : <<BeginBefore(cuts, cut), cut>> \in S

\* They are all there are up to p, and end there.
ChainTo(S, cuts, p) == cuts \subseteq 1..p /\ Linked(S, cuts) /\ (p = 0 \/ p \in cuts)

\* The cut before a cut.
LEMMA BeginBeforeIs ==
  ASSUME NEW n \in Nat, NEW cuts \in SUBSET (1..n), NEW cut \in Nat
  PROVE  LET b == BeginBefore(cuts, cut)
         IN /\ b \in cuts \cup {0} /\ b \in 0..n
            /\ \A c \in cuts : c < cut => c <= b
            /\ b # 0 => b < cut
<1> DEFINE T == {c \in cuts : c < cut} \cup {0}
<1>0. 0 \in 0..n /\ \A c \in cuts : c \in 0..n
  OBVIOUS
<1>1. T \in SUBSET (0..n) /\ T # {}
  BY <1>0, Zenon
<1>2. BeginBefore(cuts, cut) = Max(T)
  BY DEF BeginBefore
<1>3. Max(T) \in T /\ \A k \in T : k <= Max(T)
  <2> HIDE DEF T
  <2> QED BY <1>1, MaxIs
<1>4. Max(T) \in 0..n
  BY <1>1, <1>3
<1>5. Max(T) \in cuts \cup {0} /\ (Max(T) # 0 => Max(T) < cut)
  BY <1>3, Zenon
<1>6. \A c \in cuts : c < cut => c <= Max(T)
  BY <1>3, Zenon
<1> QED BY <1>2, <1>4, <1>5, <1>6, Zenon

\* It does not depend on the cuts from that one on.
LEMMA BeginBeforeSame ==
  ASSUME NEW a, NEW b, NEW cut, {c \in a : c < cut} = {c \in b : c < cut}
  PROVE  BeginBefore(a, cut) = BeginBefore(b, cut)
BY DEF BeginBefore

\* A chain goes on with a step from its end.
LEMMA ChainOn ==
  ASSUME NEW n \in Nat, NEW S, IsSteps(S, n), NEW p \in 0..n, NEW cuts, ChainTo(S, cuts, p),
         NEW d, <<p, d>> \in S
  PROVE  /\ ChainTo(S, cuts \cup {d}, d) /\ d \in 1..n /\ p < d
         /\ Cardinality(cuts \cup {d}) = Cardinality(cuts) + 1
<1>1. d \in 0..n /\ p < d
  BY DEF IsSteps
<1>2. cuts \in SUBSET (1..n) /\ cuts \subseteq 1..p /\ p \in Nat /\ d \in Nat /\ d \notin cuts
  BY <1>1 DEF ChainTo
<1> DEFINE more == cuts \cup {d}
<1>3. more \in SUBSET (1..n) /\ more \subseteq 1..d /\ d \in more
  BY <1>1, <1>2
<1>4. ASSUME NEW cut \in cuts
      PROVE  <<BeginBefore(more, cut), cut>> \in S
  <2>1. {c \in more : c < cut} = {c \in cuts : c < cut}
    BY <1>1, <1>2
  <2>2. BeginBefore(more, cut) = BeginBefore(cuts, cut)
    <3> HIDE DEF more
    <3> QED BY <2>1, BeginBeforeSame
  <2> QED BY <2>2 DEF ChainTo, Linked
<1>5. BeginBefore(more, d) = p
  <2> DEFINE b == BeginBefore(more, d)
  <2>1. b \in more \cup {0} /\ b \in 0..n /\ (\A c \in more : c < d => c <= b) /\ (b # 0 => b < d)
    <3> HIDE DEF more
    <3> QED BY <1>2, <1>3, BeginBeforeIs
  <2> HIDE DEF b
  <2>2. b \in cuts \cup {0}
    BY <1>1, <2>1
  <2>3. b <= p
    BY <1>2, <2>2
  <2>4. p = 0 \/ p \in cuts
    BY DEF ChainTo
  <2>5. p <= b
    BY <1>1, <1>2, <2>1, <2>4
  <2> QED BY <1>2, <2>1, <2>3, <2>5 DEF b
<1>6. ChainTo(S, more, d)
  BY <1>3, <1>4, <1>5 DEF ChainTo, Linked
<1>7. Cardinality(more) = Cardinality(cuts) + 1
  <2>1. IsFiniteSet(cuts)
    <3>1. IsFiniteSet(1..n)
      BY FS_Interval
    <3> QED BY <1>2, <3>1, FS_Subset
  <2> QED BY <1>2, <2>1, FS_AddElement
<1> QED BY <1>1, <1>6, <1>7

\* The cuts up to a place.
UpTo(cuts, place) == {x \in cuts : x <= place}

\* The cut d comes right after c.
NextTo(S, cuts, c, d) == d \in cuts /\ <<c, d>> \in S /\ c < d /\ UpTo(cuts, d) = UpTo(cuts, c) \cup {d}

\* From every cut but the last, there is a step to the next one.
LEMMA NextCut ==
  ASSUME NEW n \in Nat, NEW S, NEW cuts \in SUBSET (1..n), Linked(S, cuts),
         NEW c \in cuts \cup {0}, NEW later \in cuts, c < later
  PROVE  \E d : NextTo(S, cuts, c, d)
<1> DEFINE T == {x \in cuts : c < x}
<1>0. c \in Nat /\ \A x \in cuts : x \in Nat
  OBVIOUS
<1>1. T \in SUBSET Nat /\ T # {} /\ c \in Nat
  BY <1>0, Zenon
<1>2. PICK d \in T : \A x \in T : d <= x
  BY <1>1, Least
<1>3. d \in cuts /\ d \in Nat /\ c < d
  BY <1>0, Zenon
<1>4. BeginBefore(cuts, d) = c
  <2> DEFINE b == BeginBefore(cuts, d)
  <2>1. b \in cuts \cup {0} /\ b \in Nat /\ (\A x \in cuts : x < d => x <= b) /\ (b # 0 => b < d)
    BY <1>3, BeginBeforeIs
  <2> HIDE DEF b
  <2>2. c <= b
    BY <1>1, <1>3, <2>1
  <2>3. ~(c < b)
    <3> SUFFICES ASSUME c < b PROVE FALSE
      OBVIOUS
    <3>1. b # 0 /\ b \in cuts
      BY <1>1, <2>1
    <3>2. d <= b /\ b < d
      BY <1>2, <2>1, <3>1
    <3> QED BY <1>3, <2>1, <3>2
  <2> QED BY <1>1, <2>1, <2>2, <2>3 DEF b
<1>5. ASSUME NEW x \in cuts
      PROVE  x <= d <=> x <= c \/ x = d
  <2>1. x \in Nat /\ (c < x => d <= x)
    BY <1>0, <1>2, Zenon
  <2> QED BY <1>1, <1>3, <2>1
<1>6. UpTo(cuts, d) = UpTo(cuts, c) \cup {d}
  BY <1>3, <1>5 DEF UpTo
<1> QED BY <1>3, <1>4, <1>6 DEF Linked, NextTo

-----------------------------------------------------------------------------
(* Strings as steps *)

\* From where to where a piece of the bytes is a string with a tail.
Pieces(bytes, tails, least) ==
  {cd \in (0..Len(bytes)) \X (0..Len(bytes)) :
     cd[1] < cd[2] /\ IsPiece(SubSeq(bytes, cd[1] + 1, cd[2]), tails, least)}

\* What MQTT says of the cuts is that they are linked by such pieces.
LEMMA CutsAreLinked ==
  ASSUME NEW bytes \in Seq(Nat), NEW cuts \in SUBSET (1..Len(bytes)), NEW tails, NEW least
  PROVE  CutsAt(bytes, cuts, tails, least) <=>
           Len(bytes) \in cuts /\ Linked(Pieces(bytes, tails, least), cuts)
<1>1. Len(bytes) \in Nat
  BY LenProperties
<1>2. ASSUME NEW cut \in cuts
      PROVE  IsPiece(SubSeq(bytes, BeginBefore(cuts, cut) + 1, cut), tails, least) <=>
               <<BeginBefore(cuts, cut), cut>> \in Pieces(bytes, tails, least)
  <2> DEFINE b == BeginBefore(cuts, cut)
  <2>1. cut \in Nat /\ cut \in 0..Len(bytes) /\ cut # 0
    BY <1>1
  <2>2. b \in 0..Len(bytes) /\ b < cut
    BY <1>1, <2>1, BeginBeforeIs
  <2> HIDE DEF b
  <2>3. /\ <<b, cut>> \in (0..Len(bytes)) \X (0..Len(bytes))
        /\ <<b, cut>>[1] = b /\ <<b, cut>>[2] = cut
    BY <2>1, <2>2
  <2>4. IsPiece(SubSeq(bytes, b + 1, cut), tails, least) <=> <<b, cut>> \in Pieces(bytes, tails, least)
    BY <2>2, <2>3, Zenon DEF Pieces
  <2> QED BY <2>4 DEF b
<1> QED BY <1>2 DEF CutsAt, Linked

\* A string takes the bytes its length says.
LEMMA LengthNat ==
  ASSUME NEW bytes \in Seq(Nat), NEW pos \in Nat, 1 <= pos, pos + 1 <= Len(bytes)
  PROVE  LengthAt(bytes, pos) \in Nat
<1>1. Len(bytes) \in Nat /\ pos \in 1..Len(bytes) /\ pos + 1 \in 1..Len(bytes)
  BY LenProperties
<1>2. bytes[pos] \in Nat /\ bytes[pos + 1] \in Nat
  BY <1>1, ElementOfSeq
<1>3. bytes[pos] * ByteRange \in Nat
  BY <1>2, ByteAssumption
<1> QED BY <1>2, <1>3 DEF LengthAt

\* What a part of the bytes is.
LEMMA PartOfBytes ==
  ASSUME NEW bytes \in Seq(Nat), NEW c \in 0..Len(bytes), NEW d \in 0..Len(bytes), c < d
  PROVE  LET p == SubSeq(bytes, c + 1, d)
         IN /\ Len(p) = d - c /\ Len(p) \in Nat /\ p \in Seq(Nat)
            /\ \A i \in 1..(d - c) : p[i] = bytes[c + i] /\ p[i] \in Nat
            /\ d - c >= 2 => LengthAt(p, 1) = LengthAt(bytes, c + 1) /\ LengthAt(p, 1) \in Nat
<1> DEFINE p == SubSeq(bytes, c + 1, d)
<1>0. Len(bytes) \in Nat /\ c \in Nat /\ d \in Nat /\ d <= Len(bytes)
  BY LenProperties
<1>1. \A i \in (c + 1)..d : bytes[i] \in Nat
  BY <1>0, ElementOfSeq
<1>2. p \in Seq(Nat) /\ Len(p) = d - c
  BY <1>0, <1>1, SubSeqProperties
<1>3. ASSUME NEW i \in 1..(d - c)
      PROVE  p[i] = bytes[c + i] /\ p[i] \in Nat
  <2>1. p[i] = bytes[(c + 1) + i - 1] /\ (c + 1) + i - 1 = c + i
    BY <1>0, <1>1, SubSeqProperties
  <2>2. c + i \in (c + 1)..d
    BY <1>0
  <2> QED BY <1>1, <2>1, <2>2
<1>4. ASSUME d - c >= 2
      PROVE  LengthAt(p, 1) = LengthAt(bytes, c + 1) /\ LengthAt(p, 1) \in Nat
  <2>1. 1 \in 1..(d - c) /\ 2 \in 1..(d - c) /\ 1 + 1 = 2 /\ (c + 1) + 1 = c + 2
    BY <1>0, <1>4
  <2>2. p[1] = bytes[c + 1] /\ p[2] = bytes[c + 2]
    BY <1>3, <2>1
  <2> HIDE DEF p
  <2>3. LengthAt(p, 1) = LengthAt(bytes, c + 1)
    BY <2>1, <2>2 DEF LengthAt
  <2>4. LengthAt(p, 1) \in Nat
    BY <1>0, <1>2, <1>4, LengthNat
  <2> QED BY <2>3, <2>4
<1>5. Len(p) \in Nat
  BY <1>2, LenProperties
<1> QED BY <1>2, <1>3, <1>4, <1>5

\* A string with nothing behind it.
LEMMA PieceString ==
  ASSUME NEW bytes \in Seq(Nat), NEW c \in 0..Len(bytes), NEW d \in 0..Len(bytes), c < d,
         NEW least \in Nat
  PROVE  IsPiece(SubSeq(bytes, c + 1, d), NoTail, least) <=>
           d >= c + 2 + least /\ d = c + 2 + LengthAt(bytes, c + 1)
<1> DEFINE p == SubSeq(bytes, c + 1, d)
<1>0. Len(bytes) \in Nat /\ c \in Nat /\ d \in Nat
  BY LenProperties
<1>1. /\ Len(p) = d - c /\ Len(p) \in Nat /\ p \in Seq(Nat)
      /\ d - c >= 2 => LengthAt(p, 1) = LengthAt(bytes, c + 1) /\ LengthAt(p, 1) \in Nat
  BY PartOfBytes
<1> HIDE DEF p
<1>2. SubSeq(p, Len(p) + 1, Len(p)) = <<>>
  BY <1>1, SubSeqEmpty
<1>3. Len(<<>>) = 0 /\ Len(p) - 0 = Len(p)
  BY <1>1
<1>4. IsPiece(p, NoTail, least) <=> Len(p) >= 2 + least /\ Len(p) = 2 + LengthAt(p, 1)
  <2>1. \A tail : tail \in NoTail <=> tail = <<>>
    BY DEF NoTail
  <2> QED BY <1>2, <1>3, <2>1 DEF IsPiece
<1> DEFINE Fits == d >= c + 2 + least /\ d = c + 2 + LengthAt(bytes, c + 1)
<1>5. Len(p) >= 2 + least /\ Len(p) = 2 + LengthAt(p, 1) <=> Fits
  <2>1. CASE d - c >= 2
    <3>1. PICK k \in Nat : LengthAt(p, 1) = k /\ LengthAt(bytes, c + 1) = k
      BY <1>1, <2>1
    <3>2. Len(p) >= 2 + least /\ Len(p) = 2 + k <=> d >= c + 2 + least /\ d = c + 2 + k
      BY ONLY <1>0, <1>1, <3>1, least \in Nat
    <3> QED BY <3>1, <3>2
  <2>2. CASE ~(d - c >= 2)
    <3>1. ~(Len(p) >= 2 + least) /\ ~(d >= c + 2 + least)
      BY <1>0, <1>1, <2>2
    <3> QED BY <3>1
  <2> QED BY <2>1, <2>2
<1> HIDE DEF Fits
<1>6. IsPiece(p, NoTail, least) <=> Fits
  BY <1>4, <1>5
<1> QED BY <1>6 DEF p, Fits

\* A part of one element.
LEMMA One ==
  ASSUME NEW T, NEW s \in Seq(T), NEW i \in 1..Len(s)
  PROVE  SubSeq(s, i, i) = <<s[i]>>
<1>1. Len(s) \in Nat /\ i \in Nat /\ s[i] \in T /\ \A k \in i..i : k = i
  BY LenProperties, ElementOfSeq
<1>2. SubSeq(s, i, i) \in Seq(T) /\ Len(SubSeq(s, i, i)) = 1
  BY <1>1, SubSeqProperties
<1>3. SubSeq(s, i, i)[1] = s[i]
  <2>1. 1 \in 1..(i - i + 1) /\ i + 1 - 1 = i
    BY <1>1
  <2> QED BY <1>1, <2>1, SubSeqProperties
<1> DEFINE t == SubSeq(s, i, i)
<1> HIDE DEF t
<1>4. t = <<t[1]>>
  <2>1. t \in Seq(T) /\ Len(t) = 1 /\ t[1] \in T
    BY <1>1, <1>2, <1>3 DEF t
  <2>2. <<t[1]>> \in Seq(T) /\ Len(<<t[1]>>) = 1 /\ <<t[1]>>[1] = t[1]
    BY <2>1
  <2>3. \A k \in 1..1 : k = 1
    OBVIOUS
  <2> QED BY <2>1, <2>2, <2>3, SeqEqual
<1> QED BY <1>3, <1>4 DEF t

\* A string with a quality of service behind it.
LEMMA PieceQoS ==
  ASSUME NEW bytes \in Seq(Nat), NEW c \in 0..Len(bytes), NEW d \in 0..Len(bytes), c < d,
         NEW least \in Nat
  PROVE  IsPiece(SubSeq(bytes, c + 1, d), QoSTails, least) <=>
           /\ d >= c + 3 + least /\ d = c + 3 + LengthAt(bytes, c + 1) /\ bytes[d] <= 2
<1> DEFINE p == SubSeq(bytes, c + 1, d)
           m == Len(p)
<1>0. Len(bytes) \in Nat /\ c \in Nat /\ d \in Nat
  BY LenProperties
<1>1. /\ m = d - c /\ m \in Nat /\ p \in Seq(Nat) /\ m >= 1
      /\ \A i \in 1..(d - c) : p[i] = bytes[c + i] /\ p[i] \in Nat
      /\ d - c >= 2 => LengthAt(p, 1) = LengthAt(bytes, c + 1) /\ LengthAt(p, 1) \in Nat
  BY <1>0, PartOfBytes
<1>2. p[m] = bytes[d] /\ p[m] \in Nat
  <2>1. d - c \in 1..(d - c) /\ c + (d - c) = d
    BY <1>0, <1>1
  <2> QED BY <1>1, <2>1
<1>3. SubSeq(p, (m - 1) + 1, m) = <<p[m]>>
  <2> HIDE DEF p
  <2>1. (m - 1) + 1 = m /\ m \in 1..Len(p) /\ m - m + 1 = 1
    BY <1>1
  <2> HIDE DEF m
  <2> QED BY <1>1, <2>1, One
<1> HIDE DEF p, m
<1>4. \A tail : tail \in QoSTails <=> \E q \in 0..2 : tail = <<q>>
  <2>1. 0..2 = {0, 1, 2}
    OBVIOUS
  <2> QED BY <2>1 DEF QoSTails
<1>5. IsPiece(p, QoSTails, least) <=> /\ m - 1 >= 2 + least /\ m - 1 = 2 + LengthAt(p, 1)
                                      /\ bytes[d] <= 2
  <2>1. \A q \in 0..2 : Len(<<q>>) = 1
    OBVIOUS
  <2>2. \A q \in 0..2 : SubSeq(p, (m - 1) + 1, m) = <<q>> <=> bytes[d] = q
    BY <1>2, <1>3
  <2>3. bytes[d] <= 2 <=> \E q \in 0..2 : bytes[d] = q
    BY <1>2
  <2>4. IsPiece(p, QoSTails, least) <=>
          \E q \in 0..2 : /\ m - 1 >= 2 + least /\ m - 1 = 2 + LengthAt(p, 1)
                          /\ SubSeq(p, (m - 1) + 1, m) = <<q>>
    BY <1>4, <2>1 DEF IsPiece, m
  <2> QED BY <2>2, <2>3, <2>4
<1> DEFINE Fits == d >= c + 3 + least /\ d = c + 3 + LengthAt(bytes, c + 1) /\ bytes[d] <= 2
<1>6. m - 1 >= 2 + least /\ m - 1 = 2 + LengthAt(p, 1) /\ bytes[d] <= 2 <=> Fits
  <2>1. CASE d - c >= 2
    <3>1. PICK k \in Nat : LengthAt(p, 1) = k /\ LengthAt(bytes, c + 1) = k
      BY <1>1, <2>1
    <3>2. m - 1 >= 2 + least /\ m - 1 = 2 + k <=> d >= c + 3 + least /\ d = c + 3 + k
      BY ONLY <1>0, <1>1, <3>1, least \in Nat
    <3> QED BY <3>1, <3>2
  <2>2. CASE ~(d - c >= 2)
    <3>1. ~(m - 1 >= 2 + least) /\ ~(d >= c + 3 + least)
      BY <1>0, <1>1, <2>2
    <3> QED BY <3>1
  <2> QED BY <2>1, <2>2
<1> HIDE DEF Fits
<1>7. IsPiece(p, QoSTails, least) <=> Fits
  BY <1>5, <1>6
<1> QED BY <1>7 DEF p, Fits

\* Where a string reaches.
LEMMA StringPieces ==
  ASSUME NEW bytes \in Seq(Nat), NEW least \in Nat, NEW c, NEW d
  PROVE  <<c, d>> \in Pieces(bytes, NoTail, least) <=>
           /\ c \in 0..Len(bytes) /\ d \in 0..Len(bytes)
           /\ d >= c + 2 + least /\ d = c + 2 + LengthAt(bytes, c + 1)
<1>0. Len(bytes) \in Nat
  BY LenProperties
<1>1. <<c, d>> \in Pieces(bytes, NoTail, least) <=>
        /\ c \in 0..Len(bytes) /\ d \in 0..Len(bytes) /\ c < d
        /\ IsPiece(SubSeq(bytes, c + 1, d), NoTail, least)
  <2>1. <<c, d>>[1] = c /\ <<c, d>>[2] = d
    OBVIOUS
  <2>2. <<c, d>> \in (0..Len(bytes)) \X (0..Len(bytes)) <=> c \in 0..Len(bytes) /\ d \in 0..Len(bytes)
    OBVIOUS
  <2> QED BY <2>1, <2>2, Zenon DEF Pieces
<1>2. CASE c \in 0..Len(bytes) /\ d \in 0..Len(bytes) /\ c < d
  BY <1>1, <1>2, PieceString
<1>3. CASE c \in 0..Len(bytes) /\ d \in 0..Len(bytes) /\ ~(c < d)
  <2>1. ~(d >= c + 2 + least)
    BY <1>0, <1>3
  <2> QED BY <1>1, <1>3, <2>1
<1>4. CASE ~(c \in 0..Len(bytes) /\ d \in 0..Len(bytes))
  BY <1>1, <1>4
<1> QED BY <1>2, <1>3, <1>4

\* The same with a quality of service behind it.
LEMMA QoSPieces ==
  ASSUME NEW bytes \in Seq(Nat), NEW least \in Nat, NEW c, NEW d
  PROVE  <<c, d>> \in Pieces(bytes, QoSTails, least) <=>
           /\ c \in 0..Len(bytes) /\ d \in 0..Len(bytes)
           /\ d >= c + 3 + least /\ d = c + 3 + LengthAt(bytes, c + 1) /\ bytes[d] <= 2
<1>0. Len(bytes) \in Nat
  BY LenProperties
<1>1. <<c, d>> \in Pieces(bytes, QoSTails, least) <=>
        /\ c \in 0..Len(bytes) /\ d \in 0..Len(bytes) /\ c < d
        /\ IsPiece(SubSeq(bytes, c + 1, d), QoSTails, least)
  <2>1. <<c, d>>[1] = c /\ <<c, d>>[2] = d
    OBVIOUS
  <2>2. <<c, d>> \in (0..Len(bytes)) \X (0..Len(bytes)) <=> c \in 0..Len(bytes) /\ d \in 0..Len(bytes)
    OBVIOUS
  <2> QED BY <2>1, <2>2, Zenon DEF Pieces
<1>2. CASE c \in 0..Len(bytes) /\ d \in 0..Len(bytes) /\ c < d
  BY <1>1, <1>2, PieceQoS
<1>3. CASE c \in 0..Len(bytes) /\ d \in 0..Len(bytes) /\ ~(c < d)
  <2>1. ~(d >= c + 3 + least)
    BY <1>0, <1>3
  <2> QED BY <1>1, <1>3, <2>1
<1>4. CASE ~(c \in 0..Len(bytes) /\ d \in 0..Len(bytes))
  BY <1>1, <1>4
<1> QED BY <1>2, <1>3, <1>4

\* They are steps: each begins where the one before ends, and its length is its own.
LEMMA PiecesAreSteps ==
  ASSUME NEW bytes \in Seq(Nat), NEW least \in Nat
  PROVE  /\ IsSteps(Pieces(bytes, NoTail, least), Len(bytes))
         /\ IsSteps(Pieces(bytes, QoSTails, least), Len(bytes))
<1>0. Len(bytes) \in Nat
  BY LenProperties
<1>1. \A tails : Pieces(bytes, tails, least) \subseteq (0..Len(bytes)) \X (0..Len(bytes))
  BY DEF Pieces
<1>2. \A c, d : <<c, d>> \in Pieces(bytes, NoTail, least) =>
                  c < d /\ d = c + 2 + LengthAt(bytes, c + 1)
  BY <1>0, StringPieces
<1>3. \A c, d : <<c, d>> \in Pieces(bytes, QoSTails, least) =>
                  c < d /\ d = c + 3 + LengthAt(bytes, c + 1)
  BY <1>0, QoSPieces
<1>4. IsSteps(Pieces(bytes, NoTail, least), Len(bytes))
  BY <1>1, <1>2 DEF IsSteps
<1>5. IsSteps(Pieces(bytes, QoSTails, least), Len(bytes))
  BY <1>1, <1>3 DEF IsSteps
<1> QED BY <1>4, <1>5

\* parseString takes such a step.
LEMMA AfterStringSteps ==
  ASSUME NEW bytes \in Seq(Nat), NEW c \in 0..Len(bytes), NEW e
  PROVE  e \in AfterString(bytes, c + 1) <=>
           \E d \in 0..Len(bytes) : e = d + 1 /\ <<c, d>> \in Pieces(bytes, NoTail, 0)
<1> DEFINE n == Len(bytes)
           L == LengthAt(bytes, c + 1)
<1>0. n \in Nat /\ c \in Nat /\ c <= n
  BY LenProperties
<1>1. \A d : <<c, d>> \in Pieces(bytes, NoTail, 0) <=> d \in 0..n /\ d >= c + 2 + 0 /\ d = c + 2 + L
  BY StringPieces
<1>2. n - (c + 1) + 1 = n - c
  BY <1>0
<1>3. AfterString(bytes, c + 1) = IF n - c < 2 \/ 2 + L > n - c THEN {} ELSE {(c + 1) + 2 + L}
  BY <1>2 DEF AfterString
<1>4. CASE n - c < 2
  <2>1. \A d \in 0..n : ~(d >= c + 2 + 0)
    BY <1>0, <1>4
  <2> QED BY <1>1, <1>3, <1>4, <2>1
<1>5. CASE ~(n - c < 2)
  <2>1. L \in Nat
    BY <1>0, <1>5, LengthNat
  <2> HIDE DEF L, n
  <2>2. CASE 2 + L > n - c
    <3>1. \A d \in 0..n : d # c + 2 + L
      BY <1>0, <2>1, <2>2
    <3> QED BY <1>1, <1>3, <2>2, <3>1 DEF n
  <2>3. CASE ~(2 + L > n - c)
    <3>1. c + 2 + L \in 0..n /\ c + 2 + L >= c + 2 + 0 /\ (c + 1) + 2 + L = (c + 2 + L) + 1
      BY <1>0, <2>1, <2>3
    <3>2. AfterString(bytes, c + 1) = {(c + 2 + L) + 1}
      BY <1>3, <1>5, <2>3, <3>1
    <3> QED BY <1>1, <3>1, <3>2 DEF n
  <2> QED BY <2>2, <2>3
<1> QED BY <1>4, <1>5

\* What is behind each topic filter.
Tails(withQoS) == IF withQoS THEN QoSTails ELSE NoTail

\* So does the loop over topic filters, over a string that is not empty.
LEMMA AfterFilterSteps ==
  ASSUME NEW bytes \in Seq(Nat), NEW c \in 0..Len(bytes), NEW withQoS \in BOOLEAN, NEW e
  PROVE  e \in AfterTopicFilter(bytes, c + 1, withQoS) <=>
           \E d \in 0..Len(bytes) : e = d + 1 /\ <<c, d>> \in Pieces(bytes, Tails(withQoS), 1)
<1> DEFINE n == Len(bytes)
           L == LengthAt(bytes, c + 1)
           ends == {end \in AfterString(bytes, c + 1) : end > (c + 1) + 2}
<1>0. n \in Nat /\ c \in Nat /\ c <= n
  BY LenProperties
<1>1. \A d : <<c, d>> \in Pieces(bytes, NoTail, 0) <=> d \in 0..n /\ d >= c + 2 + 0 /\ d = c + 2 + L
  BY StringPieces
<1>2. \A x : x \in ends <=> \E d \in 0..n : x = d + 1 /\ d >= c + 2 + 1 /\ d = c + 2 + L
  <2>1. ASSUME NEW d \in 0..n
        PROVE  (d >= c + 2 + 0 /\ d + 1 > (c + 1) + 2) <=> d >= c + 2 + 1
    BY <1>0
  <2>2. \A x : x \in AfterString(bytes, c + 1) <=>
                 \E d \in 0..n : x = d + 1 /\ d >= c + 2 + 0 /\ d = c + 2 + L
    <3>1. \A x : x \in AfterString(bytes, c + 1) <=>
                   \E d \in 0..n : x = d + 1 /\ <<c, d>> \in Pieces(bytes, NoTail, 0)
      BY AfterStringSteps
    <3> HIDE DEF L, n
    <3> QED BY <1>1, <3>1, Zenon
  <2> HIDE DEF n, L
  <2> QED BY <2>1, <2>2
<1>3. CASE ~withQoS
  <2>1. \A d : <<c, d>> \in Pieces(bytes, NoTail, 1) <=> d \in 0..n /\ d >= c + 2 + 1 /\ d = c + 2 + L
    BY StringPieces
  <2> HIDE DEF n, L
  <2> QED BY <1>2, <1>3, <2>1 DEF AfterTopicFilter, Tails, n
<1>4. CASE withQoS
  <2>1. \A d : <<c, d>> \in Pieces(bytes, QoSTails, 1) <=>
                 d \in 0..n /\ d >= c + 3 + 1 /\ d = c + 3 + L /\ bytes[d] <= 2
    BY QoSPieces
  <2>2. e \in AfterTopicFilter(bytes, c + 1, withQoS) <=>
          \E x \in ends : x <= n /\ bytes[x] <= 2 /\ e = x + 1
    BY <1>4 DEF AfterTopicFilter
  <2> HIDE DEF n, L, ends
  <2>3. ASSUME NEW x \in ends, x <= n, bytes[x] <= 2
        PROVE  x \in 0..n /\ x >= c + 3 + 1 /\ x = c + 3 + L
    <3>1. PICK d \in 0..n : x = d + 1 /\ d >= c + 2 + 1 /\ d = c + 2 + L
      BY <1>2, <2>3
    <3>2. L = d - c - 2 \/ L \notin Int
      BY <1>0, <3>1
    <3>3. L \in Int
      <4>1. c + 2 <= n
        BY <1>0, <3>1
      <4> QED BY <1>0, <4>1, LengthNat DEF L, n
    <3> QED BY <1>0, <2>3, <3>1, <3>2, <3>3
  <2>4. ASSUME NEW x \in 0..n, x >= c + 3 + 1, x = c + 3 + L
        PROVE  x \in ends /\ x <= n
    <3>1. c + 2 <= n
      BY <1>0, <2>4
    <3>2. L \in Nat
      BY <1>0, <3>1, LengthNat DEF L, n
    <3>3. x - 1 \in 0..n /\ x = (x - 1) + 1 /\ x - 1 >= c + 2 + 1 /\ x - 1 = c + 2 + L
      BY <1>0, <2>4, <3>2
    <3> QED BY <1>0, <1>2, <3>3
  <2> QED BY <1>4, <2>1, <2>2, <2>3, <2>4 DEF Tails, n
<1> QED BY <1>3, <1>4

-----------------------------------------------------------------------------
(* As many strings as there are fields *)

\* The function of AfterStrings.
AfterFrom(bytes, number, after) ==
  after = [n \in 0..number |->
             IF n = 0 THEN {1} ELSE UNION {AfterString(bytes, pos) : pos \in after[n - 1]}]

\* AfterStrings takes the last value of such a function,
LEMMA AfterStringsIs ==
  ASSUME NEW bytes, NEW number
  PROVE  AfterStrings(bytes, number) = (CHOOSE after : AfterFrom(bytes, number, after))[number]
BY Zenon DEF AfterStrings, AfterFrom

\* and there is one.
LEMMA AfterExists ==
  ASSUME NEW bytes, NEW number \in Nat
  PROVE  \E after : AfterFrom(bytes, number, after)
<1> DEFINE S == {k \in Nat : \E after : AfterFrom(bytes, k, after)}
<1>1. 0 \in S
  <2> DEFINE after == [n \in {0} |-> {1}]
  <2>1. 0..0 = {0}
    OBVIOUS
  <2>2. after = [n \in 0..0 |-> IF n = 0 THEN {1}
                                ELSE UNION {AfterString(bytes, pos) : pos \in after[n - 1]}]
    BY <2>1
  <2> HIDE DEF after
  <2>3. AfterFrom(bytes, 0, after)
    BY <2>2, Zenon DEF AfterFrom
  <2> QED BY <2>3
<1>2. ASSUME NEW k \in Nat, k < number, k \in S
      PROVE  k + 1 \in S
  <2>1. PICK after : AfterFrom(bytes, k, after)
    BY <1>2
  <2> DEFINE last == UNION {AfterString(bytes, pos) : pos \in after[k]}
             next == [n \in 0..(k + 1) |-> IF n = k + 1 THEN last ELSE after[n]]
  <2>2. ASSUME NEW n \in 0..(k + 1)
        PROVE  next[n] = IF n = 0 THEN {1}
                         ELSE UNION {AfterString(bytes, pos) : pos \in next[n - 1]}
    <3>1. CASE n = k + 1
      <4>1. n - 1 = k /\ k \in 0..(k + 1) /\ k # k + 1 /\ n # 0
        BY <3>1
      <4>2. next[n - 1] = after[k] /\ next[n] = last
        BY <3>1, <4>1
      <4> QED BY <4>1, <4>2
    <3>2. CASE n # k + 1 /\ n # 0
      <4>1. n - 1 \in 0..(k + 1) /\ n - 1 # k + 1 /\ n \in 0..k
        BY <3>2
      <4>2. next[n - 1] = after[n - 1] /\ next[n] = after[n]
        BY <3>2, <4>1
      <4>3. after[n] = UNION {AfterString(bytes, pos) : pos \in after[n - 1]}
        <5>1. after[n] = IF n = 0 THEN {1} ELSE UNION {AfterString(bytes, pos) : pos \in after[n - 1]}
          BY <2>1, <4>1, Zenon DEF AfterFrom
        <5> QED BY <3>2, <5>1
      <4> HIDE DEF next
      <4> QED BY <3>2, <4>2, <4>3
    <3>3. CASE n = 0
      <4>1. n \in 0..k /\ n # k + 1
        BY <3>3
      <4>2. next[n] = after[n]
        BY <4>1
      <4>3. after[n] = IF n = 0 THEN {1} ELSE UNION {AfterString(bytes, pos) : pos \in after[n - 1]}
        BY <2>1, <4>1, Zenon DEF AfterFrom
      <4> HIDE DEF next
      <4> QED BY <3>3, <4>2, <4>3
    <3> QED BY <3>1, <3>2, <3>3
  <2>3. next = [n \in 0..(k + 1) |-> next[n]]
    OBVIOUS
  <2> HIDE DEF next
  <2>4. AfterFrom(bytes, k + 1, next)
    BY <2>2, <2>3, Zenon DEF AfterFrom
  <2> QED BY <2>4
<1>3. number <= number
  OBVIOUS
<1>4. number \in S
  <2> HIDE DEF S
  <2> QED BY <1>1, <1>2, <1>3, Induction
<1> QED BY <1>4

\* Its equations.
ReadsStrings(bytes, number, after) ==
  /\ AfterStrings(bytes, number) = after[number]
  /\ after[0] = {1}
  /\ \A n \in Nat : n < number =>
       after[n + 1] = UNION {AfterString(bytes, pos) : pos \in after[n]}

\* So AfterStrings is what these equations say.
LEMMA AfterStringsSteps ==
  ASSUME NEW bytes, NEW number \in Nat
  PROVE  \E after : ReadsStrings(bytes, number, after)
<1>1. PICK after : AfterFrom(bytes, number, after) /\ AfterStrings(bytes, number) = after[number]
  BY AfterExists, AfterStringsIs, Zenon
<1>2. \A n \in 0..number :
        after[n] = IF n = 0 THEN {1} ELSE UNION {AfterString(bytes, pos) : pos \in after[n - 1]}
  BY <1>1, Zenon DEF AfterFrom
<1>3. ASSUME NEW n \in Nat, n < number
      PROVE  after[n + 1] = UNION {AfterString(bytes, pos) : pos \in after[n]}
  <2>1. n + 1 \in 0..number /\ n + 1 # 0 /\ (n + 1) - 1 = n
    BY <1>3
  <2> QED BY <1>2, <2>1
<1>4. after[0] = {1}
  BY <1>2, 0 \in 0..number
<1> QED BY <1>1, <1>3, <1>4 DEF ReadsStrings

\* As many strings are read to the end of the bytes if and only if the bytes can be cut
\* into as many strings.
LEMMA StringsAreCuts ==
  ASSUME NEW bytes \in Seq(Nat), NEW number \in Nat, number # 0
  PROVE  AfterStrings(bytes, number) = {Len(bytes) + 1} <=> CutsInto(bytes, {number}, NoTail, 0)
<1> DEFINE n == Len(bytes)
           S == Pieces(bytes, NoTail, 0)
<1>0. n \in Nat /\ IsSteps(S, n) /\ number <= number
  BY LenProperties, PiecesAreSteps
<1>r. PICK after : ReadsStrings(bytes, number, after)
  BY AfterStringsSteps
<1>1. /\ AfterStrings(bytes, number) = after[number]
      /\ after[0] = {1}
      /\ \A k \in Nat : k < number =>
           after[k + 1] = UNION {AfterString(bytes, pos) : pos \in after[k]}
  BY <1>r DEF ReadsStrings
<1>2. \A c \in 0..n : \A e : e \in AfterString(bytes, c + 1) <=> \E d \in 0..n : e = d + 1 /\ <<c, d>> \in S
  BY AfterStringSteps
<1>3. ASSUME after[number] = {n + 1}
      PROVE  CutsInto(bytes, {number}, NoTail, 0)
  <2> DEFINE Reached(k) == \A e \in after[k] : \E p \in 0..n : \E cuts :
                              e = p + 1 /\ ChainTo(S, cuts, p) /\ Cardinality(cuts) = k
             K == {k \in Nat : Reached(k)}
  <2> HIDE DEF S, n
  <2>1. 0 \in K
    <3>1. ChainTo(S, {}, 0) /\ Cardinality({}) = 0 /\ 0 \in 0..n /\ 1 = 0 + 1
      BY <1>0, FS_EmptySet DEF ChainTo, Linked
    <3>2. \A e \in after[0] : e = 0 + 1
      BY <1>1, <3>1
    <3> QED BY <3>1, <3>2, Zenon
  <2>2. ASSUME NEW k \in Nat, k < number, k \in K
        PROVE  k + 1 \in K
    <3>1. ASSUME NEW e \in after[k + 1]
          PROVE  \E p \in 0..n : \E cuts : e = p + 1 /\ ChainTo(S, cuts, p) /\ Cardinality(cuts) = k + 1
      <4>1. PICK pos \in after[k] : e \in AfterString(bytes, pos)
        BY <1>1, <2>2, <3>1
      <4>2. Reached(k)
        BY <2>2, Zenon
      <4>3. PICK p, cuts : p \in 0..n /\ pos = p + 1 /\ ChainTo(S, cuts, p) /\ Cardinality(cuts) = k
        BY <4>2, Zenon
      <4>4. PICK d \in 0..n : e = d + 1 /\ <<p, d>> \in S
        BY <1>2, <4>1, <4>3
      <4>5. ChainTo(S, cuts \cup {d}, d) /\ Cardinality(cuts \cup {d}) = Cardinality(cuts) + 1
        <5>1. n \in Nat /\ IsSteps(S, n) /\ p \in 0..n /\ ChainTo(S, cuts, p) /\ <<p, d>> \in S
          BY <1>0, <4>3, <4>4
        <5> QED BY ONLY <5>1, ChainOn
      <4> QED BY <4>3, <4>4, <4>5, Zenon
    <3> QED BY <3>1
  <2>3. number \in K
    <3> HIDE DEF K
    <3> QED BY <1>0, <2>1, <2>2, Induction
  <2>4. n + 1 \in after[number]
    BY <1>3
  <2>5. PICK p, cuts : p \in 0..n /\ n + 1 = p + 1 /\ ChainTo(S, cuts, p) /\ Cardinality(cuts) = number
    BY <2>3, <2>4, Zenon
  <2>6. p = n /\ n # 0
    <3>1. p = n
      BY <1>0, <2>5
    <3>2. ASSUME n = 0 PROVE FALSE
      <4>1. cuts = {}
        BY <2>5, <3>1, <3>2 DEF ChainTo
      <4> QED BY <2>5, <4>1, FS_EmptySet
    <3> QED BY <3>1, <3>2
  <2>7. cuts \in SUBSET (1..n) /\ n \in cuts /\ Linked(S, cuts)
    BY <2>5, <2>6 DEF ChainTo
  <2>8. CutsAt(bytes, cuts, NoTail, 0)
    BY <2>7, CutsAreLinked DEF S, n
  <2> QED BY <2>5, <2>7, <2>8 DEF CutsInto, n
<1>4. ASSUME CutsInto(bytes, {number}, NoTail, 0)
      PROVE  after[number] = {n + 1}
  <2>1. PICK cuts \in SUBSET (1..n) : Cardinality(cuts) = number /\ CutsAt(bytes, cuts, NoTail, 0)
    BY <1>4 DEF CutsInto
  <2>2. n \in cuts /\ Linked(S, cuts)
    BY <2>1, CutsAreLinked
  <2> HIDE DEF S, n
  <2>3. IsFiniteSet(cuts)
    <3>1. IsFiniteSet(1..n)
      BY <1>0, FS_Interval
    <3> QED BY <3>1, FS_Subset
  <2> DEFINE K == {k \in Nat : \E c \in cuts \cup {0} :
                       after[k] = {c + 1} /\ Cardinality(UpTo(cuts, c)) = k}
  <2>4. \A x \in cuts : x \in Nat /\ x >= 1 /\ x <= n
    BY <1>0
  <2>5. 0 \in K
    <3>1. UpTo(cuts, 0) = {}
      <4>1. \A x \in cuts : ~(x <= 0)
        BY <2>4
      <4> QED BY <4>1, Zenon DEF UpTo
    <3>2. 0 \in cuts \cup {0} /\ after[0] = {0 + 1} /\ Cardinality(UpTo(cuts, 0)) = 0
      <4>1. 0 + 1 = 1
        OBVIOUS
      <4> QED BY <1>1, <3>1, <4>1, FS_EmptySet
    <3> QED BY <3>2, Zenon
  <2>6. ASSUME NEW k \in Nat, k < number, k \in K
        PROVE  k + 1 \in K
    <3>1. PICK c \in cuts \cup {0} : after[k] = {c + 1} /\ Cardinality(UpTo(cuts, c)) = k
      BY <2>6, Zenon
    <3>2. c \in 0..n /\ c \in Nat
      BY <1>0, <2>4
    <3>3. \E later \in cuts : c < later
      <4>1. UpTo(cuts, c) # cuts
        <5>1. k # number
          BY <2>6
        <5> QED BY <2>1, <3>1, <5>1
      <4>2. PICK later \in cuts : later \notin UpTo(cuts, c)
        BY <4>1 DEF UpTo
      <4>3. ~(later <= c)
        BY <4>2 DEF UpTo
      <4> QED BY <2>4, <3>2, <4>3
    <3>n. PICK d : NextTo(S, cuts, c, d)
      <4>0. PICK later \in cuts : c < later
        BY <3>3
      <4>1. /\ n \in Nat /\ cuts \in SUBSET (1..n) /\ Linked(S, cuts) /\ c \in cuts \cup {0}
            /\ later \in cuts /\ c < later
        BY <1>0, <2>1, <2>2, <4>0
      <4> QED BY ONLY <4>1, NextCut
    <3>4. d \in cuts /\ <<c, d>> \in S /\ c < d /\ UpTo(cuts, d) = UpTo(cuts, c) \cup {d}
      BY <3>n DEF NextTo
    <3>5. d \in 0..n
      BY <1>0, <2>4, <3>4
    <3>6. AfterString(bytes, c + 1) = {d + 1}
      <4>1. d + 1 \in AfterString(bytes, c + 1)
        BY <1>2, <3>2, <3>4, <3>5
      <4>2. ASSUME NEW e \in AfterString(bytes, c + 1)
            PROVE  e = d + 1
        <5>1. PICK x \in 0..n : e = x + 1 /\ <<c, x>> \in S
          BY <1>2, <3>2, <4>2
        <5>2. x = d
          BY <1>0, <3>4, <5>1 DEF IsSteps
        <5> QED BY <5>1, <5>2
      <4> QED BY <4>1, <4>2
    <3>7. after[k + 1] = {d + 1}
      <4>1. after[k + 1] = UNION {AfterString(bytes, pos) : pos \in after[k]}
        BY <1>1, <2>6
      <4>2. {AfterString(bytes, pos) : pos \in {c + 1}} = {AfterString(bytes, c + 1)}
        OBVIOUS
      <4> QED BY <3>1, <3>6, <4>1, <4>2
    <3>8. Cardinality(UpTo(cuts, d)) = k + 1
      <4>1. d \notin UpTo(cuts, c)
        BY <2>4, <3>2, <3>4 DEF UpTo
      <4>2. IsFiniteSet(UpTo(cuts, c))
        BY <2>3, FS_Subset DEF UpTo
      <4> QED BY <3>1, <3>4, <4>1, <4>2, FS_AddElement
    <3>9. k + 1 \in Nat /\ d \in cuts \cup {0}
      BY <3>4
    <3> QED BY <3>7, <3>8, <3>9, Zenon
  <2>7. number \in K
    <3> HIDE DEF K
    <3> QED BY <1>0, <2>5, <2>6, Induction
  <2>8. PICK c \in cuts \cup {0} : after[number] = {c + 1} /\ Cardinality(UpTo(cuts, c)) = number
    BY <2>7, Zenon
  <2>9. UpTo(cuts, c) = cuts
    <3>1. UpTo(cuts, c) \in SUBSET cuts
      BY DEF UpTo
    <3> QED BY <2>1, <2>3, <2>8, <3>1, FS_Subset
  <2>10. n <= c
    BY <2>2, <2>9 DEF UpTo
  <2>11. c = n
    BY <1>0, <2>4, <2>10
  <2> QED BY <2>8, <2>11
<1> QED BY <1>1, <1>3, <1>4

-----------------------------------------------------------------------------
(* As many topic filters as there are *)

\* The function of CountTopicFilters, from a position on.
CountsFrom(bytes, withQoS, first, f) ==
  f = [pos \in first..(Len(bytes) + 1) |->
         IF pos = Len(bytes) + 1 THEN {0}
         ELSE UNION {{n + 1 : n \in f[next]} : next \in AfterTopicFilter(bytes, pos, withQoS)}]

\* CountTopicFilters takes the value at the first position of such a function,
LEMMA CountIs ==
  ASSUME NEW bytes, NEW withQoS
  PROVE  CountTopicFilters(bytes, withQoS) =
           IF bytes = <<>> THEN {} ELSE (CHOOSE f : CountsFrom(bytes, withQoS, 1, f))[1]
BY Zenon DEF CountTopicFilters, CountsFrom

\* The loop goes forward.
LEMMA FilterForward ==
  ASSUME NEW bytes \in Seq(Nat), NEW pos \in 1..Len(bytes), NEW withQoS \in BOOLEAN,
         NEW next \in AfterTopicFilter(bytes, pos, withQoS)
  PROVE  next \in (pos + 1)..(Len(bytes) + 1)
<1>0. Len(bytes) \in Nat
  BY LenProperties
<1>1. pos - 1 \in 0..Len(bytes) /\ (pos - 1) + 1 = pos
  BY <1>0
<1>2. PICK d \in 0..Len(bytes) : next = d + 1 /\ <<pos - 1, d>> \in Pieces(bytes, Tails(withQoS), 1)
  <2>1. next \in AfterTopicFilter(bytes, (pos - 1) + 1, withQoS)
    BY <1>1
  <2> QED BY <1>1, <2>1, AfterFilterSteps
<1>3. pos - 1 < d
  BY <1>0, <1>2, PiecesAreSteps DEF IsSteps, Tails
<1> QED BY <1>0, <1>2, <1>3

\* and there is one, since the loop goes forward.
LEMMA CountExists ==
  ASSUME NEW bytes \in Seq(Nat), NEW withQoS \in BOOLEAN
  PROVE  \E f : CountsFrom(bytes, withQoS, 1, f)
<1> DEFINE m == Len(bytes)
           S == {k \in Nat : \E f : CountsFrom(bytes, withQoS, m + 1 - k, f)}
<1>0. m \in Nat /\ m <= m /\ m + 1 - m = 1 /\ m + 1 - 0 = m + 1 /\ 0 \in Nat
  BY LenProperties
<1>1. 0 \in S
  <2> DEFINE f == [pos \in {m + 1} |-> {0}]
  <2>1. (m + 1)..(m + 1) = {m + 1}
    BY <1>0
  <2>2. f = [pos \in (m + 1)..(m + 1) |->
               IF pos = m + 1 THEN {0}
               ELSE UNION {{n + 1 : n \in f[next]} : next \in AfterTopicFilter(bytes, pos, withQoS)}]
    BY <2>1
  <2> HIDE DEF f
  <2>3. CountsFrom(bytes, withQoS, m + 1, f)
    BY <2>2, Zenon DEF CountsFrom
  <2>4. CountsFrom(bytes, withQoS, m + 1 - 0, f)
    BY <1>0, <2>3
  <2> QED BY <1>0, <2>4
<1>2. ASSUME NEW k \in Nat, k < m, k \in S
      PROVE  k + 1 \in S
  <2>1. PICK f : CountsFrom(bytes, withQoS, m + 1 - k, f)
    BY <1>2
  <2>2. PICK first \in Nat : first = m - k /\ m + 1 - k = first + 1 /\ m + 1 - (k + 1) = first
                             /\ first \in 1..m
    BY <1>0, <1>2
  <2>3. \A pos \in (first + 1)..(m + 1) :
          f[pos] = IF pos = m + 1 THEN {0}
                   ELSE UNION {{n + 1 : n \in f[next]} : next \in AfterTopicFilter(bytes, pos, withQoS)}
    <3>1. CountsFrom(bytes, withQoS, first + 1, f)
      BY <2>1, <2>2
    <3> QED BY <3>1, Zenon DEF CountsFrom
  <2> DEFINE here == UNION {{n + 1 : n \in f[next]} : next \in AfterTopicFilter(bytes, first, withQoS)}
             g == [pos \in first..(m + 1) |-> IF pos = first THEN here ELSE f[pos]]
  <2>4. \A pos \in (first + 1)..(m + 1) : pos \in first..(m + 1) /\ pos # first /\ pos \in Nat
    BY <1>0, <2>2
  <2>5. \A pos \in (first + 1)..(m + 1) : g[pos] = f[pos]
    BY <2>4
  <2>6. ASSUME NEW pos \in first..(m + 1), pos # m + 1
        PROVE  UNION {{n + 1 : n \in g[next]} : next \in AfterTopicFilter(bytes, pos, withQoS)} =
                 UNION {{n + 1 : n \in f[next]} : next \in AfterTopicFilter(bytes, pos, withQoS)}
    <3>1. \A next \in AfterTopicFilter(bytes, pos, withQoS) : g[next] = f[next]
      <4>1. pos \in 1..Len(bytes)
        BY <1>0, <2>2, <2>6
      <4>2. \A next \in AfterTopicFilter(bytes, pos, withQoS) : next \in (pos + 1)..(Len(bytes) + 1)
        BY <4>1, FilterForward
      <4>3. \A next \in (pos + 1)..(Len(bytes) + 1) : next \in (first + 1)..(m + 1)
        BY <1>0, <2>2, <2>6
      <4> HIDE DEF g
      <4> QED BY <2>5, <4>2, <4>3
    <3> HIDE DEF g
    <3> QED BY <3>1, Zenon
  <2>7. ASSUME NEW pos \in first..(m + 1)
        PROVE  g[pos] = IF pos = m + 1 THEN {0}
                        ELSE UNION {{n + 1 : n \in g[next]} : next \in AfterTopicFilter(bytes, pos, withQoS)}
    <3>1. CASE pos = m + 1
      <4>1. pos \in (first + 1)..(m + 1)
        BY <1>0, <2>2, <3>1
      <4> HIDE DEF g
      <4> QED BY <2>3, <2>5, <3>1, <4>1
    <3>2. CASE pos = first
      <4>1. pos # m + 1
        BY <1>0, <2>2, <3>2
      <4>2. g[pos] = here
        BY <3>2
      <4> HIDE DEF g
      <4> QED BY <2>6, <3>2, <4>1, <4>2
    <3>3. CASE pos # first /\ pos # m + 1
      <4>1. pos \in (first + 1)..(m + 1)
        BY <1>0, <2>2, <3>3
      <4>2. f[pos] = UNION {{n + 1 : n \in f[next]} : next \in AfterTopicFilter(bytes, pos, withQoS)}
        <5>1. f[pos] = IF pos = m + 1 THEN {0}
                       ELSE UNION {{n + 1 : n \in f[next]} : next \in AfterTopicFilter(bytes, pos, withQoS)}
          BY <2>3, <4>1, Zenon
        <5> QED BY <3>3, <5>1, Zenon
      <4> HIDE DEF g
      <4>3. g[pos] = f[pos]
        BY <2>5, <4>1
      <4>4. UNION {{n + 1 : n \in g[next]} : next \in AfterTopicFilter(bytes, pos, withQoS)} = f[pos]
        BY <2>6, <3>3, <4>2, Zenon
      <4> QED BY <3>3, <4>3, <4>4, Zenon
    <3> QED BY <3>1, <3>2, <3>3
  <2>8. g = [pos \in first..(m + 1) |-> g[pos]]
    OBVIOUS
  <2> HIDE DEF g
  <2>9. CountsFrom(bytes, withQoS, first, g)
    BY <2>7, <2>8, Zenon DEF CountsFrom
  <2>10. CountsFrom(bytes, withQoS, m + 1 - (k + 1), g)
    BY <2>2, <2>9
  <2> QED BY <2>10
<1>3. m \in S
  <2> HIDE DEF S, m
  <2> QED BY <1>0, <1>1, <1>2, Induction
<1>4. PICK f : CountsFrom(bytes, withQoS, m + 1 - m, f)
  BY <1>3
<1>5. CountsFrom(bytes, withQoS, 1, f)
  <2> HIDE DEF m
  <2> QED BY <1>0, <1>4
<1> QED BY <1>5

\* Its equations: f[c + 1] is what is counted behind the first c bytes.
CountsOn(S, f, c) == \A d : <<c, d>> \in S => f[c + 1] = {k + 1 : k \in f[d + 1]}

\* All of them.
CountsFilters(bytes, withQoS, f) ==
  /\ bytes # <<>> => CountTopicFilters(bytes, withQoS) = f[1]
  /\ f[Len(bytes) + 1] = {0}
  /\ \A c \in 0..Len(bytes) : CountsOn(Pieces(bytes, Tails(withQoS), 1), f, c)
  /\ \A c \in 0..Len(bytes) : c # Len(bytes) /\ f[c + 1] # {} =>
       \E d : <<c, d>> \in Pieces(bytes, Tails(withQoS), 1) /\ f[d + 1] # {}

\* So CountTopicFilters is what these equations say.
LEMMA CountSteps ==
  ASSUME NEW bytes \in Seq(Nat), NEW withQoS \in BOOLEAN
  PROVE  \E f : CountsFilters(bytes, withQoS, f)
<1> DEFINE m == Len(bytes)
           S == Pieces(bytes, Tails(withQoS), 1)
<1>0. m \in Nat /\ IsSteps(S, m)
  BY LenProperties, PiecesAreSteps DEF Tails
<1>1. PICK f : /\ CountsFrom(bytes, withQoS, 1, f)
               /\ CountTopicFilters(bytes, withQoS) = IF bytes = <<>> THEN {} ELSE f[1]
  <2> DEFINE g == CHOOSE f : CountsFrom(bytes, withQoS, 1, f)
  <2>1. CountsFrom(bytes, withQoS, 1, g)
    BY CountExists, Zenon
  <2>2. CountTopicFilters(bytes, withQoS) = IF bytes = <<>> THEN {} ELSE g[1]
    BY CountIs, Zenon
  <2> HIDE DEF g
  <2> QED BY <2>1, <2>2
<1>2. \A pos \in 1..(m + 1) :
        f[pos] = IF pos = m + 1 THEN {0}
                 ELSE UNION {{n + 1 : n \in f[next]} : next \in AfterTopicFilter(bytes, pos, withQoS)}
  BY <1>1, Zenon DEF CountsFrom
<1>3. ASSUME NEW c \in 0..m, c # m
      PROVE  f[c + 1] = UNION {{n + 1 : n \in f[next]} : next \in AfterTopicFilter(bytes, c + 1, withQoS)}
  <2>1. c + 1 \in 1..(m + 1) /\ c + 1 # m + 1
    BY <1>0, <1>3
  <2>2. f[c + 1] = IF c + 1 = m + 1 THEN {0}
                   ELSE UNION {{n + 1 : n \in f[next]} : next \in AfterTopicFilter(bytes, c + 1, withQoS)}
    BY <1>2, <2>1, Zenon
  <2> QED BY <2>1, <2>2, Zenon
<1>4. \A c \in 0..m : \A e : e \in AfterTopicFilter(bytes, c + 1, withQoS) <=>
                           \E d \in 0..m : e = d + 1 /\ <<c, d>> \in S
  BY AfterFilterSteps
<1>5. f[m + 1] = {0}
  <2>1. m + 1 \in 1..(m + 1)
    BY <1>0
  <2> QED BY <1>2, <2>1, Zenon
<1> HIDE DEF S, m
<1>6. ASSUME NEW c \in 0..m, NEW d, <<c, d>> \in S
      PROVE  f[c + 1] = {k + 1 : k \in f[d + 1]}
  <2>1. d \in 0..m /\ c # m
    BY <1>0, <1>6 DEF IsSteps
  <2>2. AfterTopicFilter(bytes, c + 1, withQoS) = {d + 1}
    <3>1. d + 1 \in AfterTopicFilter(bytes, c + 1, withQoS)
      BY <1>4, <1>6, <2>1
    <3>2. ASSUME NEW e \in AfterTopicFilter(bytes, c + 1, withQoS)
          PROVE  e = d + 1
      <4>1. PICK x \in 0..m : e = x + 1 /\ <<c, x>> \in S
        BY <1>4, <3>2
      <4>2. x = d
        BY <1>0, <1>6, <4>1 DEF IsSteps
      <4> QED BY <4>1, <4>2
    <3> QED BY <3>1, <3>2
  <2>3. {{n + 1 : n \in f[next]} : next \in {d + 1}} = {{n + 1 : n \in f[d + 1]}}
    OBVIOUS
  <2>4. f[c + 1] = UNION {{n + 1 : n \in f[d + 1]}}
    BY <1>3, <2>1, <2>2, <2>3, Zenon
  <2>5. \A X : UNION {X} = X
    OBVIOUS
  <2> QED BY <2>4, <2>5, Zenon
<1>7. ASSUME NEW c \in 0..m, c # m, f[c + 1] # {}
      PROVE  \E d : <<c, d>> \in S /\ f[d + 1] # {}
  <2>1. PICK next \in AfterTopicFilter(bytes, c + 1, withQoS) : {n + 1 : n \in f[next]} # {}
    BY <1>3, <1>7, Zenon
  <2>2. PICK d \in 0..m : next = d + 1 /\ <<c, d>> \in S
    BY <1>4, <2>1
  <2>3. f[next] # {}
    BY <2>1, Zenon
  <2> QED BY <2>2, <2>3
<1>8. CountsFilters(bytes, withQoS, f)
  BY <1>1, <1>5, <1>6, <1>7, Zenon DEF CountsFilters, CountsOn, S, m
<1> QED BY <1>8

\* The loop comes to the end of the payload if and only if it can be cut into topic filters.
THEOREM FiltersAreCuts ==
  ASSUME NEW bytes \in Seq(Nat), NEW withQoS \in BOOLEAN
  PROVE  CountTopicFilters(bytes, withQoS) # {} <=>
           CutsInto(bytes, 1..Len(bytes), Tails(withQoS), 1)
<1> DEFINE m == Len(bytes)
           S == Pieces(bytes, Tails(withQoS), 1)
<1>0. m \in Nat /\ IsSteps(S, m)
  BY LenProperties, PiecesAreSteps DEF Tails
<1>1. PICK f : CountsFilters(bytes, withQoS, f)
  BY CountSteps
<1>2. /\ bytes # <<>> => CountTopicFilters(bytes, withQoS) = f[1]
      /\ f[m + 1] = {0}
      /\ \A c \in 0..m : \A d : <<c, d>> \in S => f[c + 1] = {k + 1 : k \in f[d + 1]}
      /\ \A c \in 0..m : c # m /\ f[c + 1] # {} => \E d : <<c, d>> \in S /\ f[d + 1] # {}
  BY <1>1, Zenon DEF CountsFilters, CountsOn
<1>3. \A cuts \in SUBSET (1..m) : CutsAt(bytes, cuts, Tails(withQoS), 1) <=> m \in cuts /\ Linked(S, cuts)
  BY CutsAreLinked
<1>4. bytes = <<>> => CountTopicFilters(bytes, withQoS) = {}
  BY DEF CountTopicFilters
<1>5. bytes = <<>> <=> m = 0
  BY EmptySeq
<1>6. CutsInto(bytes, 1..m, Tails(withQoS), 1) <=>
        \E cuts \in SUBSET (1..m) : m \in cuts /\ Linked(S, cuts)
  <2>1. CutsInto(bytes, 1..m, Tails(withQoS), 1) <=>
          \E cuts \in SUBSET (1..m) : Cardinality(cuts) \in 1..m /\ m \in cuts /\ Linked(S, cuts)
    BY <1>3, Zenon DEF CutsInto
  <2> HIDE DEF S, m
  <2>2. ASSUME NEW cuts \in SUBSET (1..m), m \in cuts
        PROVE  Cardinality(cuts) \in 1..m
    <3>1. IsFiniteSet(1..m) /\ Cardinality(1..m) = m
      <4>1. 1 \in Int /\ m \in Int /\ (IF 1 > m THEN 0 ELSE m - 1 + 1) = m
        BY <1>0
      <4> QED BY <4>1, FS_Interval
    <3>2. IsFiniteSet(cuts) /\ Cardinality(cuts) <= m
      BY <3>1, FS_Subset
    <3>3. Cardinality(cuts) \in Nat /\ Cardinality(cuts) # 0
      BY <2>2, <3>2, FS_CardinalityType, FS_EmptySet
    <3> QED BY <1>0, <3>2, <3>3
  <2> QED BY <2>1, <2>2
<1> HIDE DEF S, m
<1>7. ASSUME m # 0, f[1] # {}
      PROVE  \E cuts \in SUBSET (1..m) : m \in cuts /\ Linked(S, cuts)
  <2> DEFINE T == {p \in 0..m : f[p + 1] # {} /\ \E cuts : ChainTo(S, cuts, p)}
  <2>1. 0 \in T
    <3>1. 0 \in 0..m /\ 0 + 1 = 1
      BY <1>0
    <3>2. ChainTo(S, {}, 0)
      BY DEF ChainTo, Linked
    <3>3. f[0 + 1] # {}
      BY <1>7, <3>1
    <3> QED BY <3>1, <3>2, <3>3, Zenon
  <2>2. T \in SUBSET (0..m)
    OBVIOUS
  <2> DEFINE p == Max(T)
  <2>3. p \in T /\ \A k \in T : k <= p
    <3> HIDE DEF T
    <3> QED BY <1>0, <2>1, <2>2, MaxIs
  <2> HIDE DEF p
  <2>4. PICK cuts : p \in 0..m /\ f[p + 1] # {} /\ ChainTo(S, cuts, p)
    BY <2>3, Zenon
  <2>5. p = m
    <3> SUFFICES ASSUME p # m PROVE FALSE
      OBVIOUS
    <3>1. PICK d : <<p, d>> \in S /\ f[d + 1] # {}
      BY <1>2, <2>4, Zenon
    <3>2. ChainTo(S, cuts \cup {d}, d) /\ d \in 1..m /\ p < d
      <4>1. m \in Nat /\ IsSteps(S, m) /\ p \in 0..m /\ ChainTo(S, cuts, p) /\ <<p, d>> \in S
        BY <1>0, <2>4, <3>1
      <4> QED BY ONLY <4>1, ChainOn
    <3>3. d \in 0..m /\ p \in Nat /\ d \in Nat
      BY <1>0, <2>4, <3>2
    <3>4. d \in T
      BY <3>1, <3>2, <3>3, Zenon
    <3>5. d <= p
      BY <2>3, <3>4, Zenon
    <3> QED BY <3>2, <3>3, <3>5
  <2>6. cuts \in SUBSET (1..m) /\ m \in cuts /\ Linked(S, cuts)
    BY <1>7, <2>4, <2>5 DEF ChainTo
  <2> QED BY <2>6
<1>8. ASSUME NEW cuts \in SUBSET (1..m), m \in cuts, Linked(S, cuts)
      PROVE  f[1] # {}
  <2> DEFINE T == {c \in cuts \cup {0} : f[c + 1] # {}}
  <2>0. \A c \in cuts \cup {0} : c \in 0..m /\ c \in Nat
    BY <1>0
  <2>1. m \in T /\ T \in SUBSET Nat /\ T # {}
    <3>1. f[m + 1] # {}
      BY <1>2
    <3>2. m \in T
      BY <1>8, <3>1, Zenon
    <3> QED BY <2>0, <3>2, Zenon
  <2>2. PICK c \in T : \A k \in T : c <= k
    <3> HIDE DEF T
    <3> QED BY <2>1, Least
  <2>3. c \in cuts \cup {0} /\ f[c + 1] # {} /\ c \in 0..m /\ c \in Nat
    BY <2>0, <2>2, Zenon
  <2>4. c = 0
    <3> SUFFICES ASSUME c # 0 PROVE FALSE
      OBVIOUS
    <3>1. c \in cuts
      BY <2>3
    <3> DEFINE b == BeginBefore(cuts, c)
    <3>2. b \in cuts \cup {0} /\ b \in 0..m /\ (b # 0 => b < c)
      BY <1>0, <2>3, BeginBeforeIs
    <3>3. <<b, c>> \in S
      BY <1>8, <3>1 DEF Linked
    <3> HIDE DEF b
    <3>4. f[b + 1] = {k + 1 : k \in f[c + 1]}
      BY <1>2, <3>2, <3>3, Zenon
    <3>5. f[b + 1] # {}
      BY <2>3, <3>4, Zenon
    <3>6. b \in T
      BY <3>2, <3>5, Zenon
    <3>7. c <= b
      BY <2>2, <3>6, Zenon
    <3> QED BY <2>3, <3>2, <3>7
  <2>5. 0 + 1 = 1
    OBVIOUS
  <2> QED BY <2>3, <2>4, <2>5
<1>9. CASE m = 0
  <2>1. ~ \E cuts \in SUBSET (1..m) : m \in cuts /\ Linked(S, cuts)
    BY <1>0, <1>9
  <2> QED BY <1>4, <1>5, <1>6, <1>9, <2>1 DEF m
<1>10. CASE m # 0
  <2>1. f[1] # {} <=> \E cuts \in SUBSET (1..m) : m \in cuts /\ Linked(S, cuts)
    BY <1>7, <1>8, <1>10, Zenon
  <2> QED BY <1>2, <1>5, <1>6, <1>10, <2>1 DEF m
<1> QED BY <1>9, <1>10

-----------------------------------------------------------------------------
(* What a SUBSCRIBE or UNSUBSCRIBE says *)

\* The function of Spells.
EndsAre(strings, size, number, end) ==
  end = [n \in 0..number |-> IF n = 0 THEN 0 ELSE end[n - 1] + 2 + Len(strings[n]) + size]

\* What Spells says of it.
SpellsAt(bytes, strings, tails, size, end) ==
  /\ Len(bytes) = end[Len(strings)]
  /\ \A n \in DOMAIN strings : \E tail \in tails :
       /\ Len(tail) = size
       /\ SubSeq(bytes, end[n - 1] + 1, end[n]) = UInt16(Len(strings[n])) \o strings[n] \o tail

\* Spells takes the values of such a function,
LEMMA SpellsIs ==
  ASSUME NEW bytes, NEW strings, NEW tails, NEW size
  PROVE  Spells(bytes, strings, tails, size) =
           SpellsAt(bytes, strings, tails, size, CHOOSE end : EndsAre(strings, size, Len(strings), end))
BY Zenon DEF Spells, SpellsAt, EndsAre

\* and there is one.
LEMMA EndsExist ==
  ASSUME NEW strings, NEW size, NEW number \in Nat
  PROVE  \E end : EndsAre(strings, size, number, end)
<1> DEFINE S == {k \in Nat : \E end : EndsAre(strings, size, k, end)}
<1>1. 0 \in S
  <2> DEFINE end == [n \in {0} |-> 0]
  <2>1. 0..0 = {0}
    OBVIOUS
  <2>2. end = [n \in 0..0 |-> IF n = 0 THEN 0 ELSE end[n - 1] + 2 + Len(strings[n]) + size]
    BY <2>1
  <2> HIDE DEF end
  <2>3. EndsAre(strings, size, 0, end)
    BY <2>2, Zenon DEF EndsAre
  <2> QED BY <2>3
<1>2. ASSUME NEW k \in Nat, k < number, k \in S
      PROVE  k + 1 \in S
  <2>1. PICK end : EndsAre(strings, size, k, end)
    BY <1>2
  <2> DEFINE last == end[k] + 2 + Len(strings[k + 1]) + size
             next == [n \in 0..(k + 1) |-> IF n = k + 1 THEN last ELSE end[n]]
  <2>2. ASSUME NEW n \in 0..(k + 1)
        PROVE  next[n] = IF n = 0 THEN 0 ELSE next[n - 1] + 2 + Len(strings[n]) + size
    <3>1. CASE n = k + 1
      <4>1. n - 1 = k /\ k \in 0..(k + 1) /\ k # k + 1 /\ n # 0
        BY <3>1
      <4>2. next[n - 1] = end[k] /\ next[n] = last
        BY <3>1, <4>1
      <4> HIDE DEF next
      <4> QED BY <3>1, <4>1, <4>2, Zenon
    <3>2. CASE n # k + 1 /\ n # 0
      <4>1. n - 1 \in 0..(k + 1) /\ n - 1 # k + 1 /\ n \in 0..k
        BY <3>2
      <4>2. next[n - 1] = end[n - 1] /\ next[n] = end[n]
        BY <3>2, <4>1
      <4>3. end[n] = IF n = 0 THEN 0 ELSE end[n - 1] + 2 + Len(strings[n]) + size
        BY <2>1, <4>1, Zenon DEF EndsAre
      <4> HIDE DEF next
      <4> QED BY <3>2, <4>2, <4>3, Zenon
    <3>3. CASE n = 0
      <4>1. n \in 0..k /\ n # k + 1
        BY <3>3
      <4>2. next[n] = end[n]
        BY <4>1
      <4>3. end[n] = IF n = 0 THEN 0 ELSE end[n - 1] + 2 + Len(strings[n]) + size
        BY <2>1, <4>1, Zenon DEF EndsAre
      <4> HIDE DEF next
      <4> QED BY <3>3, <4>2, <4>3, Zenon
    <3> QED BY <3>1, <3>2, <3>3
  <2>3. next = [n \in 0..(k + 1) |-> next[n]]
    OBVIOUS
  <2> HIDE DEF next
  <2>4. EndsAre(strings, size, k + 1, next)
    BY <2>2, <2>3, Zenon DEF EndsAre
  <2> QED BY <2>4
<1>3. number <= number
  OBVIOUS
<1>4. number \in S
  <2> HIDE DEF S
  <2> QED BY <1>1, <1>2, <1>3, Induction
<1> QED BY <1>4

\* The equations of the ends, which are natural numbers.
EndsGrow(strings, size, end) ==
  /\ end[0] = 0
  /\ \A n \in 0..Len(strings) : end[n] \in Nat /\ end[n] <= end[Len(strings)]
  /\ \A n \in Nat : n < Len(strings) => end[n + 1] = end[n] + 2 + Len(strings[n + 1]) + size

\* So Spells is what these equations say.
LEMMA SpellsSteps ==
  ASSUME NEW bytes, NEW strings \in Seq(Seq(Nat)), NEW tails, NEW size \in Nat,
         Spells(bytes, strings, tails, size)
  PROVE  \E end : EndsGrow(strings, size, end) /\ SpellsAt(bytes, strings, tails, size, end)
<1> DEFINE L == Len(strings)
<1>0. L \in Nat /\ L <= L
  BY LenProperties
<1>1. PICK end : EndsAre(strings, size, L, end) /\ SpellsAt(bytes, strings, tails, size, end)
  <2> DEFINE g == CHOOSE end : EndsAre(strings, size, L, end)
  <2>1. EndsAre(strings, size, L, g)
    BY <1>0, EndsExist, Zenon
  <2>2. SpellsAt(bytes, strings, tails, size, g)
    BY SpellsIs, Zenon
  <2> HIDE DEF g
  <2> QED BY <2>1, <2>2
<1>2. \A n \in 0..L : end[n] = IF n = 0 THEN 0 ELSE end[n - 1] + 2 + Len(strings[n]) + size
  BY <1>1, Zenon DEF EndsAre
<1>3. ASSUME NEW n \in Nat, n < L
      PROVE  end[n + 1] = end[n] + 2 + Len(strings[n + 1]) + size
  <2>1. n + 1 \in 0..L /\ n + 1 # 0 /\ (n + 1) - 1 = n
    BY <1>0, <1>3
  <2> QED BY <1>2, <2>1
<1>4. end[0] = 0
  BY <1>0, <1>2, 0 \in 0..L
<1>5. \A n \in Nat : n < L => Len(strings[n + 1]) \in Nat
  <2>1. ASSUME NEW n \in Nat, n < L
        PROVE  Len(strings[n + 1]) \in Nat
    <3>1. n + 1 \in 1..Len(strings)
      BY <1>0, <2>1
    <3>2. strings[n + 1] \in Seq(Nat)
      BY <3>1, ElementOfSeq
    <3> QED BY <3>2, LenProperties
  <2> QED BY <2>1
<1> HIDE DEF L
<1>6. \A n \in Nat : n <= L => end[n] \in Nat
  <2> DEFINE K == {k \in Nat : end[k] \in Nat}
  <2>1. 0 \in K
    BY <1>4
  <2>2. ASSUME NEW k \in Nat, k < L, k \in K
        PROVE  k + 1 \in K
    BY <1>3, <1>5, <2>2
  <2>3. \A k \in Nat : k <= L => k \in K
    <3> HIDE DEF K
    <3> QED BY <1>0, <2>1, <2>2, Induction
  <2> QED BY <2>3
<1>7. ASSUME NEW n \in Nat, n <= L
      PROVE  end[n] <= end[L]
  <2> DEFINE K == {k \in Nat : k <= L => end[L - k] <= end[L]}
  <2>1. 0 \in K
    BY <1>0, <1>6
  <2>2. ASSUME NEW k \in Nat, k < L, k \in K
        PROVE  k + 1 \in K
    <3>1. PICK m \in Nat : m = L - (k + 1) /\ m < L /\ L - k = m + 1
      BY <1>0, <2>2
    <3>2. end[m + 1] <= end[L]
      BY <1>0, <2>2, <3>1
    <3>3. end[m] <= end[m + 1]
      <4>1. m <= L /\ end[m] \in Nat
        BY <1>0, <1>6, <3>1
      <4>2. PICK q \in Nat : Len(strings[m + 1]) = q
        BY <1>5, <3>1
      <4>3. end[m + 1] = end[m] + 2 + q + size
        BY <1>3, <3>1, <4>2
      <4> QED BY <4>1, <4>3
    <3>4. end[m] \in Nat /\ end[m + 1] \in Nat /\ end[L] \in Nat
      BY <1>0, <1>6, <3>1
    <3>5. end[L - (k + 1)] <= end[L]
      BY <3>1, <3>2, <3>3, <3>4
    <3> QED BY <3>5
  <2>3. \A k \in Nat : k <= L => k \in K
    <3> HIDE DEF K
    <3> QED BY <1>0, <2>1, <2>2, Induction
  <2>4. L - n \in Nat /\ L - n <= L /\ L - (L - n) = n
    BY <1>0, <1>7
  <2> QED BY <2>3, <2>4
<1>8. \A n \in 0..L : n \in Nat /\ n <= L
  BY <1>0
<1> QED BY <1>1, <1>3, <1>4, <1>6, <1>7, <1>8 DEF EndsGrow, L

\* A length is what its two bytes say.
LEMMA UInt16Is ==
  ASSUME NEW n \in Nat
  PROVE  /\ UInt16(n) \in Seq(Nat) /\ Len(UInt16(n)) = 2
         /\ UInt16(n)[1] * ByteRange + UInt16(n)[2] = n
<1>0. ByteRange \in Nat /\ ByteRange > 3
  BY ByteAssumption
<1>1. n \div ByteRange \in Nat /\ n % ByteRange \in Nat
  BY <1>0
<1>2. (n \div ByteRange) * ByteRange + (n % ByteRange) = n
  BY <1>0
<1>3. UInt16(n)[1] = n \div ByteRange /\ UInt16(n)[2] = n % ByteRange
  BY DEF UInt16
<1>4. UInt16(n) \in Seq(Nat) /\ Len(UInt16(n)) = 2
  BY <1>1 DEF UInt16
<1> QED BY <1>2, <1>3, <1>4

\* Three sequences, one behind the other.
LEMMA Three ==
  ASSUME NEW T, NEW u \in Seq(T), NEW s \in Seq(T), NEW t \in Seq(T)
  PROVE  LET p == u \o s \o t
         IN /\ p \in Seq(T) /\ Len(p) = Len(u) + Len(s) + Len(t)
            /\ \A i \in 1..Len(u) : p[i] = u[i]
            /\ \A i \in 1..Len(s) : p[Len(u) + i] = s[i]
            /\ \A i \in 1..Len(t) : p[Len(u) + Len(s) + i] = t[i]
<1> DEFINE a == u \o s
           p == a \o t
<1>0. Len(u) \in Nat /\ Len(s) \in Nat /\ Len(t) \in Nat
  BY LenProperties
<1>1. /\ a \in Seq(T) /\ Len(a) = Len(u) + Len(s)
      /\ \A i \in 1..(Len(u) + Len(s)) : a[i] = IF i <= Len(u) THEN u[i] ELSE s[i - Len(u)]
  BY ConcatProperties
<1> HIDE DEF a
<1>2. /\ p \in Seq(T) /\ Len(p) = Len(a) + Len(t)
      /\ \A i \in 1..(Len(a) + Len(t)) : p[i] = IF i <= Len(a) THEN a[i] ELSE t[i - Len(a)]
  <2>1. a \in Seq(T) /\ t \in Seq(T)
    BY <1>1
  <2> QED BY ONLY <2>1, ConcatProperties
<1> HIDE DEF p
<1>3. ASSUME NEW i \in 1..Len(u)
      PROVE  p[i] = u[i]
  <2>1. i \in 1..(Len(u) + Len(s)) /\ i \in 1..(Len(a) + Len(t)) /\ i <= Len(u) /\ i <= Len(a)
    BY <1>0, <1>1
  <2> QED BY <1>1, <1>2, <2>1
<1>4. ASSUME NEW i \in 1..Len(s)
      PROVE  p[Len(u) + i] = s[i]
  <2>1. /\ Len(u) + i \in 1..(Len(u) + Len(s)) /\ Len(u) + i \in 1..(Len(a) + Len(t))
        /\ ~(Len(u) + i <= Len(u)) /\ Len(u) + i <= Len(a) /\ (Len(u) + i) - Len(u) = i
    BY <1>0, <1>1
  <2> QED BY <1>1, <1>2, <2>1
<1>5. ASSUME NEW i \in 1..Len(t)
      PROVE  p[Len(u) + Len(s) + i] = t[i]
  <2>1. /\ Len(u) + Len(s) + i \in 1..(Len(a) + Len(t))
        /\ ~(Len(u) + Len(s) + i <= Len(a)) /\ (Len(u) + Len(s) + i) - Len(a) = i
    BY <1>0, <1>1
  <2> QED BY <1>1, <1>2, <2>1
<1> QED BY <1>1, <1>2, <1>3, <1>4, <1>5 DEF p, a

\* From c to d the bytes are the string and the tail, and read as that.
IsSpelled(bytes, c, d, string, tail) ==
  /\ d = c + 2 + Len(string) + Len(tail)
  /\ SubSeq(bytes, c + 1, d) = UInt16(Len(string)) \o string \o tail

\* What is read there.
IsRead(bytes, c, string, tail) ==
  /\ LengthAt(bytes, c + 1) = Len(string)
  /\ StringAt(bytes, c + 1) = string
  /\ \A i \in 1..Len(tail) : bytes[c + 2 + Len(string) + i] = tail[i]

\* What is read where a string is spelled, with a tail behind it.
LEMMA SpelledPart ==
  ASSUME NEW bytes \in Seq(Nat), NEW c \in 0..Len(bytes), NEW d \in 0..Len(bytes),
         NEW string \in Seq(Nat), NEW tail \in Seq(Nat),
         IsSpelled(bytes, c, d, string, tail)
  PROVE  IsRead(bytes, c, string, tail)
<1> DEFINE u == UInt16(Len(string))
           l == Len(string)
           k == Len(tail)
           p == SubSeq(bytes, c + 1, d)
<1>0. Len(bytes) \in Nat /\ c \in Nat /\ d \in Nat /\ l \in Nat /\ k \in Nat /\ d <= Len(bytes)
  BY LenProperties
<1>s. d = c + 2 + l + k /\ p = UInt16(l) \o string \o tail
  BY DEF IsSpelled
<1>1. u \in Seq(Nat) /\ Len(u) = 2 /\ u[1] * ByteRange + u[2] = l
  BY <1>0, UInt16Is
<1> HIDE DEF u
<1>2. /\ \A i \in 1..2 : p[i] = u[i]
      /\ \A i \in 1..l : p[2 + i] = string[i]
      /\ \A i \in 1..k : p[2 + l + i] = tail[i]
  <2>1. p = u \o string \o tail
    BY <1>s DEF u
  <2> HIDE DEF p
  <2>2. /\ \A i \in 1..Len(u) : p[i] = u[i]
        /\ \A i \in 1..Len(string) : p[Len(u) + i] = string[i]
        /\ \A i \in 1..Len(tail) : p[Len(u) + Len(string) + i] = tail[i]
    <3>1. u \in Seq(Nat) /\ string \in Seq(Nat) /\ tail \in Seq(Nat)
      BY <1>1
    <3> DEFINE v == u \o string \o tail
    <3>2. /\ \A i \in 1..Len(u) : v[i] = u[i]
          /\ \A i \in 1..Len(string) : v[Len(u) + i] = string[i]
          /\ \A i \in 1..Len(tail) : v[Len(u) + Len(string) + i] = tail[i]
      BY ONLY <3>1, Three
    <3> QED BY <2>1, <3>2
  <2> QED BY <1>1, <2>2
<1>3. \A i \in 1..(d - c) : p[i] = bytes[c + i]
  <2>1. c < d
    BY <1>0, <1>s
  <2> QED BY <2>1, PartOfBytes
<1> HIDE DEF p
<1>4. LengthAt(bytes, c + 1) = l
  <2>1. 1 \in 1..2 /\ 2 \in 1..2 /\ 1 \in 1..(d - c) /\ 2 \in 1..(d - c) /\ (c + 1) + 1 = c + 2
    BY <1>0, <1>s
  <2>2. bytes[c + 1] = u[1] /\ bytes[c + 2] = u[2]
    BY <1>2, <1>3, <2>1
  <2> QED BY <1>1, <2>1, <2>2 DEF LengthAt
<1>5. ASSUME NEW i \in 1..k
      PROVE  bytes[c + 2 + l + i] = tail[i]
  <2>1. 2 + l + i \in 1..(d - c) /\ c + (2 + l + i) = c + 2 + l + i
    BY <1>0, <1>s
  <2> QED BY <1>2, <1>3, <2>1
<1>6. StringAt(bytes, c + 1) = string
  <2>0. PICK x \in Int, y \in Int : x = c + 3 /\ y = c + 2 + l
    BY <1>0
  <2> DEFINE q == SubSeq(bytes, x, y)
  <2>1. StringAt(bytes, c + 1) = q
    <3>1. (c + 1) + 2 = x /\ (c + 1) + 1 + l = y
      BY <1>0, <2>0
    <3> HIDE DEF l
    <3> QED BY <1>4, <3>1 DEF StringAt
  <2>2. \A i \in x..y : bytes[i] \in Nat
    <3>1. \A i \in x..y : i \in 1..Len(bytes)
      BY <1>0, <1>s, <2>0
    <3> QED BY <3>1, ElementOfSeq
  <2>3. /\ q \in Seq(Nat) /\ Len(q) = IF x <= y THEN y - x + 1 ELSE 0
        /\ \A i \in 1..(y - x + 1) : q[i] = bytes[x + i - 1]
    BY ONLY <2>2, SubSeqProperties
  <2> HIDE DEF q
  <2>4. Len(q) = l
    BY <1>0, <2>0, <2>3
  <2>5. ASSUME NEW i \in 1..l
        PROVE  q[i] = string[i]
    <3>1. i \in 1..(y - x + 1) /\ x + i - 1 = c + (2 + i) /\ 2 + i \in 1..(d - c)
      BY <1>0, <1>s, <2>0
    <3> QED BY <1>2, <1>3, <2>3, <3>1
  <2>6. q = string
    BY <2>3, <2>4, <2>5, SeqEqual
  <2> QED BY <2>1, <2>6
<1> QED BY <1>4, <1>5, <1>6 DEF IsRead

\* And its size.
TailSize(withQoS) == IF withQoS THEN 1 ELSE 0

\* Each string of what is spelled is a step over a topic filter.
LEMMA SpelledSteps ==
  ASSUME NEW bytes \in Seq(Nat), NEW withQoS \in BOOLEAN, NEW strings \in Seq(Seq(Nat)),
         NEW end, EndsGrow(strings, TailSize(withQoS), end),
         SpellsAt(bytes, strings, Tails(withQoS), TailSize(withQoS), end),
         NEW n \in Nat, n < Len(strings)
  PROVE  /\ end[n] \in 0..Len(bytes) /\ end[n + 1] \in 0..Len(bytes)
         /\ end[n + 1] = end[n] + 2 + Len(strings[n + 1]) + TailSize(withQoS)
         /\ LengthAt(bytes, end[n] + 1) = Len(strings[n + 1])
         /\ StringAt(bytes, end[n] + 1) = strings[n + 1]
         /\ strings[n + 1] # <<>> =>
              <<end[n], end[n + 1]>> \in Pieces(bytes, Tails(withQoS), 1)
<1> DEFINE string == strings[n + 1]
           l == Len(string)
           size == TailSize(withQoS)
           c == end[n]
           d == end[n + 1]
           m == Len(bytes)
<1>0. m \in Nat /\ size \in Nat /\ Len(strings) \in Nat /\ n + 1 \in 1..Len(strings)
  BY LenProperties DEF TailSize
<1>1. string \in Seq(Nat) /\ l \in Nat
  <2>1. string \in Seq(Nat)
    BY <1>0, ElementOfSeq
  <2> QED BY <2>1, LenProperties
<1>2. c \in Nat /\ d \in Nat /\ c <= m /\ d <= m /\ d = c + 2 + l + size
  <2>1. n \in 0..Len(strings) /\ n + 1 \in 0..Len(strings)
    BY <1>0
  <2>2. m = end[Len(strings)]
    BY DEF SpellsAt
  <2>3. \A k \in 0..Len(strings) : end[k] \in Nat /\ end[k] <= m
    BY <2>2 DEF EndsGrow
  <2>4. d = c + 2 + l + size
    BY DEF EndsGrow
  <2> QED BY <2>1, <2>3, <2>4
<1>3. c \in 0..m /\ d \in 0..m
  BY <1>0, <1>2
<1>4. PICK tail \in Tails(withQoS) :
        Len(tail) = size /\ SubSeq(bytes, c + 1, d) = UInt16(l) \o string \o tail
  <2>1. n + 1 \in DOMAIN strings /\ (n + 1) - 1 = n
    BY <1>0
  <2>2. \E tail \in Tails(withQoS) :
           /\ Len(tail) = TailSize(withQoS)
           /\ SubSeq(bytes, end[(n + 1) - 1] + 1, end[n + 1])
                = UInt16(Len(strings[n + 1])) \o strings[n + 1] \o tail
    BY <2>1, Zenon DEF SpellsAt
  <2> QED BY <2>1, <2>2
<1>5. tail \in Seq(Nat) /\ (withQoS => tail[1] \in 0..2)
  <2>1. \A t \in QoSTails : t \in Seq(Nat) /\ t[1] \in 0..2
    <3>1. \A t : t \in QoSTails <=> \E q \in 0..2 : t = <<q>>
      <4>1. 0..2 = {0, 1, 2}
        OBVIOUS
      <4> QED BY <4>1 DEF QoSTails
    <3>2. \A q \in 0..2 : <<q>> \in Seq(Nat) /\ <<q>>[1] = q
      OBVIOUS
    <3> QED BY <3>1, <3>2
  <2>2. \A t \in NoTail : t \in Seq(Nat)
    BY DEF NoTail
  <2> QED BY <1>4, <2>1, <2>2 DEF Tails
<1> HIDE DEF string, c, d, size
<1>6. /\ LengthAt(bytes, c + 1) = l
      /\ StringAt(bytes, c + 1) = string
      /\ \A i \in 1..size : bytes[c + 2 + l + i] = tail[i]
  <2>1. IsSpelled(bytes, c, d, string, tail)
    BY <1>2, <1>4 DEF IsSpelled
  <2>2. IsRead(bytes, c, string, tail)
    BY <1>1, <1>3, <1>5, <2>1, SpelledPart
  <2> QED BY <1>4, <2>2 DEF IsRead
<1>7. ASSUME string # <<>>
      PROVE  <<c, d>> \in Pieces(bytes, Tails(withQoS), 1)
  <2>1. l >= 1
    <3>1. l # 0
      BY <1>1, <1>7, EmptySeq
    <3> QED BY <1>1, <3>1
  <2>2. CASE withQoS
    <3>1. size = 1 /\ Tails(withQoS) = QoSTails
      BY <2>2 DEF size, TailSize, Tails
    <3>2. d >= c + 3 + 1 /\ d = c + 3 + l /\ d = c + 2 + l + 1
      BY <1>1, <1>2, <2>1, <3>1
    <3>3. bytes[d] <= 2
      <4>1. bytes[d] = tail[1]
        BY <1>6, <3>1, <3>2
      <4> QED BY <1>5, <2>2, <4>1
    <3> HIDE DEF l, m
    <3> QED BY <1>3, <1>6, <3>1, <3>2, <3>3, QoSPieces DEF m
  <2>3. CASE ~withQoS
    <3>1. size = 0 /\ Tails(withQoS) = NoTail
      BY <2>3 DEF size, TailSize, Tails
    <3>2. d >= c + 2 + 1 /\ d = c + 2 + l
      BY <1>1, <1>2, <2>1, <3>1
    <3> HIDE DEF l, m
    <3> QED BY <1>3, <1>6, <3>1, <3>2, StringPieces DEF m
  <2> QED BY <2>2, <2>3
<1> QED BY <1>2, <1>3, <1>6, <1>7 DEF string, c, d, size

\* A message that says topic filters is counted to have as many.
THEOREM CountsWhatIsSaid ==
  ASSUME NEW bytes \in Seq(Nat), NEW withQoS \in BOOLEAN, NEW strings \in Seq(Seq(Nat)),
         strings # <<>>, <<>> \notin Range(strings),
         Spells(bytes, strings, Tails(withQoS), TailSize(withQoS))
  PROVE  CountTopicFilters(bytes, withQoS) = {Len(strings)}
<1> DEFINE L == Len(strings)
           m == Len(bytes)
           size == TailSize(withQoS)
<1>0. L \in Nat /\ L # 0 /\ L <= L /\ m \in Nat /\ size \in Nat
  BY LenProperties, EmptySeq DEF TailSize
<1>1. PICK end : EndsGrow(strings, size, end) /\ SpellsAt(bytes, strings, Tails(withQoS), size, end)
  BY <1>0, SpellsSteps
<1>2. PICK f : CountsFilters(bytes, withQoS, f)
  BY CountSteps
<1>3. ASSUME NEW n \in Nat, n < L
      PROVE  /\ end[n] \in 0..m /\ end[n + 1] \in 0..m
             /\ <<end[n], end[n + 1]>> \in Pieces(bytes, Tails(withQoS), 1)
  <2>1. strings[n + 1] # <<>>
    <3>1. n + 1 \in DOMAIN strings
      BY <1>0, <1>3
    <3>2. strings[n + 1] \in Range(strings)
      BY <3>1 DEF Range
    <3> QED BY <3>2
  <2> QED BY <1>1, <1>3, <2>1, SpelledSteps
<1>4. end[0] = 0 /\ end[L] = m
  BY <1>1 DEF EndsGrow, SpellsAt
<1>5. /\ bytes # <<>> => CountTopicFilters(bytes, withQoS) = f[1]
      /\ f[m + 1] = {0}
      /\ \A c \in 0..m : \A d : <<c, d>> \in Pieces(bytes, Tails(withQoS), 1) =>
                                  f[c + 1] = {k + 1 : k \in f[d + 1]}
  BY <1>2, Zenon DEF CountsFilters, CountsOn
<1> DEFINE K == {k \in Nat : f[end[L - k] + 1] = {k}}
<1>6. 0 \in K
  <2>1. L - 0 = L
    BY <1>0
  <2>2. f[end[L - 0] + 1] = {0}
    BY <1>4, <1>5, <2>1
  <2> QED BY <2>2
<1>7. ASSUME NEW k \in Nat, k < L, k \in K
      PROVE  k + 1 \in K
  <2> HIDE DEF L, m
  <2>1. PICK n \in Nat : n = L - (k + 1) /\ n < L /\ L - k = n + 1
    BY <1>0, <1>7
  <2>2. f[end[n + 1] + 1] = {k}
    BY <1>7, <2>1
  <2>3. f[end[n] + 1] = {j + 1 : j \in f[end[n + 1] + 1]}
    BY <1>3, <1>5, <2>1, Zenon
  <2>4. {j + 1 : j \in {k}} = {k + 1}
    OBVIOUS
  <2>5. f[end[n] + 1] = {k + 1}
    BY <2>2, <2>3, <2>4
  <2>6. f[end[L - (k + 1)] + 1] = {k + 1}
    BY <2>1, <2>5
  <2> QED BY <2>6
<1>8. L \in K
  <2> HIDE DEF K, L
  <2> QED BY <1>0, <1>6, <1>7, Induction
<1>9. f[1] = {L}
  <2>1. L - L = 0 /\ 0 + 1 = 1
    BY <1>0
  <2> QED BY <1>4, <1>8, <2>1
<1>10. bytes # <<>>
  <2>1. 0 < L /\ 0 \in Nat
    BY <1>0
  <2>2. end[1] \in 0..m /\ end[1] > 0
    <3>1. 0 + 1 = 1
      OBVIOUS
    <3>2. <<end[0], end[0 + 1]>> \in Pieces(bytes, Tails(withQoS), 1) /\ end[0 + 1] \in 0..m
      BY <1>3, <2>1
    <3>3. end[0] < end[0 + 1]
      BY <3>2, PiecesAreSteps DEF IsSteps, Tails
    <3> QED BY <1>4, <3>1, <3>2, <3>3
  <2>3. m # 0
    BY <1>0, <2>2
  <2> QED BY <2>3, EmptySeq
<1> QED BY <1>5, <1>9, <1>10

\* parse() of CONNECT succeeds exactly if the message is one.
LEMMA ParsesWellFormedConnect ==
  ASSUME NEW m \in ConnectMessages
  PROVE  ParsesConnect(m) <=> m.says # <<>>
<1> DEFINE number == 1 + (IF m.will THEN 2 ELSE 0) + (IF m.userName THEN 1 ELSE 0)
                       + (IF m.password THEN 1 ELSE 0)
<1>1. /\ m.payload \in Seq(Nat)
      /\ m.says # <<>> <=>
           /\ m.flags = 0 /\ m.whole /\ m.named /\ ~m.reserved
           /\ m.will => m.willQoS <= 2
           /\ ~m.will => m.willQoS = 0 /\ ~m.willRetain
           /\ CutsInto(m.payload, {number}, NoTail, 0)
  BY ConnectAssumption, Zenon
<1>2. number \in Nat /\ number # 0
  OBVIOUS
<1>3. ParsesConnect(m) <=>
        /\ m.flags = 0 /\ m.whole /\ m.named /\ ~m.reserved
        /\ IF m.will THEN m.willQoS <= 2 ELSE m.willQoS = 0 /\ ~m.willRetain
        /\ AfterStrings(m.payload, number) = {Len(m.payload) + 1}
  BY Zenon DEF ParsesConnect
<1> HIDE DEF number
<1>4. AfterStrings(m.payload, number) = {Len(m.payload) + 1} <=>
        CutsInto(m.payload, {number}, NoTail, 0)
  BY <1>1, <1>2, StringsAreCuts
<1>5. (IF m.will THEN m.willQoS <= 2 ELSE m.willQoS = 0 /\ ~m.willRetain) <=>
        (m.will => m.willQoS <= 2) /\ (~m.will => m.willQoS = 0 /\ ~m.willRetain)
  BY Zenon
<1> QED BY <1>1, <1>3, <1>4, <1>5, Zenon

\* parse() of SUBSCRIBE or UNSUBSCRIBE succeeds exactly if the message is one, and
\* counts the topic filters it has.
LEMMA ParsesWellFormedFilters ==
  ASSUME NEW withQoS \in BOOLEAN,
         NEW m \in IF withQoS THEN SubscribeMessages ELSE UnsubscribeMessages
  PROVE  /\ ParseFilters(m, withQoS) # {} <=> m.says # <<>>
         /\ m.says # <<>> => ParseFilters(m, withQoS) = {Len(m.says)}
<1>1. /\ m.payload \in Seq(Nat) /\ m.says \in Seq(Seq(Nat))
      /\ SaysFilters(m, Tails(withQoS), TailSize(withQoS))
  BY FiltersAssumption DEF Tails, TailSize
<1>2. CountTopicFilters(m.payload, withQoS) # {} <=>
        CutsInto(m.payload, 1..Len(m.payload), Tails(withQoS), 1)
  BY <1>1, FiltersAreCuts
<1> DEFINE header == m.flags = 2 /\ m.whole /\ m.packetId # 0
<1>3. ParseFilters(m, withQoS) = IF header THEN CountTopicFilters(m.payload, withQoS) ELSE {}
  BY DEF ParseFilters
<1>4. CASE m.says # <<>>
  <2>1. /\ header /\ <<>> \notin Range(m.says)
        /\ Spells(m.payload, m.says, Tails(withQoS), TailSize(withQoS))
    BY <1>1, <1>4, Zenon DEF SaysFilters
  <2>2. CountTopicFilters(m.payload, withQoS) = {Len(m.says)}
    BY <1>1, <1>4, <2>1, CountsWhatIsSaid
  <2> QED BY <1>3, <1>4, <2>1, <2>2
<1>5. CASE m.says = <<>>
  <2>1. ~(header /\ CutsInto(m.payload, 1..Len(m.payload), Tails(withQoS), 1))
    BY <1>1, <1>5, Zenon DEF SaysFilters
  <2> QED BY <1>2, <1>3, <1>5, <2>1
<1> QED BY <1>4, <1>5

-----------------------------------------------------------------------------

\* The parsers of CONNECT, SUBSCRIBE and UNSUBSCRIBE accept a message exactly if it is
\* one, whatever the number and the length of its strings.
THEOREM AlwaysAcceptsExactlyWellFormed == Spec => []AcceptsExactlyWellFormed
<1>1. Init => AcceptsExactlyWellFormed
  BY DEF Init, AcceptsExactlyWellFormed
<1>2. AcceptsExactlyWellFormed /\ [Next]_vars => AcceptsExactlyWellFormed'
  <2> SUFFICES ASSUME AcceptsExactlyWellFormed, [Next]_vars
               PROVE  AcceptsExactlyWellFormed'
    OBVIOUS
  <2>1. CASE UNCHANGED judged
    BY <2>1 DEF AcceptsExactlyWellFormed
  <2>2. ASSUME NEW m \in ConnectMessages, ConnectReceived(m)
        PROVE  AcceptsExactlyWellFormed'
    <3>1. judged' = [wellFormed |-> (m.says # <<>> /\ ~hasSession),
                     accepted |-> (ParsesConnect(m) /\ ~hasSession)]
      BY <2>2 DEF ConnectReceived, Judge
    <3>2. ParsesConnect(m) <=> m.says # <<>>
      BY ParsesWellFormedConnect
    <3> QED BY <3>1, <3>2 DEF AcceptsExactlyWellFormed
  <2>3. ASSUME NEW m \in SubscribeMessages, SubscribeReceived(m)
        PROVE  AcceptsExactlyWellFormed'
    <3>1. judged' = [wellFormed |-> (m.says # <<>> /\ hasSession),
                     accepted |-> ((IF hasSession THEN ParseFilters(m, TRUE) ELSE {}) # {})]
      BY <2>3 DEF SubscribeReceived, Judge
    <3>2. ParseFilters(m, TRUE) # {} <=> m.says # <<>>
      BY ParsesWellFormedFilters
    <3> QED BY <3>1, <3>2 DEF AcceptsExactlyWellFormed
  <2>4. ASSUME NEW m \in UnsubscribeMessages, UnsubscribeReceived(m)
        PROVE  AcceptsExactlyWellFormed'
    <3>1. judged' = [wellFormed |-> (m.says # <<>> /\ hasSession),
                     accepted |-> ((IF hasSession THEN ParseFilters(m, FALSE) ELSE {}) # {})]
      BY <2>4 DEF UnsubscribeReceived, Judge
    <3>2. ParseFilters(m, FALSE) # {} <=> m.says # <<>>
      BY ParsesWellFormedFilters
    <3> QED BY <3>1, <3>2 DEF AcceptsExactlyWellFormed
  <2>5. CASE MessageReceived
    <3>1. ASSUME NEW m \in OtherMessages, UNCHANGED judged
          PROVE  AcceptsExactlyWellFormed'
      BY <2>1, <3>1
    <3> QED BY <2>2, <2>3, <2>4, <2>5, <3>1 DEF MessageReceived
  <2>6. CASE \E topic \in Range(Topics), value \in Values : LeafSet(topic, value)
    BY <2>1, <2>6 DEF LeafSet
  <2>7. CASE UNCHANGED vars
    BY <2>1, <2>7 DEF vars
  <2> QED BY <2>5, <2>6, <2>7 DEF Next
<1> QED BY <1>1, <1>2, PTL DEF Spec

-----------------------------------------------------------------------------
(* The remaining length, written and read *)

\* Division with remainder.
LEMMA DivMod ==
  ASSUME NEW a \in Nat, NEW b \in Nat, b > 0
  PROVE  /\ a \div b \in Nat /\ a % b \in Nat
         /\ a % b < b
         /\ a = b * (a \div b) + (a % b)
  OBVIOUS

\* A product grows with its factor.
LEMMA TimesMonotone ==
  ASSUME NEW b \in Nat, NEW p \in Nat, NEW q \in Nat, p <= q
  PROVE  b * p <= b * q
  OBVIOUS

\* A quotient is as far below as the dividend.
LEMMA DivBelow ==
  ASSUME NEW a \in Nat, NEW b \in Nat, b > 0, NEW q \in Nat, a < b * q
  PROVE  a \div b < q
<1> DEFINE d == a \div b
<1>1. d \in Nat /\ b * d <= a
  BY DivMod
<1> HIDE DEF d
<1>2. q <= d => b * q <= b * d
  BY <1>1, TimesMonotone
<1>3. b * d \in Nat /\ b * q \in Nat
  BY <1>1
<1> QED BY <1>1, <1>2, <1>3 DEF d

\* A quotient is less than what is divided by two or more.
LEMMA DivLess ==
  ASSUME NEW a \in Nat, NEW b \in Nat, b >= 2, a > 0
  PROVE  a \div b < a
<1>1. b * a \in Nat /\ 2 * a <= b * a
  BY TimesMonotone
<1>2. a < b * a
  BY <1>1
<1> QED BY <1>2, DivBelow

\* A remainder is its own, and the last digit of its sum with the base.
LEMMA ModOfDigit ==
  ASSUME NEW a \in Nat, NEW b \in Nat, a < b
  PROVE  a % b = a /\ (b + a) % b = a
<1>1. a % b = a
  OBVIOUS
<1>2. (b + a) % b = a
  OBVIOUS
<1> QED BY <1>1, <1>2

\* The base of the digits is half that of the bytes.
LEMMA RadixIs ==
  /\ Radix \in Nat /\ Radix >= 2 /\ ByteRange \in Nat
  /\ ByteRange >= 2 * Radix /\ ByteRange <= 2 * Radix + 1
BY ByteAssumption DEF Radix

\* The function of RemainingLength.
DigitsAre(length, f) ==
  f = [n \in 0..length |->
         IF n < Radix THEN <<n>> ELSE <<Radix + (n % Radix)>> \o f[n \div Radix]]

\* RemainingLength takes the last value of such a function,
LEMMA RemainingLengthIs ==
  ASSUME NEW length
  PROVE  RemainingLength(length) = (CHOOSE f : DigitsAre(length, f))[length]
BY Zenon DEF RemainingLength, DigitsAre

\* and there is one.
LEMMA DigitsExist ==
  ASSUME NEW length \in Nat
  PROVE  \E f : DigitsAre(length, f)
<1> DEFINE S == {k \in Nat : \E f : DigitsAre(k, f)}
<1>0. Radix \in Nat /\ Radix >= 2
  BY RadixIs
<1>1. 0 \in S
  <2> DEFINE f == [n \in {0} |-> <<0>>]
  <2>1. 0..0 = {0} /\ 0 < Radix
    BY <1>0
  <2>2. f = [n \in 0..0 |-> IF n < Radix THEN <<n>> ELSE <<Radix + (n % Radix)>> \o f[n \div Radix]]
    BY <2>1
  <2> HIDE DEF f
  <2>3. DigitsAre(0, f)
    BY <2>2, Zenon DEF DigitsAre
  <2> QED BY <2>3
<1>2. ASSUME NEW k \in Nat, k < length, k \in S
      PROVE  k + 1 \in S
  <2>1. PICK f : DigitsAre(k, f)
    BY <1>2
  <2>2. \A n \in 0..k : f[n] = IF n < Radix THEN <<n>> ELSE <<Radix + (n % Radix)>> \o f[n \div Radix]
    BY <2>1, Zenon DEF DigitsAre
  <2> DEFINE Digits(n, h) == IF n < Radix THEN <<n>> ELSE <<Radix + (n % Radix)>> \o h[n \div Radix]
             g == [n \in 0..(k + 1) |-> IF n = k + 1 THEN Digits(k + 1, f) ELSE f[n]]
  <2>3. \A n \in 0..k : n \in 0..(k + 1) /\ n # k + 1 /\ g[n] = f[n]
    OBVIOUS
  <2>4. g[k + 1] = Digits(k + 1, f)
    OBVIOUS
  <2>5. ASSUME NEW n \in 0..(k + 1)
        PROVE  Digits(n, g) = Digits(n, f)
    <3>1. CASE n < Radix
      BY <3>1
    <3>2. CASE ~(n < Radix)
      <4>1. n > 0 /\ n \in Nat
        BY <1>0, <3>2
      <4>2. n \div Radix \in Nat /\ n \div Radix < n
        BY <1>0, <4>1, DivMod, DivLess
      <4>3. n \div Radix \in 0..k
        BY <4>2
      <4>4. g[n \div Radix] = f[n \div Radix]
        BY <2>3, <4>3
      <4> HIDE DEF g
      <4> QED BY <3>2, <4>4
    <3> QED BY <3>1, <3>2
  <2>6. ASSUME NEW n \in 0..(k + 1)
        PROVE  g[n] = Digits(n, g)
    <3>1. CASE n = k + 1
      <4> HIDE DEF g, Digits
      <4> QED BY <2>4, <2>5, <3>1
    <3>2. CASE n # k + 1
      <4>1. n \in 0..k
        BY <3>2
      <4>2. f[n] = Digits(n, f)
        BY <2>2, <4>1, Zenon
      <4> HIDE DEF g, Digits
      <4> QED BY <2>3, <2>5, <4>1, <4>2
    <3> QED BY <3>1, <3>2
  <2>7. g = [n \in 0..(k + 1) |-> g[n]]
    OBVIOUS
  <2> HIDE DEF g
  <2>8. g = [n \in 0..(k + 1) |-> Digits(n, g)]
    <3> HIDE DEF Digits
    <3> QED BY <2>6, <2>7, Zenon
  <2>9. DigitsAre(k + 1, g)
    BY <2>8, Zenon DEF DigitsAre
  <2> QED BY <2>9
<1>3. length <= length
  OBVIOUS
<1>4. length \in S
  <2> HIDE DEF S
  <2> QED BY <1>1, <1>2, <1>3, Induction
<1> QED BY <1>4

\* What is read of digits of a length: each but the last says that another one follows.
DigitOf(w, i) == IF i < Len(w) THEN w[i + 1] % Radix ELSE 0
ValueOf(w) == DigitOf(w, 0) + Radix * (DigitOf(w, 1) + Radix * (DigitOf(w, 2) + Radix * DigitOf(w, 3)))

IsLength(w, digits, length) ==
  /\ w \in Seq(Nat) /\ Len(w) \in 1..digits
  /\ \A i \in 1..(Len(w) - 1) : w[i] >= Radix
  /\ w[Len(w)] < Radix
  /\ ValueOf(w) = length

\* One digit is the length itself.
LEMMA OneDigit ==
  ASSUME NEW length \in Nat, length < Radix
  PROVE  IsLength(<<length>>, 1, length)
<1> DEFINE w == <<length>>
<1>0. Radix \in Nat
  BY RadixIs
<1>1. w \in Seq(Nat) /\ Len(w) = 1 /\ w[1] = length
  OBVIOUS
<1> HIDE DEF w
<1>2. length % Radix = length
  BY <1>0, ModOfDigit
<1>3. DigitOf(w, 0) = length /\ DigitOf(w, 1) = 0 /\ DigitOf(w, 2) = 0 /\ DigitOf(w, 3) = 0
  BY <1>1, <1>2 DEF DigitOf
<1>4. ValueOf(w) = length
  BY <1>0, <1>3 DEF ValueOf
<1>5. IsLength(w, 1, length)
  BY <1>1, <1>4 DEF IsLength
<1> QED BY <1>5 DEF w

\* One digit more in front of the digits of a quotient.
LEMMA OneMoreDigit ==
  ASSUME NEW length \in Nat, NEW w, NEW digits \in 1..3, IsLength(w, digits, length \div Radix)
  PROVE  IsLength(<<Radix + (length % Radix)>> \o w, digits + 1, length)
<1> DEFINE low == length % Radix
           first == <<Radix + low>>
           v == first \o w
           k == Len(w)
<1>0. Radix \in Nat /\ Radix >= 2
  BY RadixIs
<1>1. low \in Nat /\ low < Radix /\ length = Radix * (length \div Radix) + low
      /\ length \div Radix \in Nat
  BY <1>0, DivMod
<1>2. w \in Seq(Nat) /\ k \in 1..digits /\ (\A i \in 1..(k - 1) : w[i] >= Radix) /\ w[k] < Radix
      /\ ValueOf(w) = length \div Radix
  BY DEF IsLength
<1>3. first \in Seq(Nat) /\ Len(first) = 1 /\ first[1] = Radix + low
  BY <1>0, <1>1
<1> HIDE DEF first, low
<1>4. /\ v \in Seq(Nat) /\ Len(v) = 1 + k
      /\ \A i \in 1..(1 + k) : v[i] = IF i <= 1 THEN first[i] ELSE w[i - 1]
  <2>1. v \in Seq(Nat) /\ Len(v) = Len(first) + Len(w)
        /\ \A i \in 1..(Len(first) + Len(w)) : v[i] = IF i <= Len(first) THEN first[i] ELSE w[i - Len(first)]
    BY <1>2, <1>3, ConcatProperties
  <2> QED BY <1>3, <2>1
<1> HIDE DEF v
<1>5. k \in 1..3 /\ k \in Nat
  <2>1. k \in 1..digits
    BY <1>2
  <2> HIDE DEF k
  <2> QED BY <2>1
<1>6. v[1] = Radix + low
  BY <1>3, <1>4, <1>5
<1>7. \A i \in 1..k : v[i + 1] = w[i]
  BY <1>4, <1>5
<1> HIDE DEF k
<1>8. \A i \in 1..(Len(v) - 1) : v[i] >= Radix
  <2>1. ASSUME NEW i \in 1..(Len(v) - 1)
        PROVE  v[i] >= Radix
    <3>1. CASE i = 1
      BY <1>0, <1>1, <1>6, <3>1
    <3>2. CASE i # 1
      <4>1. i - 1 \in 1..(k - 1) /\ i - 1 \in 1..k /\ (i - 1) + 1 = i
        BY <1>4, <1>5, <3>2
      <4> QED BY <1>2, <1>7, <4>1
    <3> QED BY <3>1, <3>2
  <2> QED BY <2>1
<1>9. v[Len(v)] < Radix
  <2>1. Len(v) = k + 1 /\ k \in 1..k
    BY <1>4, <1>5
  <2> QED BY <1>2, <1>7, <2>1
<1>10. DigitOf(v, 0) = low
  <2>1. 0 < Len(v) /\ 0 + 1 = 1
    BY <1>4, <1>5
  <2>2. (Radix + low) % Radix = low
    BY <1>0, <1>1, ModOfDigit
  <2> QED BY <1>6, <2>1, <2>2 DEF DigitOf
<1>11. ASSUME NEW i \in 0..2
       PROVE  DigitOf(v, i + 1) = DigitOf(w, i)
  <2>1. i + 1 < Len(v) <=> i < Len(w)
    BY <1>4, <1>5 DEF k
  <2>2. i < Len(w) => v[(i + 1) + 1] = w[i + 1]
    <3>1. i < Len(w) => i + 1 \in 1..k
      BY <1>5 DEF k
    <3> QED BY <1>7, <3>1
  <2> QED BY <2>1, <2>2 DEF DigitOf
<1>12. DigitOf(w, 3) = 0
  BY <1>5 DEF DigitOf, k
<1>13. ValueOf(v) = length
  <2>1. DigitOf(v, 1) = DigitOf(w, 0) /\ DigitOf(v, 2) = DigitOf(w, 1) /\ DigitOf(v, 3) = DigitOf(w, 2)
    BY <1>11, 0 + 1 = 1, 1 + 1 = 2, 2 + 1 = 3
  <2>2. DigitOf(w, 2) \in Nat
    <3>1. 2 < k => w[3] % Radix \in Nat
      <4>1. 2 < k => 3 \in 1..k
        BY <1>5
      <4>2. 2 < k => w[3] \in Nat
        BY <1>2, <4>1, ElementOfSeq DEF k
      <4> QED BY <1>0, <4>2
    <3>2. 2 + 1 = 3
      OBVIOUS
    <3> QED BY <3>1, <3>2 DEF DigitOf, k
  <2>3. ValueOf(w) = DigitOf(w, 0) + Radix * (DigitOf(w, 1) + Radix * DigitOf(w, 2))
    <3>1. DigitOf(w, 2) + Radix * 0 = DigitOf(w, 2)
      BY <1>0, <2>2
    <3> QED BY <1>12, <3>1 DEF ValueOf
  <2>4. ValueOf(v) = low + Radix * ValueOf(w)
    BY <1>10, <2>1, <2>3 DEF ValueOf
  <2>5. Radix * (length \div Radix) \in Nat
    BY <1>0, <1>1
  <2> QED BY <1>1, <1>2, <2>4, <2>5
<1>14. IsLength(v, digits + 1, length)
  BY <1>4, <1>5, <1>2, <1>8, <1>9, <1>13 DEF IsLength
<1> QED BY <1>14 DEF v, first, low

\* One digit is not more than two.
LEMMA MoreDigitsAllowed ==
  ASSUME NEW w, NEW length, NEW digits \in 1..3, IsLength(w, 1, length)
  PROVE  IsLength(w, digits + 1, length)
<1>1. \A k \in 1..1 : k \in 1..(digits + 1)
  OBVIOUS
<1> QED BY <1>1, Zenon DEF IsLength

\* Four digits are enough.
LengthLimit == Radix * Radix * Radix * Radix

\* The digits written are read as the length they were written for.
THEOREM LengthIsRead ==
  ASSUME NEW length \in Nat, length < LengthLimit
  PROVE  IsLength(RemainingLength(length), 4, length)
<1>0. Radix \in Nat /\ Radix >= 2
  BY RadixIs
<1>1. PICK f : DigitsAre(length, f) /\ RemainingLength(length) = f[length]
  <2> DEFINE g == CHOOSE f : DigitsAre(length, f)
  <2>1. DigitsAre(length, g)
    BY DigitsExist, Zenon
  <2>2. RemainingLength(length) = g[length]
    BY RemainingLengthIs, Zenon
  <2> HIDE DEF g
  <2> QED BY <2>1, <2>2
<1>2. \A n \in 0..length :
        f[n] = IF n < Radix THEN <<n>> ELSE <<Radix + (n % Radix)>> \o f[n \div Radix]
  BY <1>1, Zenon DEF DigitsAre
<1> DEFINE Below(limit, digits) == \A n \in 0..length : n < limit => IsLength(f[n], digits, n)
<1>3. Below(Radix, 1)
  <2>1. ASSUME NEW n \in 0..length, n < Radix
        PROVE  IsLength(f[n], 1, n)
    <3>1. f[n] = <<n>>
      BY <1>2, <2>1
    <3>2. IsLength(<<n>>, 1, n)
      BY <2>1, OneDigit
    <3> QED BY <3>1, <3>2
  <2> QED BY <2>1
<1>4. ASSUME NEW limit \in Nat, NEW digits \in 1..3, Below(limit, digits)
      PROVE  Below(Radix * limit, digits + 1)
  <2>1. ASSUME NEW n \in 0..length, n < Radix * limit
        PROVE  IsLength(f[n], digits + 1, n)
    <3>1. CASE n < Radix
      <4>1. IsLength(f[n], 1, n)
        BY <1>3, <3>1
      <4> QED BY <4>1, MoreDigitsAllowed
    <3>2. CASE ~(n < Radix)
      <4>1. n \in Nat /\ n > 0
        BY <1>0, <3>2
      <4>2. n \div Radix < limit
        BY <1>0, <2>1, <4>1, DivBelow
      <4>3. n \div Radix \in Nat /\ n \div Radix < n
        BY <1>0, <4>1, DivMod, DivLess
      <4>4. n \div Radix \in 0..length
        BY <4>3
      <4>5. IsLength(f[n \div Radix], digits, n \div Radix)
        BY <1>4, <4>2, <4>4
      <4>6. IsLength(<<Radix + (n % Radix)>> \o f[n \div Radix], digits + 1, n)
        BY <4>1, <4>5, OneMoreDigit
      <4> QED BY <1>2, <3>2, <4>6
    <3> QED BY <3>1, <3>2
  <2> QED BY <2>1
<1> HIDE DEF Below
<1>5. Below(Radix * Radix, 2)
  BY <1>0, <1>3, <1>4, 1 + 1 = 2
<1>6. Radix * Radix \in Nat /\ Radix * (Radix * Radix) \in Nat
  BY <1>0
<1>7. Below(Radix * (Radix * Radix), 3)
  BY <1>4, <1>5, <1>6, 2 + 1 = 3
<1>8. Below(Radix * (Radix * (Radix * Radix)), 4)
  BY <1>4, <1>6, <1>7, 3 + 1 = 4
<1>9. LengthLimit = Radix * (Radix * (Radix * Radix))
  BY <1>0 DEF LengthLimit
<1> QED BY <1>1, <1>8, <1>9 DEF Below

-----------------------------------------------------------------------------
(* What a client reads of the bytes of messages *)

\* A message as a client reads it, and the bytes it is written as.
MessageRecords ==
  {r \in [type : 0..15, flags : 0..15, body : Seq(Nat)] : Len(r.body) < LengthLimit}
BytesOf(r) == Written(r.type, r.flags, Len(r.body), r.body)

\* Its digits and where they are.
LEMMA BytesAre ==
  ASSUME NEW r \in MessageRecords
  PROVE  LET w == RemainingLength(Len(r.body))
             k == Len(w)
             b == BytesOf(r)
         IN /\ IsLength(w, 4, Len(r.body)) /\ k \in 1..4 /\ w \in Seq(Nat)
            /\ r.body \in Seq(Nat) /\ Len(r.body) \in Nat
            /\ b \in Seq(Nat) /\ Len(b) = 1 + k + Len(r.body)
            /\ b[1] = r.type * 16 + r.flags
            /\ \A i \in 1..k : b[1 + i] = w[i]
            /\ \A i \in 1..Len(r.body) : b[1 + k + i] = r.body[i]
<1> DEFINE w == RemainingLength(Len(r.body))
           first == <<r.type * 16 + r.flags>>
<1>1. /\ r.type \in 0..15 /\ r.flags \in 0..15 /\ r.body \in Seq(Nat) /\ Len(r.body) < LengthLimit
      /\ Len(r.body) \in Nat
  BY LenProperties DEF MessageRecords
<1>2. IsLength(w, 4, Len(r.body))
  BY <1>1, LengthIsRead
<1>3. w \in Seq(Nat) /\ Len(w) \in 1..4
  <2> HIDE DEF w
  <2> QED BY <1>2 DEF IsLength
<1>4. first \in Seq(Nat) /\ Len(first) = 1 /\ first[1] = r.type * 16 + r.flags
  <2>1. \A t \in 0..15 : \A f \in 0..15 : t * 16 + f \in Nat
    OBVIOUS
  <2>2. r.type * 16 + r.flags \in Nat
    BY <1>1, <2>1, Zenon
  <2> HIDE DEF w
  <2> QED BY <2>2
<1>5. BytesOf(r) = first \o w \o r.body
  BY DEF BytesOf, Written
<1> HIDE DEF w, first
<1>6. PICK body \in Seq(Nat) : body = r.body
  BY <1>1
<1> DEFINE b == first \o w \o body
<1>7. /\ b \in Seq(Nat) /\ Len(b) = 1 + Len(w) + Len(body)
      /\ b[1] = first[1]
      /\ \A i \in 1..Len(w) : b[1 + i] = w[i]
      /\ \A i \in 1..Len(body) : b[1 + Len(w) + i] = body[i]
  <2>1. first \in Seq(Nat) /\ w \in Seq(Nat) /\ body \in Seq(Nat)
    BY <1>3, <1>4
  <2>2. /\ b \in Seq(Nat) /\ Len(b) = Len(first) + Len(w) + Len(body)
        /\ \A i \in 1..Len(first) : b[i] = first[i]
        /\ \A i \in 1..Len(w) : b[Len(first) + i] = w[i]
        /\ \A i \in 1..Len(body) : b[Len(first) + Len(w) + i] = body[i]
    BY ONLY <2>1, Three
  <2> HIDE DEF b
  <2>3. 1 \in 1..Len(first)
    BY <1>4
  <2> QED BY <1>4, <2>2, <2>3
<1> HIDE DEF b
<1> QED BY <1>1, <1>2, <1>3, <1>4, <1>5, <1>6, <1>7 DEF w, b

\* From c to d the bytes are a message.
Spans(bytes, c, d, r) ==
  /\ c \in 0..Len(bytes) /\ d \in 0..Len(bytes)
  /\ d = c + Len(BytesOf(r)) /\ SubSeq(bytes, c + 1, d) = BytesOf(r)

\* Where the body begins and where the next message does.
StartOf(bytes, pos) == pos + MoreDigits(bytes, pos) + 2
NextOf(bytes, pos) == StartOf(bytes, pos) + LengthSaid(bytes, pos, MoreDigits(bytes, pos))

\* The digits of a message are found,
LEMMA MoreDigitsIs ==
  ASSUME NEW bytes, NEW pos \in Nat, NEW more \in 0..3,
         \A i \in 1..more : pos + i <= Len(bytes) /\ bytes[pos + i] >= Radix,
         ~(bytes[pos + (more + 1)] >= Radix)
  PROVE  MoreDigits(bytes, pos) = more
<1> DEFINE S == {n \in 0..3 : \A i \in 1..n : pos + i <= Len(bytes) /\ bytes[pos + i] >= Radix}
<1>1. more \in S /\ S \in SUBSET (0..3)
  OBVIOUS
<1>2. ASSUME NEW y \in S
      PROVE  y <= more
  <2>1. CASE y > more
    <3>1. more + 1 \in 1..y
      BY <2>1
    <3> QED BY <3>1
  <2> QED BY <2>1
<1>3. MoreDigits(bytes, pos) = Max(S)
  BY DEF MoreDigits
<1> HIDE DEF S
<1>4. Max(S) \in S /\ \A k \in S : k <= Max(S)
  BY <1>1, MaxIs
<1>5. Max(S) <= more /\ more <= Max(S)
  BY <1>1, <1>2, <1>4
<1>6. Max(S) \in 0..3
  BY <1>1, <1>4
<1> QED BY <1>3, <1>5, <1>6

\* there are three at most,
LEMMA MoreDigitsType ==
  ASSUME NEW bytes, NEW pos \in Nat
  PROVE  /\ MoreDigits(bytes, pos) \in 0..3
         /\ \A i \in 1..MoreDigits(bytes, pos) : pos + i <= Len(bytes)
<1> DEFINE S == {n \in 0..3 : \A i \in 1..n : pos + i <= Len(bytes) /\ bytes[pos + i] >= Radix}
<1>1. 0 \in S /\ S \in SUBSET (0..3)
  OBVIOUS
<1>2. MoreDigits(bytes, pos) = Max(S)
  BY DEF MoreDigits
<1>3. Max(S) \in S
  <2> HIDE DEF S
  <2> QED BY <1>1, MaxIs
<1> QED BY <1>2, <1>3

\* and the length they say is a number.
LEMMA LengthSaidType ==
  ASSUME NEW bytes \in Seq(Nat), NEW pos \in Nat, NEW more \in 0..3, pos + more + 1 <= Len(bytes)
  PROVE  LengthSaid(bytes, pos, more) \in Nat
<1>0. Radix \in Nat /\ Radix >= 2 /\ Len(bytes) \in Nat
  BY RadixIs, LenProperties
<1>1. ASSUME NEW i \in 0..3
      PROVE  Digit(bytes, pos, more, i) \in Nat
  <2>1. CASE i <= more
    <3>1. pos + 1 + i \in 1..Len(bytes)
      BY <1>0, <2>1
    <3>2. bytes[pos + 1 + i] \in Nat
      BY <3>1, ElementOfSeq
    <3> QED BY <1>0, <2>1, <3>2 DEF Digit
  <2>2. CASE ~(i <= more)
    BY <2>2 DEF Digit
  <2> QED BY <2>1, <2>2
<1>2. PICK d0, d1, d2, d3 :
        /\ d0 = Digit(bytes, pos, more, 0) /\ d1 = Digit(bytes, pos, more, 1)
        /\ d2 = Digit(bytes, pos, more, 2) /\ d3 = Digit(bytes, pos, more, 3)
  OBVIOUS
<1>3. d0 \in Nat /\ d1 \in Nat /\ d2 \in Nat /\ d3 \in Nat
  BY <1>1, <1>2
<1>4. \A x \in Nat : \A y \in Nat : y + Radix * x \in Nat
  BY <1>0
<1>5. d2 + Radix * d3 \in Nat
  BY <1>3, <1>4, Zenon
<1>6. d1 + Radix * (d2 + Radix * d3) \in Nat
  BY <1>3, <1>4, <1>5, Zenon
<1>7. d0 + Radix * (d1 + Radix * (d2 + Radix * d3)) \in Nat
  BY <1>3, <1>4, <1>6, Zenon
<1> QED BY <1>2, <1>7 DEF LengthSaid

\* A message that is there is read.
LEMMA ReadThere ==
  ASSUME NEW bytes \in Seq(Nat), NEW r \in MessageRecords, NEW c, NEW d, Spans(bytes, c, d, r)
  PROVE  /\ StartOf(bytes, c + 1) <= Len(bytes) + 1 /\ NextOf(bytes, c + 1) = d + 1
         /\ MessageAt(bytes, c + 1, StartOf(bytes, c + 1), NextOf(bytes, c + 1)) = r
         /\ c < d /\ d \in 0..Len(bytes)
<1> DEFINE w == RemainingLength(Len(r.body))
           k == Len(w)
           l == Len(r.body)
           b == BytesOf(r)
           n == Len(bytes)
<1>0. Radix \in Nat /\ Radix >= 2 /\ n \in Nat
  BY RadixIs, LenProperties
<1>1. /\ IsLength(w, 4, l) /\ k \in 1..4 /\ w \in Seq(Nat)
      /\ r.body \in Seq(Nat) /\ l \in Nat
      /\ b \in Seq(Nat) /\ Len(b) = 1 + k + l
      /\ b[1] = r.type * 16 + r.flags
      /\ \A i \in 1..k : b[1 + i] = w[i]
      /\ \A i \in 1..l : b[1 + k + i] = r.body[i]
  BY BytesAre
<1> HIDE DEF w, k
<1>2. c \in 0..n /\ d \in 0..n /\ c \in Nat /\ d \in Nat /\ d <= n
  BY <1>0 DEF Spans
<1>s. d = c + 1 + k + l /\ SubSeq(bytes, c + 1, d) = b
  <2>1. d = c + Len(b) /\ SubSeq(bytes, c + 1, d) = b
    BY DEF Spans
  <2> HIDE DEF b, l
  <2> QED BY <1>1, <1>2, <2>1
<1> HIDE DEF l, b
<1>t. /\ c \in Nat /\ d \in Nat /\ k \in 1..4 /\ k \in Nat /\ l \in Nat /\ n \in Nat
      /\ d <= n /\ d = c + 1 + k + l
  BY <1>0, <1>1, <1>2, <1>s
<1>3. \A i \in 1..(1 + k + l) : bytes[c + i] = b[i]
  <2>1. c < d
    BY <1>1, <1>2, <1>s
  <2>2. \A i \in 1..(d - c) : SubSeq(bytes, c + 1, d)[i] = bytes[c + i]
    BY <1>2, <2>1, PartOfBytes
  <2>3. d - c = 1 + k + l
    BY <1>1, <1>2, <1>s
  <2> QED BY <1>s, <2>2, <2>3
<1>4. \A i \in 1..k : bytes[(c + 1) + i] = w[i]
  <2>1. ASSUME NEW i \in 1..k
        PROVE  bytes[(c + 1) + i] = w[i]
    <3>1. 1 + i \in 1..(1 + k + l) /\ c + (1 + i) = (c + 1) + i
      BY <1>1, <1>2
    <3> QED BY <1>1, <1>3, <3>1
  <2> QED BY <2>1
<1>5. MoreDigits(bytes, c + 1) = k - 1
  <2>1. k - 1 \in 0..3 /\ (k - 1) + 1 = k /\ k \in 1..k /\ c + 1 \in Nat
    BY <1>1, <1>2
  <2>2. ~(w[k] >= Radix)
    <3>1. w[k] < Radix /\ w[k] \in Nat
      BY <1>1, <2>1, ElementOfSeq DEF IsLength, k
    <3> QED BY <1>0, <3>1
  <2>3. ~(bytes[(c + 1) + ((k - 1) + 1)] >= Radix)
    BY <1>4, <2>1, <2>2
  <2>4. ASSUME NEW i \in 1..(k - 1)
        PROVE  (c + 1) + i <= Len(bytes) /\ bytes[(c + 1) + i] >= Radix
    <3>1. i \in 1..k /\ (c + 1) + i <= n
      <4> HIDE DEF n
      <4> QED BY ONLY <1>t, i \in 1..(k - 1)
    <3>2. w[i] >= Radix
      BY <1>1 DEF IsLength, k
    <3> QED BY <1>4, <3>1, <3>2
  <2> QED BY <2>1, <2>3, <2>4, MoreDigitsIs
<1>6. LengthSaid(bytes, c + 1, k - 1) = l
  <2>1. ASSUME NEW i \in 0..3
        PROVE  Digit(bytes, c + 1, k - 1, i) = DigitOf(w, i)
    <3>1. i <= k - 1 <=> i < Len(w)
      BY <1>1 DEF k
    <3>2. i < Len(w) => bytes[(c + 1) + 1 + i] = w[i + 1]
      <4>1. i < Len(w) => i + 1 \in 1..k
        BY <1>1 DEF k
      <4>2. (c + 1) + 1 + i = (c + 1) + (i + 1)
        BY <1>2
      <4> QED BY <1>4, <4>1, <4>2
    <3> QED BY <3>1, <3>2 DEF Digit, DigitOf
  <2>2. LengthSaid(bytes, c + 1, k - 1) = ValueOf(w)
    BY <2>1 DEF LengthSaid, ValueOf
  <2> QED BY <1>1, <2>2 DEF IsLength
<1>7. StartOf(bytes, c + 1) = c + k + 2 /\ NextOf(bytes, c + 1) = d + 1
  <2>1. (c + 1) + (k - 1) + 2 = c + k + 2 /\ c + k + 2 + l = d + 1
    BY <1>1, <1>2, <1>s
  <2> QED BY <1>5, <1>6, <2>1 DEF StartOf, NextOf
<1>8. c + k + 2 <= n + 1 /\ c < d
  BY <1>1, <1>2, <1>s
<1>9. bytes[c + 1] \div 16 = r.type /\ bytes[c + 1] % 16 = r.flags
  <2>1. bytes[c + 1] = r.type * 16 + r.flags
    <3>1. 1 \in 1..(1 + k + l)
      BY <1>1
    <3> QED BY <1>1, <1>3, <3>1
  <2>2. r.type \in 0..15 /\ r.flags \in 0..15
    BY DEF MessageRecords
  <2>3. \A t \in 0..15 : \A f \in 0..15 : (t * 16 + f) \div 16 = t /\ (t * 16 + f) % 16 = f
    OBVIOUS
  <2> QED BY <2>1, <2>2, <2>3, Zenon
<1>10. SubSeq(bytes, c + k + 2, (d + 1) - 1) = r.body
  <2>1. PICK x \in Int, y \in Int : x = c + k + 2 /\ y = (d + 1) - 1
    BY <1>1, <1>2
  <2> DEFINE q == SubSeq(bytes, x, y)
  <2>2. \A i \in x..y : bytes[i] \in Nat
    <3>1. \A i \in x..y : i \in 1..Len(bytes)
      BY <1>0, <1>1, <1>2, <2>1
    <3> QED BY <3>1, ElementOfSeq
  <2>3. /\ q \in Seq(Nat) /\ Len(q) = IF x <= y THEN y - x + 1 ELSE 0
        /\ \A i \in 1..(y - x + 1) : q[i] = bytes[x + i - 1]
    BY ONLY <2>2, SubSeqProperties
  <2> HIDE DEF q
  <2>4. Len(q) = l
    BY <1>1, <1>2, <1>s, <2>1, <2>3
  <2>5. ASSUME NEW i \in 1..l
        PROVE  q[i] = r.body[i]
    <3>1. i \in 1..(y - x + 1) /\ x + i - 1 = c + (1 + k + i) /\ 1 + k + i \in 1..(1 + k + l)
      BY ONLY <1>t, <2>1, i \in 1..l
    <3> QED BY <1>1, <1>3, <2>3, <3>1
  <2>6. q = r.body
    BY <1>1, <2>3, <2>4, <2>5, SeqEqual DEF l
  <2> QED BY <2>1, <2>6 DEF q
<1>11. MessageAt(bytes, c + 1, c + k + 2, d + 1) = r
  <2>1. r = [type |-> r.type, flags |-> r.flags, body |-> r.body]
    BY DEF MessageRecords
  <2> QED BY <1>9, <1>10, <2>1 DEF MessageAt
<1> QED BY <1>2, <1>7, <1>8, <1>11

\* The function of Messages, from a position on.
ReadFrom(bytes, pos, f) ==
  IF pos = Len(bytes) + 1 THEN <<>>
  ELSE IF StartOf(bytes, pos) > Len(bytes) + 1 \/ NextOf(bytes, pos) > Len(bytes) + 1 THEN <<Rest>>
  ELSE <<MessageAt(bytes, pos, StartOf(bytes, pos), NextOf(bytes, pos))>> \o f[NextOf(bytes, pos)]
MessagesFrom(bytes, first, f) ==
  f = [pos \in first..(Len(bytes) + 1) |-> ReadFrom(bytes, pos, f)]

\* Messages takes the first value of such a function,
LEMMA MessagesIs ==
  ASSUME NEW bytes
  PROVE  Messages(bytes) = (CHOOSE f : MessagesFrom(bytes, 1, f))[1]
BY Zenon DEF Messages, MessagesFrom, ReadFrom, StartOf, NextOf

\* which is determined by its values further on,
LEMMA ReadFromAhead ==
  ASSUME NEW bytes \in Seq(Nat), NEW pos \in 1..(Len(bytes) + 1), NEW f, NEW g,
         \A p \in (pos + 1)..(Len(bytes) + 1) : f[p] = g[p]
  PROVE  ReadFrom(bytes, pos, f) = ReadFrom(bytes, pos, g)
<1> DEFINE n == Len(bytes)
<1>0. n \in Nat /\ pos \in Nat
  BY LenProperties
<1>1. CASE pos = n + 1 \/ StartOf(bytes, pos) > n + 1 \/ NextOf(bytes, pos) > n + 1
  BY <1>1 DEF ReadFrom
<1>2. CASE ~(pos = n + 1 \/ StartOf(bytes, pos) > n + 1 \/ NextOf(bytes, pos) > n + 1)
  <2> DEFINE more == MoreDigits(bytes, pos)
  <2>1. more \in 0..3
    BY <1>0, MoreDigitsType
  <2> HIDE DEF more
  <2>2. StartOf(bytes, pos) = pos + more + 2
    BY DEF StartOf, more
  <2>3. pos + more + 1 <= n
    BY <1>0, <1>2, <2>1, <2>2
  <2>4. LengthSaid(bytes, pos, more) \in Nat
    BY <1>0, <2>1, <2>3, LengthSaidType
  <2>5. NextOf(bytes, pos) = pos + more + 2 + LengthSaid(bytes, pos, more)
    BY <2>2 DEF NextOf, more
  <2>6. NextOf(bytes, pos) \in (pos + 1)..(n + 1)
    BY <1>0, <1>2, <2>1, <2>4, <2>5
  <2>7. f[NextOf(bytes, pos)] = g[NextOf(bytes, pos)]
    BY <2>6
  <2> QED BY <2>7 DEF ReadFrom
<1> QED BY <1>1, <1>2

\* and there is one.
LEMMA MessagesExist ==
  ASSUME NEW bytes \in Seq(Nat)
  PROVE  \E f : MessagesFrom(bytes, 1, f)
<1> DEFINE m == Len(bytes)
           S == {k \in Nat : \E f : MessagesFrom(bytes, m + 1 - k, f)}
<1>0. m \in Nat /\ m <= m /\ m + 1 - m = 1 /\ m + 1 - 0 = m + 1 /\ 0 \in Nat
  BY LenProperties
<1>1. 0 \in S
  <2> DEFINE f == [pos \in {m + 1} |-> <<>>]
  <2>1. (m + 1)..(m + 1) = {m + 1}
    BY <1>0
  <2>2. \A pos \in {m + 1} : ReadFrom(bytes, pos, f) = <<>>
    BY DEF ReadFrom
  <2>3. f = [pos \in {m + 1} |-> ReadFrom(bytes, pos, f)]
    BY <2>2
  <2> HIDE DEF f
  <2>4. MessagesFrom(bytes, m + 1, f)
    BY <2>1, <2>3 DEF MessagesFrom
  <2>5. MessagesFrom(bytes, m + 1 - 0, f)
    BY <1>0, <2>4
  <2> QED BY <1>0, <2>5
<1>2. ASSUME NEW k \in Nat, k < m, k \in S
      PROVE  k + 1 \in S
  <2>1. PICK f : MessagesFrom(bytes, m + 1 - k, f)
    BY <1>2
  <2>2. PICK first \in Nat : first = m - k /\ m + 1 - k = first + 1 /\ m + 1 - (k + 1) = first
                             /\ first \in 1..m
    BY <1>0, <1>2
  <2>3. \A pos \in (first + 1)..(m + 1) : f[pos] = ReadFrom(bytes, pos, f)
    <3>1. MessagesFrom(bytes, first + 1, f)
      BY <2>1, <2>2
    <3> QED BY <3>1, Zenon DEF MessagesFrom
  <2> DEFINE g == [pos \in first..(m + 1) |-> IF pos = first THEN ReadFrom(bytes, pos, f) ELSE f[pos]]
  <2>4. \A pos \in (first + 1)..(m + 1) : pos \in first..(m + 1) /\ pos # first
    BY <1>0, <2>2
  <2>5. \A pos \in (first + 1)..(m + 1) : g[pos] = f[pos]
    BY <2>4
  <2>6. ASSUME NEW pos \in first..(m + 1)
        PROVE  ReadFrom(bytes, pos, g) = ReadFrom(bytes, pos, f)
    <3>1. pos \in 1..(Len(bytes) + 1)
      BY <1>0, <2>2
    <3>2. \A p \in (pos + 1)..(Len(bytes) + 1) : p \in (first + 1)..(m + 1)
      BY <1>0, <2>2
    <3> HIDE DEF g
    <3> QED BY <2>5, <3>1, <3>2, ReadFromAhead
  <2>7. ASSUME NEW pos \in first..(m + 1)
        PROVE  g[pos] = ReadFrom(bytes, pos, g)
    <3>1. CASE pos = first
      <4>1. g[pos] = ReadFrom(bytes, pos, f)
        BY <3>1
      <4> HIDE DEF g
      <4> QED BY <2>6, <4>1
    <3>2. CASE pos # first
      <4>1. pos \in (first + 1)..(m + 1)
        BY <1>0, <2>2, <3>2
      <4> HIDE DEF g
      <4> QED BY <2>3, <2>5, <2>6, <4>1
    <3> QED BY <3>1, <3>2
  <2>8. g = [pos \in first..(m + 1) |-> g[pos]]
    OBVIOUS
  <2> HIDE DEF g
  <2>9. MessagesFrom(bytes, first, g)
    BY <2>7, <2>8, Zenon DEF MessagesFrom
  <2>10. MessagesFrom(bytes, m + 1 - (k + 1), g)
    BY <2>2, <2>9
  <2> QED BY <2>10
<1>3. m \in S
  <2> HIDE DEF S, m
  <2> QED BY <1>0, <1>1, <1>2, Induction
<1>4. PICK f : MessagesFrom(bytes, m + 1 - m, f)
  BY <1>3
<1>5. MessagesFrom(bytes, 1, f)
  <2> HIDE DEF m
  <2> QED BY <1>0, <1>4
<1> QED BY <1>5

\* The bytes are those of these messages, one behind the other.
EndsAt(bytes, ms, end) ==
  /\ end[0] = 0 /\ end[Len(ms)] = Len(bytes)
  /\ \A n \in Nat : n < Len(ms) => Spans(bytes, end[n], end[n + 1], ms[n + 1])
ReadsAs(bytes, ms) == ms \in Seq(MessageRecords) /\ \E end : EndsAt(bytes, ms, end)

\* A client that takes such bytes apart gets these messages.
THEOREM MessagesAreRead ==
  ASSUME NEW bytes \in Seq(Nat), NEW ms, ReadsAs(bytes, ms)
  PROVE  Messages(bytes) = ms
<1> DEFINE m == Len(bytes)
           L == Len(ms)
<1>1. ms \in Seq(MessageRecords)
  BY DEF ReadsAs
<1>2. PICK end : EndsAt(bytes, ms, end)
  BY DEF ReadsAs
<1>0. m \in Nat /\ L \in Nat /\ L <= L
  BY <1>1, LenProperties
<1>3. PICK f : MessagesFrom(bytes, 1, f) /\ Messages(bytes) = f[1]
  <2> DEFINE g == CHOOSE f : MessagesFrom(bytes, 1, f)
  <2>1. MessagesFrom(bytes, 1, g)
    BY MessagesExist, Zenon
  <2>2. Messages(bytes) = g[1]
    BY MessagesIs, Zenon
  <2> HIDE DEF g
  <2> QED BY <2>1, <2>2
<1>4. \A pos \in 1..(m + 1) : f[pos] = ReadFrom(bytes, pos, f)
  BY <1>3, Zenon DEF MessagesFrom
<1>5. end[0] = 0 /\ end[L] = m
  BY <1>2 DEF EndsAt
<1>6. ASSUME NEW n \in Nat, n < L
      PROVE  f[end[n] + 1] = <<ms[n + 1]>> \o f[end[n + 1] + 1]
  <2>1. Spans(bytes, end[n], end[n + 1], ms[n + 1])
    BY <1>2, <1>6 DEF EndsAt
  <2>2. ms[n + 1] \in MessageRecords
    <3>1. n + 1 \in 1..L
      BY <1>0, <1>6
    <3> QED BY <1>1, <3>1, ElementOfSeq
  <2> DEFINE pos == end[n] + 1
  <2>3. /\ StartOf(bytes, pos) <= m + 1 /\ NextOf(bytes, pos) = end[n + 1] + 1
        /\ MessageAt(bytes, pos, StartOf(bytes, pos), NextOf(bytes, pos)) = ms[n + 1]
        /\ end[n] < end[n + 1] /\ end[n + 1] \in 0..m
    BY <2>1, <2>2, ReadThere
  <2>4. end[n] \in 0..m
    BY <2>1 DEF Spans
  <2>5. pos \in 1..(m + 1) /\ pos # m + 1 /\ ~(NextOf(bytes, pos) > m + 1)
    BY <1>0, <2>3, <2>4
  <2>6. ~(StartOf(bytes, pos) > m + 1)
    <3>1. StartOf(bytes, pos) \in Int
      <4>1. MoreDigits(bytes, pos) \in 0..3
        BY <2>5, MoreDigitsType
      <4> QED BY <2>5, <4>1 DEF StartOf
    <3> QED BY <1>0, <2>3, <3>1
  <2>7. f[pos] = ReadFrom(bytes, pos, f)
    BY <1>4, <2>5
  <2> HIDE DEF pos, m
  <2> QED BY <2>3, <2>5, <2>6, <2>7 DEF ReadFrom, pos, m
<1> DEFINE K == {k \in Nat : k <= L => f[end[L - k] + 1] = SubSeq(ms, L - k + 1, L)}
<1>7. 0 \in K
  <2>1. L - 0 = L /\ L < L + 1 /\ m + 1 \in 1..(m + 1)
    BY <1>0
  <2>2. f[m + 1] = <<>>
    BY <1>4, <2>1 DEF ReadFrom
  <2>3. SubSeq(ms, L + 1, L) = <<>>
    BY <1>0, <2>1, SubSeqEmpty
  <2>4. f[end[L - 0] + 1] = SubSeq(ms, L - 0 + 1, L)
    BY <1>5, <2>1, <2>2, <2>3
  <2> QED BY <2>4
<1>8. ASSUME NEW k \in Nat, k < L, k \in K
      PROVE  k + 1 \in K
  <2> HIDE DEF L, m
  <2>1. PICK n \in Nat : n = L - (k + 1) /\ n < L /\ L - k = n + 1 /\ n + 1 \in 1..L /\ L \in (n + 1)..L
    BY <1>0, <1>8
  <2>2. f[end[n + 1] + 1] = SubSeq(ms, (n + 1) + 1, L)
    BY <1>0, <1>8, <2>1
  <2>3. f[end[n] + 1] = <<ms[n + 1]>> \o SubSeq(ms, (n + 1) + 1, L)
    BY <1>6, <2>1, <2>2
  <2>4. SubSeq(ms, n + 1, L) = <<ms[n + 1]>> \o SubSeq(ms, (n + 1) + 1, L)
    BY <1>1, <2>1, SubSeqRecursiveFirst DEF L
  <2>5. f[end[L - (k + 1)] + 1] = SubSeq(ms, L - (k + 1) + 1, L)
    BY <2>1, <2>3, <2>4
  <2> QED BY <2>5
<1>9. L \in K
  <2> HIDE DEF K, L
  <2> QED BY <1>0, <1>7, <1>8, Induction
<1>10. f[0 + 1] = SubSeq(ms, 0 + 1, L)
  <2>1. L - L = 0
    BY <1>0
  <2> QED BY <1>0, <1>5, <1>9, <2>1
<1>11. SubSeq(ms, 1, L) = ms
  BY <1>1, SubSeqFull
<1>12. 0 + 1 = 1
  OBVIOUS
<1> QED BY <1>3, <1>10, <1>11, <1>12

-----------------------------------------------------------------------------
(* Sequences, element by element *)

\* A set with the empty sequence, and with every sequence the one with another element
\* behind it, contains all.
LEMMA SeqInduction ==
  ASSUME NEW T, NEW S, <<>> \in S,
         \A s \in Seq(T) : \A e \in T : s \in S => Append(s, e) \in S
  PROVE  \A s \in Seq(T) : s \in S
<1> SUFFICES ASSUME NEW seq \in Seq(T) PROVE seq \in S
  OBVIOUS
<1> DEFINE K == {k \in Nat : \A s \in Seq(T) : Len(s) = k => s \in S}
           n == Len(seq)
<1>0. n \in Nat /\ n <= n
  BY LenProperties
<1>1. 0 \in K
  <2>1. \A s \in Seq(T) : Len(s) = 0 => s = <<>>
    BY EmptySeq
  <2> QED BY <2>1
<1>2. ASSUME NEW k \in Nat, k < n, k \in K
      PROVE  k + 1 \in K
  <2>1. ASSUME NEW s \in Seq(T), Len(s) = k + 1
        PROVE  s \in S
    <3>1. s # <<>>
      <4>1. k + 1 # 0
        OBVIOUS
      <4> QED BY <2>1, <4>1, EmptySeq
    <3>2. PICK front \in Seq(T), e \in T : s = Append(front, e)
      BY <3>1, SequenceEmptyOrAppend
    <3>3. Len(front) = k
      <4>1. Len(s) = Len(front) + 1 /\ Len(front) \in Nat
        BY <3>2, AppendProperties, LenProperties
      <4> QED BY <2>1, <4>1
    <3> QED BY <1>2, <3>2, <3>3
  <2> QED BY <2>1
<1>3. n \in K
  <2> HIDE DEF K, n
  <2> QED BY <1>0, <1>1, <1>2, Induction
<1> QED BY <1>3

\* The function of FlattenSeq.
FlattensAs(s, f) == f = [i \in 1..Len(s) |-> IF i = 1 THEN s[i] ELSE f[i - 1] \o s[i]]

\* FlattenSeq takes the last value of such a function,
LEMMA FlattenIs ==
  ASSUME NEW s
  PROVE  FlattenSeq(s) = IF Len(s) = 0 THEN s ELSE (CHOOSE f : FlattensAs(s, f))[Len(s)]
BY Zenon DEF FlattenSeq, FlattensAs

\* and there is one,
LEMMA FlattenExists ==
  ASSUME NEW T, NEW s \in Seq(T)
  PROVE  \E f : FlattensAs(s, f)
<1> DEFINE S == {t \in Seq(T) : \E f : FlattensAs(t, f)}
<1>1. <<>> \in S
  <2> DEFINE f == [i \in {} |-> <<>>]
  <2>1. <<>> \in Seq(T) /\ 1..Len(<<>>) = {}
    BY EmptySeq
  <2>2. f = [i \in 1..Len(<<>>) |-> IF i = 1 THEN <<>>[i] ELSE f[i - 1] \o <<>>[i]]
    BY <2>1
  <2> HIDE DEF f
  <2>3. FlattensAs(<<>>, f)
    BY <2>2, Zenon DEF FlattensAs
  <2> QED BY <2>1, <2>3
<1>2. ASSUME NEW t \in Seq(T), NEW e \in T, t \in S
      PROVE  Append(t, e) \in S
  <2>1. PICK f : FlattensAs(t, f)
    BY <1>2
  <2>2. PICK n \in Nat : n = Len(t)
    BY LenProperties
  <2>3. PICK u \in Seq(T) : u = Append(t, e) /\ Len(u) = n + 1 /\ \A i \in 1..n : u[i] = t[i]
    <3>1. /\ Append(t, e) \in Seq(T) /\ Len(Append(t, e)) = Len(t) + 1
          /\ \A i \in 1..Len(t) : Append(t, e)[i] = t[i]
      BY AppendProperties
    <3> QED BY <2>2, <3>1
  <2> DEFINE last == IF n + 1 = 1 THEN u[n + 1] ELSE f[n] \o u[n + 1]
             g == [i \in 1..(n + 1) |-> IF i = n + 1 THEN last ELSE f[i]]
  <2>4. \A i \in 1..n : f[i] = IF i = 1 THEN t[i] ELSE f[i - 1] \o t[i]
    BY <2>1, <2>2, Zenon DEF FlattensAs
  <2>5. ASSUME NEW i \in 1..(n + 1)
        PROVE  g[i] = IF i = 1 THEN u[i] ELSE g[i - 1] \o u[i]
    <3>1. CASE i = n + 1
      <4>1. g[i] = last
        BY <3>1
      <4>2. i # 1 => g[i - 1] = f[n]
        <5>1. i # 1 => i - 1 \in 1..(n + 1) /\ i - 1 = n /\ n # n + 1
          BY <3>1
        <5> QED BY <5>1
      <4> HIDE DEF g
      <4> QED BY <3>1, <4>1, <4>2
    <3>2. CASE i # n + 1
      <4>1. i \in 1..n
        BY <3>2
      <4>2. g[i] = f[i]
        BY <3>2
      <4>3. i # 1 => g[i - 1] = f[i - 1]
        <5>1. i # 1 => i - 1 \in 1..(n + 1) /\ i - 1 # n + 1
          BY <4>1
        <5> QED BY <5>1
      <4> HIDE DEF g
      <4> QED BY <2>3, <2>4, <4>1, <4>2, <4>3
    <3> QED BY <3>1, <3>2
  <2>6. g = [i \in 1..(n + 1) |-> g[i]]
    OBVIOUS
  <2> HIDE DEF g
  <2>7. FlattensAs(u, g)
    BY <2>3, <2>5, <2>6, Zenon DEF FlattensAs
  <2> QED BY <2>3, <2>7
<1> HIDE DEF S
<1>3. s \in S
  BY <1>1, <1>2, SeqInduction
<1> QED BY <1>3 DEF S

\* which does not depend on what comes behind.
LEMMA FlattenSame ==
  ASSUME NEW T, NEW s \in Seq(T), NEW e \in T, NEW f, NEW g,
         FlattensAs(s, f), FlattensAs(Append(s, e), g)
  PROVE  \A i \in 1..Len(s) : f[i] = g[i]
<1> DEFINE n == Len(s)
           u == Append(s, e)
           K == {k \in Nat : k = 0 \/ f[k] = g[k]}
<1>0. n \in Nat
  BY LenProperties
<1>1. Len(u) = n + 1 /\ \A i \in 1..n : u[i] = s[i]
  BY AppendProperties
<1>2. \A i \in 1..n : f[i] = IF i = 1 THEN s[i] ELSE f[i - 1] \o s[i]
  BY Zenon DEF FlattensAs
<1>3. \A i \in 1..(n + 1) : g[i] = IF i = 1 THEN u[i] ELSE g[i - 1] \o u[i]
  BY <1>1, Zenon DEF FlattensAs
<1> HIDE DEF u
<1>4. 0 \in K
  OBVIOUS
<1>5. ASSUME NEW k \in Nat, k < n, k \in K
      PROVE  k + 1 \in K
  <2> HIDE DEF n
  <2>1. k + 1 \in 1..n /\ k + 1 \in 1..(n + 1) /\ (k + 1) - 1 = k /\ (k + 1 = 1 <=> k = 0)
    BY <1>0, <1>5
  <2>2. f[k + 1] = IF k + 1 = 1 THEN s[k + 1] ELSE f[k] \o s[k + 1]
    BY <1>2, <2>1
  <2>3. g[k + 1] = IF k + 1 = 1 THEN s[k + 1] ELSE g[k] \o s[k + 1]
    BY <1>1, <1>3, <2>1
  <2>4. k + 1 # 1 => f[k] = g[k]
    BY <1>5, <2>1
  <2>5. f[k + 1] = g[k + 1]
    BY <2>2, <2>3, <2>4
  <2> QED BY <2>5
<1>6. \A k \in Nat : k <= n => k \in K
  <2> HIDE DEF K, n
  <2> QED BY <1>0, <1>4, <1>5, Induction
<1> QED BY <1>0, <1>6

\* So it puts the elements behind each other, one by one.
LEMMA FlattenAppend ==
  ASSUME NEW T, NEW s \in Seq(Seq(T)), NEW e \in Seq(T)
  PROVE  FlattenSeq(Append(s, e)) = FlattenSeq(s) \o e
<1> DEFINE u == Append(s, e)
           n == Len(s)
           f == CHOOSE f : FlattensAs(s, f)
           g == CHOOSE g : FlattensAs(u, g)
<1>0. n \in Nat
  BY LenProperties
<1>1. u \in Seq(Seq(T)) /\ Len(u) = n + 1 /\ u[n + 1] = e /\ Len(u) # 0
  <2>1. u \in Seq(Seq(T)) /\ Len(u) = n + 1 /\ u[n + 1] = e
    BY AppendProperties
  <2> HIDE DEF u, n
  <2> QED BY <1>0, <2>1
<1>2. FlattensAs(s, f) /\ FlattensAs(u, g)
  <2>1. FlattensAs(s, f)
    BY FlattenExists, Zenon
  <2> HIDE DEF u
  <2>2. FlattensAs(u, g)
    BY <1>1, FlattenExists, Zenon
  <2> QED BY <2>1, <2>2
<1>3. FlattenSeq(u) = g[n + 1] /\ (n # 0 => FlattenSeq(s) = f[n])
  <2>1. FlattenSeq(u) = IF Len(u) = 0 THEN u ELSE g[Len(u)]
    BY FlattenIs, Zenon
  <2>2. FlattenSeq(s) = IF Len(s) = 0 THEN s ELSE f[Len(s)]
    BY FlattenIs, Zenon
  <2> HIDE DEF u, f, g
  <2> QED BY <1>1, <2>1, <2>2
<1> HIDE DEF f, g
<1>4. g[n + 1] = IF n + 1 = 1 THEN u[n + 1] ELSE g[(n + 1) - 1] \o u[n + 1]
  <2>1. n + 1 \in 1..Len(u)
    BY <1>0, <1>1
  <2> HIDE DEF u, n
  <2> QED BY <1>2, <2>1, Zenon DEF FlattensAs
<1>5. CASE n = 0
  <2>1. s = <<>>
    BY <1>5, EmptySeq
  <2>2. FlattenSeq(s) = <<>>
    BY <1>5, <2>1, FlattenIs
  <2>3. n + 1 = 1
    BY <1>5
  <2>4. FlattenSeq(u) = e
    BY <1>1, <1>3, <1>4, <2>3
  <2>5. <<>> \o e = e
    BY ConcatEmptySeq
  <2> QED BY <2>2, <2>4, <2>5
<1>6. CASE n # 0
  <2>1. n \in 1..n /\ (n + 1) - 1 = n /\ n + 1 # 1
    BY <1>0, <1>6
  <2>2. f[n] = g[n]
    BY <1>2, <2>1, FlattenSame
  <2> HIDE DEF u, n
  <2> QED BY <1>1, <1>3, <1>4, <1>6, <2>1, <2>2 DEF u
<1> QED BY <1>5, <1>6

\* And it is a sequence of what they are sequences of.
LEMMA FlattenType ==
  ASSUME NEW T
  PROVE  /\ FlattenSeq(<<>>) = <<>>
         /\ \A s \in Seq(Seq(T)) : FlattenSeq(s) \in Seq(T)
<1>1. FlattenSeq(<<>>) = <<>>
  BY FlattenIs, EmptySeq
<1> DEFINE S == {s \in Seq(Seq(T)) : FlattenSeq(s) \in Seq(T)}
<1>2. <<>> \in S
  BY <1>1, EmptySeq
<1>3. ASSUME NEW s \in Seq(Seq(T)), NEW e \in Seq(T), s \in S
      PROVE  Append(s, e) \in S
  <2>1. FlattenSeq(Append(s, e)) = FlattenSeq(s) \o e
    BY FlattenAppend
  <2>2. FlattenSeq(s) \o e \in Seq(T)
    BY <1>3, ConcatProperties
  <2> QED BY <2>1, <2>2, AppendProperties
<1> HIDE DEF S
<1>4. \A s \in Seq(Seq(T)) : s \in S
  BY <1>2, <1>3, SeqInduction
<1> QED BY <1>1, <1>4 DEF S

\* The function of Only.
OnlyAs(seq, set, f) ==
  f = [n \in 0..Len(seq) |->
         IF n = 0 THEN <<>> ELSE IF seq[n] \in set THEN Append(f[n - 1], seq[n]) ELSE f[n - 1]]

\* Only takes the last value of such a function,
LEMMA OnlyIs ==
  ASSUME NEW seq, NEW set
  PROVE  Only(seq, set) = (CHOOSE f : OnlyAs(seq, set, f))[Len(seq)]
BY Zenon DEF Only, OnlyAs

\* and there is one,
LEMMA OnlyExists ==
  ASSUME NEW T, NEW seq \in Seq(T), NEW set
  PROVE  \E f : OnlyAs(seq, set, f)
<1> DEFINE S == {t \in Seq(T) : \E f : OnlyAs(t, set, f)}
<1>1. <<>> \in S
  <2> DEFINE f == [n \in 0..0 |-> <<>>]
  <2>1. <<>> \in Seq(T) /\ Len(<<>>) = 0
    BY EmptySeq
  <2>2. \A n \in 0..0 : n = 0 /\ f[n] = <<>>
    OBVIOUS
  <2>3. f = [n \in 0..0 |-> f[n]]
    OBVIOUS
  <2> HIDE DEF f
  <2>4. OnlyAs(<<>>, set, f)
    BY <2>1, <2>2, <2>3, Zenon DEF OnlyAs
  <2> QED BY <2>1, <2>4
<1>2. ASSUME NEW t \in Seq(T), NEW e \in T, t \in S
      PROVE  Append(t, e) \in S
  <2>1. PICK f : OnlyAs(t, set, f)
    BY <1>2
  <2>2. PICK n \in Nat : n = Len(t)
    BY LenProperties
  <2>3. PICK u \in Seq(T) : u = Append(t, e) /\ Len(u) = n + 1 /\ \A i \in 1..n : u[i] = t[i]
    <3>1. /\ Append(t, e) \in Seq(T) /\ Len(Append(t, e)) = Len(t) + 1
          /\ \A i \in 1..Len(t) : Append(t, e)[i] = t[i]
      BY AppendProperties
    <3> QED BY <2>2, <3>1
  <2> DEFINE last == IF u[n + 1] \in set THEN Append(f[n], u[n + 1]) ELSE f[n]
             g == [i \in 0..(n + 1) |-> IF i = n + 1 THEN last ELSE f[i]]
  <2>4. \A i \in 0..n : f[i] = IF i = 0 THEN <<>>
                               ELSE IF t[i] \in set THEN Append(f[i - 1], t[i]) ELSE f[i - 1]
    BY <2>1, <2>2, Zenon DEF OnlyAs
  <2>5. ASSUME NEW i \in 0..(n + 1)
        PROVE  g[i] = IF i = 0 THEN <<>>
                      ELSE IF u[i] \in set THEN Append(g[i - 1], u[i]) ELSE g[i - 1]
    <3>1. CASE i = n + 1
      <4>1. i # 0 /\ i - 1 \in 0..(n + 1) /\ i - 1 = n /\ n # n + 1
        BY <3>1
      <4>2. g[i] = last /\ g[i - 1] = f[n]
        BY <3>1, <4>1
      <4> HIDE DEF g
      <4> QED BY <3>1, <4>1, <4>2
    <3>2. CASE i # n + 1
      <4>1. i \in 0..n /\ (i # 0 => i \in 1..n)
        BY <3>2
      <4>2. g[i] = f[i]
        BY <3>2
      <4>3. i # 0 => g[i - 1] = f[i - 1]
        <5>1. i # 0 => i - 1 \in 0..(n + 1) /\ i - 1 # n + 1
          BY <4>1
        <5> QED BY <5>1
      <4> HIDE DEF g
      <4> QED BY <2>3, <2>4, <4>1, <4>2, <4>3
    <3> QED BY <3>1, <3>2
  <2>6. g = [i \in 0..(n + 1) |-> g[i]]
    OBVIOUS
  <2> HIDE DEF g
  <2>7. OnlyAs(u, set, g)
    BY <2>3, <2>5, <2>6, Zenon DEF OnlyAs
  <2> QED BY <2>3, <2>7
<1> HIDE DEF S
<1>3. seq \in S
  BY <1>1, <1>2, SeqInduction
<1> QED BY <1>3 DEF S

\* which does not depend on what comes behind.
LEMMA OnlySame ==
  ASSUME NEW T, NEW s \in Seq(T), NEW e \in T, NEW set, NEW f, NEW g,
         OnlyAs(s, set, f), OnlyAs(Append(s, e), set, g)
  PROVE  \A i \in 0..Len(s) : f[i] = g[i]
<1> DEFINE n == Len(s)
           u == Append(s, e)
           K == {k \in Nat : f[k] = g[k]}
<1>0. n \in Nat
  BY LenProperties
<1>1. Len(u) = n + 1 /\ \A i \in 1..n : u[i] = s[i]
  BY AppendProperties
<1>2. \A i \in 0..n : f[i] = IF i = 0 THEN <<>>
                             ELSE IF s[i] \in set THEN Append(f[i - 1], s[i]) ELSE f[i - 1]
  BY Zenon DEF OnlyAs
<1>3. \A i \in 0..(n + 1) : g[i] = IF i = 0 THEN <<>>
                                   ELSE IF u[i] \in set THEN Append(g[i - 1], u[i]) ELSE g[i - 1]
  BY <1>1, Zenon DEF OnlyAs
<1> HIDE DEF u, n
<1>4. 0 \in K
  <2>1. 0 \in 0..n /\ 0 \in 0..(n + 1)
    BY <1>0
  <2>2. f[0] = <<>> /\ g[0] = <<>>
    BY <1>2, <1>3, <2>1
  <2> QED BY <2>2
<1>5. ASSUME NEW k \in Nat, k < n, k \in K
      PROVE  k + 1 \in K
  <2>1. /\ k + 1 \in 1..n /\ k + 1 \in 0..n /\ k + 1 \in 0..(n + 1)
        /\ (k + 1) - 1 = k /\ k + 1 # 0
    BY <1>0, <1>5
  <2>2. f[k + 1] = IF s[k + 1] \in set THEN Append(f[k], s[k + 1]) ELSE f[k]
    BY <1>2, <2>1
  <2>3. g[k + 1] = IF s[k + 1] \in set THEN Append(g[k], s[k + 1]) ELSE g[k]
    BY <1>1, <1>3, <2>1
  <2>4. f[k] = g[k]
    BY <1>5
  <2>5. f[k + 1] = g[k + 1]
    BY <2>2, <2>3, <2>4
  <2> QED BY <2>5
<1>6. \A k \in Nat : k <= n => k \in K
  <2> HIDE DEF K
  <2> QED BY <1>0, <1>4, <1>5, Induction
<1> QED BY <1>0, <1>6 DEF n

\* So it takes the elements one by one.
LEMMA OnlyAppend ==
  ASSUME NEW T, NEW s \in Seq(T), NEW e \in T, NEW set
  PROVE  Only(Append(s, e), set) =
           IF e \in set THEN Append(Only(s, set), e) ELSE Only(s, set)
<1> DEFINE u == Append(s, e)
           n == Len(s)
           f == CHOOSE f : OnlyAs(s, set, f)
           g == CHOOSE g : OnlyAs(u, set, g)
<1>0. n \in Nat
  BY LenProperties
<1>1. u \in Seq(T) /\ Len(u) = n + 1 /\ u[n + 1] = e
  BY AppendProperties
<1>2. OnlyAs(s, set, f) /\ OnlyAs(u, set, g)
  <2>1. OnlyAs(s, set, f)
    BY OnlyExists, Zenon
  <2> HIDE DEF u
  <2>2. OnlyAs(u, set, g)
    BY <1>1, OnlyExists, Zenon
  <2> QED BY <2>1, <2>2
<1>3. Only(u, set) = g[n + 1] /\ Only(s, set) = f[n]
  <2>1. Only(u, set) = g[Len(u)] /\ Only(s, set) = f[Len(s)]
    BY OnlyIs, Zenon
  <2> HIDE DEF u, f, g
  <2> QED BY <1>1, <2>1
<1> HIDE DEF f, g
<1>4. n + 1 \in 0..(n + 1) /\ n + 1 # 0 /\ (n + 1) - 1 = n /\ n \in 0..n
  BY <1>0
<1>5. f[n] = g[n]
  BY <1>2, <1>4, OnlySame
<1> HIDE DEF u, n
<1>6. g[n + 1] = IF n + 1 = 0 THEN <<>>
                 ELSE IF u[n + 1] \in set THEN Append(g[(n + 1) - 1], u[n + 1]) ELSE g[(n + 1) - 1]
  BY <1>1, <1>2, <1>4, Zenon DEF OnlyAs
<1>7. Only(u, set) = IF e \in set THEN Append(Only(s, set), e) ELSE Only(s, set)
  BY <1>1, <1>3, <1>4, <1>5, <1>6
<1> QED BY <1>7 DEF u

\* What it takes is in the set,
LEMMA OnlyType ==
  ASSUME NEW T, NEW set
  PROVE  /\ Only(<<>>, set) = <<>>
         /\ \A s \in Seq(T) : Only(s, set) \in Seq(T \cap set)
<1>1. Only(<<>>, set) = <<>>
  <2> DEFINE f == CHOOSE f : OnlyAs(<<>>, set, f)
  <2>1. <<>> \in Seq(T) /\ Len(<<>>) = 0
    BY EmptySeq
  <2>2. OnlyAs(<<>>, set, f)
    BY <2>1, OnlyExists, Zenon
  <2>3. Only(<<>>, set) = f[Len(<<>>)]
    BY OnlyIs, Zenon
  <2> HIDE DEF f
  <2>4. 0 \in 0..Len(<<>>)
    BY <2>1
  <2>5. f[0] = <<>>
    BY <2>2, <2>4, Zenon DEF OnlyAs
  <2> QED BY <2>1, <2>3, <2>5
<1> DEFINE S == {s \in Seq(T) : Only(s, set) \in Seq(T \cap set)}
<1>2. <<>> \in S
  BY <1>1, EmptySeq
<1>3. ASSUME NEW s \in Seq(T), NEW e \in T, s \in S
      PROVE  Append(s, e) \in S
  <2>1. Only(Append(s, e), set) = IF e \in set THEN Append(Only(s, set), e) ELSE Only(s, set)
    BY OnlyAppend
  <2>2. e \in set => Append(Only(s, set), e) \in Seq(T \cap set)
    BY <1>3, AppendProperties
  <2> QED BY <1>3, <2>1, <2>2, AppendProperties
<1> HIDE DEF S
<1>4. \A s \in Seq(T) : s \in S
  BY <1>2, <1>3, SeqInduction
<1> QED BY <1>1, <1>4 DEF S

\* it is nothing exactly if nothing is,
LEMMA OnlyNothing ==
  ASSUME NEW T, NEW set
  PROVE  \A s \in Seq(T) : Only(s, set) = <<>> <=> \A i \in 1..Len(s) : s[i] \notin set
<1> DEFINE S == {s \in Seq(T) : Only(s, set) = <<>> <=> \A i \in 1..Len(s) : s[i] \notin set}
<1>1. <<>> \in S
  <2>1. Only(<<>>, set) = <<>> /\ <<>> \in Seq(T) /\ Len(<<>>) = 0
    BY OnlyType, EmptySeq
  <2> QED BY <2>1
<1>2. ASSUME NEW s \in Seq(T), NEW e \in T, s \in S
      PROVE  Append(s, e) \in S
  <2>1. Only(Append(s, e), set) = IF e \in set THEN Append(Only(s, set), e) ELSE Only(s, set)
    BY OnlyAppend
  <2>2. PICK u \in Seq(T) : /\ u = Append(s, e) /\ Len(u) = Len(s) + 1
                            /\ u[Len(s) + 1] = e /\ \A i \in 1..Len(s) : u[i] = s[i]
    <3>1. /\ Append(s, e) \in Seq(T) /\ Len(Append(s, e)) = Len(s) + 1
          /\ Append(s, e)[Len(s) + 1] = e
          /\ \A i \in 1..Len(s) : Append(s, e)[i] = s[i]
      BY AppendProperties
    <3> QED BY <3>1
  <2>3. Len(s) \in Nat
    BY LenProperties
  <2>4. CASE e \in set
    <3>1. Only(s, set) \in Seq(T \cap set)
      BY OnlyType
    <3>2. Only(u, set) # <<>>
      BY <2>1, <2>2, <2>4, <3>1, AppendProperties
    <3>3. Len(s) + 1 \in 1..Len(u)
      BY <2>2, <2>3
    <3> QED BY <2>2, <2>4, <3>2, <3>3
  <2>5. CASE e \notin set
    <3>1. (\A i \in 1..Len(u) : u[i] \notin set) <=> (\A i \in 1..Len(s) : s[i] \notin set)
      <4>1. \A i \in 1..Len(u) : i = Len(s) + 1 \/ i \in 1..Len(s)
        BY <2>2, <2>3
      <4>2. \A i \in 1..Len(s) : i \in 1..Len(u)
        BY <2>2, <2>3
      <4> QED BY <2>2, <2>5, <4>1, <4>2
    <3>2. Only(u, set) = Only(s, set)
      BY <2>1, <2>2, <2>5
    <3>3. Only(s, set) = <<>> <=> \A i \in 1..Len(s) : s[i] \notin set
      BY <1>2
    <3>4. Only(u, set) = <<>> <=> \A i \in 1..Len(u) : u[i] \notin set
      BY <3>1, <3>2, <3>3
    <3> QED BY <2>2, <3>4
  <2> QED BY <2>4, <2>5
<1> HIDE DEF S
<1>3. \A s \in Seq(T) : s \in S
  BY <1>1, <1>2, SeqInduction
<1> QED BY <1>3 DEF S

\* and it is the same for sets that differ in other elements.
LEMMA OnlyOf ==
  ASSUME NEW T, NEW a, NEW b, \A e \in T : e \in a <=> e \in b
  PROVE  \A s \in Seq(T) : Only(s, a) = Only(s, b)
<1> DEFINE S == {s \in Seq(T) : Only(s, a) = Only(s, b)}
<1>1. <<>> \in S
  BY OnlyType, EmptySeq
<1>2. ASSUME NEW s \in Seq(T), NEW e \in T, s \in S
      PROVE  Append(s, e) \in S
  <2>1. Only(Append(s, e), a) = IF e \in a THEN Append(Only(s, a), e) ELSE Only(s, a)
    BY OnlyAppend
  <2>2. Only(Append(s, e), b) = IF e \in b THEN Append(Only(s, b), e) ELSE Only(s, b)
    BY OnlyAppend
  <2>3. Append(s, e) \in Seq(T)
    BY AppendProperties
  <2> QED BY <1>2, <2>1, <2>2, <2>3
<1> HIDE DEF S
<1>3. \A s \in Seq(T) : s \in S
  BY <1>1, <1>2, SeqInduction
<1> QED BY <1>3 DEF S

-----------------------------------------------------------------------------
(* What a client has been told *)

\* A message behind others is read behind them.
LEMMA ReadsMore ==
  ASSUME NEW bytes \in Seq(Nat), NEW ms, ReadsAs(bytes, ms), NEW r \in MessageRecords
  PROVE  bytes \o BytesOf(r) \in Seq(Nat) /\ ReadsAs(bytes \o BytesOf(r), Append(ms, r))
<1> DEFINE b == BytesOf(r)
           both == bytes \o b
           n == Len(bytes)
           L == Len(ms)
           more == Append(ms, r)
<1>1. ms \in Seq(MessageRecords)
  BY DEF ReadsAs
<1>2. PICK end : EndsAt(bytes, ms, end)
  BY DEF ReadsAs
<1>3. b \in Seq(Nat) /\ \A x \in MessageRecords : Len(BytesOf(x)) \in Nat /\ Len(BytesOf(x)) >= 1
  <2>1. ASSUME NEW x \in MessageRecords
        PROVE  BytesOf(x) \in Seq(Nat) /\ Len(BytesOf(x)) \in Nat /\ Len(BytesOf(x)) >= 1
    <3>1. PICK k \in 1..4, l \in Nat : BytesOf(x) \in Seq(Nat) /\ Len(BytesOf(x)) = 1 + k + l
      BY BytesAre
    <3> QED BY <3>1
  <2> QED BY <2>1
<1>4. /\ n \in Nat /\ L \in Nat /\ Len(b) \in Nat /\ Len(b) >= 1
      /\ both \in Seq(Nat) /\ Len(both) = n + Len(b)
      /\ more \in Seq(MessageRecords) /\ Len(more) = L + 1 /\ more[L + 1] = r
      /\ \A i \in 1..L : more[i] = ms[i]
  <2>1. n \in Nat /\ L \in Nat
    BY <1>1, LenProperties
  <2>2. both \in Seq(Nat) /\ Len(both) = n + Len(b)
    BY <1>3, ConcatProperties
  <2>3. /\ more \in Seq(MessageRecords) /\ Len(more) = L + 1 /\ more[L + 1] = r
        /\ \A i \in 1..L : more[i] = ms[i]
    BY <1>1, AppendProperties
  <2> HIDE DEF n, L, b, both, more
  <2> QED BY <1>3, <2>1, <2>2, <2>3 DEF b
<1> DEFINE ends == [i \in 0..(L + 1) |-> IF i = L + 1 THEN Len(both) ELSE end[i]]
<1> HIDE DEF n, L, b, both, more
<1>5. end[0] = 0 /\ end[L] = n
  BY <1>2 DEF EndsAt, L, n
<1>6. ends[0] = 0 /\ ends[L + 1] = Len(both) /\ ends[L] = n
  <2>1. 0 \in 0..(L + 1) /\ L \in 0..(L + 1) /\ L + 1 \in 0..(L + 1) /\ 0 # L + 1 /\ L # L + 1
    BY <1>4
  <2> QED BY <1>5, <2>1
<1>7. ASSUME NEW i \in Nat, i < L
      PROVE  Spans(both, ends[i], ends[i + 1], more[i + 1])
  <2>1. /\ i \in 0..(L + 1) /\ i + 1 \in 0..(L + 1) /\ i # L + 1 /\ i + 1 # L + 1
        /\ i + 1 \in 1..L
    BY <1>4, <1>7
  <2>2. ends[i] = end[i] /\ ends[i + 1] = end[i + 1] /\ more[i + 1] = ms[i + 1]
    BY <1>4, <2>1
  <2>3. Spans(bytes, end[i], end[i + 1], ms[i + 1])
    BY <1>2, <1>7 DEF EndsAt, L
  <2>4. ms[i + 1] \in MessageRecords
    BY <1>1, <2>1, ElementOfSeq DEF L
  <2>5. PICK c, d : c = end[i] /\ d = end[i + 1]
    OBVIOUS
  <2>6. /\ c \in 0..n /\ d \in 0..n /\ d = c + Len(BytesOf(ms[i + 1]))
        /\ SubSeq(bytes, c + 1, d) = BytesOf(ms[i + 1])
    BY <2>3, <2>5 DEF Spans, n
  <2>7. c + 1 \in 1..n /\ d \in 1..n /\ c \in 0..Len(both) /\ d \in 0..Len(both)
    <3>1. PICK x, y, z : x = Len(BytesOf(ms[i + 1])) /\ y = Len(both) /\ z = Len(b)
      OBVIOUS
    <3>2. x \in Nat /\ x >= 1 /\ d = c + x
      BY <1>3, <2>4, <2>6, <3>1
    <3>3. z \in Nat /\ y = n + z /\ n \in Nat
      BY <1>4, <3>1
    <3> QED BY ONLY <2>6, <3>1, <3>2, <3>3
  <2>8. SubSeq(both, c + 1, d) = SubSeq(bytes, c + 1, d)
    BY <1>3, <2>7, SubSeqOfConcat1 DEF both, n
  <2> HIDE DEF ends
  <2> QED BY <2>2, <2>5, <2>6, <2>7, <2>8 DEF Spans
<1>8. Spans(both, ends[L], ends[L + 1], more[L + 1])
  <2>1. /\ n + 1 \in (n + 1)..(n + Len(b)) /\ n + Len(b) \in (n + 1)..(n + Len(b))
        /\ (n + 1) - n = 1 /\ (n + Len(b)) - n = Len(b)
        /\ n \in 0..Len(both) /\ n + Len(b) \in 0..Len(both)
    BY <1>4
  <2>2. SubSeq(both, n + 1, n + Len(b)) = SubSeq(b, (n + 1) - n, (n + Len(b)) - n)
    BY <1>3, <2>1, SubSeqOfConcat2 DEF both, n
  <2>3. SubSeq(b, 1, Len(b)) = b
    BY <1>3, SubSeqFull
  <2> HIDE DEF ends
  <2> QED BY <1>4, <1>6, <2>1, <2>2, <2>3 DEF Spans, b
<1>9. EndsAt(both, more, ends)
  <2>1. ASSUME NEW i \in Nat, i < L + 1
        PROVE  Spans(both, ends[i], ends[i + 1], more[i + 1])
    <3>1. i < L \/ i = L
      BY <1>4, <2>1
    <3> QED BY <1>7, <1>8, <3>1
  <2> HIDE DEF ends
  <2> QED BY <1>4, <1>6, <2>1 DEF EndsAt
<1>10. ReadsAs(both, more)
  BY <1>4, <1>9 DEF ReadsAs
<1> QED BY <1>4, <1>10 DEF both, more, b

\* Two sequences of the same length, whose elements are in a relation one by one.
Paired(s, t, R) == Len(s) = Len(t) /\ \A i \in 1..Len(t) : <<s[i], t[i]>> \in R

\* They go on with a pair of the relation.
LEMMA PairedOn ==
  ASSUME NEW A, NEW B, NEW R, NEW s \in Seq(A), NEW t \in Seq(B), Paired(s, t, R),
         NEW d \in A, NEW e \in B, <<d, e>> \in R
  PROVE  Paired(Append(s, d), Append(t, e), R)
<1>1. PICK n \in Nat : n = Len(s) /\ n = Len(t)
  BY LenProperties DEF Paired
<1>2. PICK u : u = Append(s, d) /\ Len(u) = n + 1 /\ u[n + 1] = d /\ \A i \in 1..n : u[i] = s[i]
  <2>1. /\ Len(Append(s, d)) = Len(s) + 1 /\ Append(s, d)[Len(s) + 1] = d
        /\ \A i \in 1..Len(s) : Append(s, d)[i] = s[i]
    BY AppendProperties
  <2> QED BY <1>1, <2>1
<1>3. PICK v : v = Append(t, e) /\ Len(v) = n + 1 /\ v[n + 1] = e /\ \A i \in 1..n : v[i] = t[i]
  <2>1. /\ Len(Append(t, e)) = Len(t) + 1 /\ Append(t, e)[Len(t) + 1] = e
        /\ \A i \in 1..Len(t) : Append(t, e)[i] = t[i]
    BY AppendProperties
  <2> QED BY <1>1, <2>1
<1>4. ASSUME NEW i \in 1..(n + 1)
      PROVE  <<u[i], v[i]>> \in R
  <2>1. i = n + 1 \/ i \in 1..n
    OBVIOUS
  <2>2. \A j \in 1..n : <<s[j], t[j]>> \in R
    BY <1>1 DEF Paired
  <2> QED BY <1>2, <1>3, <2>1, <2>2
<1> QED BY <1>2, <1>3, <1>4 DEF Paired

\* What the broker has asked and published records of.
Requests == [type : Nat, packetId : Nat, says : Seq(Seq(Nat))]
Publishes == [topic : Range(Topics), value : Values, retain : BOOLEAN]

\* What a client can be told, and what it tells.
AnswerRecords == {r \in MessageRecords : r.type # PUBLISH}
PublishRecords == {r \in MessageRecords : r.type = PUBLISH}
AnswerPairs == {x \in AnswerRecords \X Requests : Answers(x[1], x[2])}
PublishPairs == {x \in PublishRecords \X Publishes : Tells(x[1], x[2])}

\* The bytes answer these requests and tell these publishes, and nothing else.
Told(bytes, requests, publishes) ==
  \E ms : /\ ReadsAs(bytes, ms)
          /\ Paired(Only(ms, AnswerRecords), requests, AnswerPairs)
          /\ Paired(Only(ms, PublishRecords), publishes, PublishPairs)

\* In the beginning,
LEMMA ToldNothing == Told(<<>>, <<>>, <<>>)
<1>1. Only(<<>>, AnswerRecords) = <<>> /\ Only(<<>>, PublishRecords) = <<>> /\ Len(<<>>) = 0
  BY OnlyType, EmptySeq
<1>2. \A R : Paired(<<>>, <<>>, R)
  BY <1>1 DEF Paired
<1>3. ReadsAs(<<>>, <<>>)
  <2> DEFINE end == [n \in {0} |-> 0]
  <2>1. end[0] = 0
    OBVIOUS
  <2> HIDE DEF end
  <2>2. EndsAt(<<>>, <<>>, end)
    BY <1>1, <2>1 DEF EndsAt
  <2>3. <<>> \in Seq(MessageRecords)
    BY EmptySeq
  <2> QED BY <2>2, <2>3 DEF ReadsAs
<1> QED BY <1>1, <1>2, <1>3 DEF Told

\* with an answer,
LEMMA ToldAnswer ==
  ASSUME NEW bytes \in Seq(Nat), NEW requests \in Seq(Requests), NEW publishes,
         Told(bytes, requests, publishes),
         NEW r, NEW q, <<r, q>> \in AnswerPairs
  PROVE  Told(bytes \o BytesOf(r), Append(requests, q), publishes)
<1>1. PICK ms : /\ ReadsAs(bytes, ms)
                /\ Paired(Only(ms, AnswerRecords), requests, AnswerPairs)
                /\ Paired(Only(ms, PublishRecords), publishes, PublishPairs)
  BY DEF Told
<1>2. r \in AnswerRecords /\ q \in Requests /\ r \in MessageRecords /\ r \notin PublishRecords
  BY DEF AnswerPairs, AnswerRecords, PublishRecords
<1>3. ms \in Seq(MessageRecords)
  BY <1>1 DEF ReadsAs
<1>4. Only(ms, AnswerRecords) \in Seq(AnswerRecords)
  <2>1. MessageRecords \cap AnswerRecords = AnswerRecords
    BY DEF AnswerRecords
  <2> QED BY <1>3, <2>1, OnlyType
<1>5. /\ Only(Append(ms, r), AnswerRecords) = Append(Only(ms, AnswerRecords), r)
      /\ Only(Append(ms, r), PublishRecords) = Only(ms, PublishRecords)
  BY <1>2, <1>3, OnlyAppend
<1>6. Paired(Append(Only(ms, AnswerRecords), r), Append(requests, q), AnswerPairs)
  BY <1>1, <1>2, <1>4, PairedOn
<1>7. ReadsAs(bytes \o BytesOf(r), Append(ms, r))
  BY <1>1, <1>2, ReadsMore
<1> QED BY <1>1, <1>5, <1>6, <1>7 DEF Told

\* and with a publish.
LEMMA ToldPublish ==
  ASSUME NEW bytes \in Seq(Nat), NEW requests, NEW publishes \in Seq(Publishes),
         Told(bytes, requests, publishes),
         NEW r, NEW p, <<r, p>> \in PublishPairs
  PROVE  Told(bytes \o BytesOf(r), requests, Append(publishes, p))
<1>1. PICK ms : /\ ReadsAs(bytes, ms)
                /\ Paired(Only(ms, AnswerRecords), requests, AnswerPairs)
                /\ Paired(Only(ms, PublishRecords), publishes, PublishPairs)
  BY DEF Told
<1>2. r \in PublishRecords /\ p \in Publishes /\ r \in MessageRecords /\ r \notin AnswerRecords
  BY DEF PublishPairs, AnswerRecords, PublishRecords
<1>3. ms \in Seq(MessageRecords)
  BY <1>1 DEF ReadsAs
<1>4. Only(ms, PublishRecords) \in Seq(PublishRecords)
  <2>1. MessageRecords \cap PublishRecords = PublishRecords
    BY DEF PublishRecords
  <2> QED BY <1>3, <2>1, OnlyType
<1>5. /\ Only(Append(ms, r), PublishRecords) = Append(Only(ms, PublishRecords), r)
      /\ Only(Append(ms, r), AnswerRecords) = Only(ms, AnswerRecords)
  BY <1>2, <1>3, OnlyAppend
<1>6. Paired(Append(Only(ms, PublishRecords), r), Append(publishes, p), PublishPairs)
  BY <1>1, <1>2, <1>4, PairedOn
<1>7. ReadsAs(bytes \o BytesOf(r), Append(ms, r))
  BY <1>1, <1>2, ReadsMore
<1> QED BY <1>1, <1>5, <1>6, <1>7 DEF Told

\* This is what the client reads.
LEMMA ToldIsRead ==
  ASSUME NEW bytes \in Seq(Nat), NEW requests, NEW publishes, Told(bytes, requests, publishes)
  PROVE  LET ms == Messages(bytes)
         IN /\ ms \in Seq(MessageRecords)
            /\ Paired(Only(ms, {r \in Range(ms) : r.type # PUBLISH}), requests, AnswerPairs)
            /\ Paired(Only(ms, {r \in Range(ms) : r.type = PUBLISH}), publishes, PublishPairs)
<1>1. PICK ms : /\ ReadsAs(bytes, ms)
                /\ Paired(Only(ms, AnswerRecords), requests, AnswerPairs)
                /\ Paired(Only(ms, PublishRecords), publishes, PublishPairs)
  BY DEF Told
<1>2. Messages(bytes) = ms
  BY <1>1, MessagesAreRead
<1>3. ms \in Seq(MessageRecords) /\ ms \in Seq(Range(ms)) /\ Range(ms) \subseteq MessageRecords
  <2>1. ms \in Seq(MessageRecords)
    BY <1>1 DEF ReadsAs
  <2> QED BY <2>1, SeqOfRange, RangeOfSeq
<1>4. Only(ms, {r \in Range(ms) : r.type # PUBLISH}) = Only(ms, AnswerRecords)
  <2> DEFINE a == {r \in Range(ms) : r.type # PUBLISH}
  <2>1. \A e \in Range(ms) : e \in a <=> e \in AnswerRecords
    BY <1>3 DEF AnswerRecords
  <2> HIDE DEF a
  <2>2. Only(ms, a) = Only(ms, AnswerRecords)
    BY <1>3, <2>1, OnlyOf
  <2> QED BY <2>2 DEF a
<1>5. Only(ms, {r \in Range(ms) : r.type = PUBLISH}) = Only(ms, PublishRecords)
  <2> DEFINE a == {r \in Range(ms) : r.type = PUBLISH}
  <2>1. \A e \in Range(ms) : e \in a <=> e \in PublishRecords
    BY <1>3 DEF PublishRecords
  <2> HIDE DEF a
  <2>2. Only(ms, a) = Only(ms, PublishRecords)
    BY <1>3, <2>1, OnlyOf
  <2> QED BY <2>2 DEF a
<1> QED BY <1>1, <1>2, <1>3, <1>4, <1>5

-----------------------------------------------------------------------------
(* What the broker writes *)

\* The bytes answer the request, or tell the value.
Answered(bytes, request) == \E r : <<r, request>> \in AnswerPairs /\ bytes = BytesOf(r)
IsTold(bytes, publish) == \E r : <<r, publish>> \in PublishPairs /\ bytes = BytesOf(r)

\* A byte is a length that can be written.
LEMMA LimitIs == LengthLimit \in Nat /\ 2 * Radix + 1 < LengthLimit /\ ByteRange < LengthLimit
<1>1. PICK r \in Nat : r = Radix /\ r >= 2
  BY RadixIs
<1>2. PICK s \in Nat : s = r * r
  OBVIOUS
<1>3. s >= r * 2
  BY <1>1, <1>2, TimesMonotone
<1>4. PICK t \in Nat : t = s * r
  OBVIOUS
<1>5. t >= s * 2
  BY <1>1, <1>4, TimesMonotone
<1>6. PICK u \in Nat : u = t * r
  OBVIOUS
<1>7. u >= t * 2
  BY <1>1, <1>6, TimesMonotone
<1>8. LengthLimit = u
  BY <1>1, <1>2, <1>4, <1>6 DEF LengthLimit
<1>9. s >= 4 /\ t >= 8 /\ u >= 8 * r
  BY <1>1, <1>3, <1>5, <1>7
<1> QED BY <1>1, <1>8, <1>9, RadixIs

\* A body behind its header is the bytes of a message.
LEMMA WrittenIs ==
  ASSUME NEW type \in 0..15, NEW flags \in 0..15, NEW body \in Seq(Nat), Len(body) < LengthLimit
  PROVE  LET r == [type |-> type, flags |-> flags, body |-> body]
         IN r \in MessageRecords /\ BytesOf(r) = Written(type, flags, Len(body), body)
BY DEF MessageRecords, BytesOf

\* CONNACK,
LEMMA ConnAckAnswers ==
  ASSUME NEW present \in BOOLEAN, NEW code \in Nat
  PROVE  Answered(ConnAck(present, code), Request(CONNECT, 0, <<>>))
<1> DEFINE body == <<IF present THEN 1 ELSE 0, code>>
           r == [type |-> CONNACK, flags |-> 0, body |-> body]
           q == Request(CONNECT, 0, <<>>)
<1>1. body \in Seq(Nat) /\ Len(body) = 2
  OBVIOUS
<1>2. 2 < LengthLimit /\ CONNACK \in 0..15 /\ 0 \in 0..15
  BY LimitIs, RadixIs DEF CONNACK
<1>3. r.type = CONNACK /\ r.body = body
  OBVIOUS
<1> HIDE DEF body
<1>4. r \in MessageRecords /\ BytesOf(r) = Written(CONNACK, 0, Len(body), body)
  BY <1>1, <1>2, WrittenIs
<1>5. ConnAck(present, code) = BytesOf(r)
  BY <1>1, <1>4 DEF ConnAck, body
<1> HIDE DEF r
<1>6. r \in AnswerRecords
  BY <1>3, <1>4 DEF AnswerRecords, CONNACK, PUBLISH
<1>7. q \in Requests
  BY EmptySeq DEF Requests, Request, CONNECT
<1>8. Answers(r, q)
  BY <1>1, <1>3 DEF Answers, Request, CONNECT, CONNACK, PINGREQ, SUBSCRIBE, UNSUBSCRIBE
<1>9. <<r, q>> \in AnswerPairs
  BY <1>6, <1>7, <1>8 DEF AnswerPairs
<1> QED BY <1>5, <1>9 DEF Answered

\* PINGRESP,
LEMMA PingRespAnswers == Answered(PingResp, Request(PINGREQ, 0, <<>>))
<1> DEFINE r == [type |-> PINGRESP, flags |-> 0, body |-> <<>>]
           q == Request(PINGREQ, 0, <<>>)
<1>1. <<>> \in Seq(Nat) /\ Len(<<>>) = 0
  BY EmptySeq
<1>2. 0 < LengthLimit /\ PINGRESP \in 0..15 /\ 0 \in 0..15
  BY LimitIs, RadixIs DEF PINGRESP
<1>3. r.type = PINGRESP /\ r.body = <<>>
  OBVIOUS
<1>4. r \in MessageRecords /\ BytesOf(r) = Written(PINGRESP, 0, Len(<<>>), <<>>)
  BY <1>1, <1>2, WrittenIs
<1>5. PingResp = BytesOf(r)
  BY <1>1, <1>4 DEF PingResp
<1> HIDE DEF r
<1>6. r \in AnswerRecords
  BY <1>3, <1>4 DEF AnswerRecords, PINGRESP, PUBLISH
<1>7. q \in Requests
  BY EmptySeq DEF Requests, Request, PINGREQ
<1>8. Answers(r, q)
  BY <1>3 DEF Answers, Request, CONNECT, PINGRESP, PINGREQ, SUBSCRIBE, UNSUBSCRIBE
<1>9. <<r, q>> \in AnswerPairs
  BY <1>6, <1>7, <1>8 DEF AnswerPairs
<1> QED BY <1>5, <1>9 DEF Answered

\* UNSUBACK,
LEMMA UnsubAckAnswers ==
  ASSUME NEW packetId \in Nat, NEW says \in Seq(Seq(Nat))
  PROVE  Answered(UnsubAck(packetId), Request(UNSUBSCRIBE, packetId, says))
<1> DEFINE body == UInt16(packetId)
           r == [type |-> UNSUBACK, flags |-> 0, body |-> body]
           q == Request(UNSUBSCRIBE, packetId, says)
<1>1. body \in Seq(Nat) /\ Len(body) = 2 /\ body = <<packetId \div ByteRange, packetId % ByteRange>>
  BY UInt16Is DEF UInt16
<1>2. 2 < LengthLimit /\ UNSUBACK \in 0..15 /\ 0 \in 0..15
  BY LimitIs, RadixIs DEF UNSUBACK
<1>3. r.type = UNSUBACK /\ r.body = body
  OBVIOUS
<1> HIDE DEF body
<1>4. r \in MessageRecords /\ BytesOf(r) = Written(UNSUBACK, 0, Len(body), body)
  BY <1>1, <1>2, WrittenIs
<1>5. UnsubAck(packetId) = BytesOf(r)
  BY <1>1, <1>4 DEF UnsubAck, body
<1> HIDE DEF r
<1>6. r \in AnswerRecords
  BY <1>3, <1>4 DEF AnswerRecords, UNSUBACK, PUBLISH
<1>7. q \in Requests
  BY DEF Requests, Request, UNSUBSCRIBE
<1>8. Answers(r, q)
  <2>1. q.type = UNSUBSCRIBE /\ q.packetId = packetId
    BY DEF Request
  <2> HIDE DEF q
  <2>2. q.type # CONNECT /\ q.type # PINGREQ /\ q.type # SUBSCRIBE
    BY <2>1 DEF CONNECT, PINGREQ, SUBSCRIBE, UNSUBSCRIBE
  <2>3. r.body = <<q.packetId \div ByteRange, q.packetId % ByteRange>>
    BY <1>1, <1>3, <2>1, Zenon
  <2> QED BY <1>3, <2>1, <2>2, <2>3, Zenon DEF Answers
<1>9. <<r, q>> \in AnswerPairs
  BY <1>6, <1>7, <1>8 DEF AnswerPairs
<1> QED BY <1>5, <1>9 DEF Answered

\* SUBACK, if its length is a byte,
LEMMA SubAckAnswers ==
  ASSUME NEW packetId \in Nat, NEW says \in Seq(Seq(Nat)), Len(says) < ByteRange - 2,
         NEW results \in Seq(Nat), Len(results) = Len(says),
         \A i \in 1..Len(says) : results[i] = 0 <=> StandsForATopic(says[i])
  PROVE  Answered(SubAck(packetId, results), Request(SUBSCRIBE, packetId, says))
<1> DEFINE id == UInt16(packetId)
           body == id \o results
           r == [type |-> SUBACK, flags |-> 0, body |-> body]
           q == Request(SUBSCRIBE, packetId, says)
<1>0. PICK n \in Nat : n = Len(says) /\ n = Len(results) /\ n < ByteRange - 2
  BY LenProperties
<1>1. id \in Seq(Nat) /\ Len(id) = 2 /\ id[1] * ByteRange + id[2] = packetId
  BY UInt16Is
<1> HIDE DEF id
<1>2. /\ body \in Seq(Nat) /\ Len(body) = 2 + n
      /\ body[1] = id[1] /\ body[2] = id[2]
      /\ \A i \in 1..n : body[2 + i] = results[i]
  <2>1. /\ body \in Seq(Nat) /\ Len(body) = Len(id) + Len(results)
        /\ \A i \in 1..(Len(id) + Len(results)) :
             body[i] = IF i <= Len(id) THEN id[i] ELSE results[i - Len(id)]
    <3>1. results \in Seq(Nat)
      OBVIOUS
    <3> QED BY ONLY <1>1, <3>1, ConcatProperties
  <2> HIDE DEF body
  <2>2. \A i \in 1..(2 + n) : body[i] = IF i <= 2 THEN id[i] ELSE results[i - 2]
    BY <1>0, <1>1, <2>1
  <2>3. \A i \in 1..n : 2 + i \in 1..(2 + n) /\ ~(2 + i <= 2) /\ (2 + i) - 2 = i
    OBVIOUS
  <2>4. 1 \in 1..(2 + n) /\ 2 \in 1..(2 + n)
    OBVIOUS
  <2> QED BY <1>0, <1>1, <2>1, <2>2, <2>3, <2>4
<1>3. SUBACK \in 0..15 /\ 0 \in 0..15 /\ r.type = SUBACK /\ r.body = body
  BY DEF SUBACK
<1>4. Len(body) < LengthLimit /\ (2 + n) % ByteRange = 2 + n
  <2>1. 2 + n \in Nat /\ 2 + n < ByteRange
    BY <1>0, RadixIs
  <2>2. (2 + n) % ByteRange = 2 + n
    BY <2>1, ModOfDigit, RadixIs
  <2> HIDE DEF body
  <2> QED BY <1>2, <2>1, <2>2, LimitIs, RadixIs
<1> HIDE DEF body
<1>5. r \in MessageRecords /\ BytesOf(r) = Written(SUBACK, 0, Len(body), body)
  BY <1>2, <1>3, <1>4, WrittenIs
<1>6. SubAck(packetId, results) = BytesOf(r)
  <2>1. SubAck(packetId, results) = Written(SUBACK, 0, (2 + n) % ByteRange, body)
    BY <1>0 DEF SubAck, body, id
  <2> HIDE DEF r
  <2> QED BY <1>2, <1>4, <1>5, <2>1
<1> HIDE DEF r
<1>7. r \in AnswerRecords
  BY <1>3, <1>5 DEF AnswerRecords, SUBACK, PUBLISH
<1>8. q \in Requests
  BY DEF Requests, Request, SUBSCRIBE
<1>9. Answers(r, q)
  <2>1. q.type = SUBSCRIBE /\ q.packetId = packetId /\ q.says = says
    BY DEF Request
  <2> HIDE DEF q
  <2>2. DOMAIN says = 1..n
    BY <1>0, LenProperties
  <2>3. \A i \in 1..n : r.body[2 + i] = 0 <=> StandsForATopic(says[i])
    BY <1>0, <1>2, <1>3
  <2>4. /\ r.type = SUBACK /\ Len(r.body) = 2 + Len(q.says)
        /\ r.body[1] * ByteRange + r.body[2] = q.packetId
        /\ \A i \in DOMAIN q.says : r.body[2 + i] = 0 <=> StandsForATopic(q.says[i])
    BY <1>0, <1>1, <1>2, <1>3, <2>1, <2>2, <2>3
  <2>5. q.type # CONNECT /\ q.type # PINGREQ /\ q.type # UNSUBSCRIBE
    BY <2>1 DEF CONNECT, PINGREQ, SUBSCRIBE, UNSUBSCRIBE
  <2> QED BY <2>1, <2>4, <2>5 DEF Answers
<1>10. <<r, q>> \in AnswerPairs
  BY <1>7, <1>8, <1>9 DEF AnswerPairs
<1> QED BY <1>6, <1>10 DEF Answered

\* and PUBLISH.
LEMMA PublishTells ==
  ASSUME NEW p \in Publishes
  PROVE  IsTold(Publish(p), p)
<1>0. /\ p.topic \in Range(Topics) /\ p.value \in Values /\ p.retain \in BOOLEAN
  BY DEF Publishes
<1>1. /\ p.topic \in Seq(Nat) /\ p.value \in Seq(Nat)
      /\ Len(p.topic) + 2 + Len(p.value) < LengthLimit
  <2>1. Topics \in Seq(Seq(Nat))
    BY PublishAssumption
  <2>2. Range(Topics) \subseteq Seq(Nat)
    BY <2>1, RangeOfSeq
  <2> QED BY <1>0, <2>2, PublishAssumption DEF LengthLimit
<1>2. PICK topic \in Seq(Nat), value \in Seq(Nat), t \in Nat, v \in Nat :
        topic = p.topic /\ value = p.value /\ t = Len(topic) /\ v = Len(value)
  BY <1>1, LenProperties
<1> DEFINE length == UInt16(t)
           text == topic \o value
           body == length \o topic \o value
           flags == IF p.retain THEN 1 ELSE 0
           r == [type |-> PUBLISH, flags |-> flags, body |-> body]
<1>3. length \in Seq(Nat) /\ Len(length) = 2 /\ length[1] * ByteRange + length[2] = t
  BY UInt16Is
<1> HIDE DEF length
<1>4. text \in Seq(Nat) /\ Len(text) = t + v /\ body = length \o text
  <2>1. text \in Seq(Nat) /\ Len(text) = t + v
    BY <1>2, ConcatProperties
  <2>2. (length \o topic) \o value = length \o (topic \o value)
    BY <1>3, ConcatAssociative
  <2> QED BY <2>1, <2>2, Zenon
<1> HIDE DEF text, body
<1>5. /\ body \in Seq(Nat) /\ Len(body) = 2 + t + v
      /\ body[1] = length[1] /\ body[2] = length[2]
      /\ SubSeq(body, 3, Len(body)) = text
  <2>1. /\ body \in Seq(Nat) /\ Len(body) = 2 + (t + v)
        /\ \A i \in 1..(2 + (t + v)) : body[i] = IF i <= 2 THEN length[i] ELSE text[i - 2]
    <3> DEFINE b == length \o text
    <3>1. /\ b \in Seq(Nat) /\ Len(b) = Len(length) + Len(text)
          /\ \A i \in 1..(Len(length) + Len(text)) :
               b[i] = IF i <= Len(length) THEN length[i] ELSE text[i - Len(length)]
      BY ONLY <1>3, <1>4, ConcatProperties
    <3> HIDE DEF b
    <3>2. body = b
      BY <1>4 DEF b
    <3> QED BY <1>3, <1>4, <3>1, <3>2
  <2>2. 1 \in 1..(2 + (t + v)) /\ 2 \in 1..(2 + (t + v)) /\ 2 + (t + v) = 2 + t + v
    OBVIOUS
  <2>3. SubSeq(body, 3, 2 + (t + v)) = text
    <3> DEFINE rest == SubSeq(body, 3, 2 + (t + v))
    <3>1. \A i \in 3..(2 + (t + v)) : body[i] \in Nat
      <4>1. \A i \in 3..(2 + (t + v)) : i \in 1..(2 + (t + v))
        OBVIOUS
      <4> QED BY <2>1, <4>1, ElementOfSeq
    <3>2. 3 \in Int /\ 2 + (t + v) \in Int
      OBVIOUS
    <3>3. /\ rest \in Seq(Nat)
          /\ Len(rest) = IF 3 <= 2 + (t + v) THEN (2 + (t + v)) - 3 + 1 ELSE 0
          /\ \A i \in 1..((2 + (t + v)) - 3 + 1) : rest[i] = body[3 + i - 1]
      BY ONLY <3>1, <3>2, SubSeqProperties
    <3> HIDE DEF rest
    <3>4. Len(rest) = Len(text) /\ Len(text) = t + v
      BY <1>4, <3>3
    <3>5. ASSUME NEW i \in 1..(t + v)
          PROVE  rest[i] = text[i]
      <4>1. /\ i \in 1..((2 + (t + v)) - 3 + 1) /\ 3 + i - 1 = 2 + i
            /\ 2 + i \in 1..(2 + (t + v)) /\ ~(2 + i <= 2) /\ (2 + i) - 2 = i
        OBVIOUS
      <4> QED BY <2>1, <3>3, <4>1
    <3>6. rest = text
      BY <1>4, <3>3, <3>4, <3>5, SeqEqual
    <3> QED BY <3>6 DEF rest
  <2> QED BY <2>1, <2>2, <2>3
<1>6. flags \in 0..15 /\ (flags = 1 <=> p.retain) /\ PUBLISH \in 0..15
  BY <1>0 DEF PUBLISH
<1>7. r.type = PUBLISH /\ r.flags = flags /\ r.body = body
  OBVIOUS
<1> HIDE DEF flags
<1>8. Len(body) < LengthLimit /\ Len(body) = Len(p.topic) + 2 + Len(p.value)
  <2>1. Len(p.topic) + 2 + Len(p.value) = 2 + t + v
    <3>1. Len(p.topic) = t /\ Len(p.value) = v
      BY <1>2, Zenon
    <3>2. t + 2 + v = 2 + t + v
      OBVIOUS
    <3> QED BY ONLY <3>1, <3>2
  <2> QED BY <1>1, <1>5, <2>1
<1>9. r \in MessageRecords /\ BytesOf(r) = Written(PUBLISH, flags, Len(body), body)
  BY <1>5, <1>6, <1>8, WrittenIs
<1>10. Publish(p) = BytesOf(r)
  <2>1. Publish(p) = Written(PUBLISH, flags, Len(p.topic) + 2 + Len(p.value),
                             UInt16(Len(p.topic)) \o p.topic \o p.value)
    BY DEF Publish, flags
  <2>2. body = UInt16(Len(p.topic)) \o p.topic \o p.value
    BY <1>2 DEF body, length
  <2> HIDE DEF r
  <2> QED BY <1>8, <1>9, <2>1, <2>2
<1> HIDE DEF r
<1>11. r \in PublishRecords
  BY <1>7, <1>9 DEF PublishRecords
<1>12. Tells(r, p)
  BY <1>2, <1>3, <1>4, <1>5, <1>6, <1>7 DEF Tells, text
<1>13. <<r, p>> \in PublishPairs
  BY <1>11, <1>12 DEF PublishPairs
<1> QED BY <1>10, <1>13 DEF IsTold

-----------------------------------------------------------------------------
(* What the handlers make of the fields *)

\* A function on the numbers up to n is a sequence.
LEMMA FunctionIsSeq ==
  ASSUME NEW T, NEW n \in Nat, NEW f \in [1..n -> T]
  PROVE  f \in Seq(T) /\ Len(f) = n /\ DOMAIN f = 1..n
<1>1. f \in Seq(T)
  BY SeqDef
<1>2. DOMAIN f = 1..Len(f) /\ Len(f) \in Nat /\ DOMAIN f = 1..n
  BY <1>1, LenProperties
<1>3. Len(f) = n
  BY <1>2
<1> QED BY <1>1, <1>2, <1>3

\* The function of TopicFilter.
StartsAre(bytes, withQoS, i, start) ==
  start = [n \in 1..i |->
             IF n = 1 THEN 1
             ELSE start[n - 1] + 2 + LengthAt(bytes, start[n - 1]) + (IF withQoS THEN 1 ELSE 0)]

\* TopicFilter takes the last value of such a function,
LEMMA TopicFilterIs ==
  ASSUME NEW bytes, NEW withQoS, NEW i
  PROVE  TopicFilter(bytes, withQoS, i) =
           StringAt(bytes, (CHOOSE start : StartsAre(bytes, withQoS, i, start))[i])
BY Zenon DEF TopicFilter, StartsAre

\* and there is one.
LEMMA StartsExist ==
  ASSUME NEW bytes, NEW withQoS, NEW i \in Nat
  PROVE  \E start : StartsAre(bytes, withQoS, i, start)
<1> DEFINE After(pos) == pos + 2 + LengthAt(bytes, pos) + (IF withQoS THEN 1 ELSE 0)
           S == {k \in Nat : \E start : StartsAre(bytes, withQoS, k, start)}
<1>0. \A k : \A start : StartsAre(bytes, withQoS, k, start) <=>
                          start = [n \in 1..k |-> IF n = 1 THEN 1 ELSE After(start[n - 1])]
  BY Zenon DEF StartsAre
<1> HIDE DEF After
<1>1. 0 \in S
  <2> DEFINE f == [n \in {} |-> 1]
  <2>1. 1..0 = {}
    OBVIOUS
  <2>2. f = [n \in 1..0 |-> IF n = 1 THEN 1 ELSE After(f[n - 1])]
    BY <2>1
  <2> HIDE DEF f
  <2>3. StartsAre(bytes, withQoS, 0, f)
    BY <1>0, <2>2, Zenon
  <2> QED BY <2>3
<1>2. ASSUME NEW k \in Nat, k < i, k \in S
      PROVE  k + 1 \in S
  <2>1. PICK f : StartsAre(bytes, withQoS, k, f)
    BY <1>2
  <2>2. f = [n \in 1..k |-> IF n = 1 THEN 1 ELSE After(f[n - 1])]
    BY <1>0, <2>1, Zenon
  <2>3. \A n \in 1..k : f[n] = IF n = 1 THEN 1 ELSE After(f[n - 1])
    BY <2>2, Zenon
  <2> DEFINE last == IF k + 1 = 1 THEN 1 ELSE After(f[k])
             g == [n \in 1..(k + 1) |-> IF n = k + 1 THEN last ELSE f[n]]
  <2>4. ASSUME NEW n \in 1..(k + 1)
        PROVE  g[n] = IF n = 1 THEN 1 ELSE After(g[n - 1])
    <3>1. CASE n = k + 1
      <4>1. g[n] = last
        BY <3>1
      <4>2. n # 1 => g[n - 1] = f[k]
        <5>1. n # 1 => n - 1 \in 1..(k + 1) /\ n - 1 = k /\ k # k + 1
          BY <3>1
        <5> QED BY <5>1
      <4> HIDE DEF g
      <4> QED BY <3>1, <4>1, <4>2
    <3>2. CASE n # k + 1
      <4>1. n \in 1..k
        BY <3>2
      <4>2. g[n] = f[n]
        BY <3>2
      <4>3. n # 1 => g[n - 1] = f[n - 1]
        <5>1. n # 1 => n - 1 \in 1..(k + 1) /\ n - 1 # k + 1
          BY <4>1
        <5> QED BY <5>1
      <4> HIDE DEF g
      <4> QED BY <2>3, <4>1, <4>2, <4>3
    <3> QED BY <3>1, <3>2
  <2>5. g = [n \in 1..(k + 1) |-> g[n]]
    OBVIOUS
  <2> HIDE DEF g
  <2>6. g = [n \in 1..(k + 1) |-> IF n = 1 THEN 1 ELSE After(g[n - 1])]
    BY <2>4, <2>5, Zenon
  <2>7. StartsAre(bytes, withQoS, k + 1, g)
    BY <1>0, <2>6, Zenon
  <2> QED BY <2>7
<1>3. i <= i
  OBVIOUS
<1>4. i \in S
  <2> HIDE DEF S
  <2> QED BY <1>1, <1>2, <1>3, Induction
<1> QED BY <1>4

\* The second walk over the payload finds the topic filters that were said.
LEMMA FilterIsSaid ==
  ASSUME NEW bytes \in Seq(Nat), NEW withQoS \in BOOLEAN, NEW strings \in Seq(Seq(Nat)),
         Spells(bytes, strings, Tails(withQoS), TailSize(withQoS)),
         NEW i \in 1..Len(strings)
  PROVE  TopicFilter(bytes, withQoS, i) = strings[i]
<1> DEFINE L == Len(strings)
           size == TailSize(withQoS)
<1>0. L \in Nat /\ i \in Nat /\ 1 <= i /\ i <= L /\ size \in Nat
  BY LenProperties DEF TailSize
<1>1. PICK end : EndsGrow(strings, size, end) /\ SpellsAt(bytes, strings, Tails(withQoS), size, end)
  BY <1>0, SpellsSteps
<1> DEFINE start == CHOOSE start : StartsAre(bytes, withQoS, i, start)
<1>2. StartsAre(bytes, withQoS, i, start)
  BY <1>0, StartsExist, Zenon
<1>3. TopicFilter(bytes, withQoS, i) = StringAt(bytes, start[i])
  BY TopicFilterIs, Zenon
<1> HIDE DEF start
<1>4. ASSUME NEW n \in 1..i
      PROVE  start[n] = IF n = 1 THEN 1 ELSE start[n - 1] + 2 + LengthAt(bytes, start[n - 1]) + size
  <2>1. start[n] = IF n = 1 THEN 1
                   ELSE start[n - 1] + 2 + LengthAt(bytes, start[n - 1]) + (IF withQoS THEN 1 ELSE 0)
    BY <1>2, Zenon DEF StartsAre
  <2> QED BY <2>1, Zenon DEF TailSize
<1>5. ASSUME NEW n \in Nat, n < L
      PROVE  /\ end[n] \in Nat /\ end[n + 1] = end[n] + 2 + Len(strings[n + 1]) + size
             /\ Len(strings[n + 1]) \in Nat
             /\ LengthAt(bytes, end[n] + 1) = Len(strings[n + 1])
             /\ StringAt(bytes, end[n] + 1) = strings[n + 1]
  <2>1. /\ end[n] \in 0..Len(bytes)
        /\ end[n + 1] = end[n] + 2 + Len(strings[n + 1]) + size
        /\ LengthAt(bytes, end[n] + 1) = Len(strings[n + 1])
        /\ StringAt(bytes, end[n] + 1) = strings[n + 1]
    <3>1. /\ EndsGrow(strings, TailSize(withQoS), end) /\ n \in Nat /\ n < Len(strings)
          /\ SpellsAt(bytes, strings, Tails(withQoS), TailSize(withQoS), end)
          /\ bytes \in Seq(Nat) /\ withQoS \in BOOLEAN /\ strings \in Seq(Seq(Nat))
      BY <1>1, <1>5
    <3>2. end[n] \in 0..Len(bytes)
      BY ONLY <3>1, SpelledSteps
    <3>3. end[n + 1] = end[n] + 2 + Len(strings[n + 1]) + TailSize(withQoS)
      BY ONLY <3>1, SpelledSteps
    <3>4. LengthAt(bytes, end[n] + 1) = Len(strings[n + 1])
      BY ONLY <3>1, SpelledSteps
    <3>5. StringAt(bytes, end[n] + 1) = strings[n + 1]
      BY ONLY <3>1, SpelledSteps
    <3> QED BY <3>2, <3>3, <3>4, <3>5
  <2>2. end[n] \in Nat
    BY <2>1, LenProperties
  <2>3. Len(strings[n + 1]) \in Nat
    <3>1. n + 1 \in 1..L
      BY <1>0, <1>5
    <3>2. strings[n + 1] \in Seq(Nat)
      BY <3>1, ElementOfSeq
    <3> QED BY <3>2, LenProperties
  <2> QED BY <2>1, <2>2, <2>3
<1> HIDE DEF size, L
<1> DEFINE K == {k \in Nat : start[k + 1] = end[k] + 1}
<1>6. PICK j \in Nat : i = j + 1 /\ j < L /\ j <= j
  <2>1. i - 1 \in Nat /\ i = (i - 1) + 1 /\ i - 1 < L /\ i - 1 <= i - 1
    BY <1>0
  <2> QED BY <2>1
<1>7. 0 \in K
  <2>1. 0 + 1 = 1 /\ 1 \in 1..i
    BY <1>0
  <2>2. end[0] = 0
    BY <1>1 DEF EndsGrow
  <2>3. start[1] = 1
    BY <1>4, <2>1
  <2>4. start[0 + 1] = end[0] + 1
    BY <2>1, <2>2, <2>3
  <2> QED BY <2>4
<1>8. ASSUME NEW k \in Nat, k < j, k \in K
      PROVE  k + 1 \in K
  <2>1. k < L /\ (k + 1) + 1 \in 1..i /\ (k + 1) + 1 # 1 /\ ((k + 1) + 1) - 1 = k + 1
    BY <1>0, <1>6, <1>8
  <2>2. PICK pos : pos = start[k + 1] /\ pos = end[k] + 1
    BY <1>8
  <2>3. start[(k + 1) + 1] = pos + 2 + LengthAt(bytes, pos) + size
    BY <1>4, <2>1, <2>2
  <2>4. PICK l \in Nat : /\ l = Len(strings[k + 1]) /\ LengthAt(bytes, pos) = l
                         /\ end[k] \in Nat /\ end[k + 1] = end[k] + 2 + l + size
    BY <1>5, <2>1, <2>2
  <2>5. start[(k + 1) + 1] = end[k + 1] + 1
    <3>1. PICK x, y : x = end[k] /\ y = end[k + 1]
      OBVIOUS
    <3>2. x \in Nat /\ pos = x + 1 /\ y = x + 2 + l + size /\ size \in Nat
      BY <1>0, <2>2, <2>4, <3>1
    <3>3. pos + 2 + l + size = y + 1
      BY ONLY <3>2, l \in Nat
    <3> QED BY <2>3, <2>4, <3>1, <3>3
  <2> QED BY <2>5
<1>9. j \in K
  <2> HIDE DEF K
  <2> QED BY <1>6, <1>7, <1>8, Induction
<1>10. start[i] = end[j] + 1
  BY <1>6, <1>9
<1> QED BY <1>3, <1>5, <1>6, <1>10

\* What a filter comes to are topics, and some if it stands for one.
LEMMA TopicsOfAre ==
  ASSUME NEW filter \in Seq(Nat)
  PROVE  /\ TopicsOf(filter) \in Seq(Range(Topics))
         /\ TopicsOf(filter) # <<>> <=> StandsForATopic(filter)
<1> DEFINE set == {topic \in Range(Topics) : <<CString(filter), topic>> \in Stands}
           n == Len(filter)
<1>0. n \in Nat /\ maxTopicFilterLength \in Nat
  BY LenProperties, BoundsAssumption
<1>1. Topics \in Seq(Range(Topics))
  <2>1. Topics \in Seq(Seq(Nat))
    BY PublishAssumption
  <2> QED BY <2>1, SeqOfRange
<1>2. CASE n > maxTopicFilterLength
  <2>1. TopicsOf(filter) = <<>>
    BY <1>2 DEF TopicsOf
  <2>2. ~(n <= maxTopicFilterLength)
    BY <1>0, <1>2
  <2> QED BY <2>1, <2>2, EmptySeq DEF StandsForATopic
<1>3. CASE ~(n > maxTopicFilterLength)
  <2>1. TopicsOf(filter) = Only(Topics, set)
    BY <1>3 DEF TopicsOf
  <2>2. n <= maxTopicFilterLength
    BY <1>0, <1>3
  <2>3. StandsForATopic(filter) <=> \E topic \in Range(Topics) : topic \in set
    BY <2>2 DEF StandsForATopic
  <2>4. set \subseteq Range(Topics)
    OBVIOUS
  <2> HIDE DEF set, n
  <2>5. Range(Topics) \cap set = set
    BY <2>4
  <2>6. Only(Topics, set) \in Seq(Range(Topics))
    <3>1. Only(Topics, set) \in Seq(set)
      BY <1>1, <2>5, OnlyType
    <3> QED BY <2>4, <3>1, SeqMonotonic
  <2>7. Only(Topics, set) = <<>> <=> \A i \in 1..Len(Topics) : Topics[i] \notin set
    BY <1>1, OnlyNothing
  <2>8. Range(Topics) = {Topics[i] : i \in 1..Len(Topics)}
    BY <1>1, RangeEquality
  <2>9. (\E topic \in Range(Topics) : topic \in set) <=> \E i \in 1..Len(Topics) : Topics[i] \in set
    BY <2>8
  <2> QED BY <2>1, <2>3, <2>6, <2>7, <2>9
<1> QED BY <1>2, <1>3

\* A return code is a number.
LEMMA ReturnCodeType ==
  ASSUME NEW m
  PROVE  ReturnCode(m) \in Nat
<1> DEFINE failing == {i \in DOMAIN Checks(m) : ~Checks(m)[i][1]}
<1>1. DOMAIN Checks(m) = 1..5 /\ \A i \in 1..5 : Checks(m)[i][2] \in Nat
  <2>1. PICK a, b, c, d, e : Checks(m) = <<<<a, 1>>, <<b, 2>>, <<c, 3>>, <<d, 4>>, <<e, 2>>>>
    BY DEF Checks
  <2> QED BY <2>1
<1>2. CASE failing = {}
  BY <1>2 DEF ReturnCode
<1>3. CASE failing # {}
  <2>1. failing \in SUBSET Nat
    BY <1>1
  <2>2. \E x \in failing : \A y \in failing : x <= y
    <3> HIDE DEF failing
    <3> QED BY <1>3, <2>1, Least
  <2>3. Min(failing) \in failing
    <3> HIDE DEF failing
    <3> QED BY <2>2, Zenon DEF Min
  <2>4. ReturnCode(m) = Checks(m)[Min(failing)][2]
    BY <1>3 DEF ReturnCode
  <2>5. Min(failing) \in 1..5
    BY <1>1, <2>3
  <2> HIDE DEF failing
  <2> QED BY <1>1, <2>4, <2>5
<1> QED BY <1>2, <1>3

\* Leaves have values of theirs, if any.
RetainedType == \E topics \in SUBSET Range(Topics) : retained \in [topics -> Values]

\* A subscriber is sent values of leaves.
LEMMA RetainedAre ==
  ASSUME RetainedType, NEW topics \in Seq(Range(Topics))
  PROVE  RetainedPublishes(topics) \in Seq(Publishes)
<1>1. PICK tops \in SUBSET Range(Topics) : retained \in [tops -> Values]
  BY DEF RetainedType
<1>2. DOMAIN retained = tops
  BY <1>1
<1> DEFINE set == Only(topics, tops)
<1>3. set \in Seq(tops)
  <2>1. Range(Topics) \cap tops = tops
    OBVIOUS
  <2>2. set \in Seq(Range(Topics) \cap tops)
    BY OnlyType
  <2> QED BY <2>1, <2>2
<1>4. RetainedPublishes(topics) =
        [i \in DOMAIN set |-> [topic |-> set[i], value |-> retained[set[i]], retain |-> TRUE]]
  BY <1>2 DEF RetainedPublishes
<1> HIDE DEF set
<1>5. PICK n \in Nat : n = Len(set) /\ DOMAIN set = 1..n
  BY <1>3, LenProperties
<1>6. ASSUME NEW i \in 1..n
      PROVE  [topic |-> set[i], value |-> retained[set[i]], retain |-> TRUE] \in Publishes
  <2>1. set[i] \in tops
    BY <1>3, <1>5, ElementOfSeq
  <2>2. retained[set[i]] \in Values /\ set[i] \in Range(Topics)
    BY <1>1, <2>1
  <2> QED BY <2>2 DEF Publishes
<1>7. RetainedPublishes(topics) \in [1..n -> Publishes]
  BY <1>4, <1>5, <1>6
<1> QED BY <1>7, FunctionIsSeq

-----------------------------------------------------------------------------
(* What the client has been told, step by step *)

\* The beginning of a sequence is that of a longer one,
LEMMA BeginningOfConcat ==
  ASSUME NEW T, NEW s \in Seq(T), NEW t \in Seq(T), NEW n \in 0..Len(s)
  PROVE  SubSeq(s \o t, 1, n) = SubSeq(s, 1, n)
<1>1. CASE n = 0
  <2>1. \A u : SubSeq(u, 1, 0) = <<>>
    BY SubSeqEmpty
  <2> QED BY <1>1, <2>1
<1>2. CASE n # 0
  <2>1. Len(s) \in Nat
    BY LenProperties
  <2>2. 1 \in 1..Len(s) /\ n \in 1..Len(s)
    BY <1>2, <2>1
  <2> QED BY <2>2, SubSeqOfConcat1
<1> QED BY <1>1, <1>2

\* it is a sequence of that length,
LEMMA BeginningType ==
  ASSUME NEW T, NEW s \in Seq(T), NEW n \in 0..Len(s)
  PROVE  SubSeq(s, 1, n) \in Seq(T) /\ Len(SubSeq(s, 1, n)) = n
<1>0. Len(s) \in Nat /\ n \in Nat /\ n <= Len(s)
  BY LenProperties
<1>1. 1 \in Int /\ n \in Int /\ \A i \in 1..n : s[i] \in T
  <2>1. \A i \in 1..n : i \in 1..Len(s)
    BY <1>0
  <2> QED BY <1>0, <2>1, ElementOfSeq
<1>2. SubSeq(s, 1, n) \in Seq(T) /\ Len(SubSeq(s, 1, n)) = IF 1 <= n THEN n - 1 + 1 ELSE 0
  BY <1>1, SubSeqProperties
<1> QED BY <1>0, <1>2

\* with the same elements,
LEMMA BeginningElement ==
  ASSUME NEW T, NEW s \in Seq(T), NEW n \in 0..Len(s)
  PROVE  \A i \in 1..n : SubSeq(s, 1, n)[i] = s[i]
<1>0. Len(s) \in Nat /\ n \in Nat /\ n <= Len(s)
  BY LenProperties
<1>1. 1 \in Int /\ n \in Int /\ \A i \in 1..n : s[i] \in T
  <2>1. \A i \in 1..n : i \in 1..Len(s)
    BY <1>0
  <2> QED BY <1>0, <2>1, ElementOfSeq
<1>2. \A i \in 1..(n - 1 + 1) : SubSeq(s, 1, n)[i] = s[1 + i - 1]
  BY <1>1, SubSeqProperties
<1>3. \A i \in 1..n : i \in 1..(n - 1 + 1) /\ 1 + i - 1 = i
  BY <1>0
<1> QED BY <1>2, <1>3

\* and the next one has one element more.
LEMMA BeginningOn ==
  ASSUME NEW T, NEW s \in Seq(T), NEW n \in Nat, n < Len(s)
  PROVE  SubSeq(s, 1, n + 1) = Append(SubSeq(s, 1, n), s[n + 1]) /\ s[n + 1] \in T
<1>0. Len(s) \in Nat
  BY LenProperties
<1>1. 1 \in 1..Len(s) /\ n + 1 \in 1..Len(s) /\ n \in 0..Len(s) /\ (n + 1) - 1 = n
  BY <1>0
<1>2. SubSeq(s, 1, n + 1) = SubSeq(s, 1, (n + 1) - 1) \o <<s[n + 1]>>
  BY <1>1, SubSeqRecursiveSecond
<1>3. s[n + 1] \in T /\ SubSeq(s, 1, n) \in Seq(T)
  BY <1>1, ElementOfSeq, BeginningType
<1>4. Append(SubSeq(s, 1, n), s[n + 1]) = SubSeq(s, 1, n) \o <<s[n + 1]>>
  BY <1>3, AppendIsConcat
<1> QED BY <1>1, <1>2, <1>3, <1>4

\* Bytes are put together in any order.
LEMMA BytesAssociative ==
  ASSUME NEW s \in Seq(Nat), NEW t \in Seq(Nat), NEW u \in Seq(Nat)
  PROVE  s \o (t \o u) = (s \o t) \o u
BY ConcatAssociative

\* These messages tell these values, one each.
TellAll(messages, publishes) ==
  /\ messages \in Seq(Seq(Nat)) /\ publishes \in Seq(Publishes)
  /\ Len(messages) = Len(publishes)
  /\ \A i \in 1..Len(publishes) : IsTold(messages[i], publishes[i])

\* Behind each of them the client has been told one more.
LEMMA ToldPublishes ==
  ASSUME NEW bytes \in Seq(Nat), NEW requests, NEW before \in Seq(Publishes),
         Told(bytes, requests, before),
         NEW messages, NEW publishes, TellAll(messages, publishes)
  PROVE  \A j \in 0..Len(publishes) :
           /\ bytes \o FlattenSeq(SubSeq(messages, 1, j)) \in Seq(Nat)
           /\ Told(bytes \o FlattenSeq(SubSeq(messages, 1, j)), requests,
                   before \o SubSeq(publishes, 1, j))
<1>1. messages \in Seq(Seq(Nat)) /\ publishes \in Seq(Publishes)
  BY DEF TellAll
<1>2. PICK n \in Nat : n = Len(messages) /\ n = Len(publishes)
  BY <1>1, LenProperties DEF TellAll
<1> DEFINE B(j) == bytes \o FlattenSeq(SubSeq(messages, 1, j))
           K == {j \in Nat : B(j) \in Seq(Nat)
                               /\ Told(B(j), requests, before \o SubSeq(publishes, 1, j))}
<1>3. 0 \in K
  <2>1. SubSeq(messages, 1, 0) = <<>> /\ SubSeq(publishes, 1, 0) = <<>>
    BY SubSeqEmpty
  <2>2. bytes \o <<>> = bytes /\ before \o <<>> = before
    BY ConcatEmptySeq
  <2>3. B(0) = bytes /\ before \o SubSeq(publishes, 1, 0) = before
    BY <2>1, <2>2, FlattenType
  <2> QED BY <2>3
<1>4. ASSUME NEW j \in Nat, j < n, j \in K
      PROVE  j + 1 \in K
  <2>0. j \in 0..n /\ j + 1 \in 1..n
    BY <1>4
  <2>1. /\ SubSeq(messages, 1, j + 1) = Append(SubSeq(messages, 1, j), messages[j + 1])
        /\ messages[j + 1] \in Seq(Nat)
    BY <1>1, <1>2, <1>4, BeginningOn
  <2>2. /\ SubSeq(publishes, 1, j + 1) = Append(SubSeq(publishes, 1, j), publishes[j + 1])
        /\ publishes[j + 1] \in Publishes
    BY <1>1, <1>2, <1>4, BeginningOn
  <2>3. SubSeq(messages, 1, j) \in Seq(Seq(Nat)) /\ SubSeq(publishes, 1, j) \in Seq(Publishes)
    BY <1>1, <1>2, <2>0, BeginningType
  <2>4. PICK r : <<r, publishes[j + 1]>> \in PublishPairs /\ messages[j + 1] = BytesOf(r)
    <3>1. IsTold(messages[j + 1], publishes[j + 1])
      BY <1>2, <2>0 DEF TellAll
    <3> QED BY <3>1 DEF IsTold
  <2>5. PICK x \in Seq(Nat) : x = FlattenSeq(SubSeq(messages, 1, j))
    BY <2>3, FlattenType
  <2>6. FlattenSeq(SubSeq(messages, 1, j + 1)) = x \o messages[j + 1]
    BY <2>1, <2>3, <2>5, FlattenAppend
  <2>7. bytes \o (x \o messages[j + 1]) = (bytes \o x) \o messages[j + 1]
    <3>1. PICK e \in Seq(Nat) : e = messages[j + 1]
      BY <2>1
    <3>2. bytes \o (x \o e) = (bytes \o x) \o e
      BY ConcatAssociative
    <3> QED BY <3>1, <3>2
  <2>8. PICK y \in Seq(Publishes) : y = before \o SubSeq(publishes, 1, j)
    BY <2>3, ConcatProperties
  <2>9. before \o SubSeq(publishes, 1, j + 1) = Append(y, publishes[j + 1])
    <3>1. PICK z \in Seq(Publishes), e \in Publishes :
            z = SubSeq(publishes, 1, j) /\ e = publishes[j + 1]
      BY <2>2, <2>3
    <3>2. Append(z, e) = z \o <<e>> /\ Append(y, e) = y \o <<e>> /\ <<e>> \in Seq(Publishes)
      BY AppendIsConcat
    <3>3. (before \o z) \o <<e>> = before \o (z \o <<e>>)
      BY <3>2, ConcatAssociative
    <3> QED BY <2>2, <2>8, <3>1, <3>2, <3>3
  <2>10. bytes \o x \in Seq(Nat) /\ Told(bytes \o x, requests, y)
    BY <1>4, <2>5, <2>8
  <2>11. Told((bytes \o x) \o messages[j + 1], requests, Append(y, publishes[j + 1]))
    BY <2>4, <2>10, ToldPublish
  <2>12. (bytes \o x) \o messages[j + 1] \in Seq(Nat)
    BY <2>1, <2>10, ConcatProperties
  <2>13. B(j + 1) = (bytes \o x) \o messages[j + 1]
    BY <2>6, <2>7
  <2> HIDE DEF B
  <2>14. B(j + 1) \in Seq(Nat) /\ Told(B(j + 1), requests, before \o SubSeq(publishes, 1, j + 1))
    BY ONLY <2>9, <2>11, <2>12, <2>13
  <2> QED BY <2>14
<1>5. \A j \in Nat : j <= n => j \in K
  <2> HIDE DEF K
  <2> QED BY <1>3, <1>4, Induction
<1>6. \A j \in 0..n : j \in K
  <2> HIDE DEF K
  <2> QED BY <1>5
<1> QED BY <1>2, <1>6

\* The client has been told of all of these requests and publishes, or of the first
\* of them if the connection is closed or a message was cut.
ReadsUp(bytes, requests, publishes, alive, cut) ==
  \E i \in 0..Len(requests) : \E j \in 0..Len(publishes) :
    /\ Told(bytes, SubSeq(requests, 1, i), SubSeq(publishes, 1, j))
    /\ alive /\ ~cut => i = Len(requests)
    /\ ~cut => j = Len(publishes)

\* Of all,
LEMMA ReadsAll ==
  ASSUME NEW bytes, NEW requests \in Seq(Requests), NEW publishes \in Seq(Publishes),
         Told(bytes, requests, publishes), NEW alive, NEW cut
  PROVE  ReadsUp(bytes, requests, publishes, alive, cut)
<1>1. SubSeq(requests, 1, Len(requests)) = requests /\ SubSeq(publishes, 1, Len(publishes)) = publishes
  BY SubSeqFull
<1>2. Len(requests) \in 0..Len(requests) /\ Len(publishes) \in 0..Len(publishes)
  <2>1. Len(requests) \in Nat /\ Len(publishes) \in Nat
    BY LenProperties
  <2> QED BY <2>1
<1> QED BY <1>1, <1>2, Zenon DEF ReadsUp

\* or of no more than before, if a message was cut
LEMMA ReadsCut ==
  ASSUME NEW bytes, NEW requests \in Seq(Requests), NEW publishes \in Seq(Publishes),
         NEW alive, NEW cut, ReadsUp(bytes, requests, publishes, alive, cut),
         NEW a \in Seq(Requests), NEW p \in Seq(Publishes), NEW lives
  PROVE  ReadsUp(bytes, requests \o a, publishes \o p, lives, TRUE)
<1>1. PICK i \in 0..Len(requests), j \in 0..Len(publishes) :
        Told(bytes, SubSeq(requests, 1, i), SubSeq(publishes, 1, j))
  BY DEF ReadsUp
<1>2. /\ SubSeq(requests \o a, 1, i) = SubSeq(requests, 1, i)
      /\ SubSeq(publishes \o p, 1, j) = SubSeq(publishes, 1, j)
  BY BeginningOfConcat
<1>3. i \in 0..Len(requests \o a) /\ j \in 0..Len(publishes \o p)
  <2>1. PICK l \in Nat, m \in Nat, x \in Nat, y \in Nat :
          l = Len(requests) /\ m = Len(publishes) /\ x = Len(a) /\ y = Len(p)
    BY LenProperties
  <2>2. Len(requests \o a) = l + x /\ Len(publishes \o p) = m + y
    BY <2>1, ConcatProperties
  <2> QED BY <2>1, <2>2
<1>4. Told(bytes, SubSeq(requests \o a, 1, i), SubSeq(publishes \o p, 1, j))
  BY <1>1, <1>2
<1> QED BY <1>3, <1>4, Zenon DEF ReadsUp

\* or the connection is closed.
LEMMA ReadsClosed ==
  ASSUME NEW bytes, NEW requests \in Seq(Requests), NEW publishes \in Seq(Publishes),
         NEW alive, NEW cut, ReadsUp(bytes, requests, publishes, alive, cut),
         NEW a \in Seq(Requests)
  PROVE  ReadsUp(bytes, requests \o a, publishes, FALSE, cut)
<1>1. PICK i \in 0..Len(requests), j \in 0..Len(publishes) :
        /\ Told(bytes, SubSeq(requests, 1, i), SubSeq(publishes, 1, j))
        /\ ~cut => j = Len(publishes)
  BY DEF ReadsUp
<1>2. SubSeq(requests \o a, 1, i) = SubSeq(requests, 1, i)
  BY BeginningOfConcat
<1>3. i \in 0..Len(requests \o a)
  <2>1. PICK l \in Nat, x \in Nat : l = Len(requests) /\ x = Len(a)
    BY LenProperties
  <2>2. Len(requests \o a) = l + x
    BY <2>1, ConcatProperties
  <2> QED BY <2>1, <2>2
<1> QED BY <1>1, <1>2, <1>3, Zenon DEF ReadsUp

\* Of the first of these publishes,
LEMMA ReadsPart ==
  ASSUME NEW bytes, NEW requests \in Seq(Requests), NEW publishes \in Seq(Publishes),
         NEW p \in Seq(Publishes), NEW j \in 0..Len(p),
         Told(bytes, requests, publishes \o SubSeq(p, 1, j)),
         NEW a \in Seq(Requests), NEW alive
  PROVE  ReadsUp(bytes, requests \o a, publishes \o p, alive, TRUE)
<1>1. PICK n \in Nat : n = Len(p) /\ j \in 0..n /\ j \in Nat
  BY LenProperties
<1>2. SubSeq(p, 1, j) \in Seq(Publishes)
  BY BeginningType
<1>3. SubSeq(p, j + 1, n) \in Seq(Publishes) /\ SubSeq(p, 1, j) \o SubSeq(p, j + 1, n) = p
  <2>1. SubSeq(p, j + 1, n) \in Seq(Publishes)
    <3>1. \A k \in (j + 1)..n : k \in 1..Len(p)
      BY <1>1
    <3>2. \A k \in (j + 1)..n : p[k] \in Publishes
      BY <3>1, ElementOfSeq
    <3>3. j + 1 \in Int /\ n \in Int
      BY <1>1
    <3> QED BY <3>2, <3>3, SubSeqProperties
  <2>2. /\ 1 \in 1..(Len(p) + 1) /\ j \in (1 - 1)..Len(p) /\ n \in j..Len(p)
    BY <1>1
  <2>3. SubSeq(p, 1, j) \o SubSeq(p, j + 1, n) = SubSeq(p, 1, n)
    BY <2>2, ConcatAdjacentSubSeq
  <2>4. SubSeq(p, 1, n) = p
    BY <1>1, SubSeqFull
  <2> QED BY <2>1, <2>3, <2>4
<1>4. PICK first \in Seq(Publishes), rest \in Seq(Publishes) :
        first = SubSeq(p, 1, j) /\ first \o rest = p
  BY <1>2, <1>3
<1>5. PICK some \in Seq(Publishes) : some = publishes \o first
  BY ConcatProperties
<1>6. some \o rest = publishes \o p
  <2>1. (publishes \o first) \o rest = publishes \o (first \o rest)
    BY ConcatAssociative
  <2> QED BY <1>4, <1>5, <2>1
<1>7. ReadsUp(bytes, requests, some, TRUE, FALSE)
  BY <1>4, <1>5, ReadsAll
<1>8. ReadsUp(bytes, requests \o a, some \o rest, alive, TRUE)
  <2>1. /\ requests \in Seq(Requests) /\ some \in Seq(Publishes)
        /\ a \in Seq(Requests) /\ rest \in Seq(Publishes)
    OBVIOUS
  <2> QED BY ONLY <1>7, <2>1, ReadsCut
<1> QED BY <1>6, <1>8

\* of all of them if no message was cut,
LEMMA PublishesUp ==
  ASSUME NEW bytes \in Seq(Nat), NEW requests \in Seq(Requests), NEW before \in Seq(Publishes),
         Told(bytes, requests, before),
         NEW messages, NEW publishes, TellAll(messages, publishes),
         NEW j \in 0..Len(messages), NEW alive, NEW cut \in BOOLEAN, ~cut => j = Len(messages)
  PROVE  ReadsUp(bytes \o FlattenSeq(SubSeq(messages, 1, j)), requests, before \o publishes, alive, cut)
<1>1. publishes \in Seq(Publishes) /\ Len(messages) = Len(publishes) /\ before \o publishes \in Seq(Publishes)
  BY ConcatProperties DEF TellAll
<1>2. PICK text : text = bytes \o FlattenSeq(SubSeq(messages, 1, j))
  OBVIOUS
<1>3. j \in 0..Len(publishes) /\ Told(text, requests, before \o SubSeq(publishes, 1, j))
  BY <1>1, <1>2, ToldPublishes
<1>4. CASE cut
  <2>1. requests \o <<>> = requests /\ <<>> \in Seq(Requests)
    BY ConcatEmptySeq, EmptySeq
  <2>2. ReadsUp(text, requests \o <<>>, before \o publishes, alive, TRUE)
    BY <1>1, <1>3, <2>1, ReadsPart
  <2>3. cut = TRUE
    BY <1>4
  <2> QED BY <1>2, <2>1, <2>2, <2>3
<1>5. CASE ~cut
  <2>1. SubSeq(publishes, 1, j) = publishes
    BY <1>1, <1>5, SubSeqFull
  <2>2. ReadsUp(text, requests, before \o publishes, alive, cut)
    BY <1>1, <1>3, <2>1, ReadsAll
  <2> QED BY <1>2, <2>2
<1> QED BY <1>4, <1>5

\* and of the request that is answered behind them.
LEMMA AnswerUp ==
  ASSUME NEW bytes \in Seq(Nat), NEW requests \in Seq(Requests), NEW before \in Seq(Publishes),
         Told(bytes, requests, before),
         NEW messages, NEW publishes, TellAll(messages, publishes),
         NEW answer \in Seq(Nat), NEW q \in Requests, Answered(answer, q),
         NEW j \in 0..Len(Append(messages, answer)), NEW alive, NEW cut \in BOOLEAN,
         ~cut => j = Len(Append(messages, answer))
  PROVE  ReadsUp(bytes \o FlattenSeq(SubSeq(Append(messages, answer), 1, j)),
                 Append(requests, q), before \o publishes, alive, cut)
<1>1. /\ messages \in Seq(Seq(Nat)) /\ publishes \in Seq(Publishes)
      /\ Len(messages) = Len(publishes) /\ before \o publishes \in Seq(Publishes)
  BY ConcatProperties DEF TellAll
<1>2. PICK n \in Nat : n = Len(messages) /\ n = Len(publishes)
  BY <1>1, LenProperties
<1>3. PICK all \in Seq(Seq(Nat)) : all = Append(messages, answer) /\ Len(all) = n + 1
                                   /\ all = messages \o <<answer>>
  BY <1>1, <1>2, AppendProperties, AppendIsConcat
<1>4. Append(requests, q) = requests \o <<q>> /\ <<q>> \in Seq(Requests)
      /\ Append(requests, q) \in Seq(Requests)
  BY AppendIsConcat, AppendProperties
<1>5. PICK text : text = bytes \o FlattenSeq(SubSeq(all, 1, j))
  OBVIOUS
<1>6. CASE j <= n
  <2>1. j \in 0..n /\ j # n + 1 /\ <<answer>> \in Seq(Seq(Nat))
    BY <1>3, <1>6
  <2>2. SubSeq(all, 1, j) = SubSeq(messages, 1, j)
    BY <1>1, <1>2, <1>3, <2>1, BeginningOfConcat
  <2>3. Told(text, requests, before \o SubSeq(publishes, 1, j))
    BY <1>2, <1>5, <2>1, <2>2, ToldPublishes
  <2>4. cut = TRUE
    BY <1>3, <2>1
  <2>5. ReadsUp(text, requests \o <<q>>, before \o publishes, alive, TRUE)
    BY <1>1, <1>2, <1>4, <2>1, <2>3, ReadsPart
  <2> QED BY <1>3, <1>4, <1>5, <2>4, <2>5
<1>7. CASE ~(j <= n)
  <2>1. j = n + 1
    BY <1>3, <1>7
  <2>2. SubSeq(all, 1, j) = all
    BY <1>3, <2>1, SubSeqFull
  <2>3. n \in 0..n /\ SubSeq(messages, 1, n) = messages /\ SubSeq(publishes, 1, n) = publishes
    BY <1>1, <1>2, SubSeqFull
  <2>4. PICK told \in Seq(Nat) : told = bytes \o FlattenSeq(messages)
                                 /\ Told(told, requests, before \o publishes)
    BY <1>2, <2>3, ToldPublishes
  <2>5. text = told \o answer
    <3>1. PICK flat \in Seq(Nat) : flat = FlattenSeq(messages)
      BY <1>1, FlattenType
    <3>2. FlattenSeq(all) = flat \o answer
      BY <1>1, <1>3, <3>1, FlattenAppend
    <3>3. bytes \o (flat \o answer) = (bytes \o flat) \o answer
      BY BytesAssociative
    <3> QED BY <1>5, <2>2, <2>4, <3>1, <3>2, <3>3
  <2>6. PICK r : <<r, q>> \in AnswerPairs /\ answer = BytesOf(r)
    BY DEF Answered
  <2>7. Told(text, Append(requests, q), before \o publishes)
    BY <2>4, <2>5, <2>6, ToldAnswer
  <2>8. ReadsUp(text, Append(requests, q), before \o publishes, alive, cut)
    BY <1>1, <1>4, <2>7, ReadsAll
  <2> QED BY <1>3, <1>5, <2>8
<1> QED BY <1>6, <1>7

-----------------------------------------------------------------------------
(* Writing *)

\* Of the bytes written, the readable ones are before the first message that was cut.
BytesType ==
  /\ toClient \in Seq(Nat) /\ readable \in 0..Len(toClient) /\ half \in BOOLEAN
  /\ ~half => readable = Len(toClient)

\* What came before a message that was cut.
ReadPart == SubSeq(toClient, 1, readable)

\* A write leaves what can be read if a message was cut before; or else what can be read
\* goes on with the messages, as far as none of them is cut.
WritesOn(messages) ==
  /\ half => half' /\ ReadPart' = ReadPart
  /\ ~half => \E j \in 0..Len(messages) :
                /\ ReadPart' = toClient \o FlattenSeq(SubSeq(messages, 1, j))
                /\ ~half' => j = Len(messages)

\* Messages written whole go on with what can be read;
LEMMA WriteAllOn ==
  ASSUME BytesType, NEW messages \in Seq(Seq(Nat)), WriteAll(messages)
  PROVE  BytesType' /\ WritesOn(messages)
<1>1. PICK text \in Seq(Nat) : text = FlattenSeq(messages)
  BY FlattenType
<1>2. /\ toClient' = toClient \o text /\ half' = half
      /\ readable' = IF half THEN readable ELSE Len(toClient')
      /\ toClient \in Seq(Nat) /\ readable \in 0..Len(toClient) /\ half \in BOOLEAN
  BY <1>1 DEF WriteAll, BytesType
<1>3. toClient' \in Seq(Nat) /\ Len(toClient') = Len(toClient) + Len(text)
  BY <1>2, ConcatProperties
<1>4. PICK n \in Nat, l \in Nat : n = Len(toClient) /\ l = Len(text) /\ Len(toClient') = n + l
  BY <1>1, <1>2, <1>3, LenProperties
<1>5. readable' \in 0..Len(toClient')
  <2>1. readable \in 0..(n + l) /\ n + l \in 0..(n + l)
    BY <1>2, <1>4
  <2> QED BY <1>2, <1>4, <2>1
<1>6. BytesType'
  BY <1>2, <1>3, <1>5 DEF BytesType
<1>7. CASE half
  <2>1. SubSeq(toClient', 1, readable) = SubSeq(toClient, 1, readable)
    BY <1>1, <1>2, BeginningOfConcat
  <2> QED BY <1>2, <1>6, <1>7, <2>1 DEF WritesOn, ReadPart
<1>8. CASE ~half
  <2>1. SubSeq(toClient', 1, Len(toClient')) = toClient'
    BY <1>3, SubSeqFull
  <2>2. SubSeq(messages, 1, Len(messages)) = messages /\ Len(messages) \in 0..Len(messages)
    <3>1. Len(messages) \in Nat
      BY LenProperties
    <3> QED BY <3>1, SubSeqFull
  <2>3. ReadPart' = toClient \o FlattenSeq(SubSeq(messages, 1, Len(messages)))
    BY <1>1, <1>2, <1>8, <2>1, <2>2 DEF ReadPart
  <2> QED BY <1>6, <1>8, <2>2, <2>3 DEF WritesOn
<1> QED BY <1>7, <1>8

\* one that is cut ends what can be read before it;
LEMMA WriteCuttingOn ==
  ASSUME BytesType, NEW messages \in Seq(Seq(Nat)), NEW i \in DOMAIN messages,
         NEW size \in 0..(Len(messages[i]) - 1), WriteCutting(messages, i, size)
  PROVE  BytesType' /\ WritesOn(messages)
<1>1. PICK n \in Nat : n = Len(messages) /\ DOMAIN messages = 1..n
  BY LenProperties
<1>2. PICK j \in Nat : j = i - 1 /\ j \in 0..n /\ i \in 1..n
  BY <1>1
<1>3. SubSeq(messages, 1, j) \in Seq(Seq(Nat))
  BY <1>1, <1>2, BeginningType
<1>4. PICK text \in Seq(Nat) : text = FlattenSeq(SubSeq(messages, 1, j))
  BY <1>3, FlattenType
<1>5. SubSeq(messages[i], 1, size) \in Seq(Nat)
  <2>1. PICK m \in Seq(Nat), l \in Nat : m = messages[i] /\ l = Len(m)
    BY <1>1, <1>2, ElementOfSeq, LenProperties
  <2>2. size \in 0..Len(m)
    BY <2>1
  <2> QED BY <2>1, <2>2, BeginningType
<1>6. SubSeq(messages, i + 1, Len(messages)) \in Seq(Seq(Nat))
  <2>1. \A k \in (i + 1)..n : k \in 1..Len(messages)
    BY <1>1, <1>2
  <2>2. \A k \in (i + 1)..n : messages[k] \in Seq(Nat)
    BY <2>1, ElementOfSeq
  <2>3. i + 1 \in Int /\ n \in Int
    BY <1>2
  <2> QED BY <1>1, <2>2, <2>3, SubSeqProperties
<1>7. PICK start \in Seq(Nat), rest \in Seq(Nat) :
        /\ start = SubSeq(messages[i], 1, size)
        /\ rest = FlattenSeq(SubSeq(messages, i + 1, Len(messages)))
  BY <1>5, <1>6, FlattenType
<1>8. PICK before \in Seq(Nat) : before = toClient \o text
  BY ConcatProperties DEF BytesType
<1>9. /\ ~half /\ half' = TRUE /\ readable' = Len(before)
      /\ toClient' = before \o start \o rest
  BY <1>2, <1>4, <1>7, <1>8 DEF WriteCutting
<1>10. PICK end \in Seq(Nat) : end = start \o rest
  BY ConcatProperties
<1>11. toClient' = before \o end
  BY <1>9, <1>10, BytesAssociative
<1>12. PICK b \in Nat, e \in Nat : b = Len(before) /\ e = Len(end)
  BY LenProperties
<1>13. toClient' \in Seq(Nat) /\ Len(toClient') = b + e
  BY <1>11, <1>12, ConcatProperties
<1>14. readable' \in 0..Len(toClient')
  BY <1>9, <1>12, <1>13
<1>15. BytesType'
  BY <1>9, <1>13, <1>14 DEF BytesType
<1>16. ReadPart' = before
  <2>1. b \in 0..Len(before)
    BY <1>12
  <2>2. SubSeq(before \o end, 1, b) = SubSeq(before, 1, b)
    BY <2>1, BeginningOfConcat
  <2>3. SubSeq(before, 1, b) = before
    BY <1>12, SubSeqFull
  <2> QED BY <1>9, <1>11, <1>12, <2>2, <2>3 DEF ReadPart
<1>17. WritesOn(messages)
  BY <1>1, <1>2, <1>4, <1>8, <1>9, <1>16 DEF WritesOn
<1> QED BY <1>15, <1>17

\* and a write does one or the other.
LEMMA WriteOn ==
  ASSUME BytesType, NEW messages \in Seq(Seq(Nat)), Write(messages)
  PROVE  BytesType' /\ WritesOn(messages)
<1>1. CASE WriteAll(messages)
  BY <1>1, WriteAllOn
<1>2. CASE \E i \in DOMAIN messages : \E size \in 0..(Len(messages[i]) - 1) :
             WriteCutting(messages, i, size)
  <2>1. PICK i \in DOMAIN messages : \E size \in 0..(Len(messages[i]) - 1) :
               WriteCutting(messages, i, size)
    BY <1>2
  <2>2. PICK size \in 0..(Len(messages[i]) - 1) : WriteCutting(messages, i, size)
    BY <2>1
  <2> QED BY <2>2, WriteCuttingOn
<1> QED BY <1>1, <1>2 DEF Write

-----------------------------------------------------------------------------
(* The invariant *)

\* The types of what was written, kept, asked and published.
ToldType ==
  /\ BytesType /\ RetainedType
  /\ asked \in Seq(Requests) /\ published \in Seq(Publishes)

\* A client reads an answer to every request and every publish of a connection that is
\* open, up to a message that was cut.
ReadsInOrder == ReadsUp(ReadPart, asked, published, open, half)

\* This is so unless a SUBACK was too long for its length to be said in one byte.
ToldInv == ToldType /\ (~AckTooLong => ReadsInOrder)

\* As long as none was, this is every request and every publish.
LEMMA AllRead ==
  ASSUME ToldType, ReadsInOrder, open, ~half
  PROVE  Told(toClient, asked, published)
<1>1. ReadPart = toClient
  BY SubSeqFull DEF ToldType, BytesType, ReadPart
<1>2. SubSeq(asked, 1, Len(asked)) = asked /\ SubSeq(published, 1, Len(published)) = published
  BY SubSeqFull DEF ToldType
<1>3. \E i \in 0..Len(asked) : \E j \in 0..Len(published) :
        /\ Told(ReadPart, SubSeq(asked, 1, i), SubSeq(published, 1, j))
        /\ open /\ ~half => i = Len(asked)
        /\ ~half => j = Len(published)
  BY Zenon DEF ReadsInOrder, ReadsUp
<1> QED BY <1>1, <1>2, <1>3

\* Values are handed over and written,
LEMMA PublishOn ==
  ASSUME ToldType, ReadsInOrder, open, NEW messages, NEW publishes, TellAll(messages, publishes),
         Write(messages), published' = published \o publishes, UNCHANGED <<open, asked>>
  PROVE  BytesType' /\ ReadsInOrder'
<1>1. messages \in Seq(Seq(Nat)) /\ publishes \in Seq(Publishes)
  BY DEF TellAll
<1>2. BytesType' /\ WritesOn(messages)
  BY <1>1, WriteOn DEF ToldType
<1>3. /\ asked \in Seq(Requests) /\ published \in Seq(Publishes)
      /\ ReadsUp(ReadPart, asked, published, open, half)
      /\ asked \o <<>> = asked /\ <<>> \in Seq(Requests)
      /\ half' \in BOOLEAN
  BY <1>2, ConcatEmptySeq, EmptySeq DEF ToldType, ReadsInOrder, BytesType
<1>4. CASE half
  <2>1. half' = TRUE /\ ReadPart' = ReadPart
    BY <1>2, <1>3, <1>4 DEF WritesOn
  <2>2. ReadsUp(ReadPart, asked \o <<>>, published \o publishes, open, TRUE)
    BY <1>1, <1>3, ReadsCut
  <2>3. ReadsUp(ReadPart', asked', published', open', half')
    BY <1>3, <2>1, <2>2
  <2> QED BY <1>2, <2>3 DEF ReadsInOrder
<1>5. CASE ~half
  <2>1. PICK j \in 0..Len(messages) :
          /\ ReadPart' = toClient \o FlattenSeq(SubSeq(messages, 1, j))
          /\ ~half' => j = Len(messages)
    BY <1>2, <1>5 DEF WritesOn
  <2>2. Told(toClient, asked, published)
    BY <1>5, AllRead
  <2>3. toClient \in Seq(Nat)
    BY DEF ToldType, BytesType
  <2>4. ReadsUp(toClient \o FlattenSeq(SubSeq(messages, 1, j)), asked, published \o publishes, open, half')
    BY <1>3, <2>1, <2>2, <2>3, PublishesUp
  <2>5. ReadsUp(ReadPart', asked', published', open', half')
    BY <2>1, <2>4
  <2> QED BY <1>2, <2>5 DEF ReadsInOrder
<1> QED BY <1>4, <1>5

\* a request is answered, perhaps behind some values,
LEMMA AnswerOn ==
  ASSUME ToldType, ReadsInOrder, open, NEW messages, NEW publishes, TellAll(messages, publishes),
         NEW answer \in Seq(Nat), NEW q \in Requests, Answered(answer, q),
         Write(Append(messages, answer)), published' = published \o publishes,
         UNCHANGED open, asked' = Append(asked, q)
  PROVE  BytesType' /\ ReadsInOrder'
<1>1. messages \in Seq(Seq(Nat)) /\ publishes \in Seq(Publishes)
  BY DEF TellAll
<1>2. PICK all \in Seq(Seq(Nat)) : all = Append(messages, answer)
  BY <1>1, AppendProperties
<1>3. BytesType' /\ WritesOn(all)
  BY <1>2, WriteOn DEF ToldType
<1>4. /\ asked \in Seq(Requests) /\ published \in Seq(Publishes)
      /\ ReadsUp(ReadPart, asked, published, open, half)
      /\ asked' = asked \o <<q>> /\ <<q>> \in Seq(Requests)
      /\ half' \in BOOLEAN
  BY <1>3, AppendIsConcat DEF ToldType, ReadsInOrder, BytesType
<1>5. CASE half
  <2>1. half' = TRUE /\ ReadPart' = ReadPart
    BY <1>3, <1>4, <1>5 DEF WritesOn
  <2>2. ReadsUp(ReadPart, asked \o <<q>>, published \o publishes, open, TRUE)
    BY <1>1, <1>4, ReadsCut
  <2>3. ReadsUp(ReadPart', asked', published', open', half')
    BY <1>4, <2>1, <2>2
  <2> QED BY <1>3, <2>3 DEF ReadsInOrder
<1>6. CASE ~half
  <2>1. PICK j \in 0..Len(all) :
          /\ ReadPart' = toClient \o FlattenSeq(SubSeq(all, 1, j))
          /\ ~half' => j = Len(all)
    BY <1>3, <1>6 DEF WritesOn
  <2>2. Told(toClient, asked, published)
    BY <1>6, AllRead
  <2>3. toClient \in Seq(Nat)
    BY DEF ToldType, BytesType
  <2>4. ReadsUp(toClient \o FlattenSeq(SubSeq(all, 1, j)), Append(asked, q),
                published \o publishes, open, half')
    BY <1>2, <1>4, <2>1, <2>2, <2>3, AnswerUp
  <2>5. ReadsUp(ReadPart', asked', published', open', half')
    BY <2>1, <2>4
  <2> QED BY <1>3, <2>5 DEF ReadsInOrder
<1> QED BY <1>5, <1>6

\* the connection is closed instead,
LEMMA CloseOn ==
  ASSUME ToldType, ReadsInOrder, Terminate,
         asked' = asked \/ \E q \in Requests : asked' = Append(asked, q)
  PROVE  BytesType' /\ ReadsInOrder'
<1>1. /\ asked \in Seq(Requests) /\ published \in Seq(Publishes)
      /\ ReadsUp(ReadPart, asked, published, open, half)
      /\ BytesType
  BY DEF ToldType, ReadsInOrder
<1>2. open' = FALSE /\ UNCHANGED <<toClient, readable, half, published>>
  BY DEF Terminate, WriteNothing
<1>3. PICK a \in Seq(Requests) : asked' = asked \o a
  <2>1. CASE asked' = asked
    BY <1>1, <2>1, ConcatEmptySeq, EmptySeq
  <2>2. ASSUME NEW q \in Requests, asked' = Append(asked, q)
        PROVE  \E a \in Seq(Requests) : asked' = asked \o a
    <3>1. asked' = asked \o <<q>> /\ <<q>> \in Seq(Requests)
      BY <1>1, <2>2, AppendIsConcat
    <3> QED BY <3>1
  <2> QED BY <2>1, <2>2
<1>4. ReadsUp(ReadPart, asked \o a, published, FALSE, half)
  BY <1>1, ReadsClosed
<1>5. ReadPart' = ReadPart /\ BytesType'
  BY <1>1, <1>2 DEF ReadPart, BytesType
<1> QED BY <1>2, <1>3, <1>4, <1>5 DEF ReadsInOrder

\* or nothing happens.
LEMMA StillOn ==
  ASSUME ToldType, ReadsInOrder, UNCHANGED <<open, toClient, readable, half, published, asked>>
  PROVE  BytesType' /\ ReadsInOrder'
BY DEF ToldType, BytesType, ReadsInOrder, ReadPart

-----------------------------------------------------------------------------
(* Handlers *)

\* A SUBSCRIBE whose acknowledgement is too long stays one.
LEMMA TooLongStays ==
  ASSUME asked \in Seq(Requests), asked' = asked \/ \E q \in Requests : asked' = Append(asked, q)
  PROVE  AckTooLong => AckTooLong'
<1>1. CASE asked' = asked
  BY <1>1 DEF AckTooLong
<1>2. ASSUME NEW q \in Requests, asked' = Append(asked, q), AckTooLong
      PROVE  AckTooLong'
  <2>1. PICK i \in DOMAIN asked : asked[i].type = SUBSCRIBE /\ Len(asked[i].says) >= ByteRange - 2
    BY <1>2 DEF AckTooLong
  <2>2. PICK n \in Nat : n = Len(asked) /\ DOMAIN asked = 1..n
    BY LenProperties
  <2>3. PICK longer \in Seq(Requests) : /\ longer = asked' /\ Len(longer) = n + 1
                                        /\ \A k \in 1..n : longer[k] = asked[k]
    <3>1. /\ Append(asked, q) \in Seq(Requests) /\ Len(Append(asked, q)) = Len(asked) + 1
          /\ \A k \in 1..Len(asked) : Append(asked, q)[k] = asked[k]
      BY AppendProperties
    <3> QED BY <1>2, <2>2, <3>1
  <2>4. DOMAIN longer = 1..(n + 1)
    BY <2>3, LenProperties
  <2>5. i \in DOMAIN longer /\ longer[i] = asked[i]
    BY <2>2, <2>3, <2>4
  <2> QED BY <2>1, <2>3, <2>5 DEF AckTooLong
<1> QED BY <1>1, <1>2

\* And one that comes is the last one asked.
LEMMA TooLongComes ==
  ASSUME asked \in Seq(Requests), NEW q \in Requests, asked' = Append(asked, q), ~AckTooLong',
         q.type = SUBSCRIBE
  PROVE  ~(Len(q.says) >= ByteRange - 2)
<1>1. PICK n \in Nat : n = Len(asked)
  BY LenProperties
<1>2. PICK longer \in Seq(Requests) : longer = asked' /\ Len(longer) = n + 1 /\ longer[n + 1] = q
  <2>1. /\ Append(asked, q) \in Seq(Requests) /\ Len(Append(asked, q)) = Len(asked) + 1
        /\ Append(asked, q)[Len(asked) + 1] = q
    BY AppendProperties
  <2> QED BY <1>1, <2>1
<1>3. n + 1 \in DOMAIN longer
  <2>1. DOMAIN longer = 1..(n + 1)
    BY <1>2, LenProperties
  <2> QED BY <2>1
<1> QED BY <1>2, <1>3 DEF AckTooLong

\* What a step comes to.
Onward ==
  /\ BytesType' /\ asked' \in Seq(Requests) /\ published' \in Seq(Publishes)
  /\ ~AckTooLong' => ReadsInOrder'

\* A message answers a request with nothing before it,
LEMMA OneAnswer ==
  ASSUME ToldInv, open, NEW answer, NEW q \in Requests, Answered(answer, q), Write(<<answer>>),
         UNCHANGED <<open, published>>, asked' = Append(asked, q)
  PROVE  Onward
<1>1. ToldType /\ asked \in Seq(Requests) /\ published \in Seq(Publishes) /\ BytesType
  BY DEF ToldInv, ToldType
<1>2. answer \in Seq(Nat)
  BY BytesAre DEF Answered, AnswerPairs, AnswerRecords
<1>3. asked' \in Seq(Requests) /\ published' \in Seq(Publishes)
  BY <1>1, AppendProperties
<1>4. <<answer>> \in Seq(Seq(Nat)) /\ <<answer>> = Append(<<>>, answer)
  BY <1>2
<1>5. BytesType'
  BY <1>1, <1>4, WriteOn
<1>6. ASSUME ~AckTooLong'
      PROVE  ReadsInOrder'
  <2>1. ReadsInOrder
    BY <1>1, <1>6, TooLongStays DEF ToldInv
  <2>2. TellAll(<<>>, <<>>)
    BY EmptySeq DEF TellAll
  <2>3. published' = published \o <<>>
    BY <1>1, ConcatEmptySeq
  <2>4. Write(Append(<<>>, answer))
    BY <1>4
  <2> QED BY <1>1, <1>2, <2>1, <2>2, <2>3, <2>4, AnswerOn
<1> QED BY <1>3, <1>5, <1>6 DEF Onward

\* or the connection is closed.
LEMMA Closed ==
  ASSUME ToldInv, Terminate, asked' = asked \/ \E q \in Requests : asked' = Append(asked, q)
  PROVE  Onward
<1>1. ToldType /\ asked \in Seq(Requests) /\ published \in Seq(Publishes) /\ BytesType
  BY DEF ToldInv, ToldType
<1>2. asked' \in Seq(Requests)
  BY <1>1, AppendProperties
<1>3. published' \in Seq(Publishes) /\ BytesType'
  BY <1>1 DEF Terminate, WriteNothing, BytesType
<1>4. ASSUME ~AckTooLong'
      PROVE  ReadsInOrder'
  <2>1. ReadsInOrder
    BY <1>1, <1>4, TooLongStays DEF ToldInv
  <2> QED BY <1>1, <2>1, CloseOn
<1> QED BY <1>2, <1>3, <1>4 DEF Onward

\* CONNECT.
LEMMA ConnectOn ==
  ASSUME ToldInv, open, NEW m \in ConnectMessages, ConnectReceived(m)
  PROVE  Onward
<1> DEFINE q == Request(CONNECT, 0, <<>>)
<1>1. q \in Requests
  BY EmptySeq DEF Requests, Request, CONNECT
<1>2. asked' = Append(asked, q)
  BY DEF ConnectReceived
<1> HIDE DEF q
<1>3. CASE Terminate
  BY <1>1, <1>2, <1>3, Closed
<1>4. CASE ConnectAnswered(m)
  <2>1. UNCHANGED <<open, published>>
    BY <1>4 DEF ConnectAnswered
  <2>2. ASSUME NEW present \in BOOLEAN, NEW code \in Nat, Write(<<ConnAck(present, code)>>)
        PROVE  Onward
    <3>1. Answered(ConnAck(present, code), q)
      BY ConnAckAnswers DEF q
    <3> QED BY <1>1, <1>2, <2>1, <2>2, <3>1, OneAnswer
  <2>3. \/ Write(<<ConnAck(FALSE, ReturnCode(m))>>)
        \/ Write(<<ConnAck(FALSE, 3)>>)
        \/ Write(<<ConnAck(FALSE, 0)>>)
        \/ Write(<<ConnAck(~m.cleanSession, 0)>>)
    BY <1>4, Zenon DEF ConnectAnswered
  <2>4. ReturnCode(m) \in Nat /\ 3 \in Nat /\ 0 \in Nat
    BY ReturnCodeType
  <2>5. FALSE \in BOOLEAN /\ (~m.cleanSession) \in BOOLEAN
    OBVIOUS
  <2> QED BY <2>2, <2>3, <2>4, <2>5, Zenon
<1> QED BY <1>3, <1>4 DEF ConnectReceived

\* UNSUBSCRIBE.
LEMMA UnsubscribeOn ==
  ASSUME ToldInv, open, NEW m \in UnsubscribeMessages, UnsubscribeReceived(m)
  PROVE  Onward
<1> DEFINE q == Request(UNSUBSCRIBE, m.packetId, m.says)
<1>0. m.packetId \in Nat /\ m.says \in Seq(Seq(Nat))
  BY FiltersAssumption
<1>1. q \in Requests
  BY <1>0 DEF Requests, Request, UNSUBSCRIBE
<1>2. asked' = Append(asked, q)
  BY DEF UnsubscribeReceived
<1>3. Answered(UnsubAck(m.packetId), q)
  BY <1>0, UnsubAckAnswers
<1> HIDE DEF q
<1>4. CASE Terminate
  BY <1>1, <1>2, <1>4, Closed
<1>5. ASSUME NEW number, Unsubscribe(m, number)
      PROVE  Onward
  <2>1. Write(<<UnsubAck(m.packetId)>>) /\ UNCHANGED <<open, published>>
    BY <1>5 DEF Unsubscribe
  <2> QED BY <1>1, <1>2, <1>3, <2>1, OneAnswer
<1> QED BY <1>4, <1>5 DEF UnsubscribeReceived

\* PINGREQ.
LEMMA PingOn ==
  ASSUME ToldInv, open, NEW m, PingRequestReceived(m)
  PROVE  Onward
<1> DEFINE q == Request(PINGREQ, 0, <<>>)
<1>1. q \in Requests
  BY EmptySeq DEF Requests, Request, PINGREQ
<1>2. asked' = Append(asked, q)
  BY DEF PingRequestReceived
<1>3. Answered(PingResp, q)
  BY PingRespAnswers
<1> HIDE DEF q
<1>4. CASE Terminate
  BY <1>1, <1>2, <1>4, Closed
<1>5. CASE Write(<<PingResp>>) /\ UNCHANGED <<open, published>>
  BY <1>1, <1>2, <1>3, <1>5, OneAnswer
<1> QED BY <1>4, <1>5 DEF PingRequestReceived

\* Whatever its length is said to be, a SUBACK is bytes.
LEMMA SubAckType ==
  ASSUME NEW packetId \in Nat, NEW results \in Seq(Nat)
  PROVE  SubAck(packetId, results) \in Seq(Nat)
<1>1. PICK n \in Nat : n = Len(results)
  BY LenProperties
<1>2. PICK said \in Nat : said = (2 + n) % ByteRange /\ said < LengthLimit
  <2>1. 2 + n \in Nat /\ ByteRange \in Nat /\ ByteRange > 0
    BY ByteAssumption
  <2>2. (2 + n) % ByteRange \in Nat /\ (2 + n) % ByteRange < ByteRange
    BY <2>1, DivMod
  <2>3. (2 + n) % ByteRange < LengthLimit
    BY <2>1, <2>2, LimitIs
  <2> QED BY <2>2, <2>3
<1>3. RemainingLength(said) \in Seq(Nat)
  BY <1>2, LengthIsRead DEF IsLength
<1>4. PICK first \in Seq(Nat), w \in Seq(Nat), id \in Seq(Nat) :
        first = <<SUBACK * 16 + 0>> /\ w = RemainingLength(said) /\ id = UInt16(packetId)
  <2>1. <<SUBACK * 16 + 0>> \in Seq(Nat)
    BY DEF SUBACK
  <2> QED BY <1>3, <2>1, UInt16Is
<1>5. SubAck(packetId, results) = first \o w \o (id \o results)
  BY <1>1, <1>2, <1>4 DEF SubAck, Written
<1>6. first \o w \in Seq(Nat) /\ id \o results \in Seq(Nat)
  BY ConcatProperties
<1> QED BY <1>5, <1>6, ConcatProperties

\* The messages of publishes are theirs.
LEMMA AllTold ==
  ASSUME NEW publishes \in Seq(Publishes)
  PROVE  TellAll([i \in DOMAIN publishes |-> Publish(publishes[i])], publishes)
<1>1. PICK n \in Nat : n = Len(publishes) /\ DOMAIN publishes = 1..n
  BY LenProperties
<1> DEFINE messages == [i \in 1..n |-> Publish(publishes[i])]
<1>2. ASSUME NEW i \in 1..n
      PROVE  IsTold(Publish(publishes[i]), publishes[i]) /\ Publish(publishes[i]) \in Seq(Nat)
  <2>1. publishes[i] \in Publishes
    BY <1>1, ElementOfSeq
  <2>2. IsTold(Publish(publishes[i]), publishes[i])
    BY <2>1, PublishTells
  <2>3. Publish(publishes[i]) \in Seq(Nat)
    BY <2>2, BytesAre DEF IsTold, PublishPairs, PublishRecords
  <2> QED BY <2>2, <2>3
<1>3. messages \in [1..n -> Seq(Nat)] /\ \A i \in 1..n : messages[i] = Publish(publishes[i])
  BY <1>2
<1> HIDE DEF messages
<1>4. messages \in Seq(Seq(Nat)) /\ Len(messages) = n
  BY <1>3, FunctionIsSeq
<1>5. TellAll(messages, publishes)
  BY <1>1, <1>2, <1>3, <1>4 DEF TellAll
<1> QED BY <1>1, <1>5 DEF messages

\* What a SUBSCRIBE of these topic filters is answered.
LEMMA SubscribeAnswered ==
  ASSUME ToldInv, open, NEW packetId \in Nat, NEW says \in Seq(Seq(Nat)), NEW publishes \in Seq(Publishes),
         NEW results \in Seq(Nat), Len(results) = Len(says),
         \A i \in 1..Len(says) : results[i] = 0 <=> StandsForATopic(says[i]),
         Write([i \in DOMAIN publishes |-> Publish(publishes[i])] \o <<SubAck(packetId, results)>>),
         published' = published \o publishes, UNCHANGED open,
         asked' = Append(asked, Request(SUBSCRIBE, packetId, says))
  PROVE  Onward
<1> DEFINE q == Request(SUBSCRIBE, packetId, says)
           messages == [i \in DOMAIN publishes |-> Publish(publishes[i])]
           answer == SubAck(packetId, results)
<1>1. ToldType /\ asked \in Seq(Requests) /\ published \in Seq(Publishes) /\ BytesType
  BY DEF ToldInv, ToldType
<1>2. q \in Requests /\ q.type = SUBSCRIBE /\ q.says = says
  BY DEF Requests, Request, SUBSCRIBE
<1>3. asked' = Append(asked, q)
  OBVIOUS
<1>4. TellAll(messages, publishes)
  BY AllTold
<1>5. answer \in Seq(Nat)
  BY SubAckType
<1>6. Write(messages \o <<answer>>)
  OBVIOUS
<1> HIDE DEF messages
<1>7. messages \in Seq(Seq(Nat))
  BY <1>4 DEF TellAll
<1>8. Write(Append(messages, answer)) /\ Append(messages, answer) \in Seq(Seq(Nat))
  <2>1. Append(messages, answer) = messages \o <<answer>> /\ Append(messages, answer) \in Seq(Seq(Nat))
    <3> HIDE DEF answer
    <3> QED BY <1>5, <1>7, AppendIsConcat, AppendProperties
  <2> QED BY <1>6, <2>1
<1>9. BytesType'
  BY <1>1, <1>8, WriteOn
<1>10. asked' \in Seq(Requests) /\ published' \in Seq(Publishes)
  <2> HIDE DEF q
  <2>1. asked' \in Seq(Requests)
    BY <1>1, <1>2, <1>3, AppendProperties
  <2>2. published' \in Seq(Publishes)
    BY <1>1, ConcatProperties
  <2> QED BY <2>1, <2>2
<1>11. ASSUME ~AckTooLong'
       PROVE  ReadsInOrder'
  <2>1. ReadsInOrder
    <3> HIDE DEF q
    <3> QED BY <1>1, <1>2, <1>3, <1>11, TooLongStays DEF ToldInv
  <2>2. Len(says) < ByteRange - 2
    <3>1. ~(Len(q.says) >= ByteRange - 2)
      <4> HIDE DEF q
      <4> QED BY <1>1, <1>2, <1>3, <1>11, TooLongComes
    <3>2. Len(says) \in Nat /\ ByteRange \in Nat
      BY LenProperties, ByteAssumption
    <3> QED BY <1>2, <3>1, <3>2
  <2>3. Answered(answer, q)
    BY <2>2, SubAckAnswers
  <2> HIDE DEF q, answer
  <2> QED BY <1>1, <1>2, <1>3, <1>4, <1>5, <1>8, <2>1, <2>3, AnswerOn
<1> QED BY <1>9, <1>10, <1>11 DEF Onward

\* SUBSCRIBE.
LEMMA SubscribeOn ==
  ASSUME ToldInv, open, NEW m \in SubscribeMessages, SubscribeReceived(m)
  PROVE  Onward
<1> DEFINE q == Request(SUBSCRIBE, m.packetId, m.says)
<1>0. /\ m.packetId \in Nat /\ m.says \in Seq(Seq(Nat)) /\ m.payload \in Seq(Nat)
      /\ SaysFilters(m, Tails(TRUE), TailSize(TRUE))
  BY FiltersAssumption DEF Tails, TailSize
<1>1. q \in Requests
  BY <1>0 DEF Requests, Request, SUBSCRIBE
<1>2. asked' = Append(asked, q)
  BY DEF SubscribeReceived
<1>3. CASE Terminate
  <2> HIDE DEF q
  <2> QED BY <1>1, <1>2, <1>3, Closed
<1>4. ASSUME NEW number \in ParseFilters(m, TRUE), Subscribe(m, number)
      PROVE  Onward
  <2>1. m.says # <<>> /\ number = Len(m.says)
    <3>1. /\ ParseFilters(m, TRUE) # {} <=> m.says # <<>>
          /\ m.says # <<>> => ParseFilters(m, TRUE) = {Len(m.says)}
      BY ParsesWellFormedFilters
    <3>2. number \in ParseFilters(m, TRUE)
      OBVIOUS
    <3>3. ParseFilters(m, TRUE) # {}
      BY <3>2
    <3>4. m.says # <<>>
      BY <3>1, <3>3
    <3>5. number \in {Len(m.says)}
      BY <3>1, <3>2, <3>4
    <3>6. number = Len(m.says)
      BY <3>5
    <3> QED BY <3>4, <3>6
  <2>2. Spells(m.payload, m.says, Tails(TRUE), TailSize(TRUE))
    BY <1>0, <2>1, Zenon DEF SaysFilters
  <2> DEFINE filter(i) == TopicFilter(m.payload, TRUE, i)
             topics == [i \in 1..number |-> TopicsOf(filter(i))]
             results == [i \in 1..number |-> SubscribeResult(TopicsOf(filter(i)) # <<>>)]
             publishes == RetainedPublishes(FlattenSeq(topics))
  <2>3. /\ published' = published \o publishes /\ UNCHANGED open
        /\ Write([i \in DOMAIN publishes |-> Publish(publishes[i])] \o <<SubAck(m.packetId, results)>>)
    <3>1. \A i \in 1..number : [k \in 1..number |-> filter(k)][i] = filter(i)
      OBVIOUS
    <3>2. topics = [i \in 1..number |-> TopicsOf([k \in 1..number |-> filter(k)][i])]
      BY <3>1
    <3>3. results = [i \in 1..number |-> SubscribeResult(TopicsOf([k \in 1..number |-> filter(k)][i]) # <<>>)]
      BY <3>1
    <3> HIDE DEF topics, results
    <3> QED BY <1>4, <3>2, <3>3, Zenon DEF Subscribe
  <2>4. PICK n \in Nat : n = number /\ n = Len(m.says)
    BY <1>0, <2>1, LenProperties
  <2>5. ASSUME NEW i \in 1..n
        PROVE  /\ TopicsOf(filter(i)) \in Seq(Range(Topics))
               /\ TopicsOf(filter(i)) # <<>> <=> StandsForATopic(m.says[i])
    <3>1. filter(i) = m.says[i]
      <4>1. i \in 1..Len(m.says)
        BY <2>4
      <4> QED BY <1>0, <2>2, <4>1, FilterIsSaid
    <3>2. m.says[i] \in Seq(Nat)
      BY <1>0, <2>4, ElementOfSeq
    <3> HIDE DEF filter
    <3> QED BY <3>1, <3>2, TopicsOfAre
  <2> HIDE DEF filter
  <2>6. publishes \in Seq(Publishes)
    <3>1. topics \in [1..n -> Seq(Range(Topics))]
      BY <2>4, <2>5
    <3> HIDE DEF topics
    <3>2. topics \in Seq(Seq(Range(Topics)))
      BY <3>1, FunctionIsSeq
    <3>3. FlattenSeq(topics) \in Seq(Range(Topics))
      BY <3>2, FlattenType
    <3> QED BY <3>3, RetainedAre DEF ToldInv, ToldType
  <2>7. /\ results \in Seq(Nat) /\ Len(results) = n
        /\ \A i \in 1..n : results[i] = 0 <=> StandsForATopic(m.says[i])
    <3>1. \A success \in BOOLEAN : /\ SubscribeResult(success) \in Nat
                                   /\ SubscribeResult(success) = 0 <=> success
      <4>1. ByteRange \div 2 \in Nat /\ ByteRange \div 2 # 0
        BY RadixIs DEF Radix
      <4> QED BY <4>1 DEF SubscribeResult
    <3>2. ASSUME NEW i \in 1..n
          PROVE  results[i] \in Nat /\ (results[i] = 0 <=> StandsForATopic(m.says[i]))
      <4>1. results[i] = SubscribeResult(TopicsOf(filter(i)) # <<>>)
        BY <2>4
      <4>2. (TopicsOf(filter(i)) # <<>>) \in BOOLEAN
        OBVIOUS
      <4> HIDE DEF results
      <4> QED BY <2>5, <3>1, <4>1, <4>2, Zenon
    <3>3. results \in [1..n -> Nat]
      BY <2>4, <3>2
    <3> HIDE DEF results
    <3> QED BY <3>2, <3>3, FunctionIsSeq
  <2> HIDE DEF publishes, results, q
  <2>8. asked' = Append(asked, Request(SUBSCRIBE, m.packetId, m.says))
    BY <1>2 DEF q
  <2> QED BY <1>0, <2>3, <2>4, <2>6, <2>7, <2>8, SubscribeAnswered
<1>5. Terminate \/ \E number \in ParseFilters(m, TRUE) : Subscribe(m, number)
  <2>1. CASE hasSession
    BY <2>1, Zenon DEF SubscribeReceived
  <2>2. CASE ~hasSession
    BY <2>2, Zenon DEF SubscribeReceived
  <2> QED BY <2>1, <2>2
<1> QED BY <1>3, <1>4, <1>5

\* A leaf is set.
LEMMA LeafSetOn ==
  ASSUME ToldInv, NEW topic \in Range(Topics), NEW value \in Values, LeafSet(topic, value)
  PROVE  Onward /\ RetainedType'
<1>1. ToldType /\ asked \in Seq(Requests) /\ published \in Seq(Publishes) /\ BytesType
  BY DEF ToldInv, ToldType
<1>2. open /\ UNCHANGED <<open, asked>>
  BY DEF LeafSet
<1>3. RetainedType'
  <2>1. PICK topics \in SUBSET Range(Topics) : retained \in [topics -> Values]
    BY <1>1 DEF ToldType, RetainedType
  <2>2. retained' = [t \in topics \cup {topic} |-> IF t = topic THEN value ELSE retained[t]]
    BY <2>1 DEF LeafSet
  <2>3. retained' \in [topics \cup {topic} -> Values]
    BY <2>1, <2>2
  <2>4. topics \cup {topic} \in SUBSET Range(Topics)
    OBVIOUS
  <2> QED BY <2>3, <2>4 DEF RetainedType
<1>4. ASSUME ~AckTooLong'
      PROVE  ReadsInOrder
  BY <1>1, <1>2, <1>4, TooLongStays DEF ToldInv
<1> DEFINE p == [topic |-> topic, value |-> value, retain |-> FALSE]
<1>5. CASE published' = Append(published, p) /\ Write(<<Publish(p)>>)
  <2>1. p \in Publishes
    BY DEF Publishes
  <2> HIDE DEF p
  <2>2. IsTold(Publish(p), p)
    BY <2>1, PublishTells
  <2>3. Publish(p) \in Seq(Nat)
    BY <2>2, BytesAre DEF IsTold, PublishPairs, PublishRecords
  <2>4. TellAll(<<Publish(p)>>, <<p>>)
    <3>1. <<Publish(p)>> \in Seq(Seq(Nat)) /\ <<p>> \in Seq(Publishes)
      BY <2>1, <2>3
    <3>2. Len(<<Publish(p)>>) = 1 /\ Len(<<p>>) = 1
      OBVIOUS
    <3>3. \A i \in 1..1 : IsTold(<<Publish(p)>>[i], <<p>>[i])
      BY <2>2
    <3> QED BY <3>1, <3>2, <3>3 DEF TellAll
  <2>5. BytesType'
    <3>1. <<Publish(p)>> \in Seq(Seq(Nat))
      BY <2>3
    <3> QED BY <1>1, <1>5, <3>1, WriteOn
  <2>6. published' = published \o <<p>> /\ published' \in Seq(Publishes)
    BY <1>1, <1>5, <2>1, AppendIsConcat, AppendProperties
  <2>7. ~AckTooLong' => ReadsInOrder'
    BY <1>1, <1>2, <1>4, <1>5, <2>4, <2>6, PublishOn
  <2> QED BY <1>1, <1>2, <1>3, <2>5, <2>6, <2>7 DEF Onward
<1>6. CASE WriteNothing /\ UNCHANGED published
  <2>1. UNCHANGED <<open, toClient, readable, half, published, asked>>
    BY <1>2, <1>6 DEF WriteNothing
  <2>2. BytesType'
    BY <1>1, <2>1 DEF BytesType
  <2>3. ~AckTooLong' => ReadsInOrder'
    BY <1>1, <1>4, <2>1, StillOn
  <2> QED BY <1>1, <1>3, <2>1, <2>2, <2>3 DEF Onward
<1> QED BY <1>5, <1>6, Zenon DEF LeafSet

\* A message is received.
LEMMA MessageOn ==
  ASSUME ToldInv, MessageReceived
  PROVE  Onward /\ RetainedType'
<1>1. open /\ UNCHANGED retained
  BY DEF MessageReceived
<1>2. RetainedType'
  BY <1>1 DEF ToldInv, ToldType, RetainedType
<1>3. ASSUME NEW m \in OtherMessages, ConnectionEnded(m)
      PROVE  Onward
  BY <1>3, Closed DEF ConnectionEnded
<1>4. ASSUME NEW m \in OtherMessages, Unimplemented(m)
      PROVE  Onward
  <2>1. UNCHANGED <<open, toClient, readable, half, published, asked>>
    BY <1>4 DEF Unimplemented, WriteNothing
  <2>2. AckTooLong' = AckTooLong
    BY <2>1 DEF AckTooLong
  <2>3. BytesType' /\ asked' \in Seq(Requests) /\ published' \in Seq(Publishes)
    BY <2>1 DEF ToldInv, ToldType, BytesType
  <2>4. ~AckTooLong' => ReadsInOrder'
    BY <2>1, <2>2, StillOn DEF ToldInv
  <2> QED BY <2>3, <2>4 DEF Onward
<1>5. Onward
  BY <1>1, <1>3, <1>4, ConnectOn, SubscribeOn, UnsubscribeOn, PingOn DEF MessageReceived
<1> QED BY <1>2, <1>5

\* So the client reads what it is to be told, always.
LEMMA ToldAlways == Spec => []ToldInv
<1>1. ASSUME Init
      PROVE  ToldInv
  <2>1. /\ toClient = <<>> /\ readable = 0 /\ half = FALSE
        /\ asked = <<>> /\ published = <<>> /\ retained \in RetainedBefore
    BY <1>1 DEF Init
  <2>2. \A T : <<>> \in Seq(T) /\ Len(<<>>) = 0
    BY EmptySeq
  <2>3. BytesType
    <3>1. <<>> \in Seq(Nat) /\ Len(<<>>) = 0
      BY EmptySeq
    <3>2. toClient \in Seq(Nat) /\ Len(toClient) = 0
      BY <2>1, <3>1, Zenon
    <3>3. readable \in 0..Len(toClient) /\ readable = Len(toClient)
      BY <2>1, <3>2
    <3> QED BY <2>1, <3>2, <3>3, Zenon DEF BytesType
  <2>4. RetainedType
    BY <2>1, PublishAssumption, Zenon DEF RetainedType
  <2>5. ReadPart = <<>>
    BY <2>1, SubSeqEmpty DEF ReadPart
  <2>6. ReadsUp(<<>>, <<>>, <<>>, open, half)
    BY <2>2, ToldNothing, ReadsAll
  <2> QED BY <2>1, <2>2, <2>3, <2>4, <2>5, <2>6 DEF ToldInv, ToldType, ReadsInOrder
<1>2. ASSUME ToldInv, [Next]_vars
      PROVE  ToldInv'
  <2>1. CASE Onward /\ RetainedType'
    BY <2>1 DEF Onward, ToldInv, ToldType
  <2>2. CASE MessageReceived
    BY <1>2, <2>1, <2>2, MessageOn
  <2>3. CASE \E topic \in Range(Topics), value \in Values : LeafSet(topic, value)
    BY <1>2, <2>1, <2>3, LeafSetOn
  <2>4. CASE UNCHANGED vars
    BY <1>2, <2>4 DEF vars, ToldInv, ToldType, BytesType, RetainedType, AckTooLong, ReadsInOrder, ReadPart
  <2> QED BY <1>2, <2>2, <2>3, <2>4 DEF Next
<1> QED BY <1>1, <1>2, PTL DEF Spec

\* What can be read in a state: the first answers and publishes, in their order.
LEMMA ReadNow ==
  ASSUME ToldInv, ~AckTooLong
  PROVE  \E i \in 0..Len(asked) : \E j \in 0..Len(published) :
           /\ ReadAnswers \in Seq(MessageRecords) /\ Len(ReadAnswers) = i
           /\ \A k \in 1..i : Answers(ReadAnswers[k], asked[k])
           /\ ReadPublishes \in Seq(MessageRecords) /\ Len(ReadPublishes) = j
           /\ \A k \in 1..j : Tells(ReadPublishes[k], published[k])
           /\ open /\ ~half => i = Len(asked)
           /\ ~half => j = Len(published)
<1>1. /\ ToldType /\ BytesType /\ asked \in Seq(Requests) /\ published \in Seq(Publishes)
      /\ ReadsInOrder
  BY DEF ToldInv, ToldType
<1>2. PICK i \in 0..Len(asked), j \in 0..Len(published) :
        /\ Told(ReadPart, SubSeq(asked, 1, i), SubSeq(published, 1, j))
        /\ open /\ ~half => i = Len(asked)
        /\ ~half => j = Len(published)
  BY <1>1, Zenon DEF ReadsInOrder, ReadsUp
<1>3. ReadPart \in Seq(Nat)
  BY <1>1, BeginningType DEF BytesType, ReadPart
<1>4. Read = Messages(ReadPart)
  BY DEF Read, ReadPart
<1>5. /\ Read \in Seq(MessageRecords)
      /\ Paired(ReadAnswers, SubSeq(asked, 1, i), AnswerPairs)
      /\ Paired(ReadPublishes, SubSeq(published, 1, j), PublishPairs)
  BY <1>2, <1>3, <1>4, ToldIsRead DEF ReadAnswers, ReadPublishes
<1>6. ReadAnswers \in Seq(MessageRecords) /\ ReadPublishes \in Seq(MessageRecords)
  <2>1. \A set : Only(Read, set) \in Seq(MessageRecords)
    <3>1. \A set : Only(Read, set) \in Seq(MessageRecords \cap set)
      BY <1>5, OnlyType
    <3>2. \A set : MessageRecords \cap set \subseteq MessageRecords
      OBVIOUS
    <3> QED BY <3>1, <3>2, SeqMonotonic
  <2> QED BY <2>1 DEF ReadAnswers, ReadPublishes
<1>7. /\ Len(SubSeq(asked, 1, i)) = i /\ \A k \in 1..i : SubSeq(asked, 1, i)[k] = asked[k]
  BY <1>1, BeginningType, BeginningElement
<1>8. /\ Len(SubSeq(published, 1, j)) = j /\ \A k \in 1..j : SubSeq(published, 1, j)[k] = published[k]
  BY <1>1, BeginningType, BeginningElement
<1>9. \A k \in 1..i : Answers(ReadAnswers[k], asked[k])
  BY <1>5, <1>7 DEF Paired, AnswerPairs
<1>10. \A k \in 1..j : Tells(ReadPublishes[k], published[k])
  BY <1>5, <1>8 DEF Paired, PublishPairs
<1>11. Len(ReadAnswers) = i /\ Len(ReadPublishes) = j
  BY <1>5, <1>7, <1>8 DEF Paired
<1> QED BY <1>2, <1>6, <1>9, <1>10, <1>11

\* Every request of a client is answered, in order, with its own packet ID and a result
\* for each of its topic filters, for every number and length of them.
THEOREM AlwaysAnswersAsAsked == Spec => []AnswersAsAsked
<1>1. ASSUME ToldInv
      PROVE  AnswersAsAsked
  <2> SUFFICES ASSUME ~AckTooLong
               PROVE  /\ Len(ReadAnswers) <= Len(asked)
                      /\ \A i \in DOMAIN ReadAnswers : Answers(ReadAnswers[i], asked[i])
                      /\ open /\ ~half => Len(ReadAnswers) = Len(asked)
    BY DEF AnswersAsAsked
  <2>1. PICK n \in 0..Len(asked) :
          /\ ReadAnswers \in Seq(MessageRecords) /\ Len(ReadAnswers) = n
          /\ \A k \in 1..n : Answers(ReadAnswers[k], asked[k])
          /\ open /\ ~half => n = Len(asked)
    BY <1>1, ReadNow, Zenon
  <2>2. DOMAIN ReadAnswers = 1..n
    BY <2>1, LenProperties
  <2>3. n <= Len(asked)
    BY <1>1, LenProperties DEF ToldInv, ToldType
  <2> QED BY <2>1, <2>2, <2>3
<1> QED BY <1>1, ToldAlways, PTL

\* A client reads the values it was sent, whole, in order and marked as retained or new,
\* up to a message the socket did not take in full, for every topic and value.
THEOREM AlwaysPublishesReadable == Spec => []PublishesReadable
<1>1. ASSUME ToldInv
      PROVE  PublishesReadable
  <2> SUFFICES ASSUME ~AckTooLong
               PROVE  /\ Len(ReadPublishes) <= Len(published)
                      /\ \A i \in DOMAIN ReadPublishes : Tells(ReadPublishes[i], published[i])
                      /\ ~half => Len(ReadPublishes) = Len(published)
    BY DEF PublishesReadable
  <2>1. PICK n \in 0..Len(published) :
          /\ ReadPublishes \in Seq(MessageRecords) /\ Len(ReadPublishes) = n
          /\ \A k \in 1..n : Tells(ReadPublishes[k], published[k])
          /\ ~half => n = Len(published)
    BY <1>1, ReadNow, Zenon
  <2>2. DOMAIN ReadPublishes = 1..n
    BY <2>1, LenProperties
  <2>3. n <= Len(published)
    BY <1>1, LenProperties DEF ToldInv, ToldType
  <2> QED BY <2>1, <2>2, <2>3
<1> QED BY <1>1, ToldAlways, PTL

==============================================================================
