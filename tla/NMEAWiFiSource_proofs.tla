---------------------- MODULE NMEAWiFiSource_proofs ----------------------
(***************************************************************************)
(* Proofs of what an NMEA source makes of the streams a WiFi source reads, *)
(* for every set of streams, every set of sentences, every line length and *)
(* every way a stream is cut into pieces.  The two functions involved, Cut *)
(* of processBuffer and IdealAfter, are defined by recursion over their    *)
(* input: what they make of a sequence is proved by induction over its     *)
(* length.                                                                 *)
(***************************************************************************)
EXTENDS NMEAWiFiSource, SequenceTheorems, WellFoundedInduction, TLAPS

-----------------------------------------------------------------------------
(* Induction *)


\* Of a set of natural numbers, one is the least.
LEMMA Least ==
  ASSUME NEW T \in SUBSET Nat, T # {}
  PROVE  \E m \in T : \A k \in T : m <= k
<1> DEFINE Less == {ss \in Nat \X Nat : ss[1] < ss[2]}
<1>1. IsWellFoundedOn(Less, Nat)
  BY NatLessThanWellFounded, Zenon DEF OpToRel
<1>2. \E m \in T : \A k \in T : <<k, m>> \notin Less
  <2> HIDE DEF Less
  <2> QED BY <1>1, WFMin
<1>3. PICK m \in T : \A k \in T : <<k, m>> \notin Less
  BY <1>2
<1>4. ASSUME NEW k \in T
      PROVE  m <= k
  <2>1. k \in Nat /\ m \in Nat
    BY T \subseteq Nat
  <2>2. ~(k < m)
    BY <1>3, <2>1
  <2> QED BY <2>1, <2>2
<1> QED BY <1>4

\* A set that contains 0 and with every number below n the next one, contains all up to n.
LEMMA Induction ==
  ASSUME NEW n \in Nat, NEW S, 0 \in S,
         \A k \in Nat : k < n /\ k \in S => k + 1 \in S
  PROVE  \A k \in Nat : k <= n => k \in S
<1> SUFFICES ASSUME NEW k \in Nat, k <= n, k \notin S PROVE FALSE
  OBVIOUS
<1> DEFINE T == {j \in Nat : j <= n /\ j \notin S}
<1>1. T \in SUBSET Nat /\ T # {}
  OBVIOUS
<1>2. PICK m \in T : \A j \in T : m <= j
  BY <1>1, Least
<1>3. m \in Nat /\ m # 0 /\ m <= n /\ m \notin S
  OBVIOUS
<1>4. m - 1 \in Nat /\ m - 1 < n /\ ~(m <= m - 1) /\ (m - 1) + 1 = m
  BY <1>3
<1>5. m - 1 \in S
  BY <1>2, <1>3, <1>4
<1> QED BY <1>3, <1>4, <1>5

\* The function of IdealAfter.
AfterFrom(i, chars, after) ==
  after = [n \in 0..Len(chars) |-> IF n = 0 THEN i ELSE IdealStep(after[n - 1], chars[n])]

\* IdealAfter is what a function with that equation is at the last character.
LEMMA IdealAfterIs ==
  ASSUME NEW i, NEW chars
  PROVE  IdealAfter(i, chars) = (CHOOSE after : AfterFrom(i, chars, after))[Len(chars)]
BY Zenon DEF IdealAfter, AfterFrom

\* There is such a function, up to every length.
LEMMA AfterExists ==
  ASSUME NEW i, NEW chars, Len(chars) \in Nat
  PROVE  \E after : AfterFrom(i, chars, after)
<1> DEFINE N == Len(chars)
           Upto(m, f) == f = [n \in 0..m |-> IF n = 0 THEN i ELSE IdealStep(f[n - 1], chars[n])]
           S == {m \in 0..N : \E f : Upto(m, f)}
<1>1. 0 \in S
  <2> DEFINE f == [n \in 0..0 |-> i]
  <2>1. Upto(0, f)
    OBVIOUS
  <2>2. 0 \in 0..N
    OBVIOUS
  <2> HIDE DEF Upto, f, N
  <2> QED BY <2>1, <2>2
<1>2. ASSUME NEW k \in Nat, k < N, k \in S
      PROVE  k + 1 \in S
  <2>1. PICK f : Upto(k, f)
    BY <1>2
  <2> DEFINE g == [n \in 0..(k + 1) |-> IF n = k + 1 THEN IdealStep(f[k], chars[k + 1]) ELSE f[n]]
  <2>2. \A n \in 0..k : g[n] = f[n]
    OBVIOUS
  <2>3. \A n \in 0..k : f[n] = IF n = 0 THEN i ELSE IdealStep(f[n - 1], chars[n])
    BY <2>1
  <2>4. \A n \in 0..(k + 1) : g[n] = IF n = 0 THEN i ELSE IdealStep(g[n - 1], chars[n])
    <3> TAKE n \in 0..(k + 1)
    <3>1. CASE n = 0
      <4>1. n \in 0..k /\ f[n] = i
        BY <2>3, <3>1
      <4> QED BY <2>2, <3>1, <4>1
    <3>2. CASE n # 0 /\ n # k + 1
      <4>1. n \in 0..k /\ n - 1 \in 0..k
        BY <3>2
      <4> QED BY <2>2, <2>3, <3>2, <4>1
    <3>3. CASE n = k + 1
      <4>1. n - 1 = k /\ k \in 0..k /\ n # 0
        BY <3>3
      <4>2. g[n] = IdealStep(f[k], chars[n])
        BY <3>3
      <4>3. g[n - 1] = f[k]
        BY <2>2, <4>1
      <4> QED BY <4>1, <4>2, <4>3
    <3> QED BY <3>1, <3>2, <3>3
  <2>5. Upto(k + 1, g)
    <3> DEFINE h == [n \in 0..(k + 1) |-> IF n = 0 THEN i ELSE IdealStep(g[n - 1], chars[n])]
    <3>1. g = h
      BY <2>4, Zenon
    <3> QED BY <3>1
  <2>6. k + 1 \in 0..N
    BY <1>2
  <2> HIDE DEF Upto, g
  <2> QED BY <2>5, <2>6
<1>3. N \in S
  <2>1. N \in Nat /\ N <= N
    OBVIOUS
  <2> HIDE DEF S, N
  <2> QED BY <1>1, <1>2, <2>1, Induction, Zenon
<1>4. PICK f : Upto(N, f)
  BY <1>3
<1> QED BY <1>4 DEF AfterFrom

\* The lines there are after one more character.
LEMMA AfterAppend ==
  ASSUME NEW i, NEW T, NEW chars \in Seq(T), NEW char \in T
  PROVE  /\ IdealAfter(i, <<>>) = i
         /\ IdealAfter(i, Append(chars, char)) = IdealStep(IdealAfter(i, chars), char)
<1> DEFINE longer == Append(chars, char)
           n == Len(chars)
<1>1. /\ n \in Nat /\ longer \in Seq(T) /\ Len(longer) = n + 1
      /\ \A k \in 1..n : longer[k] = chars[k]
      /\ longer[n + 1] = char
  BY AppendProperties, LenProperties
<1> HIDE DEF longer
<1>2. PICK f : AfterFrom(i, chars, f) /\ IdealAfter(i, chars) = f[n]
  <2>1. \E f : AfterFrom(i, chars, f)
    BY <1>1, AfterExists
  <2> QED BY <2>1, IdealAfterIs, Zenon
<1>3. PICK g : AfterFrom(i, longer, g) /\ IdealAfter(i, longer) = g[n + 1]
  <2>0. Len(longer) \in Nat
    BY <1>1
  <2>1. \E g : AfterFrom(i, longer, g)
    BY <2>0, AfterExists, Zenon
  <2>2. Len(longer) = n + 1
    BY <1>1
  <2> QED BY <2>1, <2>2, IdealAfterIs, Zenon
<1>4. \A k \in 0..n : f[k] = IF k = 0 THEN i ELSE IdealStep(f[k - 1], chars[k])
  BY <1>2 DEF AfterFrom
<1>5. \A k \in 0..(n + 1) : g[k] = IF k = 0 THEN i ELSE IdealStep(g[k - 1], longer[k])
  BY <1>1, <1>3 DEF AfterFrom
<1> DEFINE S == {k \in 0..n : g[k] = f[k]}
<1>6. 0 \in S
  BY <1>1, <1>4, <1>5
<1>7. ASSUME NEW k \in Nat, k < n, k \in S
      PROVE  k + 1 \in S
  <2>1. k + 1 \in 0..n /\ k + 1 \in 1..n /\ k + 1 \in 0..(n + 1) /\ k + 1 # 0 /\ (k + 1) - 1 = k
    BY <1>1, <1>7
  <2>2. f[k + 1] = IdealStep(f[k], chars[k + 1])
    BY <1>4, <2>1
  <2>3. g[k + 1] = IdealStep(g[k], chars[k + 1])
    BY <1>1, <1>5, <2>1
  <2> QED BY <1>7, <2>1, <2>2, <2>3
<1>8. n \in S
  <2>1. n \in Nat /\ n <= n
    BY <1>1
  <2> HIDE DEF S, n
  <2> QED BY <1>6, <1>7, <2>1, Induction, Zenon
<1>9. g[n + 1] = IdealStep(f[n], char)
  <2>1. n + 1 \in 0..(n + 1) /\ n + 1 # 0 /\ (n + 1) - 1 = n
    BY <1>1
  <2> QED BY <1>1, <1>5, <1>8, <2>1
<1>10. IdealAfter(i, <<>>) = i
  <2>1. Len(<<>>) = 0 /\ 0 \in Nat
    OBVIOUS
  <2>2. PICK h : AfterFrom(i, <<>>, h) /\ IdealAfter(i, <<>>) = h[0]
    <3>1. \E h : AfterFrom(i, <<>>, h)
      BY <2>1, AfterExists
    <3> QED BY <2>1, <3>1, IdealAfterIs, Zenon
  <2>3. h[0] = i
    BY <2>1, <2>2 DEF AfterFrom
  <2> QED BY <2>2, <2>3
<1> QED BY <1>2, <1>3, <1>9, <1>10 DEF longer

-----------------------------------------------------------------------------
(* Parts of sequences *)

\* A part of a sequence is part of a longer one, and longer by the same element.
LEMMA PartAppend ==
  ASSUME NEW T, NEW a \in Seq(T), NEW b \in Seq(T), NEW x \in T, IsPartOf(a, b)
  PROVE  IsPartOf(a, Append(b, x)) /\ IsPartOf(Append(a, x), Append(b, x))
<1> DEFINE ax == Append(a, x)
           bx == Append(b, x)
<1>1. /\ Len(a) \in Nat /\ DOMAIN a = 1..Len(a) /\ ax \in Seq(T) /\ Len(ax) = Len(a) + 1
      /\ \A k \in 1..Len(a) : ax[k] = a[k]
      /\ ax[Len(a) + 1] = x /\ DOMAIN ax = 1..(Len(a) + 1)
  BY AppendProperties, LenProperties
<1>2. /\ Len(b) \in Nat /\ DOMAIN b = 1..Len(b) /\ bx \in Seq(T) /\ Len(bx) = Len(b) + 1
      /\ \A k \in 1..Len(b) : bx[k] = b[k]
      /\ bx[Len(b) + 1] = x /\ DOMAIN bx = 1..(Len(b) + 1)
  BY AppendProperties, LenProperties
<1> HIDE DEF ax, bx
<1>3. PICK place \in [DOMAIN a -> DOMAIN b] :
        /\ \A i, j \in DOMAIN a : i < j => place[i] < place[j]
        /\ \A i \in DOMAIN a : a[i] = b[place[i]]
  BY DEF IsPartOf
<1>4. IsPartOf(a, bx)
  <2>1. place \in [DOMAIN a -> DOMAIN bx]
    BY <1>1, <1>2, <1>3
  <2>2. \A i \in DOMAIN a : a[i] = bx[place[i]]
    BY <1>1, <1>2, <1>3
  <2> QED BY <1>3, <2>1, <2>2 DEF IsPartOf
<1>5. IsPartOf(ax, bx)
  <2> DEFINE there == [i \in DOMAIN ax |-> IF i = Len(a) + 1 THEN Len(b) + 1 ELSE place[i]]
  <2>1. \A i \in DOMAIN ax : i # Len(a) + 1 =>
          i \in DOMAIN a /\ there[i] = place[i] /\ place[i] \in DOMAIN b
    BY <1>1, <1>3
  <2>2. there[Len(a) + 1] = Len(b) + 1
    BY <1>1
  <2>3. there \in [DOMAIN ax -> DOMAIN bx]
    BY <1>1, <1>2, <2>1
  <2>4. ASSUME NEW i \in DOMAIN ax, NEW j \in DOMAIN ax, i < j
        PROVE  there[i] < there[j]
    <3>1. i # Len(a) + 1 /\ i \in DOMAIN a /\ there[i] = place[i] /\ place[i] \in 1..Len(b)
      BY <1>1, <1>2, <2>1, <2>4
    <3>2. CASE j = Len(a) + 1
      BY <1>2, <2>2, <3>1, <3>2
    <3>3. CASE j # Len(a) + 1
      BY <1>3, <2>1, <2>4, <3>1, <3>3
    <3> QED BY <3>2, <3>3
  <2>5. \A i \in DOMAIN ax : ax[i] = bx[there[i]]
    BY <1>1, <1>2, <1>3, <2>1, <2>2
  <2> HIDE DEF there
  <2> QED BY <2>3, <2>4, <2>5 DEF IsPartOf
<1> QED BY <1>4, <1>5 DEF ax, bx

\* A sequence that is part of both, of at most a few elements less than the first.
Common(common, few, some, others) ==
  /\ Len(common) <= Len(some)
  /\ IsPartOf(common, some) /\ IsPartOf(common, others)
  /\ Len(common) + few >= Len(some)

\* What is in both sequences may be any sequence.
LEMMA AllButIs ==
  ASSUME NEW T, NEW a \in Seq(T), NEW b \in Seq(T), NEW k \in Nat
  PROVE  AllBut(k, a, b) <=> \E c \in Seq(T) : Common(c, k, a, b)
<1>1. Len(a) \in Nat /\ DOMAIN a = 1..Len(a)
  BY LenProperties
<1>2. Range(a) \subseteq T
  BY RangeOfSeq
<1>3. ASSUME AllBut(k, a, b)
      PROVE  \E c \in Seq(T) : Common(c, k, a, b)
  <2>0. PICK n \in 0..Len(a) : \E c \in [1..n -> Range(a)] :
          IsPartOf(c, a) /\ IsPartOf(c, b) /\ Len(c) + k >= Len(a)
    BY <1>3 DEF AllBut
  <2>1. PICK c \in [1..n -> Range(a)] :
          IsPartOf(c, a) /\ IsPartOf(c, b) /\ Len(c) + k >= Len(a)
    BY <2>0
  <2>2. c \in Seq(T) /\ Len(c) = n
    BY <1>1, <1>2, SeqDef
  <2> QED BY <1>1, <2>1, <2>2 DEF Common
<1>4. ASSUME NEW c \in Seq(T), Common(c, k, a, b)
      PROVE  AllBut(k, a, b)
  <2>1. Len(c) \in 0..Len(a) /\ DOMAIN c = 1..Len(c) /\ c \in [1..Len(c) -> T]
    BY <1>1, <1>4, LenProperties DEF Common
  <2>2. \A i \in 1..Len(c) : c[i] \in Range(a)
    BY <1>4, <2>1 DEF Common, IsPartOf, Range
  <2>3. c \in [1..Len(c) -> Range(a)]
    BY <2>1, <2>2
  <2> QED BY <1>4, <2>1, <2>3 DEF Common, AllBut
<1> QED BY <1>3, <1>4

\* One more element in both, in one of them, and no element.
LEMMA AllButAppend ==
  ASSUME NEW T, NEW a \in Seq(T), NEW b \in Seq(T), NEW x \in T, NEW k \in Nat,
         AllBut(k, a, b)
  PROVE  /\ AllBut(k, Append(a, x), Append(b, x))
         /\ AllBut(k, a, Append(b, x))
         /\ AllBut(k + 1, Append(a, x), b)
<1>1. /\ Append(a, x) \in Seq(T) /\ Append(b, x) \in Seq(T)
      /\ Len(Append(a, x)) = Len(a) + 1 /\ Len(a) \in Nat
  BY AppendProperties, LenProperties
<1>2. PICK c \in Seq(T) : Common(c, k, a, b)
  BY AllButIs
<1>3. Append(c, x) \in Seq(T) /\ Len(Append(c, x)) = Len(c) + 1 /\ Len(c) \in Nat
  BY AppendProperties, LenProperties
<1>4. /\ IsPartOf(c, a) /\ IsPartOf(c, b) /\ Len(c) <= Len(a) /\ Len(c) + k >= Len(a)
  BY <1>2 DEF Common
<1>5. /\ IsPartOf(c, Append(a, x)) /\ IsPartOf(Append(c, x), Append(a, x))
      /\ IsPartOf(c, Append(b, x)) /\ IsPartOf(Append(c, x), Append(b, x))
  BY <1>4, PartAppend
<1>6. Common(Append(c, x), k, Append(a, x), Append(b, x))
  BY <1>1, <1>3, <1>4, <1>5 DEF Common
<1>7. Common(c, k, a, Append(b, x))
  BY <1>4, <1>5 DEF Common
<1>8. Common(c, k + 1, Append(a, x), b)
  BY <1>1, <1>3, <1>4, <1>5 DEF Common
<1>9. AllBut(k, Append(a, x), Append(b, x))
  BY <1>1, <1>3, <1>6, AllButIs
<1>10. AllBut(k, a, Append(b, x))
  BY <1>1, <1>7, AllButIs
<1>11. AllBut(k + 1, Append(a, x), b)
  <2>1. k + 1 \in Nat
    OBVIOUS
  <2> QED BY <1>1, <1>8, <2>1, AllButIs
<1> QED BY <1>9, <1>10, <1>11

\* With more elements that may be missing, too.
LEMMA AllButMore ==
  ASSUME NEW T, NEW a \in Seq(T), NEW b \in Seq(T), NEW k \in Nat, NEW m \in Nat,
         k <= m, AllBut(k, a, b)
  PROVE  AllBut(m, a, b)
<1>1. PICK c \in Seq(T) : Common(c, k, a, b)
  BY AllButIs
<1>2. Len(a) \in Nat /\ Len(c) \in Nat
  BY LenProperties
<1>3. Common(c, m, a, b)
  BY <1>1, <1>2 DEF Common
<1> QED BY <1>3, AllButIs

\* Nothing is missing where there is nothing.
LEMMA AllButNothing == AllBut(0, <<>>, <<>>)
<1>1. <<>> \in Seq({}) /\ Len(<<>>) = 0 /\ DOMAIN <<>> = {}
  OBVIOUS
<1>2. IsPartOf(<<>>, <<>>)
  <2> DEFINE place == [i \in {} |-> i]
  <2>1. DOMAIN place = {} /\ place \in [{} -> {}]
    OBVIOUS
  <2> HIDE DEF place
  <2> QED BY <1>1, <2>1 DEF IsPartOf
<1>3. Common(<<>>, 0, <<>>, <<>>)
  BY <1>1, <1>2 DEF Common
<1> QED BY <1>1, <1>3, AllButIs

-----------------------------------------------------------------------------
(* Lines of limited length *)

\* The characters a stream may have.
All == Characters \cup {CR, LF}

\* Lines a buffer of that size may hold.
Lines == {line \in Seq(All) : Len(line) <= maxNMEALineLength}

\* What is cut to the size of the buffer fits; what fits is not changed.
LEMMA ShortenedIs ==
  ASSUME NEW line \in Seq(All)
  PROVE  /\ Shortened(line) \in Lines
         /\ Len(line) <= maxNMEALineLength => Shortened(line) = line
         /\ Len(line) > maxNMEALineLength => Len(Shortened(line)) = maxNMEALineLength
         /\ \A k \in 1..Len(Shortened(line)) : Shortened(line)[k] = line[k]
<1> DEFINE n == Len(line)
           max == maxNMEALineLength
           m == IF n <= max THEN n ELSE max
<1>1. n \in Nat /\ max \in Nat /\ line \in [1..n -> All]
  BY LineLengthAssumption, LenProperties
<1>2. Min({n, max}) = m
  <2>1. m \in {n, max} /\ \A y \in {n, max} : m <= y
    BY <1>1
  <2>2. \A x \in {n, max} : (\A y \in {n, max} : x <= y) => x = m
    BY <1>1
  <2> QED BY <2>1, <2>2 DEF Min
<1>3. Shortened(line) = SubSeq(line, 1, m)
  BY <1>2 DEF Shortened
<1>4. m \in Nat /\ m <= n /\ m <= max
  BY <1>1
<1> HIDE DEF m
<1>5. /\ SubSeq(line, 1, m) \in Seq(All) /\ Len(SubSeq(line, 1, m)) = m
      /\ \A k \in 1..m : SubSeq(line, 1, m)[k] = line[k]
  <2>1. \A k \in 1..m : line[k] \in All
    BY <1>1, <1>4
  <2>2. 1 \in Int /\ m \in Int /\ (IF 1 <= m THEN m - 1 + 1 ELSE 0) = m /\ m - 1 + 1 = m
    BY <1>4
  <2>3. /\ SubSeq(line, 1, m) \in Seq(All) /\ Len(SubSeq(line, 1, m)) = IF 1 <= m THEN m - 1 + 1 ELSE 0
        /\ \A k \in 1..(m - 1 + 1) : SubSeq(line, 1, m)[k] = line[1 + k - 1]
    BY <2>1, <2>2, SubSeqProperties
  <2> QED BY <2>2, <2>3
<1>6. Shortened(line) \in Lines
  BY <1>3, <1>4, <1>5 DEF Lines
<1>7. n <= max => Shortened(line) = line
  BY <1>3, SubSeqFull DEF m
<1>8. n > max => m = max
  <2>1. n > max => ~(n <= max)
    BY <1>1
  <2> QED BY <2>1 DEF m
<1> QED BY <1>1, <1>3, <1>5, <1>6, <1>7, <1>8

\* It makes no difference when a line is shortened.
LEMMA ShortenedAppend ==
  ASSUME NEW line \in Seq(All), NEW char \in All
  PROVE  Shortened(Append(Shortened(line), char)) = Shortened(Append(line, char))
<1> DEFINE n == Len(line)
           max == maxNMEALineLength
           short == Shortened(line)
           a == Append(short, char)
           b == Append(line, char)
<1>0. n \in Nat /\ max \in Nat
  BY LineLengthAssumption, LenProperties
<1>1. CASE n <= max
  BY <1>1, ShortenedIs
<1>2. CASE n > max
  <2>1. /\ short \in Seq(All) /\ Len(short) = max
        /\ \A k \in 1..max : short[k] = line[k]
    BY <1>2, ShortenedIs DEF Lines
  <2> HIDE DEF short
  <2>2. /\ a \in Seq(All) /\ Len(a) = max + 1 /\ \A k \in 1..max : a[k] = short[k]
    BY <2>1, AppendProperties
  <2>3. /\ b \in Seq(All) /\ Len(b) = n + 1 /\ \A k \in 1..n : b[k] = line[k]
    BY AppendProperties
  <2> HIDE DEF a, b
  <2>4. /\ Shortened(a) \in Seq(All) /\ Len(Shortened(a)) = max
        /\ \A k \in 1..max : Shortened(a)[k] = a[k]
    <3>1. Len(a) > max
      BY <1>0, <2>2
    <3> QED BY <2>2, <3>1, ShortenedIs DEF Lines
  <2>5. /\ Shortened(b) \in Seq(All) /\ Len(Shortened(b)) = max
        /\ \A k \in 1..max : Shortened(b)[k] = b[k]
    <3>1. Len(b) > max
      BY <1>0, <1>2, <2>3
    <3> QED BY <2>3, <3>1, ShortenedIs DEF Lines
  <2>6. \A k \in 1..max : a[k] = b[k]
    BY <1>0, <1>2, <2>1, <2>2, <2>3
  <2>7. Shortened(a) = Shortened(b)
    BY <2>4, <2>5, <2>6, SeqEqual
  <2> QED BY <2>7 DEF a, b, short
<1> QED BY <1>0, <1>1, <1>2

\* A line grows by a character like the text that is appended.
LEMMA AppendToAppend ==
  ASSUME NEW line \in Lines, NEW chars \in Seq(All), NEW char \in All
  PROVE  /\ AppendTo(line, chars) \in Lines
         /\ AppendTo(line, <<>>) = line
         /\ AppendTo(line, Append(chars, char)) = Shortened(Append(AppendTo(line, chars), char))
<1>1. line \in Seq(All) /\ Len(line) <= maxNMEALineLength
  BY DEF Lines
<1>2. line \o chars \in Seq(All) /\ line \o <<>> = line
  BY <1>1, ConcatProperties, ConcatEmptySeq
<1>3. line \o Append(chars, char) = Append(line \o chars, char)
  BY <1>1
<1> QED BY <1>1, <1>2, <1>3, ShortenedIs, ShortenedAppend DEF AppendTo

-----------------------------------------------------------------------------
(* The lines there are *)

\* A state of the ghost that reads lines as they are.
IdealTyped(i) ==
  i \in [line : Lines, ended : BOOLEAN, sentences : Seq(Sentences), faults : Nat]

\* A line of one character, or of none, fits.
LEMMA ShortLines ==
  /\ <<>> \in Lines
  /\ \A char \in All : <<char>> \in Lines /\ Shortened(Append(<<>>, char)) = <<char>>
<1>1. <<>> \in Seq(All) /\ Len(<<>>) = 0 /\ maxNMEALineLength >= 1 /\ maxNMEALineLength \in Nat
  BY LineLengthAssumption
<1>2. \A char \in All : <<char>> \in Seq(All) /\ Len(<<char>>) = 1 /\ Append(<<>>, char) = <<char>>
  OBVIOUS
<1>3. <<>> \in Lines
  BY <1>1 DEF Lines
<1>4. ASSUME NEW char \in All
      PROVE  <<char>> \in Lines /\ Shortened(Append(<<>>, char)) = <<char>>
  <2>1. <<char>> \in Seq(All) /\ Len(<<char>>) <= maxNMEALineLength
    BY <1>1, <1>2
  <2>2. Shortened(<<char>>) = <<char>>
    BY <2>1, ShortenedIs
  <2> QED BY <1>2, <2>1, <2>2 DEF Lines
<1> QED BY <1>3, <1>4

\* What it makes of a character: the cases of IdealStep, one by one.
LEMMA IdealSteps ==
  ASSUME NEW i, IdealTyped(i), NEW char \in All
  PROVE  LET j == IdealStep(i, char)
         IN /\ IdealTyped(j)
            /\ i.ended /\ char = LF =>
                 /\ j.line = <<>> /\ ~j.ended /\ j.faults = i.faults
                 /\ j.sentences = IF i.line \in Sentences THEN Append(i.sentences, i.line)
                                                          ELSE i.sentences
            /\ ~(i.ended /\ char = LF) => j.sentences = i.sentences
            /\ i.ended /\ char = CR => j.line = <<>> /\ j.ended /\ j.faults = i.faults + 1
            /\ i.ended /\ char \notin {CR, LF} =>
                 j.line = <<char>> /\ ~j.ended /\ j.faults = i.faults + 1
            /\ ~i.ended /\ char = CR => j.line = i.line /\ j.ended /\ j.faults = i.faults
            /\ ~i.ended /\ char # CR =>
                 /\ j.line = Shortened(Append(i.line, char)) /\ ~j.ended
                 /\ j.faults = IF char = LF THEN i.faults + 1 ELSE i.faults
<1> DEFINE j == IdealStep(i, char)
<1>0. /\ i = [line |-> i.line, ended |-> i.ended, sentences |-> i.sentences, faults |-> i.faults]
      /\ i.line \in Lines /\ i.ended \in BOOLEAN /\ i.sentences \in Seq(Sentences) /\ i.faults \in Nat
  BY DEF IdealTyped
<1>1. CR # LF
  BY CharactersAssumption
<1>2. CASE i.ended /\ char = LF
  <2> DEFINE said == IF i.line \in Sentences THEN Append(i.sentences, i.line) ELSE i.sentences
  <2>1. said \in Seq(Sentences)
    BY <1>0
  <2>2. j = [line |-> <<>>, ended |-> FALSE, sentences |-> said, faults |-> i.faults]
    BY <1>0, <1>1, <1>2 DEF IdealStep
  <2> HIDE DEF said, j
  <2>3. IdealTyped(j) /\ j.line = <<>> /\ ~j.ended /\ j.faults = i.faults /\ j.sentences = said
    BY <1>0, <2>1, <2>2, ShortLines DEF IdealTyped
  <2> QED BY <1>1, <1>2, <2>3 DEF said, j
<1>3. CASE i.ended /\ char = CR
  <2>1. j = [line |-> <<>>, ended |-> i.ended, sentences |-> i.sentences, faults |-> i.faults + 1]
    BY <1>0, <1>1, <1>3 DEF IdealStep
  <2> HIDE DEF j
  <2>2. IdealTyped(j) /\ j.line = <<>> /\ j.ended /\ j.faults = i.faults + 1 /\ j.sentences = i.sentences
    BY <1>0, <1>3, <2>1, ShortLines DEF IdealTyped
  <2> QED BY <1>1, <1>3, <2>2 DEF j
<1>4. CASE i.ended /\ char \notin {CR, LF}
  <2>1. j = [line |-> <<char>>, ended |-> FALSE, sentences |-> i.sentences, faults |-> i.faults + 1]
    BY <1>0, <1>1, <1>4 DEF IdealStep
  <2> HIDE DEF j
  <2>2. IdealTyped(j) /\ j.line = <<char>> /\ ~j.ended /\ j.faults = i.faults + 1 /\ j.sentences = i.sentences
    BY <1>0, <1>4, <2>1, ShortLines DEF IdealTyped
  <2> QED BY <1>1, <1>4, <2>2 DEF j
<1>5. CASE ~i.ended /\ char = CR
  <2>1. j = [line |-> i.line, ended |-> TRUE, sentences |-> i.sentences, faults |-> i.faults]
    BY <1>0, <1>1, <1>5 DEF IdealStep
  <2> HIDE DEF j
  <2>2. IdealTyped(j) /\ j.line = i.line /\ j.ended /\ j.faults = i.faults /\ j.sentences = i.sentences
    BY <1>0, <1>5, <2>1 DEF IdealTyped
  <2> QED BY <1>1, <1>5, <2>2 DEF j
<1>6. CASE ~i.ended /\ char # CR
  <2> DEFINE line == Shortened(Append(i.line, char))
             faults == IF char = LF THEN i.faults + 1 ELSE i.faults
  <2>1. line \in Lines /\ faults \in Nat
    <3>1. Append(i.line, char) \in Seq(All)
      BY <1>0 DEF Lines
    <3>2. line \in Lines
      BY <3>1, ShortenedIs
    <3>3. faults \in Nat
      BY <1>0
    <3> QED BY <3>2, <3>3
  <2>2. j = [line |-> line, ended |-> i.ended, sentences |-> i.sentences, faults |-> faults]
    BY <1>0, <1>1, <1>6 DEF IdealStep
  <2> HIDE DEF j, line, faults
  <2>3. IdealTyped(j) /\ j.line = line /\ ~j.ended /\ j.faults = faults /\ j.sentences = i.sentences
    BY <1>0, <1>6, <2>1, <2>2 DEF IdealTyped
  <2> QED BY <1>1, <1>6, <2>3 DEF j, line, faults
<1> QED BY <1>2, <1>3, <1>4, <1>5, <1>6

\* What is read of a stream piece by piece, is read of it as a whole.
LEMMA OneMore ==
  ASSUME NEW T, NEW s \in Seq(T), NEW k \in Nat, k < Len(s)
  PROVE  /\ SubSeq(s, 1, k) \in Seq(T) /\ s[k + 1] \in T
         /\ SubSeq(s, 1, k + 1) = Append(SubSeq(s, 1, k), s[k + 1])
<1>1. Len(s) \in Nat /\ s \in [1..Len(s) -> T]
  BY LenProperties
<1>2. k + 1 \in 1..Len(s) /\ 1 \in 1..Len(s) /\ k + 1 \in 1..Len(s) /\ (k + 1) - 1 = k
  BY <1>1
<1>3. s[k + 1] \in T /\ \A j \in 1..k : s[j] \in T
  BY <1>1, <1>2
<1>4. SubSeq(s, 1, k) \in Seq(T)
  BY <1>3, SubSeqProperties
<1>5. SubSeq(s, 1, k + 1) = SubSeq(s, 1, (k + 1) - 1) \o <<s[k + 1]>>
  BY <1>2, SubSeqRecursiveSecond
<1>6. Append(SubSeq(s, 1, k), s[k + 1]) = SubSeq(s, 1, k) \o <<s[k + 1]>>
  BY <1>3, <1>4, AppendIsConcat
<1> QED BY <1>2, <1>3, <1>4, <1>5, <1>6

\* What it is after the first k characters.
At(i, chars, k) == IdealAfter(i, SubSeq(chars, 1, k))

\* From one character to the next, it takes one step.
LEMMA AtSteps ==
  ASSUME NEW i, IdealTyped(i), NEW chars \in Seq(All)
  PROVE  /\ At(i, chars, 0) = i
         /\ At(i, chars, Len(chars)) = IdealAfter(i, chars)
         /\ \A k \in Nat : k < Len(chars) =>
              /\ chars[k + 1] \in All
              /\ At(i, chars, k + 1) = IdealStep(At(i, chars, k), chars[k + 1])
         /\ \A k \in Nat : k <= Len(chars) => IdealTyped(At(i, chars, k))
<1>0. Len(chars) \in Nat
  BY LenProperties
<1>1. At(i, chars, 0) = i
  <2>1. SubSeq(chars, 1, 0) = <<>>
    BY SubSeqEmpty
  <2>2. IdealAfter(i, <<>>) = i
    <3>1. <<>> \in Seq({0}) /\ 0 \in {0}
      OBVIOUS
    <3> QED BY <3>1, AfterAppend
  <2> QED BY <2>1, <2>2 DEF At
<1>2. At(i, chars, Len(chars)) = IdealAfter(i, chars)
  BY SubSeqFull DEF At
<1>3. ASSUME NEW k \in Nat, k < Len(chars)
      PROVE  /\ chars[k + 1] \in All
             /\ At(i, chars, k + 1) = IdealStep(At(i, chars, k), chars[k + 1])
  <2> DEFINE p == SubSeq(chars, 1, k)
  <2>1. p \in Seq(All) /\ chars[k + 1] \in All /\ SubSeq(chars, 1, k + 1) = Append(p, chars[k + 1])
    BY <1>3, OneMore
  <2> HIDE DEF p
  <2>2. IdealAfter(i, Append(p, chars[k + 1])) = IdealStep(IdealAfter(i, p), chars[k + 1])
    BY <2>1, AfterAppend
  <2> QED BY <2>1, <2>2 DEF At, p
<1> DEFINE S == {k \in Nat : IdealTyped(At(i, chars, k))}
<1>4. 0 \in S
  BY <1>1
<1>5. ASSUME NEW k \in Nat, k < Len(chars), k \in S
      PROVE  k + 1 \in S
  <2>1. IdealTyped(At(i, chars, k))
    BY <1>5
  <2>2. IdealTyped(IdealStep(At(i, chars, k), chars[k + 1]))
    BY <1>3, <1>5, <2>1, IdealSteps
  <2> QED BY <1>3, <1>5, <2>2
<1>6. \A k \in Nat : k <= Len(chars) => k \in S
  <2> HIDE DEF S
  <2> QED BY <1>0, <1>4, <1>5, Induction
<1> QED BY <1>1, <1>2, <1>3, <1>6

\* What is read in two pieces is read as if it were one.
LEMMA AfterConcat ==
  ASSUME NEW i, IdealTyped(i), NEW a \in Seq(All), NEW b \in Seq(All)
  PROVE  IdealAfter(i, a \o b) = IdealAfter(IdealAfter(i, a), b)
<1> DEFINE j == IdealAfter(i, a)
           S == {k \in Nat : IdealAfter(i, a \o SubSeq(b, 1, k)) = At(j, b, k)}
<1>0. Len(b) \in Nat /\ Len(a) \in Nat
  BY LenProperties
<1>1. IdealTyped(j)
  BY <1>0, AtSteps
<1> HIDE DEF j
<1>2. 0 \in S
  <2>1. SubSeq(b, 1, 0) = <<>> /\ a \o <<>> = a
    BY SubSeqEmpty, ConcatEmptySeq
  <2> QED BY <1>1, <2>1, AtSteps DEF j
<1>3. ASSUME NEW k \in Nat, k < Len(b), k \in S
      PROVE  k + 1 \in S
  <2> DEFINE p == SubSeq(b, 1, k)
  <2>1. p \in Seq(All) /\ b[k + 1] \in All /\ SubSeq(b, 1, k + 1) = Append(p, b[k + 1])
    BY <1>3, OneMore
  <2>2. IdealAfter(i, a \o p) = At(j, b, k)
    BY <1>3
  <2>3. At(j, b, k + 1) = IdealStep(At(j, b, k), b[k + 1])
    BY <1>1, <1>3, AtSteps
  <2> HIDE DEF p
  <2>4. a \o Append(p, b[k + 1]) = Append(a \o p, b[k + 1]) /\ a \o p \in Seq(All)
    BY <2>1, ConcatProperties
  <2>5. IdealAfter(i, Append(a \o p, b[k + 1])) = IdealStep(IdealAfter(i, a \o p), b[k + 1])
    <3> DEFINE q == a \o p
               x == b[k + 1]
    <3>1. q \in Seq(All) /\ x \in All
      BY <2>1, <2>4
    <3> HIDE DEF q, x
    <3>2. IdealAfter(i, Append(q, x)) = IdealStep(IdealAfter(i, q), x)
      BY <3>1, AfterAppend
    <3> QED BY <3>2 DEF q, x
  <2>6. IdealAfter(i, a \o SubSeq(b, 1, k + 1)) = At(j, b, k + 1)
    BY <2>1, <2>2, <2>3, <2>4, <2>5
  <2> QED BY <2>6
<1>4. Len(b) \in S
  <2>1. Len(b) <= Len(b)
    BY <1>0
  <2> HIDE DEF S
  <2> QED BY <1>0, <1>2, <1>3, <2>1, Induction
<1>5. SubSeq(b, 1, Len(b)) = b /\ At(j, b, Len(b)) = IdealAfter(j, b)
  BY <1>1, SubSeqFull, AtSteps
<1> QED BY <1>4, <1>5 DEF j

-----------------------------------------------------------------------------
(* What the source has made of the lines there are *)

\* handleLine gets the line: a sentence is a message for the handlers.
Handed(messages, line) == IF line \in Sentences THEN Append(messages, line) ELSE messages

\* Either sequence has all but a few elements of the other, in their order.
Agree(messages, sentences, few) ==
  AllBut(few, messages, sentences) /\ AllBut(few, sentences, messages)

\* The source has the same line as there is.
InStep(messages, line, return, i) ==
  /\ line = i.line /\ return = i.ended
  /\ Agree(messages, i.sentences, i.faults)
  /\ i.faults = 0 => messages = i.sentences

\* It has another one, since the last fault.
OutOfStep(messages, line, return, i) ==
  /\ i.faults >= 1
  /\ Agree(messages, i.sentences, i.faults - 1)
  /\ i.ended /\ ~return => i.line = <<>>

\* What a source may have made of the characters of which the ghost has made i: it has
\* the line there is, or another one and a fault to account for it.
Made(messages, line, return, i) ==
  /\ messages \in Seq(Sentences) /\ line \in Lines /\ return \in BOOLEAN /\ IdealTyped(i)
  /\ InStep(messages, line, return, i) \/ OutOfStep(messages, line, return, i)

\* The same line leaves as few differences as before; two different ones, one more.
LEMMA AgreeHanded ==
  ASSUME NEW a \in Seq(Sentences), NEW b \in Seq(Sentences), NEW k \in Nat,
         NEW x, NEW y, Agree(a, b, k)
  PROVE  /\ Agree(Handed(a, x), Handed(b, x), k)
         /\ Agree(Handed(a, x), Handed(b, y), k + 1)
         /\ Handed(a, x) \in Seq(Sentences)
<1>1. AllBut(k, a, b) /\ AllBut(k, b, a)
  BY DEF Agree
<1>2. k + 1 \in Nat /\ k <= k + 1
  OBVIOUS
<1>3. AllBut(k + 1, a, b) /\ AllBut(k + 1, b, a)
  BY <1>1, <1>2, AllButMore
<1>4. Handed(a, x) \in Seq(Sentences)
  BY AppendProperties DEF Handed
<1>5. Agree(Handed(a, x), Handed(b, x), k)
  BY <1>1, AllButAppend DEF Agree, Handed
<1>6. ASSUME NEW c \in Seq(Sentences), NEW d \in Seq(Sentences), AllBut(k, c, d), NEW u, NEW v
      PROVE  AllBut(k + 1, Handed(c, u), Handed(d, v))
  <2>1. Handed(d, v) \in Seq(Sentences) /\ AllBut(k, c, Handed(d, v))
    BY <1>6, AllButAppend, AppendProperties DEF Handed
  <2>2. AllBut(k + 1, c, Handed(d, v))
    BY <1>2, <2>1, AllButMore
  <2>3. u \in Sentences => AllBut(k + 1, Append(c, u), Handed(d, v))
    BY <2>1, AllButAppend
  <2> QED BY <2>2, <2>3 DEF Handed
<1>7. Agree(Handed(a, x), Handed(b, y), k + 1)
  BY <1>1, <1>6 DEF Agree
<1> QED BY <1>4, <1>5, <1>7

\* With more differences allowed, they still agree.
LEMMA AgreeMore ==
  ASSUME NEW a \in Seq(Sentences), NEW b \in Seq(Sentences), NEW k \in Nat, NEW m \in Nat,
         k <= m, Agree(a, b, k)
  PROVE  Agree(a, b, m)
BY AllButMore DEF Agree

\* An empty line is no message.
LEMMA NoEmptySentence == <<>> \notin Sentences /\ \A h : Handed(h, <<>>) = h
<1>1. Len(<<>>) = 0
  OBVIOUS
<1>2. <<>> \notin Sentences
  BY <1>1, SentencesAssumption
<1> QED BY <1>2 DEF Handed

\* A character of a line.
LEMMA MadeText ==
  ASSUME NEW h, NEW line, NEW i, Made(h, line, FALSE, i), NEW char \in All, char # CR
  PROVE  Made(h, Shortened(Append(line, char)), FALSE, IdealStep(i, char))
<1> DEFINE j == IdealStep(i, char)
           longer == Shortened(Append(line, char))
<1>1. /\ h \in Seq(Sentences) /\ line \in Lines /\ IdealTyped(i)
      /\ i.ended \in BOOLEAN /\ i.sentences \in Seq(Sentences) /\ i.faults \in Nat
      /\ i.faults + 1 \in Nat /\ i.faults <= i.faults + 1
  BY DEF Made, IdealTyped
<1>2. longer \in Lines
  <2>1. Append(line, char) \in Seq(All)
    BY <1>1 DEF Lines
  <2> QED BY <2>1, ShortenedIs
<1>3. IdealTyped(j)
  BY <1>1, IdealSteps
<1>4. ~i.ended => /\ j.line = Shortened(Append(i.line, char)) /\ ~j.ended
                  /\ j.faults = IF char = LF THEN i.faults + 1 ELSE i.faults
                  /\ j.sentences = i.sentences
  BY <1>1, IdealSteps
<1>5. i.ended /\ char # LF => ~j.ended /\ j.faults = i.faults + 1 /\ j.sentences = i.sentences
  BY <1>1, IdealSteps
<1>6. i.ended /\ char = LF => /\ ~j.ended /\ j.faults = i.faults
                              /\ i.line = <<>> => j.sentences = i.sentences
  BY <1>1, IdealSteps, NoEmptySentence
<1>7. j.ended \in BOOLEAN /\ j.faults \in Nat
  BY <1>3 DEF IdealTyped
<1> HIDE DEF j, longer
<1>8. CASE InStep(h, line, FALSE, i)
  <2>1. ~i.ended /\ line = i.line /\ Agree(h, i.sentences, i.faults) /\ (i.faults = 0 => h = i.sentences)
    BY <1>8 DEF InStep
  <2>2. longer = j.line /\ FALSE = j.ended
    BY <1>4, <1>7, <2>1 DEF longer
  <2>3. Agree(h, j.sentences, j.faults)
    BY <1>1, <1>4, <2>1, AgreeMore
  <2>4. j.faults = 0 => h = j.sentences
    BY <1>1, <1>4, <2>1
  <2> QED BY <1>1, <1>2, <1>3, <2>2, <2>3, <2>4 DEF Made, InStep, longer, j
<1>9. CASE OutOfStep(h, line, FALSE, i)
  <2>1. /\ i.faults >= 1 /\ Agree(h, i.sentences, i.faults - 1) /\ (i.ended => i.line = <<>>)
        /\ i.faults - 1 \in Nat
    BY <1>1, <1>9 DEF OutOfStep
  <2>2. j.sentences = i.sentences /\ j.faults \in {i.faults, i.faults + 1} /\ ~j.ended
    BY <1>4, <1>5, <1>6, <2>1
  <2>3. j.faults >= 1 /\ j.faults - 1 \in Nat /\ i.faults - 1 <= j.faults - 1
    BY <1>1, <2>1, <2>2
  <2>4. Agree(h, j.sentences, j.faults - 1)
    BY <1>1, <2>1, <2>2, <2>3, AgreeMore
  <2>5. OutOfStep(h, longer, FALSE, j)
    BY <2>2, <2>3, <2>4 DEF OutOfStep
  <2> QED BY <1>1, <1>2, <1>3, <2>5 DEF Made, j, longer
<1> QED BY <1>8, <1>9 DEF Made

\* The carriage return at its end.
LEMMA MadeReturn ==
  ASSUME NEW h, NEW line, NEW i, Made(h, line, FALSE, i)
  PROVE  Made(h, line, TRUE, IdealStep(i, CR)) /\ IdealStep(i, CR).ended
<1> DEFINE j == IdealStep(i, CR)
<1>1. /\ h \in Seq(Sentences) /\ line \in Lines /\ IdealTyped(i) /\ CR \in All /\ CR # LF
      /\ i.ended \in BOOLEAN /\ i.sentences \in Seq(Sentences) /\ i.faults \in Nat
      /\ i.faults + 1 \in Nat /\ i.faults <= i.faults + 1
  BY CharactersAssumption DEF Made, IdealTyped, All
<1>3. IdealTyped(j)
  BY <1>1, IdealSteps
<1>4. ~i.ended => j.line = i.line /\ j.ended /\ j.faults = i.faults /\ j.sentences = i.sentences
  BY <1>1, IdealSteps
<1>5. i.ended => j.ended /\ j.faults = i.faults + 1 /\ j.sentences = i.sentences
  BY <1>1, IdealSteps
<1>7. j.ended \in BOOLEAN /\ j.faults \in Nat
  BY <1>3 DEF IdealTyped
<1> HIDE DEF j
<1>8. CASE InStep(h, line, FALSE, i)
  <2>1. ~i.ended /\ line = i.line /\ Agree(h, i.sentences, i.faults) /\ (i.faults = 0 => h = i.sentences)
    BY <1>8 DEF InStep
  <2>2. InStep(h, line, TRUE, j)
    BY <1>4, <1>7, <2>1 DEF InStep
  <2> QED BY <1>1, <1>3, <1>4, <2>1, <2>2 DEF Made, j
<1>9. CASE OutOfStep(h, line, FALSE, i)
  <2>1. /\ i.faults >= 1 /\ Agree(h, i.sentences, i.faults - 1) /\ i.faults - 1 \in Nat
    BY <1>1, <1>9 DEF OutOfStep
  <2>2. j.sentences = i.sentences /\ j.faults \in {i.faults, i.faults + 1} /\ j.ended
    BY <1>1, <1>4, <1>5, <2>1
  <2>3. j.faults >= 1 /\ j.faults - 1 \in Nat /\ i.faults - 1 <= j.faults - 1
    BY <1>1, <2>1, <2>2
  <2>4. Agree(h, j.sentences, j.faults - 1)
    BY <1>1, <2>1, <2>2, <2>3, AgreeMore
  <2>5. OutOfStep(h, line, TRUE, j)
    BY <2>2, <2>3, <2>4 DEF OutOfStep
  <2> QED BY <1>1, <1>3, <2>2, <2>5 DEF Made, j
<1> QED BY <1>8, <1>9 DEF Made

\* The line feed after it.
LEMMA MadeLine ==
  ASSUME NEW h, NEW line, NEW i, Made(h, line, TRUE, i)
  PROVE  Made(Handed(h, line), <<>>, FALSE, IdealStep(i, LF))
<1> DEFINE j == IdealStep(i, LF)
           k == Handed(h, line)
<1>1. /\ h \in Seq(Sentences) /\ line \in Lines /\ IdealTyped(i) /\ LF \in All /\ CR # LF
      /\ i.ended \in BOOLEAN /\ i.sentences \in Seq(Sentences) /\ i.faults \in Nat
      /\ i.faults + 1 \in Nat /\ i.faults <= i.faults + 1
  BY CharactersAssumption DEF Made, IdealTyped, All
<1>2. k \in Seq(Sentences)
  BY <1>1, AppendProperties DEF Handed
<1>3. IdealTyped(j)
  BY <1>1, IdealSteps
<1>4. i.ended => /\ j.line = <<>> /\ ~j.ended /\ j.faults = i.faults
                 /\ j.sentences = Handed(i.sentences, i.line)
  BY <1>1, IdealSteps DEF Handed
<1>5. ~i.ended => ~j.ended /\ j.faults = i.faults + 1 /\ j.sentences = i.sentences
  BY <1>1, IdealSteps
<1>7. j.ended \in BOOLEAN /\ j.faults \in Nat
  BY <1>3 DEF IdealTyped
<1> HIDE DEF j
<1>8. CASE InStep(h, line, TRUE, i)
  <2>1. i.ended /\ line = i.line /\ Agree(h, i.sentences, i.faults) /\ (i.faults = 0 => h = i.sentences)
    BY <1>8 DEF InStep
  <2>2. Agree(k, j.sentences, j.faults)
    BY <1>1, <1>4, <2>1, AgreeHanded
  <2>3. j.faults = 0 => k = j.sentences
    BY <1>4, <2>1
  <2>4. InStep(k, <<>>, FALSE, j)
    BY <1>4, <1>7, <2>1, <2>2, <2>3 DEF InStep
  <2> QED BY <1>2, <1>3, <2>4, ShortLines DEF Made, j
<1>9. CASE OutOfStep(h, line, TRUE, i)
  <2>1. /\ i.faults >= 1 /\ Agree(h, i.sentences, i.faults - 1) /\ i.faults - 1 \in Nat
        /\ (i.faults - 1) + 1 = i.faults
    BY <1>1, <1>9 DEF OutOfStep
  <2>2. CASE i.ended
    <3>1. Agree(k, j.sentences, (i.faults - 1) + 1)
      BY <1>1, <1>4, <2>1, <2>2, AgreeHanded
    <3>2. Agree(k, j.sentences, j.faults) /\ j.faults # 0
      BY <1>1, <1>4, <2>1, <2>2, <3>1
    <3>3. InStep(k, <<>>, FALSE, j)
      BY <1>4, <1>7, <2>2, <3>2 DEF InStep
    <3> QED BY <1>2, <1>3, <3>3, ShortLines DEF Made, j
  <2>3. CASE ~i.ended
    <3>1. Agree(k, Handed(i.sentences, <<>>), (i.faults - 1) + 1)
      BY <1>1, <2>1, AgreeHanded
    <3>2. Agree(k, j.sentences, j.faults - 1) /\ j.faults >= 1
      <4>1. j.faults - 1 = i.faults /\ j.faults >= 1
        BY <1>1, <1>5, <2>3
      <4> QED BY <1>5, <2>1, <2>3, <3>1, <4>1, NoEmptySentence
    <3>3. OutOfStep(k, <<>>, FALSE, j)
      BY <1>5, <2>3, <3>2 DEF OutOfStep
    <3> QED BY <1>2, <1>3, <3>3, ShortLines DEF Made, j
  <2> QED BY <1>1, <2>2, <2>3
<1> QED BY <1>8, <1>9 DEF Made

\* Another character there, within the buffer: it is lost with the line.
LEMMA MadeDropped ==
  ASSUME NEW h, NEW line, NEW i, Made(h, line, TRUE, i), i.ended, NEW char \in All, char # LF
  PROVE  Made(h, <<>>, FALSE, IdealStep(i, char))
<1> DEFINE j == IdealStep(i, char)
<1>1. /\ h \in Seq(Sentences) /\ IdealTyped(i) /\ CR # LF
      /\ i.sentences \in Seq(Sentences) /\ i.faults \in Nat
      /\ i.faults + 1 \in Nat /\ i.faults <= i.faults + 1
  BY CharactersAssumption DEF Made, IdealTyped
<1>3. IdealTyped(j)
  BY <1>1, IdealSteps
<1>4. j.faults = i.faults + 1 /\ j.sentences = i.sentences /\ (j.ended => j.line = <<>>)
  BY <1>1, IdealSteps
<1> HIDE DEF j
<1>5. Agree(h, i.sentences, i.faults)
  <2>1. CASE InStep(h, line, TRUE, i)
    BY <2>1 DEF InStep
  <2>2. CASE OutOfStep(h, line, TRUE, i)
    <3>1. i.faults - 1 \in Nat /\ i.faults - 1 <= i.faults /\ Agree(h, i.sentences, i.faults - 1)
      BY <1>1, <2>2 DEF OutOfStep
    <3> QED BY <1>1, <3>1, AgreeMore
  <2> QED BY <2>1, <2>2 DEF Made
<1>6. j.faults >= 1 /\ j.faults - 1 = i.faults
  BY <1>1, <1>4
<1>7. OutOfStep(h, <<>>, FALSE, j)
  BY <1>4, <1>5, <1>6 DEF OutOfStep
<1> QED BY <1>1, <1>3, <1>7, ShortLines DEF Made, j

\* Another character there, at the beginning of a piece: the line is lost as if the
\* fault had been found before.
Spoiled(i) == [line |-> <<>>, ended |-> FALSE, sentences |-> i.sentences, faults |-> i.faults + 1]

\* The carriage return without line feed leaves an empty line, whatever the line was.
LEMMA MadeSpoiled ==
  ASSUME NEW h, NEW line, NEW i, Made(h, line, TRUE, i)
  PROVE  /\ ~i.ended => Made(h, <<>>, FALSE, i)
         /\ i.ended => Made(h, <<>>, FALSE, Spoiled(i))
<1> DEFINE j == Spoiled(i)
<1>1. /\ h \in Seq(Sentences) /\ IdealTyped(i)
      /\ i.sentences \in Seq(Sentences) /\ i.faults \in Nat
      /\ i.faults + 1 \in Nat /\ i.faults <= i.faults + 1
  BY DEF Made, IdealTyped
<1>2. CASE ~i.ended
  <2>1. OutOfStep(h, line, TRUE, i)
    BY <1>2 DEF Made, InStep
  <2>2. OutOfStep(h, <<>>, FALSE, i)
    BY <1>2, <2>1 DEF OutOfStep
  <2> QED BY <1>1, <1>2, <2>2, ShortLines DEF Made
<1>3. CASE i.ended
  <2>1. IdealTyped(j)
    BY <1>1, ShortLines DEF IdealTyped, Spoiled
  <2>2. j.line = <<>> /\ j.ended = FALSE /\ j.sentences = i.sentences /\ j.faults = i.faults + 1
    BY DEF Spoiled
  <2> HIDE DEF j
  <2>3. Agree(h, i.sentences, i.faults)
    <3>1. CASE InStep(h, line, TRUE, i)
      BY <3>1 DEF InStep
    <3>2. CASE OutOfStep(h, line, TRUE, i)
      <4>1. i.faults - 1 \in Nat /\ i.faults - 1 <= i.faults /\ Agree(h, i.sentences, i.faults - 1)
        BY <1>1, <3>2 DEF OutOfStep
      <4> QED BY <1>1, <4>1, AgreeMore
    <3> QED BY <3>1, <3>2 DEF Made
  <2>4. j.faults >= 1 /\ j.faults - 1 = i.faults
    BY <1>1, <2>2
  <2>5. OutOfStep(h, <<>>, FALSE, j)
    BY <2>2, <2>3, <2>4 DEF OutOfStep
  <2> QED BY <1>1, <1>3, <2>1, <2>5, ShortLines DEF Made, j
<1> QED BY <1>2, <1>3

\* The ghost counts that fault at the carriage return or at the character after it.
LEMMA SpoiledBefore ==
  ASSUME NEW i, IdealTyped(i), i.ended, NEW chars \in Seq(All), Len(chars) # 0, chars[1] # LF
  PROVE  IdealTyped(Spoiled(i)) /\ IdealAfter(Spoiled(i), chars) = IdealAfter(i, chars)
<1> DEFINE j == Spoiled(i)
           n == Len(chars)
<1>1. /\ IdealTyped(j) /\ n \in Nat /\ n >= 1
      /\ i = [line |-> i.line, ended |-> i.ended, sentences |-> i.sentences, faults |-> i.faults]
  BY LenProperties, ShortLines DEF IdealTyped, Spoiled
<1>2. CR # LF /\ chars[1] \in All
  <2>1. 1 \in 1..n
    BY <1>1
  <2> QED BY <2>1, CharactersAssumption, ElementOfSeq
<1>3. IdealStep(j, chars[1]) = IdealStep(i, chars[1])
  <2> DEFINE c == chars[1]
             a == IdealStep(i, c)
             b == IdealStep(j, c)
  <2>1. /\ IdealTyped(a) /\ a.sentences = i.sentences /\ a.faults = i.faults + 1
        /\ c = CR => a.line = <<>> /\ a.ended
        /\ c # CR => a.line = <<c>> /\ ~a.ended
    BY <1>1, <1>2, IdealSteps
  <2>2. j.line = <<>> /\ ~j.ended /\ j.sentences = i.sentences /\ j.faults = i.faults + 1
    BY DEF Spoiled
  <2>3. Shortened(Append(<<>>, c)) = <<c>> /\ c \in All /\ c # LF /\ IdealTyped(j)
    BY <1>1, <1>2, ShortLines
  <2> HIDE DEF a, j, c
  <2>4. /\ IdealTyped(b) /\ b.sentences = j.sentences /\ b.faults = j.faults
        /\ c = CR => b.line = <<>> /\ b.ended
        /\ c # CR => b.line = <<c>> /\ ~b.ended
    <3>1. c = CR => b.line = j.line /\ b.ended /\ b.sentences = j.sentences /\ b.faults = j.faults
      BY <1>2, <2>2, <2>3, IdealSteps
    <3>2. c # CR => /\ b.line = Shortened(Append(j.line, c)) /\ ~b.ended
                    /\ b.sentences = j.sentences /\ b.faults = j.faults
      BY <2>2, <2>3, IdealSteps
    <3>3. IdealTyped(b)
      BY <2>3, IdealSteps
    <3> HIDE DEF b
    <3> QED BY <2>2, <2>3, <3>1, <3>2, <3>3
  <2> HIDE DEF b
  <2>5. /\ a = [line |-> a.line, ended |-> a.ended, sentences |-> a.sentences, faults |-> a.faults]
        /\ b = [line |-> b.line, ended |-> b.ended, sentences |-> b.sentences, faults |-> b.faults]
        /\ a.ended \in BOOLEAN /\ b.ended \in BOOLEAN
    BY <2>1, <2>4 DEF IdealTyped
  <2>6. a.line = b.line /\ a.ended = b.ended /\ a.sentences = b.sentences /\ a.faults = b.faults
    BY <2>1, <2>2, <2>4, <2>5
  <2> QED BY <2>5, <2>6 DEF a, b, c
<1> HIDE DEF j
<1> DEFINE S == {k \in Nat : k = 0 \/ At(j, chars, k) = At(i, chars, k)}
<1>4. 0 \in S
  OBVIOUS
<1>5. ASSUME NEW k \in Nat, k < n, k \in S
      PROVE  k + 1 \in S
  <2>1. /\ At(j, chars, k + 1) = IdealStep(At(j, chars, k), chars[k + 1])
        /\ At(i, chars, k + 1) = IdealStep(At(i, chars, k), chars[k + 1])
        /\ At(j, chars, 0) = j /\ At(i, chars, 0) = i
    BY <1>1, <1>5, AtSteps
  <2>2. CASE k = 0
    BY <1>3, <2>1, <2>2 DEF j
  <2>3. CASE k # 0
    BY <1>5, <2>1, <2>3
  <2> QED BY <2>2, <2>3
<1>6. n \in S
  <2>1. n <= n
    BY <1>1
  <2> HIDE DEF S, n
  <2> QED BY <1>1, <1>4, <1>5, <2>1, Induction
<1>7. At(j, chars, n) = IdealAfter(j, chars) /\ At(i, chars, n) = IdealAfter(i, chars)
  BY <1>1, AtSteps
<1> QED BY <1>1, <1>6, <1>7 DEF j

-----------------------------------------------------------------------------
(* processBuffer *)

\* The recursive step of Cut.
CutBody(chars, line, cut, start) ==
  LET n == Len(chars)
      returns == {pos \in start..n : chars[pos] = CR}
      pos == Min(returns)
      soFar == IF start = 1 THEN line ELSE <<>>
      text(end) == AppendTo(soFar, SubSeq(chars, start, end))
  IN CASE returns = {} ->
            [done |-> FALSE, return |-> FALSE, line |-> text(n), rest |-> <<>>]
       [] returns # {} /\ pos = n -> LineFeedDue(text(n - 1))
       [] returns # {} /\ pos < n /\ Ends(chars, pos) ->
            [done |-> TRUE, return |-> FALSE, line |-> text(pos - 1),
             rest |-> SubSeq(chars, pos + 2, n)]
       [] OTHER -> cut[pos + 2]

\* The function of Cut.
CutFrom(chars, line, cut) ==
  cut = [start \in 1..(Len(chars) + 1) |-> CutBody(chars, line, cut, start)]

\* Cut is what a function with that equation is at the first position.
LEMMA CutIs ==
  ASSUME NEW chars, NEW line
  PROVE  Cut(chars, line) = (CHOOSE cut : CutFrom(chars, line, cut))[1]
BY Zenon DEF Cut, CutFrom, CutBody

\* The line before the text that begins at start, and with it.
SoFar(line, start) == IF start = 1 THEN line ELSE <<>>
Text(chars, line, start, end) == AppendTo(SoFar(line, start), SubSeq(chars, start, end))

\* The first carriage return from start on.
Returns(chars, start) == {pos \in start..Len(chars) : chars[pos] = CR}
IsFirstReturn(chars, start, pos) ==
  pos \in Returns(chars, start) /\ \A q \in Returns(chars, start) : pos <= q

\* The least of the carriage returns is the first.
LEMMA FirstReturn ==
  ASSUME NEW chars, Len(chars) \in Nat, NEW start \in Nat, Returns(chars, start) # {}
  PROVE  IsFirstReturn(chars, start, Min(Returns(chars, start)))
<1> DEFINE R == Returns(chars, start)
<1>1. R \in SUBSET Nat
  BY DEF Returns
<1> HIDE DEF R
<1>2. \E m \in R : \A k \in R : m <= k
  BY <1>1, Least DEF R
<1>3. Min(R) \in R /\ \A k \in R : Min(R) <= k
  BY <1>2 DEF Min
<1> QED BY <1>3 DEF R, IsFirstReturn

\* What the function is at a position, by what comes first there.
LEMMA CutBodyIs ==
  ASSUME NEW chars, NEW line, NEW cut, NEW start, Len(chars) \in Nat, start \in Nat
  PROVE  LET n == Len(chars)
             R == Returns(chars, start)
             pos == Min(R)
             r == CutBody(chars, line, cut, start)
         IN /\ R = {} => r = [done |-> FALSE, return |-> FALSE,
                              line |-> Text(chars, line, start, n), rest |-> <<>>]
            /\ R # {} => pos \in R /\ pos \in Nat /\ start <= pos /\ pos <= n
            /\ R # {} /\ pos = n =>
                 r = [done |-> FALSE, return |-> TRUE,
                      line |-> Text(chars, line, start, n - 1), rest |-> <<>>]
            /\ R # {} /\ pos < n /\ chars[pos + 1] = LF =>
                 r = [done |-> TRUE, return |-> FALSE,
                      line |-> Text(chars, line, start, pos - 1), rest |-> SubSeq(chars, pos + 2, n)]
            /\ R # {} /\ pos < n /\ chars[pos + 1] # LF => r = cut[pos + 2]
<1> DEFINE n == Len(chars)
           R == Returns(chars, start)
           pos == Min(R)
           r == CutBody(chars, line, cut, start)
           none == [done |-> FALSE, return |-> FALSE, line |-> Text(chars, line, start, n), rest |-> <<>>]
           due == LineFeedDue(Text(chars, line, start, n - 1))
           done == [done |-> TRUE, return |-> FALSE,
                    line |-> Text(chars, line, start, pos - 1), rest |-> SubSeq(chars, pos + 2, n)]
           more == cut[pos + 2]
<1>1. r = CASE R = {} -> none
            [] R # {} /\ pos = n -> due
            [] R # {} /\ pos < n /\ Ends(chars, pos) -> done
            [] OTHER -> more
  BY Zenon DEF CutBody, Returns, Text, SoFar
<1>2. R # {} => pos \in R /\ pos \in Nat /\ start <= pos /\ pos <= n
  <2>1. R # {} => pos \in R
    BY FirstReturn DEF IsFirstReturn
  <2>2. \A q \in R : q \in Nat /\ start <= q /\ q <= n
    BY DEF Returns
  <2> HIDE DEF R, pos
  <2> QED BY <2>1, <2>2
<1>3. n \in Nat
  OBVIOUS
<1> HIDE DEF n, R, pos, r, none, due, done, more
<1>4. R = {} => r = none
  BY <1>1, Zenon
<1>5. R # {} /\ pos = n => r = due
  BY <1>1, <1>2, <1>3
<1>6. R # {} /\ pos < n /\ Ends(chars, pos) => r = done
  BY <1>1, <1>2, <1>3
<1>7. R # {} /\ pos < n /\ ~Ends(chars, pos) => r = more
  BY <1>1, <1>2, <1>3
<1> QED BY <1>2, <1>4, <1>5, <1>6, <1>7 DEF n, R, pos, r, none, due, done, more, Ends, LineFeedDue

\* There is such a function: a position depends on later ones only.
LEMMA CutExists ==
  ASSUME NEW chars, NEW line, Len(chars) \in Nat
  PROVE  \E cut : CutFrom(chars, line, cut)
<1> DEFINE n == Len(chars)
           Upto(k, f) == f = [start \in (n + 1 - k)..(n + 1) |-> CutBody(chars, line, f, start)]
           S == {k \in 0..n : \E f : Upto(k, f)}
<1>1. ASSUME NEW f, NEW g, NEW start \in 1..(n + 1),
             \A k \in (start + 1)..(n + 1) : f[k] = g[k]
      PROVE  CutBody(chars, line, f, start) = CutBody(chars, line, g, start)
  <2> DEFINE R == Returns(chars, start)
             pos == Min(R)
  <2>1. start \in Nat /\ n \in Nat
    OBVIOUS
  <2>2. R # {} => pos \in Nat /\ start <= pos /\ pos <= n
    BY <2>1, CutBodyIs
  <2> DEFINE none == [done |-> FALSE, return |-> FALSE, line |-> Text(chars, line, start, n), rest |-> <<>>]
             due == [done |-> FALSE, return |-> TRUE, line |-> Text(chars, line, start, n - 1), rest |-> <<>>]
  <2>3. CASE R = {}
    <3>1. \A cut : CutBody(chars, line, cut, start) = none
      BY <2>1, <2>3, CutBodyIs
    <3> QED BY <3>1, Zenon
  <2>4. CASE R # {} /\ pos = n
    <3>1. \A cut : CutBody(chars, line, cut, start) = due
      BY <2>1, <2>4, CutBodyIs
    <3> QED BY <3>1, Zenon
  <2>5. CASE R # {} /\ pos < n /\ chars[pos + 1] = LF
    <3> DEFINE done == [done |-> TRUE, return |-> FALSE,
                        line |-> Text(chars, line, start, pos - 1), rest |-> SubSeq(chars, pos + 2, n)]
    <3>1. \A cut : CutBody(chars, line, cut, start) = done
      BY <2>1, <2>5, CutBodyIs
    <3> QED BY <3>1, Zenon
  <2>6. CASE R # {} /\ pos < n /\ chars[pos + 1] # LF
    <3>1. pos + 2 \in (start + 1)..(n + 1)
      BY <2>1, <2>2, <2>6
    <3>2. CutBody(chars, line, f, start) = f[pos + 2]
      BY <2>1, <2>6, CutBodyIs
    <3>3. CutBody(chars, line, g, start) = g[pos + 2]
      BY <2>1, <2>6, CutBodyIs
    <3> QED BY <1>1, <3>1, <3>2, <3>3
  <2> HIDE DEF R, pos
  <2> QED BY <2>1, <2>2, <2>3, <2>4, <2>5, <2>6
<1>2. 0 \in S
  <2> DEFINE f == [start \in (n + 1 - 0)..(n + 1) |-> CutBody(chars, line, <<>>, start)]
             g == [start \in (n + 1 - 0)..(n + 1) |-> CutBody(chars, line, f, start)]
  <2>1. \A start \in (n + 1 - 0)..(n + 1) :
          CutBody(chars, line, <<>>, start) = CutBody(chars, line, f, start)
    <3> TAKE start \in (n + 1 - 0)..(n + 1)
    <3>1. start \in 1..(n + 1) /\ (start + 1)..(n + 1) = {}
      OBVIOUS
    <3> HIDE DEF f
    <3> QED BY <1>1, <3>1
  <2>2. f = g
    BY <2>1, Zenon
  <2>3. 0 \in 0..n /\ Upto(0, f)
    BY <2>2
  <2> HIDE DEF Upto, f, n
  <2> QED BY <2>3
<1>3. ASSUME NEW k \in Nat, k < n, k \in S
      PROVE  k + 1 \in S
  <2>1. PICK f : Upto(k, f)
    BY <1>3
  <2> DEFINE m == n + 1 - (k + 1)
             g == [start \in m..(n + 1) |-> IF start = m THEN CutBody(chars, line, f, m) ELSE f[start]]
             h == [start \in m..(n + 1) |-> CutBody(chars, line, g, start)]
  <2>2. m \in 1..(n + 1) /\ m + 1 = n + 1 - k /\ m \in Nat
    BY <1>3
  <2>3. \A start \in (m + 1)..(n + 1) : f[start] = CutBody(chars, line, f, start)
    BY <2>1, <2>2
  <2> HIDE DEF m, Upto
  <2>4. \A start \in (m + 1)..(n + 1) : g[start] = f[start]
    BY <2>2
  <2>5. \A start \in m..(n + 1) : g[start] = CutBody(chars, line, g, start)
    <3> TAKE start \in m..(n + 1)
    <3>1. start \in 1..(n + 1) /\ \A j \in (start + 1)..(n + 1) : j \in (m + 1)..(n + 1)
      BY <2>2
    <3>2. \A j \in (start + 1)..(n + 1) : f[j] = g[j]
      BY <2>4, <3>1
    <3>3. CutBody(chars, line, f, start) = CutBody(chars, line, g, start)
      <4> HIDE DEF g
      <4> QED BY <1>1, <3>1, <3>2
    <3>4. CASE start = m
      BY <3>3, <3>4
    <3>5. CASE start # m
      <4>1. start \in (m + 1)..(n + 1)
        BY <2>2, <3>5
      <4> QED BY <2>3, <2>4, <3>3, <4>1
    <3> QED BY <3>4, <3>5
  <2>6. g = h
    <3>1. \A start \in m..(n + 1) :
            (IF start = m THEN CutBody(chars, line, f, m) ELSE f[start]) = CutBody(chars, line, g, start)
      <4> TAKE start \in m..(n + 1)
      <4>1. g[start] = CutBody(chars, line, g, start)
        BY <2>5
      <4> QED BY <4>1
    <3> QED BY <3>1, Zenon
  <2>7. Upto(k + 1, g)
    BY <2>6 DEF Upto, m
  <2>8. k + 1 \in 0..n
    BY <1>3
  <2> HIDE DEF g
  <2> QED BY <2>7, <2>8
<1>4. n \in S
  <2>1. n \in Nat /\ n <= n
    OBVIOUS
  <2> HIDE DEF S, n
  <2> QED BY <1>2, <1>3, <2>1, Induction, Zenon
<1>5. PICK f : Upto(n, f)
  BY <1>4
<1>6. n + 1 - n = 1
  OBVIOUS
<1> QED BY <1>5, <1>6 DEF CutFrom

\* The text of a line, up to where the next carriage return may be.
LEMMA MadeTexts ==
  ASSUME NEW chars \in Seq(All), NEW line \in Lines, NEW h, NEW i, IdealTyped(i),
         NEW start \in Nat, start >= 1,
         Made(h, SoFar(line, start), FALSE, At(i, chars, start - 1)),
         NEW end \in Nat, start - 1 <= end, end <= Len(chars),
         \A q \in start..end : chars[q] # CR
  PROVE  Made(h, Text(chars, line, start, end), FALSE, At(i, chars, end))
<1> DEFINE soFar == SoFar(line, start)
           text(k) == Text(chars, line, start, start - 1 + k)
           S == {k \in Nat : Made(h, text(k), FALSE, At(i, chars, start - 1 + k))}
           d == end - (start - 1)
<1>0. /\ Len(chars) \in Nat /\ d \in Nat /\ d <= d /\ chars \in [1..Len(chars) -> All]
      /\ start - 1 \in Nat /\ start - 1 + d = end
  BY LenProperties
<1>1. soFar \in Lines
  BY ShortLines DEF SoFar
<1>2. 0 \in S
  <2>1. SubSeq(chars, start, start - 1 + 0) = <<>> /\ start - 1 + 0 = start - 1
    BY <1>0, SubSeqEmpty
  <2>2. AppendTo(soFar, <<>>) = soFar
    <3>1. <<>> \in Seq(All) /\ CR \in All
      BY DEF All
    <3> HIDE DEF soFar
    <3> QED BY <1>1, <3>1, AppendToAppend
  <2> QED BY <2>1, <2>2 DEF Text
<1>3. ASSUME NEW k \in Nat, k < d, k \in S
      PROVE  k + 1 \in S
  <2> DEFINE e == start - 1 + k
             c == chars[e + 1]
             piece == SubSeq(chars, start, e)
  <2>1. /\ e \in Nat /\ e + 1 \in start..end /\ e + 1 \in 1..Len(chars) /\ e < Len(chars)
        /\ start - 1 + (k + 1) = e + 1 /\ (e + 1) - 1 = e
        /\ start \in 1..Len(chars) /\ e + 1 \in start..Len(chars)
    BY <1>0, <1>3
  <2>2. c \in All /\ c # CR
    BY <1>0, <2>1
  <2>3. piece \in Seq(All)
    <3>1. \A j \in start..e : chars[j] \in All
      <4> HIDE DEF e, c
      <4>1. \A j \in start..e : j \in 1..Len(chars)
        BY <1>0, <2>1
      <4> QED BY <1>0, <4>1
    <3> QED BY <2>1, <3>1, SubSeqProperties
  <2>4. SubSeq(chars, start, e + 1) = Append(piece, c)
    <3>1. SubSeq(chars, start, e + 1) = SubSeq(chars, start, (e + 1) - 1) \o <<chars[e + 1]>>
      BY <2>1, SubSeqRecursiveSecond
    <3>2. Append(piece, c) = piece \o <<c>>
      BY <2>2, <2>3, AppendIsConcat
    <3> QED BY <2>1, <3>1, <3>2
  <2>5. Made(h, AppendTo(soFar, piece), FALSE, At(i, chars, e))
    BY <1>3 DEF Text
  <2>6. At(i, chars, e + 1) = IdealStep(At(i, chars, e), c)
    BY <2>1, AtSteps
  <2> HIDE DEF c, piece, e, soFar
  <2>7. AppendTo(soFar, Append(piece, c)) = Shortened(Append(AppendTo(soFar, piece), c))
    BY <1>1, <2>2, <2>3, AppendToAppend
  <2>8. Made(h, Shortened(Append(AppendTo(soFar, piece), c)), FALSE, IdealStep(At(i, chars, e), c))
    BY <2>2, <2>5, MadeText
  <2>9. Made(h, AppendTo(soFar, SubSeq(chars, start, e + 1)), FALSE, At(i, chars, e + 1))
    BY <2>4, <2>6, <2>7, <2>8
  <2>10. Made(h, text(k + 1), FALSE, At(i, chars, start - 1 + (k + 1)))
    BY <2>1, <2>9, Zenon DEF Text, soFar
  <2>11. k + 1 \in Nat
    OBVIOUS
  <2> HIDE DEF text
  <2> QED BY <2>10, <2>11, Zenon
<1>4. d \in S
  <2> HIDE DEF S, d
  <2> QED BY <1>0, <1>2, <1>3, Induction, Zenon
<1> QED BY <1>0, <1>4

\* What a call of processBuffer returns, of characters of which those up to p are used.
Result(r, h, i, chars) ==
  /\ ~r.done => r.rest = <<>> /\ Made(h, r.line, r.return, IdealAfter(i, chars))
  /\ r.done => /\ r.return = FALSE
               /\ \E p \in 1..Len(chars) :
                    /\ r.rest = SubSeq(chars, p + 1, Len(chars))
                    /\ Made(Handed(h, r.line), <<>>, FALSE, At(i, chars, p))

\* processBuffer without a line feed due.
LEMMA CutMakes ==
  ASSUME NEW chars \in Seq(All), NEW line \in Lines, NEW h, NEW i, Made(h, line, FALSE, i)
  PROVE  Result(Cut(chars, line), h, i, chars)
<1> DEFINE n == Len(chars)
           A(k) == At(i, chars, k)
<1>0. n \in Nat /\ chars \in [1..n -> All] /\ IdealTyped(i)
  BY LenProperties DEF Made
<1>1. PICK cut : CutFrom(chars, line, cut) /\ Cut(chars, line) = cut[1]
  <2>1. \E cut : CutFrom(chars, line, cut)
    BY <1>0, CutExists
  <2> QED BY <2>1, CutIs, Zenon
<1>2. \A start \in 1..(n + 1) : cut[start] = CutBody(chars, line, cut, start)
  BY <1>1 DEF CutFrom
<1> DEFINE Good(start) == Made(h, SoFar(line, start), FALSE, A(start - 1)) => Result(cut[start], h, i, chars)
           Bad == {k \in 0..n : ~Good(n + 1 - k)}
<1>3. ASSUME NEW start \in 1..(n + 1), \A s \in (start + 1)..(n + 1) : Good(s)
      PROVE  Good(start)
  <2> SUFFICES ASSUME Made(h, SoFar(line, start), FALSE, A(start - 1))
               PROVE  Result(cut[start], h, i, chars)
    OBVIOUS
  <2> DEFINE R == Returns(chars, start)
             pos == Min(R)
             r == cut[start]
  <2>1. /\ start \in Nat /\ start >= 1 /\ start <= n + 1 /\ start - 1 \in Nat
    BY <1>0
  <2>2. r = CutBody(chars, line, cut, start)
    BY <1>2
  <2>3. A(n) = IdealAfter(i, chars)
    BY <1>0, AtSteps
  <2>4. R # {} => pos \in R /\ pos \in Nat /\ start <= pos /\ pos <= n
    BY <1>0, <2>1, CutBodyIs
  <2>5. ASSUME R # {}
        PROVE  /\ Made(h, Text(chars, line, start, pos - 1), TRUE, A(pos))
               /\ A(pos).ended
    <3>1. chars[pos] = CR
      <4>1. \A q \in R : chars[q] = CR
        BY DEF Returns
      <4> HIDE DEF R, pos
      <4> QED BY <2>4, <2>5, <4>1
    <3>2. \A q \in start..(pos - 1) : chars[q] # CR
      <4> SUFFICES ASSUME NEW q \in start..(pos - 1), chars[q] = CR PROVE FALSE
        OBVIOUS
      <4>1. q \in start..n /\ ~(pos <= q)
        BY <1>0, <2>1, <2>4, <2>5
      <4>2. q \in R
        BY <4>1 DEF Returns
      <4>3. pos <= q
        BY <1>0, <2>1, <2>5, <4>2, FirstReturn DEF IsFirstReturn
      <4> QED BY <4>1, <4>3
    <3> HIDE DEF R, pos
    <3>3. /\ pos - 1 \in Nat /\ start - 1 <= pos - 1 /\ pos - 1 <= n /\ pos - 1 < n
          /\ (pos - 1) + 1 = pos
      BY <1>0, <2>1, <2>4, <2>5
    <3>4. Made(h, Text(chars, line, start, pos - 1), FALSE, A(pos - 1))
      BY <1>0, <2>1, <3>2, <3>3, MadeTexts
    <3>5. A(pos) = IdealStep(A(pos - 1), CR)
      <4>1. At(i, chars, (pos - 1) + 1) = IdealStep(At(i, chars, pos - 1), chars[(pos - 1) + 1])
        BY <1>0, <3>3, AtSteps
      <4> QED BY <3>1, <3>3, <4>1
    <3> QED BY <3>4, <3>5, MadeReturn
  <2>6. CASE R = {}
    <3> DEFINE t == Text(chars, line, start, n)
    <3>1. r = [done |-> FALSE, return |-> FALSE, line |-> t, rest |-> <<>>]
      BY <1>0, <2>1, <2>2, <2>6, CutBodyIs
    <3>2. \A q \in start..n : chars[q] # CR
      BY <2>6 DEF Returns
    <3>3. start - 1 <= n /\ n <= n
      BY <1>0, <2>1
    <3>4. Made(h, t, FALSE, IdealAfter(i, chars))
      BY <1>0, <2>1, <2>3, <3>2, <3>3, MadeTexts
    <3> HIDE DEF r, t
    <3>5. ~r.done /\ r.rest = <<>> /\ Made(h, r.line, r.return, IdealAfter(i, chars))
      BY <3>1, <3>4
    <3>6. Result(r, h, i, chars)
      BY <3>5 DEF Result
    <3> QED BY <3>6 DEF r
  <2>7. CASE R # {} /\ pos = n
    <3> DEFINE t == Text(chars, line, start, n - 1)
    <3>1. r = [done |-> FALSE, return |-> TRUE, line |-> t, rest |-> <<>>]
      BY <1>0, <2>1, <2>2, <2>7, CutBodyIs
    <3>2. Made(h, t, TRUE, IdealAfter(i, chars))
      BY <2>3, <2>5, <2>7
    <3> HIDE DEF r, t
    <3>5. ~r.done /\ r.rest = <<>> /\ Made(h, r.line, r.return, IdealAfter(i, chars))
      BY <3>1, <3>2
    <3>6. Result(r, h, i, chars)
      BY <3>5 DEF Result
    <3> QED BY <3>6 DEF r
  <2>8. CASE R # {} /\ pos < n
    <3>1. /\ pos \in Nat /\ start <= pos /\ pos + 1 \in 1..n /\ chars[pos + 1] \in All
          /\ pos + 1 \in 1..n
      BY <1>0, <2>1, <2>4, <2>8
    <3>2. A(pos + 1) = IdealStep(A(pos), chars[pos + 1])
      BY <1>0, <2>8, <3>1, AtSteps
    <3>3. CASE chars[pos + 1] = LF
      <4> DEFINE t == Text(chars, line, start, pos - 1)
                 rest == SubSeq(chars, pos + 2, n)
      <4>1. r = [done |-> TRUE, return |-> FALSE, line |-> t, rest |-> rest]
        BY <1>0, <2>1, <2>2, <2>8, <3>3, CutBodyIs
      <4>2. Made(Handed(h, t), <<>>, FALSE, At(i, chars, pos + 1))
        BY <2>5, <2>8, <3>2, <3>3, MadeLine
      <4>3. (pos + 1) + 1 = pos + 2
        BY <3>1
      <4>6. rest = SubSeq(chars, (pos + 1) + 1, n)
        BY <4>3
      <4> HIDE DEF R, pos, r, t, rest
      <4>4. /\ r.done /\ r.return = FALSE /\ r.rest = SubSeq(chars, (pos + 1) + 1, n)
            /\ Made(Handed(h, r.line), <<>>, FALSE, At(i, chars, pos + 1))
        BY <4>1, <4>2, <4>6
      <4>5. Result(r, h, i, chars)
        BY <3>1, <4>4 DEF Result
      <4> QED BY <4>5 DEF r
    <3>4. CASE chars[pos + 1] # LF
      <4>1. r = cut[pos + 2]
        BY <1>0, <2>1, <2>2, <2>8, <3>4, CutBodyIs
      <4>2. Made(h, <<>>, FALSE, A(pos + 1))
        BY <2>5, <2>8, <3>1, <3>2, <3>4, MadeDropped
      <4> HIDE DEF R, pos
      <4>3. pos + 2 \in (start + 1)..(n + 1) /\ (pos + 2) - 1 = pos + 1 /\ pos + 2 # 1
        BY <1>0, <2>1, <2>8, <3>1
      <4>4. SoFar(line, pos + 2) = <<>>
        BY <4>3 DEF SoFar
      <4>5. Good(pos + 2)
        BY <1>3, <4>3
      <4> QED BY <4>1, <4>2, <4>3, <4>4, <4>5
    <3> QED BY <3>3, <3>4
  <2> QED BY <1>0, <2>4, <2>6, <2>7, <2>8
<1>4. Bad = {}
  <2> SUFFICES ASSUME Bad # {} PROVE FALSE
    OBVIOUS
  <2>1. Bad \in SUBSET Nat
    <3> HIDE DEF Good
    <3> QED OBVIOUS
  <2>2. PICK k \in Bad : \A j \in Bad : k <= j
    BY <2>1, Least
  <2>3. k \in 0..n /\ ~Good(n + 1 - k) /\ n + 1 - k \in 1..(n + 1)
    <3>1. k \in 0..n /\ ~Good(n + 1 - k)
      <4> HIDE DEF Good
      <4> QED OBVIOUS
    <3> HIDE DEF Good
    <3> QED BY <1>0, <3>1
  <2>4. ASSUME NEW s \in (n + 1 - k + 1)..(n + 1)
        PROVE  Good(s)
    <3>1. n + 1 - s \in 0..n /\ ~(k <= n + 1 - s) /\ n + 1 - (n + 1 - s) = s
      BY <1>0, <2>3, <2>4
    <3>2. n + 1 - s \notin Bad
      BY <2>2, <3>1
    <3> HIDE DEF Good
    <3> QED BY <3>1, <3>2
  <2> HIDE DEF Good, Bad
  <2> QED BY <1>3, <2>3, <2>4
<1>5. Good(1)
  <2>1. n \in 0..n /\ n + 1 - n = 1
    BY <1>0
  <2> HIDE DEF Good
  <2> QED BY <1>4, <2>1
<1>6. SoFar(line, 1) = line /\ A(1 - 1) = i
  <2>1. At(i, chars, 0) = i /\ 1 - 1 = 0
    BY <1>0, AtSteps
  <2> QED BY <2>1 DEF SoFar
<1> QED BY <1>1, <1>5, <1>6

\* processBuffer returns what is made of the characters it has used, whatever came before.
LEMMA ProcessMakes ==
  ASSUME NEW chars \in Seq(All), chars # <<>>, NEW line, NEW return, NEW h, NEW i,
         Made(h, line, return, i)
  PROVE  Result(ProcessBuffer(chars, line, return), h, i, chars)
<1> DEFINE n == Len(chars)
           r == ProcessBuffer(chars, line, return)
<1>0. /\ n \in Nat /\ n >= 1 /\ 1 \in 1..n /\ n # 0 /\ IdealTyped(i) /\ i.ended \in BOOLEAN
      /\ line \in Lines /\ return \in BOOLEAN /\ Head(chars) = chars[1] /\ chars[1] \in All
      /\ n \in 1..n
  BY EmptySeq, LenProperties DEF Made, IdealTyped
<1>1. CASE return /\ chars[1] = LF
  <2> DEFINE rest == Tail(chars)
  <2>1. r = [done |-> TRUE, return |-> FALSE, line |-> line, rest |-> rest]
    BY <1>0, <1>1 DEF ProcessBuffer
  <2>2. rest = SubSeq(chars, 1 + 1, n)
    BY TailIsSubSeq
  <2>3. At(i, chars, 1) = IdealStep(i, LF)
    <3>1. At(i, chars, 0 + 1) = IdealStep(At(i, chars, 0), chars[0 + 1]) /\ At(i, chars, 0) = i
      BY <1>0, AtSteps
    <3> QED BY <1>1, <3>1
  <2>4. Made(h, line, TRUE, i)
    BY <1>0, <1>1
  <2>5. Made(Handed(h, line), <<>>, FALSE, At(i, chars, 1))
    BY <2>3, <2>4, MadeLine
  <2> HIDE DEF r, rest
  <2>6. /\ r.done /\ r.return = FALSE /\ r.rest = SubSeq(chars, 1 + 1, n)
        /\ Made(Handed(h, r.line), <<>>, FALSE, At(i, chars, 1))
    BY <2>1, <2>2, <2>5
  <2>7. Result(r, h, i, chars)
    BY <1>0, <2>6 DEF Result
  <2> QED BY <2>7 DEF r
<1>2. CASE return /\ chars[1] # LF
  <2>1. r = Cut(chars, <<>>)
    BY <1>0, <1>2 DEF ProcessBuffer
  <2>2. /\ Made(h, line, TRUE, i)
        /\ ~i.ended => Made(h, <<>>, FALSE, i)
        /\ i.ended => Made(h, <<>>, FALSE, Spoiled(i))
    <3>1. Made(h, line, TRUE, i)
      BY <1>0, <1>2
    <3> QED BY <3>1, MadeSpoiled
  <2>3. CASE ~i.ended
    BY <2>1, <2>2, <2>3, CutMakes, ShortLines
  <2>4. CASE i.ended
    <3>1. Result(r, h, Spoiled(i), chars)
      BY <2>1, <2>2, <2>4, CutMakes, ShortLines
    <3>2. ASSUME NEW p \in 1..n
          PROVE  At(Spoiled(i), chars, p) = At(i, chars, p)
      <4> DEFINE piece == SubSeq(chars, 1, p)
      <4>1. \A k \in 1..p : chars[k] \in All
        <5>1. \A k \in 1..p : k \in 1..n
          BY <1>0
        <5> QED BY <5>1, ElementOfSeq
      <4>2. /\ piece \in Seq(All)
            /\ Len(piece) = IF 1 <= p THEN p - 1 + 1 ELSE 0
            /\ \A k \in 1..(p - 1 + 1) : piece[k] = chars[1 + k - 1]
        BY <4>1, SubSeqProperties
      <4>3. 1 <= p /\ p - 1 + 1 = p /\ p # 0 /\ 1 \in 1..p /\ 1 + 1 - 1 = 1
        BY <1>0
      <4> HIDE DEF piece
      <4>4. piece \in Seq(All) /\ Len(piece) # 0 /\ piece[1] # LF
        BY <1>2, <4>2, <4>3
      <4>5. IdealAfter(Spoiled(i), piece) = IdealAfter(i, piece)
        BY <1>0, <2>4, <4>4, SpoiledBefore
      <4> QED BY <4>5 DEF At, piece
    <3>3. IdealTyped(Spoiled(i)) /\ IdealAfter(Spoiled(i), chars) = IdealAfter(i, chars)
      BY <1>0, <1>2, <2>4, SpoiledBefore
    <3> HIDE DEF r
    <3>4. Result(r, h, i, chars)
      BY <3>1, <3>2, <3>3 DEF Result
    <3> QED BY <3>4 DEF r
  <2> QED BY <2>3, <2>4
<1>3. CASE ~return
  <2>1. r = Cut(chars, line)
    BY <1>0, <1>3 DEF ProcessBuffer
  <2>2. Made(h, line, FALSE, i)
    BY <1>0, <1>3
  <2> QED BY <1>0, <2>1, <2>2, CutMakes
<1> QED BY <1>1, <1>2, <1>3

-----------------------------------------------------------------------------
(* The invariant *)

\* i is j, or what it is after new connections have begun new lines.
Follows(i, j) ==
  /\ IdealTyped(i) /\ i.sentences = j.sentences
  /\ \/ i = j
     \/ /\ i.line = <<>> /\ ~i.ended /\ i.faults >= j.faults
        /\ j.line # <<>> \/ j.ended => i.faults >= j.faults + 1

\* New connections lose nothing that their faults do not account for.
LEMMA MadeFollows ==
  ASSUME NEW h, NEW line, NEW return, NEW i, NEW j, Made(h, line, return, j), Follows(i, j)
  PROVE  Made(h, line, return, i)
<1>0. /\ h \in Seq(Sentences) /\ line \in Lines /\ return \in BOOLEAN /\ IdealTyped(i) /\ IdealTyped(j)
      /\ i.sentences = j.sentences /\ i.sentences \in Seq(Sentences)
      /\ i.faults \in Nat /\ j.faults \in Nat /\ i.ended \in BOOLEAN /\ j.ended \in BOOLEAN
  BY DEF Made, Follows, IdealTyped
<1>1. CASE i = j
  BY <1>1
<1>2. CASE i # j
  <2>1. /\ i.line = <<>> /\ ~i.ended /\ i.faults >= j.faults
        /\ j.line # <<>> \/ j.ended => i.faults >= j.faults + 1
    BY <1>2 DEF Follows
  <2>2. CASE InStep(h, line, return, j) /\ j.line = <<>> /\ ~j.ended
    <3>1. Agree(h, i.sentences, i.faults)
      BY <1>0, <2>1, <2>2, AgreeMore DEF InStep
    <3>2. i.faults = 0 => h = i.sentences
      BY <1>0, <2>1, <2>2 DEF InStep
    <3>3. InStep(h, line, return, i)
      BY <1>0, <2>1, <2>2, <3>1, <3>2 DEF InStep
    <3> QED BY <1>0, <3>3 DEF Made
  <2>3. CASE InStep(h, line, return, j) /\ (j.line # <<>> \/ j.ended)
    <3>1. i.faults - 1 \in Nat /\ j.faults <= i.faults - 1 /\ i.faults >= 1
      BY <1>0, <2>1, <2>3
    <3>2. Agree(h, i.sentences, i.faults - 1)
      BY <1>0, <2>3, <3>1, AgreeMore DEF InStep
    <3>3. OutOfStep(h, line, return, i)
      BY <2>1, <3>1, <3>2 DEF OutOfStep
    <3> QED BY <1>0, <3>3 DEF Made
  <2>4. CASE OutOfStep(h, line, return, j)
    <3>0. j.faults >= 1 /\ Agree(h, j.sentences, j.faults - 1)
      BY <2>4 DEF OutOfStep
    <3>1. i.faults - 1 \in Nat /\ j.faults - 1 \in Nat /\ j.faults - 1 <= i.faults - 1 /\ i.faults >= 1
      BY <1>0, <2>1, <3>0
    <3>2. Agree(h, i.sentences, i.faults - 1)
      BY <1>0, <3>0, <3>1, AgreeMore
    <3>3. OutOfStep(h, line, return, i)
      BY <2>1, <3>1, <3>2 DEF OutOfStep
    <3> QED BY <1>0, <3>3 DEF Made
  <2> QED BY <1>0, <2>2, <2>3, <2>4 DEF Made
<1> QED BY <1>1, <1>2

\* What was handed over, the line and the flag are what is made of the characters
\* before those in the buffer.
Lag(h, line, return, chars, i) ==
  \E j : Made(h, line, return, j) /\ Follows(i, IdealAfter(j, chars))

\* The ghost has its type after all characters.
LEMMA AfterTyped ==
  ASSUME NEW i, IdealTyped(i), NEW chars \in Seq(All)
  PROVE  /\ IdealTyped(IdealAfter(i, chars)) /\ IdealAfter(i, <<>>) = i
         /\ Follows(IdealAfter(i, chars), IdealAfter(i, chars))
<1>1. Len(chars) \in Nat /\ Len(chars) <= Len(chars)
  BY LenProperties
<1>2. IdealTyped(IdealAfter(i, chars))
  BY <1>1, AtSteps
<1>3. IdealAfter(i, <<>>) = i
  <2>1. <<>> \in Seq({0}) /\ 0 \in {0}
    OBVIOUS
  <2> QED BY <2>1, AfterAppend
<1> QED BY <1>2, <1>3 DEF Follows

\* So it stays when a call of processBuffer returns.
LEMMA ResultLag ==
  ASSUME NEW r, NEW h, NEW i, NEW j, NEW chars \in Seq(All), IdealTyped(j),
         Result(r, h, j, chars), Follows(i, IdealAfter(j, chars))
  PROVE  /\ r.rest \in Seq(All)
         /\ Lag(IF r.done THEN Handed(h, r.line) ELSE h, IF r.done THEN <<>> ELSE r.line,
                r.return, r.rest, i)
         /\ ~r.done => r.rest = <<>> /\ Made(h, r.line, r.return, i)
<1>1. CASE ~r.done
  <2>1. r.rest = <<>> /\ Made(h, r.line, r.return, IdealAfter(j, chars))
    BY <1>1 DEF Result
  <2>2. Made(h, r.line, r.return, i)
    BY <2>1, MadeFollows
  <2>3. IdealTyped(i) /\ <<>> \in Seq(All)
    BY DEF Follows
  <2>4. IdealAfter(i, <<>>) = i /\ Follows(i, i)
    BY <2>3, AfterTyped DEF Follows
  <2> QED BY <1>1, <2>1, <2>2, <2>3, <2>4 DEF Lag
<1>2. CASE r.done
  <2>1. PICK p \in 1..Len(chars) :
          /\ r.rest = SubSeq(chars, p + 1, Len(chars))
          /\ Made(Handed(h, r.line), <<>>, FALSE, At(j, chars, p))
    BY <1>2 DEF Result
  <2> DEFINE n == Len(chars)
             first == SubSeq(chars, 1, p)
  <2>2. /\ n \in Nat /\ p \in Nat /\ 1 \in 1..(n + 1) /\ p \in (1 - 1)..n /\ n \in p..n
        /\ chars \in [1..n -> All]
    BY LenProperties
  <2>3. first \in Seq(All)
    <3>1. \A k \in 1..p : chars[k] \in All
      BY <2>2
    <3> QED BY <2>2, <3>1, SubSeqProperties
  <2>4. r.rest \in Seq(All)
    <3>1. \A k \in (p + 1)..n : chars[k] \in All
      BY <2>2
    <3> QED BY <2>1, <2>2, <3>1, SubSeqProperties
  <2>5. first \o r.rest = chars
    <3>1. SubSeq(chars, 1, p) \o SubSeq(chars, p + 1, n) = SubSeq(chars, 1, n)
      BY <2>2, ConcatAdjacentSubSeq
    <3> QED BY <2>1, <3>1, SubSeqFull
  <2> HIDE DEF first
  <2>6. IdealAfter(IdealAfter(j, first), r.rest) = IdealAfter(j, chars)
    BY <2>3, <2>4, <2>5, AfterConcat
  <2>7. At(j, chars, p) = IdealAfter(j, first)
    BY DEF At, first
  <2>8. r.return = FALSE
    BY <1>2 DEF Result
  <2>9. Lag(Handed(h, r.line), <<>>, r.return, r.rest, i)
    BY <2>1, <2>6, <2>7, <2>8 DEF Lag
  <2> QED BY <1>2, <2>4, <2>9
<1> QED BY <1>1, <1>2

\* Characters only, on the wire and in both buffers.
Streamed == available \in Seq(All) /\ buffer \in Seq(All) /\ wire \in Seq(All)

\* The inductive invariant.
SourceInv == Streamed /\ Lag(handled, inputLine, carriageReturnFound, buffer, ideal)

\* The type of the ghost, from its lag.
LEMMA LagTyped ==
  ASSUME NEW h, NEW line, NEW return, NEW chars, NEW i, Lag(h, line, return, chars, i)
  PROVE  IdealTyped(i)
BY DEF Lag, Follows

\* The lag when new lines begin with a new connection.
LEMMA LagAccepted ==
  ASSUME NEW h, NEW line, NEW return, NEW chars, NEW i, Lag(h, line, return, chars, i),
         NEW k, k = [i EXCEPT !.line = <<>>, !.ended = FALSE,
                              !.faults = IF i.line = <<>> /\ ~i.ended THEN @ ELSE @ + 1]
  PROVE  Lag(h, line, return, chars, k)
<1>1. PICK j : Made(h, line, return, j) /\ Follows(i, IdealAfter(j, chars))
  BY DEF Lag
<1> DEFINE l == IdealAfter(j, chars)
           faults == IF i.line = <<>> /\ ~i.ended THEN i.faults ELSE i.faults + 1
<1>2. /\ i = [line |-> i.line, ended |-> i.ended, sentences |-> i.sentences, faults |-> i.faults]
      /\ i.sentences \in Seq(Sentences) /\ i.faults \in Nat /\ i.ended \in BOOLEAN
  BY <1>1 DEF Follows, IdealTyped
<1>3. k = [line |-> <<>>, ended |-> FALSE, sentences |-> i.sentences, faults |-> faults]
  BY <1>2
<1>4. faults \in Nat /\ faults >= i.faults /\ (i.line # <<>> \/ i.ended => faults >= i.faults + 1)
  BY <1>2
<1> HIDE DEF l, faults
<1>5. IdealTyped(k) /\ k.line = <<>> /\ ~k.ended /\ k.sentences = i.sentences /\ k.faults = faults
  <2>1. /\ k.line = <<>> /\ k.ended = FALSE /\ k.sentences = i.sentences /\ k.faults = faults
    BY ONLY <1>3
  <2>2. k \in [line : Lines, ended : BOOLEAN, sentences : Seq(Sentences), faults : Nat]
    <3>1. <<>> \in Lines
      BY ShortLines
    <3>2. i.sentences \in Seq(Sentences) /\ faults \in Nat
      BY <1>2, <1>4
    <3> QED BY ONLY <1>3, <3>1, <3>2
  <2> QED BY <2>1, <2>2 DEF IdealTyped
<1>6. /\ i.sentences = l.sentences
      /\ \/ i = l
         \/ /\ i.line = <<>> /\ ~i.ended /\ i.faults >= l.faults
            /\ l.line # <<>> \/ l.ended => i.faults >= l.faults + 1
  BY <1>1 DEF Follows, l
<1>7. Follows(k, l)
  <2>1. CASE i = l
    BY <1>2, <1>4, <1>5, <2>1 DEF Follows
  <2>2. CASE i # l
    <3>1. faults = i.faults
      BY <1>6, <2>2 DEF faults
    <3> QED BY <1>5, <1>6, <2>2, <3>1 DEF Follows
  <2> QED BY <2>1, <2>2
<1> QED BY <1>1, <1>7 DEF Lag, l

\* What is in the buffer is cut up before more is read.
LEMMA BeforeLag ==
  ASSUME SourceInv
  PROVE  LET r == BeforeRead
         IN /\ r.rest \in Seq(All)
            /\ Lag(IF r.done THEN Handed(handled, r.line) ELSE handled,
                   IF r.done THEN <<>> ELSE r.line, r.return, r.rest, ideal)
            /\ ~r.done => r.rest = <<>> /\ Made(handled, r.line, r.return, ideal)
<1> DEFINE r == BeforeRead
<1>1. PICK j : /\ Made(handled, inputLine, carriageReturnFound, j)
               /\ Follows(ideal, IdealAfter(j, buffer))
  BY DEF SourceInv, Lag
<1>2. IdealTyped(j) /\ buffer \in Seq(All)
  BY <1>1 DEF Made, SourceInv, Streamed
<1>3. CASE buffer = <<>>
  <2>1. r = [done |-> FALSE, return |-> carriageReturnFound, line |-> inputLine, rest |-> <<>>]
    BY <1>3 DEF BeforeRead
  <2>2. IdealAfter(j, buffer) = j
    BY <1>2, <1>3, AfterTyped
  <2>3. Made(handled, inputLine, carriageReturnFound, ideal)
    BY <1>1, <2>2, MadeFollows
  <2>4. Lag(handled, inputLine, carriageReturnFound, <<>>, ideal)
    BY <1>1, <1>3 DEF Lag
  <2> HIDE DEF r
  <2>5. ~r.done /\ r.return = carriageReturnFound /\ r.line = inputLine /\ r.rest = <<>>
    BY <2>1
  <2>6. <<>> \in Seq(All)
    OBVIOUS
  <2> QED BY <2>3, <2>4, <2>5, <2>6 DEF r
<1>4. CASE buffer # <<>>
  <2>1. r = ProcessBuffer(buffer, inputLine, carriageReturnFound)
    BY <1>4 DEF BeforeRead, Buffered
  <2>2. Result(r, handled, j, buffer)
    BY <1>1, <1>2, <1>4, <2>1, ProcessMakes
  <2> HIDE DEF r
  <2> QED BY <1>1, <1>2, <2>2, ResultLag DEF r
<1> QED BY <1>3, <1>4

\* What leave makes of a result with such a lag.
LEMMA LeaveInv ==
  ASSUME NEW r, Leave(r), r.rest \in Seq(All), available' \in Seq(All), wire' \in Seq(All),
         Lag(IF r.done THEN Handed(handled, r.line) ELSE handled,
             IF r.done THEN <<>> ELSE r.line, r.return, r.rest, ideal')
  PROVE  SourceInv'
<1>1. /\ buffer' = r.rest /\ carriageReturnFound' = r.return
      /\ inputLine' = IF r.done THEN <<>> ELSE r.line
      /\ handled' = IF r.done THEN Handed(handled, r.line) ELSE handled
  BY DEF Leave, Handed
<1>2. Lag(handled', inputLine', carriageReturnFound', buffer', ideal')
  BY <1>1
<1>3. Streamed'
  BY <1>1 DEF Streamed
<1> QED BY <1>2, <1>3 DEF SourceInv

\* NMEASource::service, from the buffer to the handlers.
LEMMA ServiceInv ==
  ASSUME SourceInv, SourceService, UNCHANGED wire
  PROVE  SourceInv'
<1> DEFINE r == BeforeRead
<1>1. /\ r.rest \in Seq(All)
      /\ Lag(IF r.done THEN Handed(handled, r.line) ELSE handled,
             IF r.done THEN <<>> ELSE r.line, r.return, r.rest, ideal)
      /\ ~r.done => r.rest = <<>> /\ Made(handled, r.line, r.return, ideal)
  BY BeforeLag
<1>2. available \in Seq(All) /\ wire \in Seq(All) /\ wire' = wire /\ IdealTyped(ideal)
  BY LagTyped DEF SourceInv, Streamed
<1> HIDE DEF r
<1>3. CASE ServiceBuffer
  <2>1. Leave(r) /\ available' = available /\ ideal' = ideal
    BY <1>3 DEF ServiceBuffer, BufferCompletes, BeforeRead, r
  <2> QED BY <1>1, <1>2, <2>1, LeaveInv
<1>4. CASE ServiceNothing
  <2>1. Leave(r) /\ available' = available /\ ideal' = ideal
    BY <1>4 DEF ServiceNothing, r
  <2> QED BY <1>1, <1>2, <2>1, LeaveInv
<1>5. CASE ServiceInput
  <2>0. ~r.done /\ available # <<>>
    BY <1>5 DEF ServiceInput, r
  <2>1. PICK n \in 1..Min({Len(available), maxNMEALineLength}) :
          LET chars == SubSeq(available, 1, n)
          IN /\ Leave(ProcessBuffer(chars, r.line, r.return))
             /\ available' = SubSeq(available, n + 1, Len(available))
             /\ ideal' = IdealAfter(ideal, chars)
    BY <1>5 DEF ServiceInput, r
  <2>2. /\ Len(available) \in Nat /\ available \in [1..Len(available) -> All]
        /\ n \in 1..Len(available)
    <3>1. Len(available) \in Nat /\ available \in [1..Len(available) -> All]
      BY <1>2, LenProperties
    <3> DEFINE a == Len(available)
               m == maxNMEALineLength
               l == IF a <= m THEN a ELSE m
    <3>2. a \in Nat /\ m \in Nat
      BY <3>1, LineLengthAssumption
    <3> HIDE DEF a, m
    <3>3. Min({a, m}) = l
      <4>1. l \in {a, m} /\ \A y \in {a, m} : l <= y
        BY <3>2
      <4>2. \A x \in {a, m} : (\A y \in {a, m} : x <= y) => x = l
        BY <3>2
      <4> QED BY <4>1, <4>2 DEF Min
    <3>4. n \in 1..l /\ l \in Nat /\ l <= a
      BY <2>1, <3>2, <3>3 DEF a, m
    <3> QED BY <3>1, <3>2, <3>4 DEF a
  <2> DEFINE chars == SubSeq(available, 1, n)
             s == ProcessBuffer(chars, r.line, r.return)
  <2>3. chars \in Seq(All) /\ chars # <<>>
    <3>1. \A k \in 1..n : available[k] \in All
      BY <2>2
    <3>2. chars \in Seq(All) /\ Len(chars) = IF 1 <= n THEN n - 1 + 1 ELSE 0
      BY <2>2, <3>1, SubSeqProperties
    <3>3. Len(chars) # 0
      BY <2>2, <3>2
    <3> HIDE DEF chars
    <3> QED BY <3>2, <3>3
  <2>4. available' \in Seq(All)
    <3>1. \A k \in (n + 1)..Len(available) : available[k] \in All
      BY <2>2
    <3> QED BY <2>1, <2>2, <3>1, SubSeqProperties
  <2>5. Leave(s) /\ ideal' = IdealAfter(ideal, chars)
    BY <2>1
  <2> HIDE DEF chars
  <2>6. Result(s, handled, ideal, chars)
    BY <1>1, <2>0, <2>3, ProcessMakes
  <2> HIDE DEF s
  <2>7. Follows(ideal', IdealAfter(ideal, chars))
    BY <1>2, <2>3, <2>5, AfterTyped
  <2>8. /\ s.rest \in Seq(All)
        /\ Lag(IF s.done THEN Handed(handled, s.line) ELSE handled,
               IF s.done THEN <<>> ELSE s.line, s.return, s.rest, ideal')
    BY <1>2, <2>3, <2>6, <2>7, ResultLag
  <2> QED BY <1>2, <2>4, <2>5, <2>8, LeaveInv
<1> QED BY <1>3, <1>4, <1>5 DEF SourceService

\* The lag when only the rest changes.
LEMMA SourceStays ==
  ASSUME SourceInv, available' \in Seq(All), wire' \in Seq(All),
         UNCHANGED <<buffer, carriageReturnFound, inputLine, handled, ideal>>
  PROVE  SourceInv'
BY DEF SourceInv, Streamed

\* A connection is accepted, whatever of the last one is still in the buffer.
LEMMA AcceptedInv ==
  ASSUME SourceInv, Accepted, available' \in Seq(All),
         UNCHANGED <<buffer, carriageReturnFound, inputLine, handled>>
  PROVE  SourceInv'
<1>1. wire' \in Seq(All)
  BY StreamsAssumption DEF Accepted, All
<1>2. Lag(handled, inputLine, carriageReturnFound, buffer, ideal')
  BY LagAccepted DEF Accepted, SourceInv
<1>3. Lag(handled, inputLine, carriageReturnFound, buffer, ideal)'
  BY <1>2
<1> QED BY <1>1, <1>3 DEF SourceInv, Streamed

\* It holds at the start.
LEMMA InitInv ==
  ASSUME Init
  PROVE  SourceInv
<1>1. /\ available = <<>> /\ buffer = <<>> /\ wire = <<>> /\ handled = <<>> /\ inputLine = <<>>
      /\ carriageReturnFound = FALSE /\ ideal = NoLine
  BY DEF Init, SourceInit
<1>2. <<>> \in Seq(All) /\ <<>> \in Seq(Sentences)
  OBVIOUS
<1>3. /\ IdealTyped(NoLine) /\ NoLine.line = <<>> /\ NoLine.ended = FALSE
      /\ NoLine.sentences = <<>> /\ NoLine.faults = 0
  BY <1>2, ShortLines DEF IdealTyped, NoLine
<1>4. Made(<<>>, <<>>, FALSE, NoLine)
  <2>1. InStep(<<>>, <<>>, FALSE, NoLine)
    BY <1>3, AllButNothing DEF InStep, Agree
  <2> QED BY <1>2, <1>3, <2>1, ShortLines DEF Made
<1>5. Follows(NoLine, IdealAfter(NoLine, <<>>))
  BY <1>2, <1>3, AfterTyped
<1> QED BY <1>1, <1>2, <1>4, <1>5 DEF SourceInv, Streamed, Lag

\* Every step keeps it.
LEMMA NextInv ==
  ASSUME SourceInv, [Next]_vars
  PROVE  SourceInv'
<1>0. /\ available \in Seq(All) /\ buffer \in Seq(All) /\ wire \in Seq(All) /\ <<>> \in Seq(All)
  BY DEF SourceInv, Streamed
<1>1. CASE LateAccept
  BY <1>0, <1>1, AcceptedInv DEF LateAccept
<1>2. CASE GivesUp
  BY <1>0, <1>2, SourceStays DEF GivesUp, sourceVars
<1>3. CASE Arrive
  <2>1. PICK n \in 1..Len(wire) :
          /\ available' = available \o SubSeq(wire, 1, n)
          /\ wire' = SubSeq(wire, n + 1, Len(wire))
    BY <1>3 DEF Arrive
  <2>2. Len(wire) \in Nat /\ wire \in [1..Len(wire) -> All]
    BY <1>0, LenProperties
  <2>3. SubSeq(wire, 1, n) \in Seq(All)
    <3>1. \A k \in 1..n : wire[k] \in All
      BY <2>2
    <3> QED BY <2>2, <3>1, SubSeqProperties
  <2>4. wire' \in Seq(All)
    <3>1. \A k \in (n + 1)..Len(wire) : wire[k] \in All
      BY <2>2
    <3> QED BY <2>1, <2>2, <3>1, SubSeqProperties
  <2>5. available' \in Seq(All)
    BY <1>0, <2>1, <2>3, ConcatProperties
  <2> QED BY <1>3, <2>4, <2>5, SourceStays DEF Arrive
<1>4. CASE HangUp
  BY <1>0, <1>4, SourceStays DEF HangUp
<1>5. CASE WiFiChanges
  BY <1>0, <1>5, SourceStays DEF WiFiChanges, sourceVars, tcpVars
<1>6. CASE ManagerService
  <2>1. ASSUME ConnectionEstablished,
               UNCHANGED <<buffer, carriageReturnFound, inputLine, handled>>
        PROVE  SourceInv'
    <3>1. CASE Accepted /\ available' = <<>>
      BY <1>0, <2>1, <3>1, AcceptedInv
    <3>2. CASE NotAccepted /\ available' = available
      BY <1>0, <2>1, <3>2, SourceStays DEF NotAccepted
    <3> QED BY <2>1, <3>1, <3>2 DEF ConnectionEstablished, ConnectOnce
  <2>2. ASSUME InitiateConnection, UNCHANGED <<buffer, carriageReturnFound, inputLine, handled>>
        PROVE  SourceInv'
    <3>1. CASE ConnectionEstablished
      BY <2>1, <2>2, <3>1
    <3>2. CASE UNCHANGED <<wifi, available, ideal, clientVars, tcpVars>>
      BY <1>0, <2>2, <3>2, SourceStays DEF tcpVars
    <3> QED BY <2>2, <3>1, <3>2 DEF InitiateConnection
  <2>3. CASE LosesWiFi
    BY <1>0, <2>3, SourceStays DEF LosesWiFi, sourceVars, tcpVars
  <2> QED BY <1>6, <2>1, <2>2, <2>3 DEF ManagerService, CheckForConnectionCompleted
<1>7. CASE WaitTimerExpires
  BY <1>0, <1>7, SourceStays DEF WaitTimerExpires, sourceVars, tcpVars
<1>8. CASE Service
  <2>1. CASE ServiceConnected
    BY <2>1, ServiceInv DEF ServiceConnected, tcpVars
  <2>2. CASE ServiceHungUp /\ Accepted
    <3> DEFINE r == BeforeRead
    <3>1. CASE Accepted /\ Leave(r) /\ available' = available
      <4>1. /\ r.rest \in Seq(All)
            /\ Lag(IF r.done THEN Handed(handled, r.line) ELSE handled,
                   IF r.done THEN <<>> ELSE r.line, r.return, r.rest, ideal)
        BY BeforeLag
      <4> HIDE DEF r
      <4>2. Lag(IF r.done THEN Handed(handled, r.line) ELSE handled,
                IF r.done THEN <<>> ELSE r.line, r.return, r.rest, ideal')
        BY <3>1, <4>1, LagAccepted DEF Accepted
      <4>3. wire' \in Seq(All)
        BY <3>1, StreamsAssumption DEF Accepted, All
      <4> QED BY <1>0, <3>1, <4>1, <4>2, <4>3, LeaveInv
    <3>2. CASE UNCHANGED <<available, buffer, carriageReturnFound, inputLine, handled>>
      BY <1>0, <2>2, <3>2, AcceptedInv
    <3> QED BY <2>2, <3>1, <3>2 DEF ServiceHungUp
  <2>3. CASE ServiceHungUp /\ ~Accepted
    BY <1>0, <2>3, SourceStays DEF ServiceHungUp, NotAccepted
  <2> QED BY <1>8, <2>1, <2>2, <2>3 DEF Service
<1>9. CASE UNCHANGED vars
  BY <1>0, <1>9, SourceStays DEF vars, sourceVars, tcpVars
<1> QED BY <1>1, <1>2, <1>3, <1>4, <1>5, <1>6, <1>7, <1>8, <1>9 DEF Next

\* At every time the source has done what the characters so far ask, but for those
\* in its buffer.
THEOREM SourceInvAlways == Spec => []SourceInv
<1> QED BY InitInv, NextInv, PTL DEF Spec

-----------------------------------------------------------------------------
(* The properties *)

\* More characters make no message genuine that was not, and add sentences only.
LEMMA LaterSentences ==
  ASSUME NEW j, IdealTyped(j), NEW chars \in Seq(All), NEW h \in Seq(Sentences),
         AllBut(j.faults, h, j.sentences)
  PROVE  LET l == IdealAfter(j, chars) IN AllBut(l.faults, h, l.sentences)
<1> DEFINE n == Len(chars)
           A(k) == At(j, chars, k)
           S == {k \in 0..n : AllBut(A(k).faults, h, A(k).sentences)}
<1>0. n \in Nat /\ n <= n
  BY LenProperties
<1>1. 0 \in S
  BY <1>0, AtSteps
<1>2. ASSUME NEW k \in Nat, k < n, k \in S
      PROVE  k + 1 \in S
  <2> DEFINE a == A(k)
             c == chars[k + 1]
             b == IdealStep(a, c)
  <2>1. IdealTyped(a) /\ c \in All /\ A(k + 1) = b /\ AllBut(a.faults, h, a.sentences) /\ k + 1 \in 0..n
    BY <1>0, <1>2, AtSteps
  <2> HIDE DEF a, c, b, n
  <2>2. a.sentences \in Seq(Sentences) /\ a.faults \in Nat
    BY <2>1 DEF IdealTyped
  <2>3. /\ IdealTyped(b)
        /\ b.sentences \in {a.sentences, Handed(a.sentences, a.line)}
        /\ b.faults \in {a.faults, a.faults + 1}
    <3>0. a.ended \in BOOLEAN /\ CR # LF
      BY <2>1, CharactersAssumption DEF IdealTyped
    <3>1. CASE a.ended /\ c = LF
      <4>1. IdealTyped(b) /\ b.faults = a.faults
        BY <2>1, <3>1, IdealSteps DEF b
      <4>2. b.sentences = Handed(a.sentences, a.line)
        BY <2>1, <3>1, IdealSteps DEF b, Handed
      <4> HIDE DEF b
      <4> QED BY <4>1, <4>2
    <3>2. CASE a.ended /\ c = CR
      BY <2>1, <3>0, <3>2, IdealSteps DEF b
    <3>3. CASE a.ended /\ c \notin {CR, LF}
      BY <2>1, <3>3, IdealSteps DEF b
    <3>4. CASE ~a.ended /\ c = CR
      BY <2>1, <3>4, IdealSteps DEF b
    <3>5. CASE ~a.ended /\ c # CR
      BY <2>1, <3>5, IdealSteps DEF b
    <3>6. \/ a.ended /\ c = LF
          \/ a.ended /\ c = CR
          \/ a.ended /\ c \notin {CR, LF}
          \/ ~a.ended /\ c = CR
          \/ ~a.ended /\ c # CR
      BY <3>0
    <3> HIDE DEF b
    <3> QED BY ONLY <3>1, <3>2, <3>3, <3>4, <3>5, <3>6, Zenon
  <2>4. b.sentences \in Seq(Sentences) /\ b.faults \in Nat /\ a.faults <= b.faults
    BY <2>2, <2>3 DEF IdealTyped
  <2>5. AllBut(a.faults, h, b.sentences)
    BY <2>1, <2>2, <2>3, AllButAppend DEF Handed
  <2>6. AllBut(b.faults, h, b.sentences)
    BY <2>2, <2>4, <2>5, AllButMore
  <2> QED BY <2>1, <2>6
<1>3. n \in S
  <2> HIDE DEF S, n
  <2> QED BY <1>0, <1>1, <1>2, Induction, Zenon
<1>4. A(n) = IdealAfter(j, chars)
  BY AtSteps
<1> QED BY <1>3, <1>4

\* What is made agrees with the sentences but for the faults.
LEMMA MadeAgrees ==
  ASSUME NEW h, NEW line, NEW return, NEW i, Made(h, line, return, i)
  PROVE  Agree(h, i.sentences, i.faults) /\ (i.faults = 0 => h = i.sentences)
<1>1. i.faults \in Nat /\ h \in Seq(Sentences) /\ i.sentences \in Seq(Sentences)
  BY DEF Made, IdealTyped
<1>2. CASE InStep(h, line, return, i)
  BY <1>2 DEF InStep
<1>3. CASE OutOfStep(h, line, return, i)
  <2>1. i.faults - 1 \in Nat /\ i.faults - 1 <= i.faults /\ i.faults # 0 /\ Agree(h, i.sentences, i.faults - 1)
    BY <1>1, <1>3 DEF OutOfStep
  <2> QED BY <1>1, <2>1, AgreeMore
<1> QED BY <1>2, <1>3 DEF Made

\* However a stream is cut into pieces, whatever connections end within a line, and
\* whatever lines are messages: handlers get whole lines of the stream, once each and
\* in order, but for one at each fault.
THEOREM AlwaysNothingInvented == Spec => []NothingInvented
<1>1. SourceInv => NothingInvented
  <2> SUFFICES ASSUME SourceInv PROVE NothingInvented
    OBVIOUS
  <2>1. PICK j : /\ Made(handled, inputLine, carriageReturnFound, j)
                 /\ Follows(ideal, IdealAfter(j, buffer))
    BY DEF SourceInv, Lag
  <2> DEFINE l == IdealAfter(j, buffer)
  <2>2. IdealTyped(j) /\ handled \in Seq(Sentences) /\ buffer \in Seq(All)
    BY <2>1 DEF Made, SourceInv, Streamed
  <2>3. AllBut(l.faults, handled, l.sentences)
    BY <2>1, <2>2, MadeAgrees, LaterSentences DEF Agree
  <2>4. IdealTyped(l)
    BY <2>2, AfterTyped
  <2> HIDE DEF l
  <2>5. /\ l.sentences \in Seq(Sentences) /\ l.faults \in Nat /\ ideal.faults \in Nat
        /\ ideal.sentences = l.sentences /\ l.faults <= ideal.faults
    BY <2>1, <2>4 DEF Follows, IdealTyped, l
  <2> QED BY <2>2, <2>3, <2>5, AllButMore DEF NothingInvented
<1> QED BY <1>1, SourceInvAlways, PTL

\* When the buffer is used up, everything is made of all characters.
LEMMA UsedUp ==
  ASSUME SourceInv, buffer = <<>>
  PROVE  Made(handled, inputLine, carriageReturnFound, ideal)
<1>1. PICK j : /\ Made(handled, inputLine, carriageReturnFound, j)
               /\ Follows(ideal, IdealAfter(j, buffer))
  BY DEF SourceInv, Lag
<1>2. IdealTyped(j) /\ <<>> \in Seq(All)
  BY <1>1 DEF Made
<1>3. IdealAfter(j, buffer) = j
  BY <1>2, AfterTyped
<1> QED BY <1>1, <1>3, MadeFollows

\* When the buffer is used up, a message is missing for each fault at most.
THEOREM AlwaysLosesOnlyAfterFaults == Spec => []LosesOnlyAfterFaults
<1>1. SourceInv => LosesOnlyAfterFaults
  BY UsedUp, MadeAgrees DEF Agree, LosesOnlyAfterFaults
<1> QED BY <1>1, SourceInvAlways, PTL

\* As long as every carriage return is followed by its line feed, every line feed comes
\* after its carriage return and no connection ends within a line, the handlers have got
\* exactly the messages there were whenever the buffer is used up.
ExactWithoutFaults == buffer = <<>> /\ ideal.faults = 0 => handled = ideal.sentences

\* At all times, whatever pieces the stream is cut into.
THEOREM AlwaysExactWithoutFaults == Spec => []ExactWithoutFaults
<1>1. SourceInv => ExactWithoutFaults
  BY UsedUp, MadeAgrees DEF ExactWithoutFaults
<1> QED BY <1>1, SourceInvAlways, PTL

=============================================================================
