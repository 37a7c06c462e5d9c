------------------------ MODULE MQTTConnection_proofs ------------------------
(***************************************************************************)
(* Framing is right for every base, every size of the buffer, every set of *)
(* messages and every way TCP may cut the stream.                          *)
(***************************************************************************)
EXTENDS MQTTConnection, SequenceTheorems, TLAPS

-----------------------------------------------------------------------------
(* Arithmetic of the remaining length *)

LEMMA DivMod ==
  ASSUME NEW a \in Nat, NEW b \in Nat, b > 0
  PROVE  /\ a \div b \in Nat /\ a % b \in Nat
         /\ a % b < b
         /\ a = b * (a \div b) + (a % b)
  OBVIOUS

LEMMA TimesMonotone ==
  ASSUME NEW b \in Nat, NEW p \in Nat, NEW q \in Nat, p <= q
  PROVE  b * p <= b * q
  OBVIOUS

LEMMA DivBelow ==
  ASSUME NEW a \in Nat, NEW b \in Nat, b > 0, NEW q \in Nat, a < b * q
  PROVE  a \div b < q
<1> DEFINE d == a \div b
<1>1. d \in Nat /\ b * d <= a
  BY DivMod
<1> HIDE DEF d
<1>2. q <= d => b * q <= b * d
  BY <1>1, TimesMonotone
<1>3. b * d \in Nat /\ b * q \in Nat
  BY <1>1
<1> QED BY <1>1, <1>2, <1>3 DEF d

LEMMA RadixFacts ==
  /\ Radix \in Nat /\ Radix > 1
  /\ Radix * Radix \in Nat /\ Radix * Radix >= 2 * Radix
  /\ Radix * Radix * Radix = (Radix * Radix) * Radix
<1>1. Radix \in Nat /\ Radix > 1
  BY RadixAssumption
<1>2. Radix * Radix \in Nat /\ Radix * Radix >= 2 * Radix
  <2>1. Radix * 2 <= Radix * Radix
    BY <1>1, TimesMonotone
  <2> QED BY <1>1, <2>1
<1> QED BY <1>1, <1>2

\* How many digits the remaining length of a message has.
Digits(m) == IF m.length < Radix THEN 1 ELSE IF m.length < Radix * Radix THEN 2 ELSE 3

LEMMA MessageTypes ==
  ASSUME NEW m \in Messages
  PROVE  m.type \in Nat /\ m.length \in Nat /\ m.payload \in Nat
         /\ m.length < (Radix * Radix) * Radix
  BY BytesAssumption, LengthAssumption, RadixFacts DEF Messages

LEMMA RemainingLengthShape ==
  ASSUME NEW m \in Messages
  PROVE  /\ RemainingLength(m.length) \in Seq(Nat)
         /\ Len(RemainingLength(m.length)) = Digits(m)
         /\ Digits(m) \in 1..3
         /\ Digits(m) = 1 => RemainingLength(m.length)[1] = m.length /\ m.length < Radix
         /\ Digits(m) = 2 =>
              /\ RemainingLength(m.length)[1] = Radix + (m.length % Radix)
              /\ RemainingLength(m.length)[2] = m.length \div Radix
              /\ m.length \div Radix < Radix
              /\ m.length >= Radix
         /\ Digits(m) = 3 =>
              /\ RemainingLength(m.length)[1] >= Radix
              /\ RemainingLength(m.length)[2] >= Radix
              /\ RemainingLength(m.length)[3] < Radix
              /\ m.length >= Radix * Radix
<1> DEFINE n == m.length
           squared == Radix * Radix
<1>1. n \in Nat /\ n < squared * Radix /\ Radix \in Nat /\ Radix > 1
      /\ squared \in Nat /\ squared >= 2 * Radix
  BY MessageTypes, RadixFacts
<1>2. n % Radix \in Nat /\ n \div Radix \in Nat
  BY <1>1, DivMod
<1>3. n < squared => n \div Radix < Radix
  BY <1>1, DivBelow
<1>4. n \div squared \in Nat /\ n \div squared < Radix
  <2> HIDE DEF n, squared
  <2>1. squared > 0
    BY <1>1
  <2>2. n \div squared \in Nat
    BY <1>1, <2>1, DivMod
  <2>3. n \div squared < Radix
    BY <1>1, <2>1, DivBelow
  <2> QED BY <2>2, <2>3
<1>5. (n \div Radix) % Radix \in Nat
  BY <1>1, <1>2, DivMod
<1> HIDE DEF n, squared
<1>6. CASE n < Radix
  <2>1. RemainingLength(n) = <<n>> /\ Digits(m) = 1
    BY <1>1, <1>6 DEF RemainingLength, Digits, n, squared
  <2> QED BY <1>1, <1>6, <2>1 DEF n
<1>7. CASE n >= Radix /\ n < squared
  <2>1. RemainingLength(n) = <<Radix + (n % Radix), n \div Radix>> /\ Digits(m) = 2
    BY <1>1, <1>7 DEF RemainingLength, Digits, n, squared
  <2> QED BY <1>1, <1>2, <1>3, <1>7, <2>1 DEF n
<1>8. CASE n >= squared
  <2>1. /\ RemainingLength(n) =
             <<Radix + (n % Radix), Radix + ((n \div Radix) % Radix), n \div squared>>
        /\ Digits(m) = 3
    BY <1>1, <1>8 DEF RemainingLength, Digits, n, squared
  <2> QED BY <1>1, <1>2, <1>4, <1>5, <1>8, <2>1 DEF n, squared
<1> QED BY <1>1, <1>6, <1>7, <1>8

\* What a message looks like as bytes.
LEMMA BytesShape ==
  ASSUME NEW m \in Messages
  PROVE  /\ Bytes(m) \in Seq(Nat)
         /\ Len(Bytes(m)) = 1 + Digits(m) + m.length
         /\ \A i \in 1..Digits(m) : Bytes(m)[1 + i] = RemainingLength(m.length)[i]
<1> DEFINE header == <<m.type>> \o RemainingLength(m.length)
           payload == [i \in 1..m.length |-> m.payload]
<1>1. /\ RemainingLength(m.length) \in Seq(Nat)
      /\ Len(RemainingLength(m.length)) = Digits(m)
      /\ Digits(m) \in 1..3
  BY RemainingLengthShape
<1>2. m.type \in Nat /\ m.length \in Nat /\ m.payload \in Nat
  BY MessageTypes
<1>3. <<m.type>> \in Seq(Nat) /\ Len(<<m.type>>) = 1
  BY <1>2
<1>4. /\ header \in Seq(Nat)
      /\ Len(header) = 1 + Digits(m)
      /\ \A i \in 1..Digits(m) : header[1 + i] = RemainingLength(m.length)[i]
  BY <1>1, <1>3, ConcatProperties
<1>5. payload \in Seq(Nat) /\ Len(payload) = m.length
  BY <1>2
<1> HIDE DEF header, payload
<1>6. /\ header \o payload \in Seq(Nat)
      /\ Len(header \o payload) = 1 + Digits(m) + m.length
      /\ \A i \in 1..(1 + Digits(m)) : (header \o payload)[i] = header[i]
  BY <1>1, <1>2, <1>4, <1>5, ConcatProperties
<1>7. Bytes(m) = header \o payload
  BY DEF Bytes, header, payload
<1> QED BY <1>1, <1>4, <1>6, <1>7

-----------------------------------------------------------------------------
(* A stream that carries messages.  `ends' says where each of them ends:   *)
(* the bytes of message number i are those after ends[i - 1], up to        *)
(* ends[i].                                                                *)

EndsOf(ends, stream, messages, first) ==
  /\ ends \in [first..Len(messages) -> Nat]
  /\ ends[first] = 0
  /\ ends[Len(messages)] = Len(stream)
  /\ \A i, j \in first..Len(messages) : i <= j => ends[i] <= ends[j]
  /\ \A i \in (first + 1)..Len(messages) :
       /\ ends[i] = ends[i - 1] + Len(Bytes(messages[i]))
       /\ \A j \in 1..Len(Bytes(messages[i])) : stream[ends[i - 1] + j] = Bytes(messages[i])[j]

\* The stream is the bytes of the messages after number `first', one message
\* after the other.
Carries(stream, messages, first) ==
  \E ends \in [first..Len(messages) -> Nat] : EndsOf(ends, stream, messages, first)

\* The same, with what follows for each message.
EndsInside(ends, stream, messages, first) ==
  /\ \A i \in first..Len(messages) : ends[i] \in Nat /\ ends[i] <= Len(stream)
  /\ \A i \in (first + 1)..Len(messages) :
       /\ i - 1 \in first..Len(messages)
       /\ messages[i] \in Messages
       /\ Len(Bytes(messages[i])) \in Nat
       /\ Bytes(messages[i]) \in Seq(Nat)
       /\ ends[i] = ends[i - 1] + Len(Bytes(messages[i]))
       /\ ends[i] >= ends[first + 1]
       /\ \A j \in 1..Len(Bytes(messages[i])) :
            stream[ends[i - 1] + j] = Bytes(messages[i])[j]

LEMMA EndsFacts ==
  ASSUME NEW messages \in Seq(Messages), NEW stream \in Seq(Nat),
         NEW first \in Nat, first <= Len(messages), NEW ends,
         EndsOf(ends, stream, messages, first)
  PROVE  EndsInside(ends, stream, messages, first)
<1> DEFINE last == Len(messages)
<1>1. last \in Nat /\ \A i \in 1..last : messages[i] \in Messages
  BY LenProperties
<1> HIDE DEF last
<1>2. /\ ends \in [first..last -> Nat] /\ ends[last] = Len(stream)
      /\ \A i, j \in first..last : i <= j => ends[i] <= ends[j]
  BY DEF EndsOf, last
<1>3. last \in first..last
  BY <1>1 DEF last
<1>4. ASSUME NEW i \in first..last
      PROVE  ends[i] \in Nat /\ ends[i] <= Len(stream)
  <2>1. i <= last
    BY <1>1
  <2> QED BY <1>2, <1>3, <2>1
<1>5. ASSUME NEW i \in (first + 1)..last
      PROVE  /\ i - 1 \in first..last
             /\ messages[i] \in Messages
             /\ Len(Bytes(messages[i])) \in Nat
             /\ Bytes(messages[i]) \in Seq(Nat)
             /\ ends[i] = ends[i - 1] + Len(Bytes(messages[i]))
             /\ ends[i] >= ends[first + 1]
             /\ \A j \in 1..Len(Bytes(messages[i])) :
                  stream[ends[i - 1] + j] = Bytes(messages[i])[j]
  <2>1. i \in 1..last /\ i - 1 \in first..last /\ i \in first..last
        /\ first + 1 \in first..last /\ first + 1 <= i
    BY <1>1
  <2>2. messages[i] \in Messages
    BY <1>1, <2>1
  <2>3. Bytes(messages[i]) \in Seq(Nat) /\ Len(Bytes(messages[i])) \in Nat
    BY <2>2, BytesShape, LenProperties
  <2>4. ends[first + 1] <= ends[i] /\ ends[first + 1] \in Nat /\ ends[i] \in Nat
    BY <1>2, <2>1
  <2>5. /\ ends[i] = ends[i - 1] + Len(Bytes(messages[i]))
        /\ \A j \in 1..Len(Bytes(messages[i])) : stream[ends[i - 1] + j] = Bytes(messages[i])[j]
    BY DEF EndsOf, last
  <2> QED BY <2>1, <2>2, <2>3, <2>4, <2>5
<1> QED BY <1>4, <1>5 DEF EndsInside, last

LEMMA NothingCarried == Carries(<<>>, <<>>, 0)
<1> DEFINE ends == [i \in 0..0 |-> 0]
<1>1. EndsOf(ends, <<>>, <<>>, 0)
  BY DEF EndsOf
<1> QED BY <1>1 DEF Carries, EndsOf

\* The client sends one message more.
LEMMA OneMoreCarried ==
  ASSUME NEW messages \in Seq(Messages), NEW stream \in Seq(Nat), NEW m \in Messages,
         NEW first \in Nat, first <= Len(messages), Carries(stream, messages, first)
  PROVE  Carries(stream \o Bytes(m), Append(messages, m), first)
<1> DEFINE last == Len(messages)
           more == Append(messages, m)
           longer == stream \o Bytes(m)
<1>1. PICK ends \in [first..last -> Nat] : EndsOf(ends, stream, messages, first)
  BY DEF Carries
<1> DEFINE all == [i \in first..(last + 1) |-> IF i <= last THEN ends[i] ELSE Len(longer)]
<1>2. /\ Len(more) = last + 1 /\ last \in Nat
      /\ more[last + 1] = m
      /\ \A i \in 1..last : more[i] = messages[i]
  BY AppendProperties, LenProperties
<1>3. /\ longer \in Seq(Nat) /\ Len(longer) = Len(stream) + Len(Bytes(m))
      /\ Len(stream) \in Nat /\ Len(Bytes(m)) \in Nat
      /\ \A i \in 1..Len(longer) :
           longer[i] = IF i <= Len(stream) THEN stream[i] ELSE Bytes(m)[i - Len(stream)]
  BY BytesShape, ConcatProperties, LenProperties
<1>4. /\ ends[first] = 0 /\ ends[last] = Len(stream)
      /\ \A i, j \in first..last : i <= j => ends[i] <= ends[j]
  BY <1>1 DEF EndsOf
<1>5. /\ \A i \in first..last : ends[i] \in Nat /\ ends[i] <= Len(stream)
      /\ \A i \in (first + 1)..last :
           /\ i - 1 \in first..last
           /\ Len(Bytes(messages[i])) \in Nat
           /\ ends[i] = ends[i - 1] + Len(Bytes(messages[i]))
           /\ \A j \in 1..Len(Bytes(messages[i])) :
                stream[ends[i - 1] + j] = Bytes(messages[i])[j]
  <2>1. EndsInside(ends, stream, messages, first)
    BY <1>1, EndsFacts
  <2> QED BY <2>1 DEF EndsInside
<1>6. first <= last
  OBVIOUS
<1> HIDE DEF longer, more, last
<1>7. all \in [first..(last + 1) -> Nat]
  BY <1>2, <1>3
<1>8. /\ \A i \in first..last : all[i] = ends[i]
      /\ all[last + 1] = Len(longer)
      /\ all[first] = 0 /\ all[last] = Len(stream)
  BY <1>2, <1>4, <1>6
<1> HIDE DEF all
<1>9. ASSUME NEW i \in first..(last + 1), NEW j \in first..(last + 1), i <= j
      PROVE  all[i] <= all[j]
  <2>1. CASE j <= last
    <3>1. i \in first..last /\ j \in first..last
      BY <1>2, <1>9, <2>1
    <3> QED BY <1>4, <1>8, <1>9, <3>1
  <2>2. CASE i <= last /\ j = last + 1
    <3>1. i \in first..last
      BY <1>2, <2>2
    <3>2. all[i] = ends[i] /\ ends[i] \in Nat /\ ends[i] <= Len(stream)
      BY <1>5, <1>8, <3>1
    <3> QED BY <1>3, <1>8, <2>2, <3>2
  <2>3. CASE i = last + 1 /\ j = last + 1
    BY <1>3, <1>8, <2>3
  <2> QED BY <1>2, <1>9, <2>1, <2>2, <2>3
<1>10. ASSUME NEW i \in (first + 1)..(last + 1)
       PROVE  /\ all[i] = all[i - 1] + Len(Bytes(more[i]))
              /\ \A j \in 1..Len(Bytes(more[i])) : longer[all[i - 1] + j] = Bytes(more[i])[j]
  <2>1. CASE i = last + 1
    <3>1. all[i] = Len(longer) /\ all[i - 1] = Len(stream) /\ more[i] = m
      BY <1>2, <1>8, <2>1
    <3>2. ASSUME NEW j \in 1..Len(Bytes(m))
          PROVE  longer[Len(stream) + j] = Bytes(m)[j]
      <4>1. /\ Len(stream) + j \in 1..Len(longer) /\ ~(Len(stream) + j <= Len(stream))
            /\ (Len(stream) + j) - Len(stream) = j
        BY <1>3
      <4> QED BY <1>3, <4>1
    <3> QED BY <1>3, <3>1, <3>2
  <2>2. CASE i <= last
    <3>1. i \in (first + 1)..last /\ i \in first..last /\ i \in 1..last
      BY <1>2, <2>2
    <3>2. /\ i - 1 \in first..last
          /\ Len(Bytes(messages[i])) \in Nat
          /\ ends[i] = ends[i - 1] + Len(Bytes(messages[i]))
          /\ \A j \in 1..Len(Bytes(messages[i])) :
               stream[ends[i - 1] + j] = Bytes(messages[i])[j]
      BY <1>5, <3>1
    <3>3. /\ all[i] = ends[i] /\ all[i - 1] = ends[i - 1] /\ more[i] = messages[i]
          /\ ends[i] \in Nat /\ ends[i - 1] \in Nat /\ ends[i] <= Len(stream)
      BY <1>2, <1>5, <1>8, <3>1, <3>2
    <3>4. ASSUME NEW j \in 1..Len(Bytes(messages[i]))
          PROVE  longer[ends[i - 1] + j] = stream[ends[i - 1] + j]
      <4> DEFINE before == ends[i - 1]
                 size == Len(Bytes(messages[i]))
      <4>1. before \in Nat /\ size \in Nat /\ before + size <= Len(stream) /\ j \in 1..size
        BY <3>2, <3>3
      <4> HIDE DEF before, size
      <4>2. before + j \in 1..Len(longer) /\ before + j <= Len(stream)
        BY <1>3, <4>1
      <4> QED BY <1>3, <4>2 DEF before
    <3> QED BY <3>2, <3>3, <3>4
  <2> QED BY <1>2, <2>1, <2>2
<1>11. EndsOf(all, longer, more, first)
  BY <1>2, <1>7, <1>8, <1>9, <1>10 DEF EndsOf
<1>12. Carries(longer, more, first)
  BY <1>2, <1>7, <1>11 DEF Carries
<1> QED BY <1>12 DEF longer, more

\* The stream begins with the first of its messages, and without it carries
\* the others.
LEMMA FirstCarried ==
  ASSUME NEW messages \in Seq(Messages), NEW stream \in Seq(Nat),
         NEW first \in Nat, first < Len(messages), Carries(stream, messages, first)
  PROVE  LET bytes == Bytes(messages[first + 1])
         IN /\ Len(bytes) <= Len(stream)
            /\ \A j \in 1..Len(bytes) : stream[j] = bytes[j]
            /\ Carries(SubSeq(stream, Len(bytes) + 1, Len(stream)), messages, first + 1)
<1> DEFINE last == Len(messages)
           bytes == Bytes(messages[first + 1])
           size == Len(bytes)
           rest == SubSeq(stream, size + 1, Len(stream))
<1>1. PICK ends \in [first..last -> Nat] : EndsOf(ends, stream, messages, first)
  BY DEF Carries
<1> DEFINE others == [i \in (first + 1)..last |-> ends[i] - size]
<1>2. last \in Nat /\ Len(stream) \in Nat
  BY LenProperties
<1>3. /\ ends[first] = 0 /\ ends[last] = Len(stream)
      /\ \A i, j \in first..last : i <= j => ends[i] <= ends[j]
  BY <1>1 DEF EndsOf
<1>4. /\ \A i \in first..last : ends[i] \in Nat /\ ends[i] <= Len(stream)
      /\ \A i \in (first + 1)..last :
           /\ i - 1 \in first..last
           /\ Len(Bytes(messages[i])) \in Nat
           /\ Bytes(messages[i]) \in Seq(Nat)
           /\ ends[i] = ends[i - 1] + Len(Bytes(messages[i]))
           /\ ends[i] >= ends[first + 1]
           /\ \A j \in 1..Len(Bytes(messages[i])) :
                stream[ends[i - 1] + j] = Bytes(messages[i])[j]
  <2>1. first <= last
    BY <1>2
  <2>2. EndsInside(ends, stream, messages, first)
    BY <1>1, <2>1, EndsFacts
  <2> QED BY <2>2 DEF EndsInside
<1>5. first + 1 \in (first + 1)..last /\ (first + 1) - 1 = first /\ first + 1 \in first..last
      /\ first + 1 <= last
  BY <1>2
<1> HIDE DEF last
<1>6. /\ bytes \in Seq(Nat) /\ size \in Nat
      /\ ends[first + 1] = ends[first] + size
      /\ \A j \in 1..size : stream[ends[first] + j] = bytes[j]
  BY <1>4, <1>5
<1> HIDE DEF bytes, size
<1>7. ends[first + 1] = size
  BY <1>3, <1>6
<1>8. \A j \in 1..size : stream[j] = bytes[j]
  <2>1. \A j \in 1..size : 0 + j = j
    BY <1>6
  <2> QED BY <1>3, <1>6, <2>1
<1>9. size <= Len(stream)
  BY <1>4, <1>5, <1>7
<1>10. /\ rest \in Seq(Nat) /\ Len(rest) = Len(stream) - size
       /\ \A i \in 1..(Len(stream) - size) : rest[i] = stream[size + i]
  <2> DEFINE from == size + 1
  <2>1. from \in Int /\ Len(stream) \in Int /\ \A i \in from..Len(stream) : stream[i] \in Nat
    <3>1. \A i \in from..Len(stream) : i \in 1..Len(stream)
      BY <1>2, <1>6
    <3> QED BY <1>2, <1>6, <3>1, ElementOfSeq
  <2> HIDE DEF from
  <2>2. /\ SubSeq(stream, from, Len(stream)) \in Seq(Nat)
        /\ Len(SubSeq(stream, from, Len(stream))) =
             IF from <= Len(stream) THEN Len(stream) - from + 1 ELSE 0
        /\ \A i \in 1..(Len(stream) - from + 1) :
             SubSeq(stream, from, Len(stream))[i] = stream[from + i - 1]
    BY <2>1, SubSeqProperties
  <2>3. Len(stream) - from + 1 = Len(stream) - size
        /\ \A i \in 1..(Len(stream) - size) : from + i - 1 = size + i
    BY <1>2, <1>6 DEF from
  <2>4. rest = SubSeq(stream, from, Len(stream))
    BY DEF from
  <2> HIDE DEF rest
  <2>5. Len(rest) = Len(stream) - size
    <3>1. from = size + 1
      BY DEF from
    <3>2. Len(rest) = IF from <= Len(stream) THEN Len(stream) - from + 1 ELSE 0
      BY <2>2, <2>4
    <3>3. size \in Nat /\ Len(stream) \in Nat /\ size <= Len(stream)
      BY <1>2, <1>6, <1>9
    <3> HIDE DEF from
    <3> QED BY <3>1, <3>2, <3>3
  <2> QED BY <2>2, <2>3, <2>4, <2>5
<1> HIDE DEF rest
<1>11. \A i \in (first + 1)..last :
         /\ i \in first..last
         /\ ends[i] \in Nat /\ ends[i] >= size /\ ends[i] <= Len(stream)
  <2> SUFFICES ASSUME NEW i \in (first + 1)..last
               PROVE  /\ i \in first..last
                      /\ ends[i] \in Nat /\ ends[i] >= size /\ ends[i] <= Len(stream)
    OBVIOUS
  <2>1. i \in first..last
    BY <1>2
  <2>2. ends[i] \in Nat /\ ends[i] <= Len(stream) /\ ends[i] >= size
    BY <1>4, <1>7, <2>1
  <2> QED BY <2>1, <2>2
<1>12. /\ others \in [(first + 1)..last -> Nat]
       /\ \A i \in (first + 1)..last : others[i] = ends[i] - size
  BY <1>6, <1>11
<1> HIDE DEF others
<1>13. others[first + 1] = 0
  BY <1>5, <1>6, <1>7, <1>12
<1>14. others[last] = Len(rest)
  <2>1. last \in (first + 1)..last
    BY <1>2, <1>5
  <2> QED BY <1>3, <1>10, <1>12, <2>1
<1>15. ASSUME NEW i \in (first + 1)..last, NEW j \in (first + 1)..last, i <= j
       PROVE  others[i] <= others[j]
  <2>1. ends[i] <= ends[j]
    BY <1>3, <1>11, <1>15
  <2>2. others[i] = ends[i] - size /\ others[j] = ends[j] - size /\ ends[i] \in Nat /\ ends[j] \in Nat
    BY <1>11, <1>12
  <2> QED BY <1>6, <2>1, <2>2
<1>16. ASSUME NEW i \in (first + 2)..last
       PROVE  /\ others[i] = others[i - 1] + Len(Bytes(messages[i]))
              /\ \A j \in 1..Len(Bytes(messages[i])) :
                   rest[others[i - 1] + j] = Bytes(messages[i])[j]
  <2>1. i \in (first + 1)..last /\ i - 1 \in (first + 1)..last
    BY <1>2
  <2>2. others[i] = ends[i] - size /\ others[i - 1] = ends[i - 1] - size
        /\ ends[i] \in Nat /\ ends[i] <= Len(stream)
        /\ ends[i - 1] \in Nat /\ ends[i - 1] >= size
    BY <1>11, <1>12, <2>1
  <2>3. /\ Len(Bytes(messages[i])) \in Nat
        /\ ends[i] = ends[i - 1] + Len(Bytes(messages[i]))
        /\ \A j \in 1..Len(Bytes(messages[i])) :
             stream[ends[i - 1] + j] = Bytes(messages[i])[j]
    BY <1>4, <2>1
  <2>4. ASSUME NEW j \in 1..Len(Bytes(messages[i]))
        PROVE  rest[others[i - 1] + j] = stream[ends[i - 1] + j]
    <3> DEFINE before == ends[i - 1]
               own == Len(Bytes(messages[i]))
    <3>1. /\ before \in Nat /\ own \in Nat /\ before + own <= Len(stream) /\ before >= size
          /\ j \in 1..own /\ others[i - 1] = before - size
      BY <2>2, <2>3
    <3> HIDE DEF before, own
    <3>2. size \in Nat /\ Len(stream) \in Nat
      BY <1>2, <1>6
    <3>3. /\ (before - size) + j \in 1..(Len(stream) - size)
          /\ size + ((before - size) + j) = before + j
      BY <3>1, <3>2
    <3>4. rest[(before - size) + j] = stream[before + j]
      BY <1>10, <3>3
    <3> QED BY <3>1, <3>4 DEF before
  <2>5. others[i] = others[i - 1] + Len(Bytes(messages[i]))
    <3> DEFINE before == ends[i - 1]
               own == Len(Bytes(messages[i]))
    <3>1. /\ before \in Nat /\ own \in Nat /\ ends[i] = before + own
          /\ others[i - 1] = before - size /\ others[i] = ends[i] - size
      BY <2>2, <2>3
    <3> HIDE DEF before, own
    <3>2. others[i] = others[i - 1] + own
      BY <1>6, <3>1
    <3> QED BY <3>2 DEF own
  <2> QED BY <2>3, <2>4, <2>5
<1>17. EndsOf(others, rest, messages, first + 1)
  <2>1. (first + 1) + 1 = first + 2
    OBVIOUS
  <2> QED BY <1>12, <1>13, <1>14, <1>15, <1>16, <2>1 DEF EndsOf, last
<1>18. Carries(rest, messages, first + 1)
  BY <1>12, <1>17 DEF Carries, last
<1> QED BY <1>8, <1>9, <1>18 DEF rest, size, bytes

\* A stream without a message is empty.
LEMMA NoneCarried ==
  ASSUME NEW messages, NEW stream \in Seq(Nat), Carries(stream, messages, Len(messages))
  PROVE  stream = <<>>
<1>1. Len(stream) = 0
  BY DEF Carries, EndsOf
<1> QED BY <1>1, EmptySeq

-----------------------------------------------------------------------------
(* Cutting a sequence in two *)

LEMMA Cut ==
  ASSUME NEW s \in Seq(Nat), NEW n \in 0..Len(s)
  PROVE  /\ SubSeq(s, 1, n) \in Seq(Nat) /\ Len(SubSeq(s, 1, n)) = n
         /\ \A i \in 1..n : SubSeq(s, 1, n)[i] = s[i]
         /\ SubSeq(s, n + 1, Len(s)) \in Seq(Nat)
         /\ Len(SubSeq(s, n + 1, Len(s))) = Len(s) - n
         /\ \A i \in 1..(Len(s) - n) : SubSeq(s, n + 1, Len(s))[i] = s[n + i]
         /\ SubSeq(s, 1, n) \o SubSeq(s, n + 1, Len(s)) = s
<1>1. Len(s) \in Nat /\ n \in Nat /\ n <= Len(s) /\ \A i \in 1..Len(s) : s[i] \in Nat
  BY LenProperties, ElementOfSeq
<1>2. /\ SubSeq(s, 1, n) \in Seq(Nat)
      /\ Len(SubSeq(s, 1, n)) = IF 1 <= n THEN n - 1 + 1 ELSE 0
      /\ \A i \in 1..(n - 1 + 1) : SubSeq(s, 1, n)[i] = s[1 + i - 1]
  <2>1. \A i \in 1..n : s[i] \in Nat
    BY <1>1
  <2> QED BY <1>1, <2>1, SubSeqProperties
<1>3. n - 1 + 1 = n /\ \A i \in 1..n : 1 + i - 1 = i
  BY <1>1
<1>4. Len(SubSeq(s, 1, n)) = n
  BY <1>1, <1>2
<1>5. \A i \in 1..n : SubSeq(s, 1, n)[i] = s[i]
  BY <1>2, <1>3
<1> DEFINE from == n + 1
           to == Len(s)
<1>6. /\ SubSeq(s, from, to) \in Seq(Nat)
      /\ Len(SubSeq(s, from, to)) = IF from <= to THEN to - from + 1 ELSE 0
      /\ \A i \in 1..(to - from + 1) : SubSeq(s, from, to)[i] = s[from + i - 1]
  <2>1. from \in Int /\ to \in Int /\ \A i \in from..to : s[i] \in Nat
    BY <1>1
  <2> HIDE DEF from, to
  <2> QED BY <2>1, SubSeqProperties
<1>7. /\ to - from + 1 = to - n /\ \A i \in 1..(to - n) : from + i - 1 = n + i
      /\ (IF from <= to THEN to - from + 1 ELSE 0) = to - n
  BY <1>1
<1>8. SubSeq(s, 1, n) \o SubSeq(s, n + 1, Len(s)) = SubSeq(s, 1, Len(s))
  <2>1. 1 \in 1..(Len(s) + 1) /\ n \in (1 - 1)..Len(s) /\ Len(s) \in n..Len(s)
    BY <1>1
  <2> QED BY <2>1, ConcatAdjacentSubSeq
<1>9. SubSeq(s, 1, Len(s)) = s
  BY SubSeqFull
<1> HIDE DEF from, to
<1>10. /\ SubSeq(s, from, to) \in Seq(Nat)
       /\ Len(SubSeq(s, from, to)) = to - n
       /\ \A i \in 1..(to - n) : SubSeq(s, from, to)[i] = s[n + i]
  BY <1>6, <1>7
<1> QED BY <1>2, <1>4, <1>5, <1>8, <1>9, <1>10 DEF from, to

LEMMA CutBoth ==
  ASSUME NEW s \in Seq(Nat), NEW t \in Seq(Nat), NEW n \in 0..Len(s)
  PROVE  SubSeq(s, n + 1, Len(s)) \o t = SubSeq(s \o t, n + 1, Len(s \o t))
<1> DEFINE left == SubSeq(s, n + 1, Len(s))
           both == s \o t
           right == SubSeq(both, n + 1, Len(both))
<1>1. Len(s) \in Nat /\ Len(t) \in Nat /\ n \in Nat /\ n <= Len(s)
  BY LenProperties
<1>2. /\ left \in Seq(Nat) /\ Len(left) = Len(s) - n
      /\ \A i \in 1..(Len(s) - n) : left[i] = s[n + i]
  BY Cut
<1>3. /\ both \in Seq(Nat) /\ Len(both) = Len(s) + Len(t)
      /\ \A i \in 1..(Len(s) + Len(t)) : both[i] = IF i <= Len(s) THEN s[i] ELSE t[i - Len(s)]
  BY ConcatProperties
<1> HIDE DEF both
<1>4. n \in 0..Len(both)
  BY <1>1, <1>3
<1>5. /\ right \in Seq(Nat) /\ Len(right) = Len(both) - n
      /\ \A i \in 1..(Len(both) - n) : right[i] = both[n + i]
  BY <1>3, <1>4, Cut
<1> HIDE DEF left, right
<1>6. /\ left \o t \in Seq(Nat) /\ Len(left \o t) = Len(left) + Len(t)
      /\ \A i \in 1..(Len(left) + Len(t)) :
           (left \o t)[i] = IF i <= Len(left) THEN left[i] ELSE t[i - Len(left)]
  BY <1>2, ConcatProperties
<1>7. Len(left \o t) = Len(right) /\ Len(right) = (Len(s) - n) + Len(t)
  BY <1>1, <1>2, <1>3, <1>5, <1>6
<1>8. ASSUME NEW i \in 1..Len(left \o t)
      PROVE  (left \o t)[i] = right[i]
  <2>1. i \in Nat /\ i >= 1 /\ i <= (Len(s) - n) + Len(t)
    BY <1>1, <1>7
  <2>2. right[i] = IF n + i <= Len(s) THEN s[n + i] ELSE t[(n + i) - Len(s)]
    <3>1. i \in 1..(Len(both) - n) /\ n + i \in 1..(Len(s) + Len(t))
      BY <1>1, <1>3, <2>1
    <3> QED BY <1>3, <1>5, <3>1
  <2>3. CASE n + i <= Len(s)
    <3>1. i \in 1..(Len(left) + Len(t)) /\ i <= Len(left) /\ i \in 1..(Len(s) - n)
      BY <1>1, <1>2, <2>1, <2>3
    <3> QED BY <1>2, <1>6, <2>2, <2>3, <3>1
  <2>4. CASE ~(n + i <= Len(s))
    <3>1. i \in 1..(Len(left) + Len(t)) /\ ~(i <= Len(left)) /\ i - Len(left) = (n + i) - Len(s)
      BY <1>1, <1>2, <2>1, <2>4
    <3> QED BY <1>6, <2>2, <2>4, <3>1
  <2> QED BY <2>3, <2>4
<1>9. left \o t = right
  BY <1>5, <1>6, <1>7, <1>8, SeqEqual
<1> QED BY <1>9 DEF left, right, both

-----------------------------------------------------------------------------
(* The header *)

LEMMA MaxIs ==
  ASSUME NEW S \in SUBSET Nat, NEW x \in S, \A y \in S : y <= x
  PROVE  Max(S) = x
<1>1. \A y \in S : x >= y
  OBVIOUS
<1>2. \A z \in S : (\A y \in S : z >= y) => z = x
  OBVIOUS
<1> QED BY <1>1, <1>2 DEF Max

LEMMA ModOfDigit ==
  ASSUME NEW a \in Nat, NEW b \in Nat, a < b
  PROVE  a % b = a /\ (b + a) % b = a
<1>1. a % b = a
  OBVIOUS
<1>2. (b + a) % b = a
  OBVIOUS
<1> QED BY <1>1, <1>2

\* MoreDigits counts the digits that say that another follows.
LEMMA MoreDigitsIs ==
  ASSUME NEW bytes, NEW d \in 0..3,
         \A i \in 1..d : bytes[1 + i] >= Radix,
         ~(bytes[2 + d] >= Radix)
  PROVE  MoreDigits(bytes) = d
<1> DEFINE S == {n \in 0..4 : \A i \in 1..n : bytes[1 + i] >= Radix}
<1>1. d \in S
  OBVIOUS
<1>2. ASSUME NEW y \in S
      PROVE  y <= d
  <2>1. CASE y > d
    <3>1. d + 1 \in 1..y /\ 1 + (d + 1) = 2 + d
      BY <2>1
    <3> QED BY <3>1
  <2> QED BY <2>1
<1>3. S \in SUBSET Nat
  OBVIOUS
<1> HIDE DEF S
<1>4. Max(S) = d
  BY <1>1, <1>2, <1>3, MaxIs
<1> QED BY <1>4 DEF MoreDigits, S

\* Of a header no more than five bytes are looked at.
LEMMA MinIs ==
  ASSUME NEW S \in SUBSET Nat, \A y \in S : y >= 2, NEW x \in S, x <= 5
  PROVE  Min(S) \in S /\ \A y \in S : Min(S) <= y
<1>1. \E z \in S : \A y \in S : z <= y
  <2>1. CASE 2 \in S
    BY <2>1
  <2>2. CASE 2 \notin S /\ 3 \in S
    BY <2>2
  <2>3. CASE 2 \notin S /\ 3 \notin S /\ 4 \in S
    BY <2>3
  <2>4. CASE 2 \notin S /\ 3 \notin S /\ 4 \notin S
    <3>1. x = 5 /\ \A y \in S : y >= 5
      BY <2>4
    <3> QED BY <3>1
  <2> QED BY <2>1, <2>2, <2>3, <2>4
<1> QED BY <1>1 DEF Min

\* Where a call looks for the end of the header: after each byte it reads, but
\* for the second when the first came alone and is not the last.
LEMMA ChecksAre ==
  ASSUME NEW held \in Nat, NEW available \in Nat, available >= 1, NEW n \in Nat
  PROVE  n \in HeaderChecks(held, available) <=>
           n >= 2 /\ n > held /\ n <= held + available /\ ~(held = 1 /\ n = 2 /\ available >= 2)
  BY DEF HeaderChecks, Least, minMQTTFixedHeaderSize

\* The digits of the remaining length are among the bytes of a header that is
\* complete, and the length that is worked out is that of the message, unless
\* there are three digits; then what is worked out is too large.
THEOREM HeaderComplete ==
  ASSUME NEW bytes \in Seq(Nat), NEW m \in Messages, NEW n \in 2..Len(bytes), n <= 5,
         RemainingLengthIsComplete(bytes, n),
         \A j \in 1..Len(bytes) : j <= Len(Bytes(m)) => bytes[j] = Bytes(m)[j],
         ~TooLarge(MessageLength(bytes))
  PROVE  /\ MessageLength(bytes) = Len(Bytes(m))
         /\ bytes[2] < Radix => Digits(m) = 1
         /\ n > Len(Bytes(m)) => Digits(m) = 1 /\ Len(Bytes(m)) < 5
<1> DEFINE length == m.length
           digit(i) == RemainingLength(m.length)[i]
<1>1. Radix \in Nat /\ Radix > 1 /\ Radix * Radix \in Nat /\ length \in Nat
  BY RadixFacts, MessageTypes
<1>2. Len(bytes) \in Nat /\ \A i \in 1..Len(bytes) : bytes[i] \in Nat
  BY LenProperties, ElementOfSeq
<1>3. /\ Digits(m) \in 1..3
      /\ Digits(m) = 1 => digit(1) = length /\ length < Radix
      /\ Digits(m) = 2 => /\ digit(1) = Radix + (length % Radix)
                          /\ digit(2) = length \div Radix
                          /\ length \div Radix < Radix
                          /\ length >= Radix
      /\ Digits(m) = 3 => /\ digit(1) >= Radix /\ digit(2) >= Radix /\ digit(3) < Radix
                          /\ length >= Radix * Radix
  BY RemainingLengthShape
<1>4. /\ Len(Bytes(m)) = 1 + Digits(m) + length
      /\ \A i \in 1..Digits(m) : Bytes(m)[1 + i] = digit(i)
  BY BytesShape
<1> HIDE DEF digit, length
<1>5. ASSUME NEW i \in 1..3, i <= Digits(m), 1 + i <= Len(bytes)
      PROVE  bytes[1 + i] = digit(i)
  <2>1. i \in 1..Digits(m) /\ 1 + i \in 1..Len(bytes) /\ 1 + i <= Len(Bytes(m))
    BY <1>1, <1>2, <1>3, <1>4, <1>5
  <2> QED BY <1>4, <2>1
<1>6. n = 5 \/ bytes[n] < Radix
  BY DEF RemainingLengthIsComplete, maxMQTTFixedHeaderSize
<1>7. bytes[2] = digit(1)
  <2>1. 1 <= Digits(m) /\ 1 + 1 <= Len(bytes) /\ 1 \in 1..3 /\ 1 + 1 = 2
    BY <1>2, <1>3
  <2> QED BY <1>5, <2>1
<1>8. CASE Digits(m) = 1
  <2>1. bytes[2] = length /\ length < Radix /\ ~(bytes[2] >= Radix)
    BY <1>1, <1>3, <1>7, <1>8
  <2>2. MoreDigits(bytes) = 0
    BY <2>1, MoreDigitsIs
  <2>3. bytes[2] % Radix = length
    BY <1>1, <2>1, ModOfDigit
  <2>4. MessageLength(bytes) = 2 + 0 + length + 0 * Radix + 0 * Radix * Radix + 0 * Radix * Radix * Radix
    BY <2>2, <2>3 DEF MessageLength
  <2>5. 0 * Radix = 0
    BY <1>1
  <2>6. MessageLength(bytes) = 2 + length
    BY <1>1, <2>4, <2>5
  <2> QED BY <1>1, <1>4, <1>8, <2>6
<1>9. CASE Digits(m) = 2
  <2> DEFINE low == length % Radix
             high == length \div Radix
  <2>1. low \in Nat /\ high \in Nat /\ low < Radix /\ length = Radix * high + low
    BY <1>1, DivMod
  <2>2. bytes[2] = Radix + low /\ high < Radix /\ length >= Radix
    BY <1>3, <1>7, <1>9
  <2> HIDE DEF low, high
  <2>3. bytes[2] >= Radix /\ ~(bytes[2] < Radix)
    BY <1>1, <2>1, <2>2
  <2>4. n # 2
    BY <1>6, <2>3
  <2>5. bytes[3] = high
    <3>1. 2 \in 1..3 /\ 2 <= Digits(m) /\ 1 + 2 <= Len(bytes) /\ 1 + 2 = 3
      BY <1>2, <1>9, <2>4
    <3>2. bytes[3] = digit(2)
      BY <1>5, <3>1
    <3> QED BY <1>3, <1>9, <3>2 DEF high
  <2>6. MoreDigits(bytes) = 1
    <3>1. ~(bytes[3] >= Radix)
      BY <1>1, <2>1, <2>2, <2>5
    <3>2. \A i \in 1..1 : bytes[1 + i] >= Radix
      BY <2>3
    <3> QED BY <3>1, <3>2, MoreDigitsIs
  <2>7. bytes[2] % Radix = low
    BY <1>1, <2>1, <2>2, ModOfDigit
  <2>8. MessageLength(bytes) =
          2 + 1 + low + high * Radix + 0 * Radix * Radix + 0 * Radix * Radix * Radix
    BY <2>5, <2>6, <2>7 DEF MessageLength
  <2>9. 0 * Radix = 0 /\ high * Radix = Radix * high /\ Radix * high \in Nat
    BY <1>1, <2>1
  <2>10. MessageLength(bytes) = 3 + length
    BY <1>1, <2>1, <2>8, <2>9
  <2> QED BY <1>1, <1>4, <1>9, <2>2, <2>3, <2>10
<1>10. CASE Digits(m) = 3
  <2>1. digit(1) >= Radix /\ digit(2) >= Radix /\ digit(3) < Radix
    BY <1>3, <1>10
  <2>2. bytes[2] >= Radix /\ n # 2 /\ bytes[2] \in Nat
    BY <1>1, <1>2, <1>6, <1>7, <2>1
  <2>3. bytes[3] = digit(2) /\ bytes[3] \in Nat
    <3>1. 2 \in 1..3 /\ 2 <= Digits(m) /\ 1 + 2 <= Len(bytes) /\ 1 + 2 = 3 /\ 3 \in 1..Len(bytes)
      BY <1>2, <1>10, <2>2
    <3> QED BY <1>2, <1>5, <3>1
  <2>4. n # 3
    BY <1>1, <1>6, <2>1, <2>3
  <2>5. bytes[4] = digit(3) /\ bytes[4] \in Nat
    <3>1. 3 \in 1..3 /\ 3 <= Digits(m) /\ 1 + 3 <= Len(bytes) /\ 1 + 3 = 4 /\ 4 \in 1..Len(bytes)
      BY <1>2, <1>10, <2>2, <2>4
    <3> QED BY <1>2, <1>5, <3>1
  <2>6. MoreDigits(bytes) = 2
    <3>1. ~(bytes[4] >= Radix)
      BY <1>1, <2>1, <2>5
    <3>2. \A i \in 1..2 : bytes[1 + i] >= Radix
      BY <2>1, <2>2, <2>3
    <3> QED BY <3>1, <3>2, MoreDigitsIs
  <2> DEFINE low == bytes[2] % Radix
             middle == bytes[3]
             high == bytes[4]
  <2>7. MessageLength(bytes) =
          2 + 2 + low + middle * Radix + high * Radix * Radix + 0 * Radix * Radix * Radix
    BY <2>6 DEF MessageLength
  <2>8. low \in Nat /\ middle \in Nat /\ high \in Nat /\ middle >= Radix
    BY <1>1, <2>1, <2>2, <2>3, <2>5, DivMod
  <2> HIDE DEF low, middle, high
  <2>9. Radix * middle >= Radix * Radix /\ middle * Radix = Radix * middle /\ middle * Radix \in Nat
    BY <1>1, <2>8, TimesMonotone
  <2>10. high * Radix \in Nat
    BY <1>1, <2>8
  <2>11. (high * Radix) * Radix \in Nat /\ 0 * Radix = 0
    BY <1>1, <2>10
  <2>12. 0 * Radix * Radix * Radix = 0
    BY <1>1, <2>11
  <2> DEFINE product == (high * Radix) * Radix
             other == middle * Radix
             square == Radix * Radix
  <2>13. MessageLength(bytes) = 4 + low + other + product
    BY <2>7, <2>8, <2>9, <2>11, <2>12
  <2>14. other >= square /\ product \in Nat /\ other \in Nat /\ square \in Nat
    BY <1>1, <2>9, <2>11
  <2>15. maxIncomingMessageSize \in Nat /\ maxIncomingMessageSize < square + 4
    BY SizeAssumption
  <2> HIDE DEF product, other, square
  <2>16. MessageLength(bytes) > maxIncomingMessageSize
    BY <2>8, <2>13, <2>14, <2>15
  <2> QED BY <2>16 DEF TooLarge
<1> QED BY <1>3, <1>8, <1>9, <1>10

-----------------------------------------------------------------------------
(* The invariant *)

Stream == buffer \o socket \o wire
Current == Len(received) + 1
CurrentBytes == Bytes(sent[Current])

TypesOK ==
  /\ sent \in Seq(Messages)
  /\ wire \in Seq(Nat) /\ socket \in Seq(Nat) /\ buffer \in Seq(Nat)
  /\ messageSizeKnown \in BOOLEAN
  /\ received \in Seq(Seq(Nat))
  /\ terminated \in BOOLEAN
  /\ overrun \in BOOLEAN

\* The bytes that could have ended the header and were looked at do not end it;
\* only the second byte can have been passed over.
HeaderSoFar(bytes) ==
  /\ Len(bytes) < maxMQTTFixedHeaderSize
  /\ \A n \in 2..Len(bytes) :
       bytes[n] >= Radix \/ (n = 2 /\ Current \in passedOver)

\* The end of the current message is missed when `passed' are those passed over.
MissedWith(passed) ==
  /\ Current \in passed /\ Current <= Len(sent)
  /\ Len(CurrentBytes) < maxMQTTFixedHeaderSize
  /\ \A k \in (minMQTTFixedHeaderSize + 1)..Len(CurrentBytes) : CurrentBytes[k] >= Radix

\* What the reader knows of the message it is in.
InsideMessage ==
  IF messageSizeKnown
  THEN /\ Current <= Len(sent)
       /\ messageSize = Len(CurrentBytes)
       /\ messageSize <= maxIncomingMessageSize
       /\ buffer # <<>>
       /\ Len(buffer) # messageSize
       /\ Len(buffer) > messageSize => MissesTheEnd(Current)
  ELSE buffer # <<>> => HeaderSoFar(buffer)

Reading ==
  /\ Len(received) <= Len(sent)
  /\ Carries(Stream, sent, Len(received))
  /\ InsideMessage

\* Only a message whose end was missed is read past the buffer.
MissedTheEnd == ~terminated /\ Len(received) < Len(sent) /\ MissesTheEnd(Current)

Framing ==
  /\ TypesOK /\ FramedAsSent
  /\ ~terminated /\ ~overrun => Reading
  /\ overrun => MissedTheEnd

-----------------------------------------------------------------------------
(* A call of readMessageData *)

\* While there are bytes of it, read or to be read, the client's next message is
\* under way, and it begins with these bytes.
LEMMA UnderWay ==
  ASSUME TypesOK, Reading, NEW bytes, bytes = buffer \o socket, bytes # <<>>
  PROVE  /\ bytes \in Seq(Nat) /\ Len(bytes) = Len(buffer) + Len(socket)
         /\ Len(buffer) \in Nat /\ Len(socket) \in Nat
         /\ \A j \in 1..Len(buffer) : bytes[j] = buffer[j]
         /\ Stream = bytes \o wire /\ Stream \in Seq(Nat)
         /\ Len(received) \in Nat /\ Len(received) < Len(sent) /\ Len(sent) \in Nat
         /\ Current \in 1..Len(sent) /\ sent[Current] \in Messages
         /\ CurrentBytes \in Seq(Nat) /\ Len(CurrentBytes) \in Nat /\ Len(CurrentBytes) >= 2
         /\ \A j \in 1..Len(bytes) : j <= Len(CurrentBytes) => bytes[j] = CurrentBytes[j]
         /\ Carries(SubSeq(Stream, Len(CurrentBytes) + 1, Len(Stream)), sent, Current)
<1>1. /\ buffer \in Seq(Nat) /\ socket \in Seq(Nat) /\ wire \in Seq(Nat)
      /\ sent \in Seq(Messages) /\ received \in Seq(Seq(Nat))
  BY DEF TypesOK
<1>2. /\ Len(buffer) \in Nat /\ Len(socket) \in Nat /\ Len(wire) \in Nat
      /\ Len(sent) \in Nat /\ Len(received) \in Nat
  BY <1>1, LenProperties
<1>3. /\ bytes \in Seq(Nat) /\ Len(bytes) = Len(buffer) + Len(socket)
      /\ \A i \in 1..(Len(buffer) + Len(socket)) :
           bytes[i] = IF i <= Len(buffer) THEN buffer[i] ELSE socket[i - Len(buffer)]
  BY <1>1, ConcatProperties
<1>4. \A j \in 1..Len(buffer) : bytes[j] = buffer[j]
  BY <1>2, <1>3
<1>5. Stream = bytes \o wire
  BY DEF Stream
<1>6. /\ Stream \in Seq(Nat) /\ Len(Stream) = Len(bytes) + Len(wire)
      /\ \A i \in 1..(Len(bytes) + Len(wire)) :
           Stream[i] = IF i <= Len(bytes) THEN bytes[i] ELSE wire[i - Len(bytes)]
  BY <1>1, <1>3, <1>5, ConcatProperties
<1>7. Stream # <<>>
  <2>1. Len(bytes) # 0 /\ Len(bytes) \in Nat
    BY <1>3, EmptySeq, LenProperties
  <2>2. Len(Stream) # 0
    BY <1>2, <1>6, <2>1
  <2> QED BY <2>2, Len(<<>>) = 0
<1>8. Len(received) < Len(sent)
  <2>1. Len(received) <= Len(sent) /\ Carries(Stream, sent, Len(received))
    BY DEF Reading
  <2>2. Len(received) # Len(sent)
    BY <1>6, <1>7, <2>1, NoneCarried
  <2> QED BY <1>2, <2>1, <2>2
<1>9. Current \in 1..Len(sent) /\ sent[Current] \in Messages
  <2>1. Current \in 1..Len(sent)
    BY <1>2, <1>8 DEF Current
  <2> QED BY <1>1, <2>1, ElementOfSeq
<1>10. /\ CurrentBytes \in Seq(Nat)
       /\ Len(CurrentBytes) \in Nat /\ Len(CurrentBytes) >= 2
  <2>1. /\ CurrentBytes \in Seq(Nat)
        /\ Len(CurrentBytes) = 1 + Digits(sent[Current]) + sent[Current].length
    BY <1>9, BytesShape DEF CurrentBytes
  <2>2. Digits(sent[Current]) \in 1..3 /\ sent[Current].length \in Nat
    BY <1>9, RemainingLengthShape, MessageTypes
  <2> QED BY <2>1, <2>2
<1>11. /\ Len(CurrentBytes) <= Len(Stream)
       /\ \A j \in 1..Len(CurrentBytes) : Stream[j] = CurrentBytes[j]
       /\ Carries(SubSeq(Stream, Len(CurrentBytes) + 1, Len(Stream)), sent, Current)
  <2>1. Carries(Stream, sent, Len(received))
    BY DEF Reading
  <2> QED BY <1>1, <1>2, <1>6, <1>8, <2>1, FirstCarried DEF CurrentBytes, Current
<1>12. ASSUME NEW j \in 1..Len(bytes), j <= Len(CurrentBytes)
       PROVE  bytes[j] = CurrentBytes[j]
  <2>1. j \in 1..Len(CurrentBytes) /\ j \in 1..(Len(bytes) + Len(wire)) /\ j <= Len(bytes)
    BY <1>2, <1>3, <1>10, <1>12
  <2> QED BY <1>6, <1>11, <2>1
<1> QED BY <1>2, <1>3, <1>4, <1>5, <1>6, <1>8, <1>9, <1>10, <1>11, <1>12

LEMMA InsideStream ==
  ASSUME TypesOK, Reading, socket # <<>>, NEW bytes, bytes = buffer \o socket
  PROVE  /\ bytes \in Seq(Nat) /\ Len(bytes) = Len(buffer) + Len(socket)
         /\ Len(buffer) \in Nat /\ Len(socket) \in Nat /\ Len(socket) >= 1
         /\ \A j \in 1..Len(buffer) : bytes[j] = buffer[j]
         /\ Stream = bytes \o wire /\ Stream \in Seq(Nat)
         /\ Len(received) \in Nat /\ Len(received) < Len(sent) /\ Len(sent) \in Nat
         /\ Current \in 1..Len(sent) /\ sent[Current] \in Messages
         /\ CurrentBytes \in Seq(Nat) /\ Len(CurrentBytes) \in Nat /\ Len(CurrentBytes) >= 2
         /\ \A j \in 1..Len(bytes) : j <= Len(CurrentBytes) => bytes[j] = CurrentBytes[j]
         /\ Carries(SubSeq(Stream, Len(CurrentBytes) + 1, Len(Stream)), sent, Current)
<1>1. Len(socket) \in Nat /\ Len(socket) >= 1
  BY EmptySeq, LenProperties DEF TypesOK
<1>2. bytes # <<>>
  <2>1. Len(bytes) = Len(buffer) + Len(socket) /\ Len(buffer) \in Nat
    BY ConcatProperties, LenProperties DEF TypesOK
  <2>2. Len(bytes) # 0
    BY <1>1, <2>1
  <2> QED BY <2>2, Len(<<>>) = 0
<1> QED BY <1>1, <1>2, UnderWay

LEMMA MissesTheEndIs == MissesTheEnd(Current) <=> MissedWith(passedOver)
BY DEF MissesTheEnd, MissedWith, CurrentBytes

\* The message goes on after `held' bytes, its size is known: it ends here, or
\* goes on, and only one whose end was missed goes on beyond its size.
LEMMA RestRead ==
  ASSUME TypesOK, FramedAsSent, Reading, socket # <<>>, NEW bytes, bytes = buffer \o socket,
         ~terminated, ~overrun, NEW held \in 1..Len(bytes),
         Len(CurrentBytes) <= maxIncomingMessageSize,
         NEW passed, passed = passedOver', held > Len(CurrentBytes) => MissedWith(passed),
         ReadRest(bytes, held, Len(CurrentBytes)),
         UNCHANGED <<sent, wire>>
  PROVE  Framing'
<1> DEFINE size == Len(CurrentBytes)
           available == Len(bytes) - held
           n == held + ReadAmount(held, size, available)
<1>1. /\ bytes \in Seq(Nat) /\ Len(bytes) \in Nat
      /\ Stream = bytes \o wire /\ Stream \in Seq(Nat)
      /\ Len(received) \in Nat /\ Len(received) < Len(sent) /\ Len(sent) \in Nat
      /\ Current \in 1..Len(sent) /\ sent[Current] \in Messages
      /\ CurrentBytes \in Seq(Nat) /\ Len(CurrentBytes) \in Nat /\ Len(CurrentBytes) >= 2
      /\ \A j \in 1..Len(bytes) : j <= Len(CurrentBytes) => bytes[j] = CurrentBytes[j]
      /\ Carries(SubSeq(Stream, Len(CurrentBytes) + 1, Len(Stream)), sent, Current)
  BY InsideStream, LenProperties
<1>2. size \in Nat /\ held \in Nat /\ held >= 1 /\ held <= Len(bytes) /\ available \in Nat
  BY <1>1
<1> HIDE DEF available
<1>3. /\ n \in held..Len(bytes)
      /\ held <= size => n <= size
  <2>1. available = Len(bytes) - held
    BY DEF available
  <2> DEFINE total == Len(bytes)
  <2>2. total \in Nat /\ available = total - held /\ held <= total
    BY <1>1, <1>2, <2>1
  <2> HIDE DEF size, total
  <2>3. n = IF size < held THEN held + available
            ELSE IF available < size - held THEN held + available ELSE held + (size - held)
    BY DEF ReadAmount, Least
  <2> HIDE DEF n
  <2>4. n \in held..total /\ (held <= size => n <= size)
    BY <1>2, <2>2, <2>3
  <2> QED BY <2>4 DEF total
<1>4. \/ Overrun /\ n > maxIncomingMessageSize
      \/ /\ socket' = SubSeq(bytes, n + 1, Len(bytes))
         /\ messageSize' = size
         /\ \/ /\ n = size
               /\ received' = Append(received, SubSeq(bytes, 1, n))
               /\ buffer' = <<>> /\ messageSizeKnown' = FALSE
            \/ /\ n # size
               /\ buffer' = SubSeq(bytes, 1, n)
               /\ messageSizeKnown' = TRUE
               /\ received' = received
         /\ terminated' = terminated /\ overrun' = overrun
  BY DEF ReadRest, ResetMessageBuffer, available
<1> HIDE DEF n, size
<1>5. CASE Overrun /\ n > maxIncomingMessageSize
  <2>1. /\ overrun' = TRUE /\ socket' = <<>> /\ buffer' = buffer
        /\ messageSizeKnown' = messageSizeKnown /\ received' = received
        /\ terminated' = terminated /\ sent' = sent /\ wire' = wire
    BY <1>5 DEF Overrun
  <2>2. held > size
    <3>1. maxIncomingMessageSize \in Nat
      BY SizeAssumption
    <3>2. size <= maxIncomingMessageSize /\ n \in Nat
      BY <1>1, <1>2, <1>3 DEF size
    <3> QED BY <1>2, <1>3, <1>5, <3>1, <3>2
  <2>3. Current' = Current /\ CurrentBytes' = CurrentBytes
    BY <2>1 DEF Current, CurrentBytes
  <2>4. MissedWith(passed)
    BY <2>2 DEF size
  <2>5. MissesTheEnd(Current)'
    BY <2>1, <2>3, <2>4 DEF MissesTheEnd, MissedWith, CurrentBytes
  <2>6. TypesOK' /\ FramedAsSent'
    BY <2>1, EmptySeq DEF TypesOK, FramedAsSent
  <2>7. MissedTheEnd'
    BY <1>1, <2>1, <2>3, <2>5 DEF MissedTheEnd
  <2> QED BY <2>1, <2>6, <2>7 DEF Framing
<1>6. CASE /\ socket' = SubSeq(bytes, n + 1, Len(bytes))
           /\ messageSize' = size
           /\ \/ /\ n = size
                 /\ received' = Append(received, SubSeq(bytes, 1, n))
                 /\ buffer' = <<>> /\ messageSizeKnown' = FALSE
              \/ /\ n # size
                 /\ buffer' = SubSeq(bytes, 1, n)
                 /\ messageSizeKnown' = TRUE
                 /\ received' = received
           /\ terminated' = terminated /\ overrun' = overrun
  <2>1. /\ socket' = SubSeq(bytes, n + 1, Len(bytes))
        /\ messageSize' = size
        /\ \/ /\ n = size
              /\ received' = Append(received, SubSeq(bytes, 1, n))
              /\ buffer' = <<>> /\ messageSizeKnown' = FALSE
           \/ /\ n # size
              /\ buffer' = SubSeq(bytes, 1, n)
              /\ messageSizeKnown' = TRUE
              /\ received' = received
        /\ terminated' = terminated /\ overrun' = overrun
    BY <1>6
  <2>2. n \in 0..Len(bytes) /\ n \in Nat /\ n >= 1
    BY <1>1, <1>2, <1>3
  <2>3. /\ SubSeq(bytes, 1, n) \in Seq(Nat) /\ Len(SubSeq(bytes, 1, n)) = n
        /\ \A i \in 1..n : SubSeq(bytes, 1, n)[i] = bytes[i]
        /\ SubSeq(bytes, n + 1, Len(bytes)) \in Seq(Nat)
        /\ SubSeq(bytes, 1, n) \o SubSeq(bytes, n + 1, Len(bytes)) = bytes
    BY <1>1, <2>2, Cut
  <2>4. CASE n = size
    <3>1. /\ received' = Append(received, SubSeq(bytes, 1, n))
          /\ buffer' = <<>> /\ messageSizeKnown' = FALSE
      BY <2>1, <2>4
    <3>2. /\ received' \in Seq(Seq(Nat)) /\ Len(received') = Len(received) + 1
          /\ \A i \in 1..Len(received) : received'[i] = received[i]
          /\ received'[Len(received) + 1] = SubSeq(bytes, 1, n)
      <4> DEFINE message == SubSeq(bytes, 1, n)
                 messages == Seq(Nat)
      <4>1. message \in messages /\ received \in Seq(messages) /\ received' = Append(received, message)
        BY <2>3, <3>1 DEF TypesOK
      <4> HIDE DEF message, messages
      <4>2. /\ received' \in Seq(messages) /\ Len(received') = Len(received) + 1
            /\ \A i \in 1..Len(received) : received'[i] = received[i]
            /\ received'[Len(received) + 1] = message
        BY <4>1, AppendProperties
      <4> QED BY <4>2 DEF message, messages
    <3>3. SubSeq(bytes, 1, n) = CurrentBytes
      <4>1. Len(SubSeq(bytes, 1, n)) = Len(CurrentBytes)
        BY <2>3, <2>4 DEF size
      <4>2. \A i \in 1..Len(SubSeq(bytes, 1, n)) : SubSeq(bytes, 1, n)[i] = CurrentBytes[i]
        <5>1. \A i \in 1..n : i \in 1..Len(bytes) /\ i <= Len(CurrentBytes)
          BY <1>1, <2>2, <2>4 DEF size
        <5> QED BY <1>1, <2>3, <5>1
      <4> QED BY <1>1, <2>3, <4>1, <4>2, SeqEqual
    <3>4. TypesOK'
      BY <2>1, <2>3, <3>1, <3>2, EmptySeq DEF TypesOK
    <3>5. FramedAsSent'
      <4>1. received'[Len(received) + 1] = Bytes(sent[Len(received) + 1])
        BY <3>2, <3>3 DEF CurrentBytes, Current
      <4>2. \A i \in 1..Len(received) : received'[i] = Bytes(sent[i])
        BY <3>2 DEF FramedAsSent
      <4>3. ASSUME NEW i \in 1..(Len(received) + 1)
            PROVE  received'[i] = Bytes(sent[i])
        <5> DEFINE last == Len(received)
        <5>1. last \in Nat /\ i \in 1..(last + 1)
          BY <1>1
        <5> HIDE DEF last
        <5>2. i = last + 1 \/ i \in 1..last
          BY <5>1
        <5> QED BY <4>1, <4>2, <5>2 DEF last
      <4>4. Len(received') <= Len(sent)
        BY <1>1, <3>2
      <4> QED BY <3>2, <4>3, <4>4 DEF FramedAsSent
    <3>6. Stream' = SubSeq(Stream, size + 1, Len(Stream))
      <4>1. Stream' = (<<>> \o SubSeq(bytes, n + 1, Len(bytes))) \o wire
        BY <2>1, <3>1 DEF Stream
      <4>2. <<>> \o SubSeq(bytes, n + 1, Len(bytes)) = SubSeq(bytes, n + 1, Len(bytes))
        BY <2>3, ConcatEmptySeq
      <4>3. SubSeq(bytes, n + 1, Len(bytes)) \o wire = SubSeq(bytes \o wire, n + 1, Len(bytes \o wire))
        BY <1>1, <2>2, CutBoth DEF TypesOK
      <4> QED BY <1>1, <2>4, <4>1, <4>2, <4>3
    <3>7. Carries(Stream', sent', Len(received'))
      BY <1>1, <3>2, <3>6 DEF Current, size
    <3>8. Len(received') <= Len(sent')
      BY <1>1, <3>2
    <3>9. InsideMessage'
      BY <3>1 DEF InsideMessage
    <3> QED BY <2>1, <3>4, <3>5, <3>7, <3>8, <3>9 DEF Framing, Reading
  <2>5. CASE n # size
    <3>1. /\ buffer' = SubSeq(bytes, 1, n)
          /\ messageSizeKnown' = TRUE
          /\ received' = received
      BY <2>1, <2>5
    <3>2. TypesOK'
      BY <2>1, <2>3, <3>1 DEF TypesOK
    <3>3. FramedAsSent'
      BY <3>1 DEF FramedAsSent
    <3>4. Stream' = Stream
      <4>1. Stream' = (SubSeq(bytes, 1, n) \o SubSeq(bytes, n + 1, Len(bytes))) \o wire
        BY <2>1, <3>1 DEF Stream
      <4> QED BY <1>1, <2>3, <4>1
    <3>5. Carries(Stream', sent', Len(received')) /\ Len(received') <= Len(sent')
      BY <3>1, <3>4 DEF Reading
    <3>6. Current' = Current /\ CurrentBytes' = CurrentBytes
      BY <3>1 DEF Current, CurrentBytes
    <3>7. n > size => MissesTheEnd(Current)'
      <4>1. n > size => held > size
        BY <1>2, <1>3, <2>2
      <4>2. MissedWith(passed) => MissesTheEnd(Current)'
        BY <3>6 DEF MissesTheEnd, MissedWith, CurrentBytes
      <4> QED BY <4>1, <4>2 DEF size
    <3>8. InsideMessage'
      <4>1. Len(buffer') = n /\ n # 0 /\ Len(<<>>) = 0
        BY <2>2, <2>3, <3>1
      <4>2. Current <= Len(sent)
        BY <1>1
      <4>3. messageSize' = size /\ size = Len(CurrentBytes)' /\ size <= maxIncomingMessageSize
        BY <2>1, <3>6 DEF size
      <4>4. (Current <= Len(sent))'
        BY <3>6, <4>2
      <4> QED BY <2>5, <3>1, <3>7, <4>1, <4>3, <4>4 DEF InsideMessage
    <3> QED BY <2>1, <3>2, <3>3, <3>5, <3>8 DEF Framing, Reading
  <2> QED BY <2>4, <2>5
<1> QED BY <1>4, <1>5, <1>6

\* The bytes a call has looked at, before k, without finding the end of the
\* header among them.
LEMMA HeaderLookedAt ==
  ASSUME TypesOK, Reading, socket # <<>>, ~messageSizeKnown,
         NEW bytes, bytes = buffer \o socket,
         NEW k \in Nat, k <= Len(bytes) + 1,
         \A i \in HeaderEnds(bytes, Len(buffer)) : i >= k,
         NEW passed, passedOver \subseteq passed, PassesOverSecond => Current \in passed,
         NEW i \in 2..(k - 1)
  PROVE  /\ i # 5
         /\ bytes[i] >= Radix \/ (i = 2 /\ Current \in passed)
<1> DEFINE held == Len(buffer)
           available == Len(bytes) - held
<1>1. /\ bytes \in Seq(Nat) /\ Len(bytes) \in Nat
      /\ held \in Nat /\ available \in Nat /\ available >= 1
      /\ Len(bytes) = held + available /\ Len(socket) = available
      /\ \A j \in 1..held : bytes[j] = buffer[j]
  <2>1. /\ bytes \in Seq(Nat) /\ Len(bytes) = held + Len(socket)
        /\ held \in Nat /\ Len(socket) \in Nat /\ Len(socket) >= 1
        /\ \A j \in 1..held : bytes[j] = buffer[j]
    BY InsideStream
  <2> HIDE DEF held
  <2> QED BY <2>1
<1>2. i \in Nat /\ i >= 2 /\ i < k /\ i <= Len(bytes) /\ bytes[i] \in Nat
  <2>1. i \in Nat /\ i >= 2 /\ i < k /\ i <= Len(bytes)
    BY <1>1
  <2>2. i \in 1..Len(bytes)
    BY <1>1, <2>1
  <2> QED BY <1>1, <2>1, <2>2, ElementOfSeq
<1>3. held >= 1 => HeaderSoFar(buffer)
  <2>1. held >= 1 => buffer # <<>>
    BY Len(<<>>) = 0
  <2> QED BY <2>1 DEF Reading, InsideMessage
<1>4. Radix \in Nat
  BY RadixAssumption
<1>5. CASE i <= held
  <2>1. held >= 1
    BY <1>1, <1>2, <1>5
  <2>2. i \in 2..held /\ i \in 1..held
    BY <1>1, <1>2, <1>5
  <2>3. /\ held < 5
        /\ buffer[i] >= Radix \/ (i = 2 /\ Current \in passed)
    BY <1>3, <2>1, <2>2 DEF HeaderSoFar, maxMQTTFixedHeaderSize
  <2>4. bytes[i] = buffer[i]
    BY <1>1, <2>2
  <2> HIDE DEF held, available
  <2> QED BY <1>1, <1>2, <1>5, <2>3, <2>4
<1>6. CASE i > held /\ ~(held = 1 /\ i = 2 /\ available >= 2)
  <2> HIDE DEF held, available
  <2>1. i \in HeaderChecks(held, available)
    BY <1>1, <1>2, <1>6, ChecksAre
  <2>2. i \notin HeaderEnds(bytes, Len(buffer))
    BY <1>2
  <2>3. ~RemainingLengthIsComplete(bytes, i)
    BY <2>1, <2>2 DEF HeaderEnds, held, available
  <2> QED BY <1>2, <1>4, <2>3 DEF RemainingLengthIsComplete, maxMQTTFixedHeaderSize
<1>7. CASE held = 1 /\ i = 2 /\ available >= 2
  <2>1. Current \in passed
    <3>1. PassesOverSecond
      BY <1>1, <1>7 DEF PassesOverSecond, minMQTTFixedHeaderSize
    <3> QED BY <3>1
  <2> HIDE DEF held, available
  <2> QED BY <1>1, <1>7, <2>1
<1> HIDE DEF held, available
<1> QED BY <1>1, <1>2, <1>5, <1>6, <1>7

\* The first byte at which the header is found to end.
LEMMA HeaderEndsAt ==
  ASSUME TypesOK, Reading, socket # <<>>, ~messageSizeKnown,
         NEW bytes, bytes = buffer \o socket,
         NEW ends, ends = HeaderEnds(bytes, Len(buffer)), ends # {}
  PROVE  /\ Min(ends) \in ends /\ \A i \in ends : i >= Min(ends)
         /\ Min(ends) \in 2..Len(bytes) /\ Min(ends) <= 5
         /\ RemainingLengthIsComplete(bytes, Min(ends))
<1> DEFINE held == Len(buffer)
           available == Len(bytes) - held
<1>1. /\ Len(bytes) \in Nat
      /\ held \in Nat /\ available \in Nat /\ available >= 1
      /\ Len(bytes) = held + available
  <2>1. /\ Len(bytes) = held + Len(socket)
        /\ held \in Nat /\ Len(socket) \in Nat /\ Len(socket) >= 1
    BY InsideStream
  <2> HIDE DEF held
  <2> QED BY <2>1
<1>2. held < 5
  <2>1. held >= 1 => buffer # <<>>
    BY Len(<<>>) = 0
  <2>2. held >= 1 => held < 5
    BY <2>1 DEF Reading, InsideMessage, HeaderSoFar, maxMQTTFixedHeaderSize
  <2> HIDE DEF held
  <2> QED BY <1>1, <2>2
<1>3. ends = {n \in HeaderChecks(held, available) : RemainingLengthIsComplete(bytes, n)}
  BY DEF HeaderEnds
<1> HIDE DEF held, available
<1>4. ASSUME NEW n \in ends
      PROVE  n \in Nat /\ n >= 2 /\ n <= Len(bytes) /\ RemainingLengthIsComplete(bytes, n)
  <2>1. n \in HeaderChecks(held, available) /\ RemainingLengthIsComplete(bytes, n)
    BY <1>3
  <2>2. n \in Nat
    BY <1>1, <2>1 DEF HeaderChecks, Least, minMQTTFixedHeaderSize
  <2>3. n >= 2 /\ n <= held + available
    BY <1>1, <2>1, <2>2, ChecksAre
  <2> QED BY <1>1, <2>1, <2>2, <2>3
<1>5. \E x \in ends : x <= 5
  <2>1. CASE \A x \in ends : x > 5
    <3>1. PICK x \in ends : x > 5 /\ x <= Len(bytes)
      BY <1>4, <2>1
    <3>2. 5 <= Len(bytes)
      BY <1>1, <1>4, <3>1
    <3>3. 5 \in HeaderChecks(held, available)
      BY <1>1, <1>2, <3>2, ChecksAre
    <3>4. 5 \in ends
      BY <1>3, <3>3 DEF RemainingLengthIsComplete, maxMQTTFixedHeaderSize
    <3> QED BY <2>1, <3>4
  <2> QED BY <1>4, <2>1
<1>6. PICK x \in ends : x <= 5
  BY <1>5
<1>7. Min(ends) \in ends /\ \A i \in ends : Min(ends) <= i
  <2>1. ends \in SUBSET Nat /\ \A y \in ends : y >= 2
    BY <1>4
  <2> QED BY <1>6, <2>1, MinIs
<1> DEFINE n == Min(ends)
<1> HIDE DEF n
<1>8. n \in ends /\ \A i \in ends : n <= i
  BY <1>7 DEF n
<1>9. n \in Nat /\ n >= 2 /\ n <= Len(bytes) /\ RemainingLengthIsComplete(bytes, n) /\ n <= x
      /\ x \in Nat
  BY <1>4, <1>6, <1>8
<1>10. \A i \in ends : i >= n
  BY <1>4, <1>8, <1>9
<1>11. n \in 2..Len(bytes) /\ n <= 5
  BY <1>1, <1>6, <1>9
<1> QED BY <1>8, <1>9, <1>10, <1>11 DEF n

\* The end of the header is found.
LEMMA HeaderRead ==
  ASSUME TypesOK, FramedAsSent, Reading, socket # <<>>, NEW bytes, bytes = buffer \o socket,
         ~terminated, ~overrun, ~messageSizeKnown, HeaderEnds(bytes, Len(buffer)) # {},
         ReadKnowingHeader(bytes, Min(HeaderEnds(bytes, Len(buffer)))),
         NEW passed, passed = passedOver', passedOver \subseteq passed,
         PassesOverSecond => Current \in passed, UNCHANGED <<sent, wire>>
  PROVE  Framing'
<1> DEFINE ends == HeaderEnds(bytes, Len(buffer))
           n == Min(ends)
           m == sent[Current]
<1> HIDE DEF ends
<1>1. /\ n \in ends /\ \A i \in ends : i >= n
      /\ n \in 2..Len(bytes) /\ n <= 5
      /\ RemainingLengthIsComplete(bytes, n)
  BY HeaderEndsAt DEF ends
<1> HIDE DEF n
<1>2. /\ bytes \in Seq(Nat) /\ Len(bytes) \in Nat
      /\ m \in Messages /\ CurrentBytes = Bytes(m)
      /\ Current <= Len(sent)
      /\ Len(CurrentBytes) \in Nat /\ Len(CurrentBytes) >= 2
      /\ \A j \in 1..Len(bytes) : j <= Len(CurrentBytes) => bytes[j] = CurrentBytes[j]
  <2>1. /\ bytes \in Seq(Nat) /\ sent[Current] \in Messages
        /\ Current \in 1..Len(sent) /\ Len(sent) \in Nat
        /\ Len(CurrentBytes) \in Nat /\ Len(CurrentBytes) >= 2
        /\ \A j \in 1..Len(bytes) : j <= Len(CurrentBytes) => bytes[j] = CurrentBytes[j]
    BY InsideStream
  <2>2. Current <= Len(sent)
    BY <2>1
  <2> QED BY <2>1, <2>2, LenProperties DEF CurrentBytes
<1>3. CASE Excuse
  <2>1. terminated' /\ ~overrun' /\ TypesOK' /\ FramedAsSent'
    BY <1>3, EmptySeq DEF Excuse, TypesOK, FramedAsSent
  <2> QED BY <2>1 DEF Framing
<1>4. CASE ~TooLarge(MessageLength(bytes)) /\ ReadRest(bytes, n, MessageLength(bytes))
  <2> HIDE DEF m
  <2>1. /\ MessageLength(bytes) = Len(Bytes(m))
        /\ n > Len(Bytes(m)) => Digits(m) = 1 /\ Len(Bytes(m)) < 5
    BY <1>1, <1>2, <1>4, HeaderComplete
  <2>2. ASSUME n > Len(CurrentBytes)
        PROVE  MissedWith(passed)
    <3>1. Digits(m) = 1 /\ Len(CurrentBytes) < 5
      BY <1>2, <2>1, <2>2
    <3>2. ASSUME NEW i \in 2..(n - 1)
          PROVE  bytes[i] >= Radix \/ (i = 2 /\ Current \in passed)
      <4>1. n \in Nat /\ n <= Len(bytes) + 1
        BY <1>1, <1>2
      <4>2. \A j \in HeaderEnds(bytes, Len(buffer)) : j >= n
        BY <1>1 DEF ends
      <4> QED BY <4>1, <4>2, HeaderLookedAt
    <3>3. bytes[2] < Radix
      <4>1. bytes[2] = CurrentBytes[2]
        BY <1>1, <1>2
      <4>2. CurrentBytes[1 + 1] = RemainingLength(m.length)[1] /\ 1 + 1 = 2
        <5>1. 1 \in 1..Digits(m)
          BY <3>1
        <5>2. \A i \in 1..Digits(m) : Bytes(m)[1 + i] = RemainingLength(m.length)[i]
          BY <1>2, BytesShape
        <5>3. Bytes(m)[1 + 1] = RemainingLength(m.length)[1]
          BY <5>1, <5>2
        <5> QED BY <1>2, <5>3
      <4>3. RemainingLength(m.length)[1] < Radix
        BY <1>2, <3>1, RemainingLengthShape
      <4> QED BY <4>1, <4>2, <4>3
    <3>4. Current \in passed
      <4>1. 2 \in 2..(n - 1)
        BY <1>1, <1>2, <2>2
      <4>2. bytes[2] \in Nat /\ Radix \in Nat
        <5>1. 2 \in 1..Len(bytes)
          BY <1>1, <1>2
        <5> QED BY <1>2, <5>1, RadixAssumption, ElementOfSeq
      <4> DEFINE second == bytes[2]
      <4>3. second \in Nat /\ second < Radix
        BY <3>3, <4>2
      <4> HIDE DEF second
      <4>4. ~(second >= Radix)
        BY <4>2, <4>3
      <4> QED BY <3>2, <4>1, <4>4 DEF second
    <3>5. ASSUME NEW i \in 3..Len(CurrentBytes)
          PROVE  CurrentBytes[i] >= Radix
      <4>1. i \in 2..(n - 1) /\ i # 2 /\ i \in 1..Len(bytes) /\ i <= Len(CurrentBytes)
        BY <1>1, <1>2, <2>2
      <4> QED BY <1>2, <3>2, <4>1
    <3> QED BY <1>2, <3>1, <3>4, <3>5
         DEF MissedWith, maxMQTTFixedHeaderSize, minMQTTFixedHeaderSize
  <2>3. n \in 1..Len(bytes)
    BY <1>1, <1>2
  <2>4. ReadRest(bytes, n, Len(CurrentBytes))
    BY <1>2, <1>4, <2>1
  <2>5. Len(CurrentBytes) <= maxIncomingMessageSize
    BY <1>2, <1>4, <2>1, SizeAssumption DEF TooLarge
  <2> QED BY <2>2, <2>3, <2>4, <2>5, RestRead
<1> QED BY <1>3, <1>4 DEF ReadKnowingHeader, n, ends

\* The size of the message is known: the call reads on.
LEMMA KnownSizeRead ==
  ASSUME TypesOK, FramedAsSent, Reading, socket # <<>>, NEW bytes, bytes = buffer \o socket,
         ~terminated, ~overrun, messageSizeKnown, ReadRest(bytes, Len(buffer), messageSize),
         NEW passed, passed = passedOver', passedOver \subseteq passed, UNCHANGED <<sent, wire>>
  PROVE  Framing'
<1> DEFINE held == Len(buffer)
<1>1. /\ messageSize = Len(CurrentBytes)
      /\ messageSize <= maxIncomingMessageSize
      /\ buffer # <<>>
      /\ held > messageSize => MissesTheEnd(Current)
  BY DEF Reading, InsideMessage
<1>2. held \in 1..Len(bytes)
  <2>1. /\ Len(bytes) = held + Len(socket)
        /\ held \in Nat /\ Len(socket) \in Nat
    BY InsideStream
  <2>2. held # 0
    BY <1>1, EmptySeq DEF TypesOK
  <2> HIDE DEF held
  <2> QED BY <2>1, <2>2
<1>3. ReadRest(bytes, held, Len(CurrentBytes))
  BY <1>1
<1>4. held > Len(CurrentBytes) => MissedWith(passed)
  <2>1. MissesTheEnd(Current) => MissedWith(passed)
    BY MissesTheEndIs DEF MissedWith
  <2> QED BY <1>1, <2>1
<1>5. Len(CurrentBytes) <= maxIncomingMessageSize
  BY <1>1
<1> HIDE DEF held
<1> QED BY <1>2, <1>3, <1>4, <1>5, RestRead

\* The header goes on: all there is belongs to it.
LEMMA HeaderGoesOn ==
  ASSUME TypesOK, FramedAsSent, Reading, socket # <<>>, NEW bytes, bytes = buffer \o socket,
         ~terminated, ~overrun, ~messageSizeKnown, HeaderEnds(bytes, Len(buffer)) = {},
         ReadMoreOfHeader(bytes),
         NEW passed, passed = passedOver', passedOver \subseteq passed,
         PassesOverSecond => Current \in passed,
         UNCHANGED <<sent, wire>>
  PROVE  Framing'
<1>1. /\ bytes \in Seq(Nat) /\ Len(bytes) \in Nat
      /\ Stream = bytes \o wire
  BY InsideStream, LenProperties
<1>2. /\ buffer' = bytes /\ socket' = <<>>
      /\ messageSizeKnown' = FALSE
      /\ received' = received /\ terminated' = terminated /\ overrun' = overrun
  BY DEF ReadMoreOfHeader, TypesOK
<1>3. ASSUME NEW i \in 2..Len(bytes)
      PROVE  /\ i # 5
             /\ bytes[i] >= Radix \/ (i = 2 /\ Current \in passed)
  <2> DEFINE k == Len(bytes) + 1
  <2>1. k \in Nat /\ k <= Len(bytes) + 1 /\ i \in 2..(k - 1)
    BY <1>1
  <2>2. \A j \in HeaderEnds(bytes, Len(buffer)) : j >= k
    OBVIOUS
  <2> HIDE DEF k
  <2> QED BY <2>1, <2>2, HeaderLookedAt
<1>4. Len(bytes) < 5
  <2>1. Len(bytes) >= 5 => 5 \in 2..Len(bytes)
    BY <1>1
  <2> QED BY <1>1, <1>3, <2>1
<1>5. Current' = Current
  BY <1>2 DEF Current
<1>6. HeaderSoFar(buffer)'
  <2>1. Len(buffer') < maxMQTTFixedHeaderSize
    BY <1>2, <1>4 DEF maxMQTTFixedHeaderSize
  <2>2. \A n \in 2..Len(buffer') :
          buffer'[n] >= Radix \/ (n = 2 /\ Current' \in passedOver')
    BY <1>2, <1>3, <1>5
  <2> QED BY <2>1, <2>2 DEF HeaderSoFar
<1>7. InsideMessage'
  BY <1>2, <1>6 DEF InsideMessage
<1>8. Stream' = Stream
  <2>1. Stream' = (bytes \o <<>>) \o wire
    BY <1>2 DEF Stream
  <2> QED BY <1>1, <2>1, ConcatEmptySeq
<1>9. Reading'
  BY <1>2, <1>7, <1>8 DEF Reading
<1>10. TypesOK' /\ FramedAsSent'
  BY <1>1, <1>2, EmptySeq DEF TypesOK, FramedAsSent
<1> QED BY <1>2, <1>9, <1>10 DEF Framing

LEMMA ReadKeepsFraming ==
  ASSUME Framing, ReadMessageData
  PROVE  Framing'
<1> DEFINE bytes == buffer \o socket
           ends == HeaderEnds(bytes, Len(buffer))
<1>1. PICK all : all = bytes
  OBVIOUS
<1>2. /\ ~terminated /\ ~overrun /\ socket # <<>>
      /\ passedOver' = IF PassesOverSecond THEN passedOver \cup {Current} ELSE passedOver
      /\ \/ messageSizeKnown /\ ReadRest(all, Len(buffer), messageSize)
         \/ ~messageSizeKnown /\ HeaderEnds(all, Len(buffer)) # {}
              /\ ReadKnowingHeader(all, Min(HeaderEnds(all, Len(buffer))))
         \/ ~messageSizeKnown /\ HeaderEnds(all, Len(buffer)) = {} /\ ReadMoreOfHeader(all)
      /\ UNCHANGED <<sent, wire>>
  BY <1>1 DEF ReadMessageData, Current
<1>3. TypesOK /\ FramedAsSent /\ Reading
  BY <1>2 DEF Framing
<1>4. PICK passed : passed = passedOver'
  OBVIOUS
<1>5. passedOver \subseteq passed /\ (PassesOverSecond => Current \in passed)
  BY <1>2, <1>4
<1> QED BY <1>1, <1>2, <1>3, <1>4, <1>5, KnownSizeRead, HeaderRead, HeaderGoesOn

-----------------------------------------------------------------------------
(* The client and the network *)

LEMMA Associates ==
  ASSUME NEW a \in Seq(Nat), NEW b \in Seq(Nat), NEW c \in Seq(Nat)
  PROVE  (a \o b) \o c = a \o (b \o c)
BY ConcatAssociative

\* Where the cuts are makes no difference.
LEMMA Regrouped ==
  ASSUME NEW a \in Seq(Nat), NEW b \in Seq(Nat), NEW c \in Seq(Nat), NEW d \in Seq(Nat)
  PROVE  /\ (a \o b) \o (c \o d) = ((a \o b) \o c) \o d
         /\ (a \o (b \o c)) \o d = (a \o b) \o (c \o d)
<1>1. (a \o b) \o c = a \o (b \o c)
  BY Associates, Zenon
<1>2. a \o b \in Seq(Nat)
  BY ConcatProperties
<1>3. ((a \o b) \o c) \o d = (a \o b) \o (c \o d)
  BY <1>2, Associates, Zenon
<1> QED BY <1>1, <1>3, Zenon

LEMMA SendKeepsFraming ==
  ASSUME Framing, NEW m \in Messages, ClientSends(m)
  PROVE  Framing'
<1>1. /\ TypesOK /\ FramedAsSent
      /\ sent \in Seq(Messages) /\ wire \in Seq(Nat) /\ socket \in Seq(Nat) /\ buffer \in Seq(Nat)
      /\ Len(sent) \in Nat /\ Len(received) \in Nat /\ Bytes(m) \in Seq(Nat)
  BY LenProperties, BytesShape DEF Framing, TypesOK
<1>2. /\ sent' = Append(sent, m)
      /\ wire' = wire \o Bytes(m)
      /\ socket' = socket /\ buffer' = buffer /\ messageSizeKnown' = messageSizeKnown
      /\ messageSize' = messageSize /\ received' = received /\ terminated' = terminated
      /\ overrun' = overrun /\ passedOver' = passedOver
  BY DEF ClientSends
<1>3. /\ sent' \in Seq(Messages) /\ Len(sent') = Len(sent) + 1
      /\ \A i \in 1..Len(sent) : sent'[i] = sent[i]
  BY <1>1, <1>2, AppendProperties
<1>4. TypesOK'
  <2>1. wire' \in Seq(Nat)
    BY <1>1, <1>2, ConcatProperties
  <2> QED BY <1>1, <1>2, <1>3, <2>1 DEF TypesOK
<1>5. FramedAsSent'
  <2> SUFFICES ASSUME ~overrun
               PROVE  FramedAsSent'
    BY <1>2 DEF FramedAsSent
  <2>1. Len(received) <= Len(sent)
    BY <1>1 DEF FramedAsSent
  <2>2. ASSUME NEW i \in 1..Len(received)
        PROVE  received[i] = Bytes(sent'[i])
    <3>1. i \in 1..Len(sent)
      BY <1>1, <2>1
    <3> QED BY <1>1, <1>3, <3>1 DEF FramedAsSent
  <2> QED BY <1>1, <1>2, <1>3, <2>1, <2>2 DEF FramedAsSent
<1>6. MissesTheEnd(Current) => MissesTheEnd(Current)'
  <2>1. Current' = Current /\ Current \in Nat /\ Current >= 1
    BY <1>1, <1>2 DEF Current
  <2>2. Current <= Len(sent) => Current' <= Len(sent') /\ sent'[Current] = sent[Current]
    BY <1>1, <1>3, <2>1
  <2> QED BY <1>2, <2>1, <2>2 DEF MissesTheEnd
<1>7. ASSUME ~terminated, ~overrun
      PROVE  Reading'
  <2>1. Reading
    BY <1>7 DEF Framing
  <2>2. /\ Len(received) <= Len(sent) /\ Carries(Stream, sent, Len(received)) /\ InsideMessage
    BY <2>1 DEF Reading
  <2>3. Stream' = Stream \o Bytes(m) /\ Stream \in Seq(Nat)
    <3>1. Stream' = (buffer \o socket) \o (wire \o Bytes(m))
      BY <1>2 DEF Stream
    <3>2. Stream \in Seq(Nat)
      <4> DEFINE read == buffer \o socket
      <4>1. read \in Seq(Nat)
        BY <1>1, ConcatProperties
      <4> HIDE DEF read
      <4>2. read \o wire \in Seq(Nat)
        BY <1>1, <4>1, ConcatProperties
      <4> QED BY <4>2 DEF read, Stream
    <3>3. Stream \o Bytes(m) = ((buffer \o socket) \o wire) \o Bytes(m)
      BY DEF Stream
    <3>4. (buffer \o socket) \o (wire \o Bytes(m)) = ((buffer \o socket) \o wire) \o Bytes(m)
      BY <1>1, Regrouped
    <3> QED BY <3>1, <3>2, <3>3, <3>4
  <2>4. Carries(Stream', sent', Len(received'))
    BY <1>1, <1>2, <2>2, <2>3, OneMoreCarried
  <2>5. Len(received') <= Len(sent')
    BY <1>1, <1>2, <1>3, <2>2
  <2>6. Current' = Current /\ Current \in Nat /\ Current >= 1
    BY <1>1, <1>2 DEF Current
  <2>7. Current <= Len(sent) => Current' <= Len(sent') /\ CurrentBytes' = CurrentBytes
    <3>1. Current <= Len(sent) => Current <= Len(sent') /\ sent'[Current] = sent[Current]
      BY <1>1, <1>3, <2>6
    <3>2. sent'[Current] = sent[Current] => CurrentBytes' = CurrentBytes
      BY <2>6 DEF CurrentBytes
    <3> QED BY <2>6, <3>1, <3>2
  <2>8. MissesTheEnd(Current) => MissesTheEnd(Current)'
    BY <1>6
  <2>9. InsideMessage'
    <3>1. CASE messageSizeKnown
      BY <1>2, <2>2, <2>7, <2>8, <3>1 DEF InsideMessage
    <3>2. CASE ~messageSizeKnown
      BY <1>2, <2>2, <2>6, <3>2 DEF InsideMessage, HeaderSoFar
    <3> QED BY <3>1, <3>2
  <2> QED BY <2>4, <2>5, <2>9 DEF Reading
<1>8. MissedTheEnd => MissedTheEnd'
  BY <1>1, <1>2, <1>3, <1>6 DEF MissedTheEnd
<1> QED BY <1>2, <1>4, <1>5, <1>7, <1>8 DEF Framing

LEMMA ChunkKeepsFraming ==
  ASSUME Framing, NEW size \in 1..Len(wire), ChunkArrives(size)
  PROVE  Framing'
<1> DEFINE chunk == SubSeq(wire, 1, size)
           rest == SubSeq(wire, size + 1, Len(wire))
<1>1. /\ TypesOK /\ FramedAsSent
      /\ wire \in Seq(Nat) /\ socket \in Seq(Nat) /\ buffer \in Seq(Nat)
  BY DEF Framing, TypesOK
<1>2. chunk \in Seq(Nat) /\ rest \in Seq(Nat) /\ chunk \o rest = wire
  <2>1. size \in 0..Len(wire)
    BY <1>1, LenProperties
  <2> QED BY <1>1, <2>1, Cut
<1> HIDE DEF chunk, rest
<1>3. /\ socket' = socket \o chunk /\ wire' = rest
      /\ sent' = sent /\ buffer' = buffer /\ messageSizeKnown' = messageSizeKnown
      /\ messageSize' = messageSize /\ received' = received /\ terminated' = terminated
      /\ overrun' = overrun /\ passedOver' = passedOver
  BY DEF ChunkArrives, chunk, rest
<1>4. TypesOK'
  <2>1. socket' \in Seq(Nat)
    BY <1>1, <1>2, <1>3, ConcatProperties
  <2> QED BY <1>1, <1>2, <1>3, <2>1 DEF TypesOK
<1>5. FramedAsSent'
  BY <1>1, <1>3 DEF FramedAsSent
<1>6. Stream' = Stream
  <2>1. Stream' = (buffer \o (socket \o chunk)) \o rest
    BY <1>3 DEF Stream
  <2>2. (buffer \o (socket \o chunk)) \o rest = (buffer \o socket) \o (chunk \o rest)
    <3> DEFINE Same(a, b, c, d) == (a \o (b \o c)) \o d = (a \o b) \o (c \o d)
    <3>1. \A a, b, c, d \in Seq(Nat) : Same(a, b, c, d)
      BY Regrouped, Zenon
    <3>2. buffer \in Seq(Nat) /\ socket \in Seq(Nat) /\ chunk \in Seq(Nat) /\ rest \in Seq(Nat)
      BY <1>1, <1>2
    <3> HIDE DEF Same
    <3>3. Same(buffer, socket, chunk, rest)
      BY <3>1, <3>2
    <3> QED BY <3>3, Zenon DEF Same
  <2> QED BY <1>2, <2>1, <2>2 DEF Stream
<1>7. InsideMessage' = InsideMessage
  BY <1>3 DEF InsideMessage, HeaderSoFar, MissesTheEnd, Current, CurrentBytes
<1>8. MissedTheEnd' = MissedTheEnd
  BY <1>3 DEF MissedTheEnd, MissesTheEnd, Current
<1> QED BY <1>3, <1>4, <1>5, <1>6, <1>7, <1>8 DEF Framing, Reading

-----------------------------------------------------------------------------
(* Theorems *)

\* MQTTConnection.cpp: the buffer, the bytes available and those under way are
\* what is left of the client's messages, from the beginning of the one that
\* readMessageData is in; of it, the reader knows the right size or has seen
\* nothing that ends the header.  So the messages it handed on are those that
\* were sent, wherever TCP cuts the stream.
THEOREM AlwaysFraming == Spec => []Framing
<1>1. Init => Framing
  <2> SUFFICES ASSUME Init
               PROVE  Framing
    OBVIOUS
  <2>1. TypesOK /\ FramedAsSent
    <3>1. <<>> \in Seq(Messages) /\ <<>> \in Seq(Nat) /\ <<>> \in Seq(Seq(Nat))
      BY EmptySeq
    <3>2. Len(<<>>) = 0 /\ \A i \in 1..0 : FALSE
      OBVIOUS
    <3>3. TypesOK
      BY <3>1 DEF Init, TypesOK
    <3>4. FramedAsSent
      BY <3>2 DEF Init, FramedAsSent
    <3> QED BY <3>3, <3>4
  <2>2. Stream = <<>>
    <3>1. Stream = (<<>> \o <<>>) \o <<>>
      BY DEF Init, Stream
    <3>2. <<>> \in Seq(Nat)
      BY EmptySeq
    <3> QED BY <3>1, <3>2, ConcatEmptySeq
  <2>3. Len(received) = 0 /\ Len(sent) = 0
    BY DEF Init
  <2>4. Carries(Stream, sent, Len(received))
    BY <2>2, <2>3, NothingCarried DEF Init
  <2>5. InsideMessage
    BY DEF Init, InsideMessage
  <2>6. ~overrun
    BY DEF Init
  <2> QED BY <2>1, <2>3, <2>4, <2>5, <2>6 DEF Framing, Reading
<1>2. Framing /\ [Next]_vars => Framing'
  <2> SUFFICES ASSUME Framing, [Next]_vars
               PROVE  Framing'
    OBVIOUS
  <2>1. CASE UNCHANGED vars
    BY <2>1 DEF vars, Framing, TypesOK, FramedAsSent, Reading, Stream, InsideMessage,
                HeaderSoFar, MissesTheEnd, MissedTheEnd, Current, CurrentBytes
  <2>2. CASE Next
    BY <2>2, SendKeepsFraming, ChunkKeepsFraming, ReadKeepsFraming DEF Next
  <2> QED BY <2>1, <2>2
<1> QED BY <1>1, <1>2, PTL DEF Spec

\* MQTTConnection.cpp, messageReceived gets the messages the client sent, in order
\* and byte by byte.
THEOREM AlwaysFramedAsSent == Spec => []FramedAsSent
<1>1. Framing => FramedAsSent
  BY DEF Framing
<1> QED BY <1>1, AlwaysFraming, PTL

LEMMA FramingBoundsReads == Framing => ReadsPastMissedEndsOnly
<1> SUFFICES ASSUME Framing, buffer # <<>>, ~terminated, ~overrun
             PROVE  /\ Len(received) < Len(sent)
                    /\ \/ /\ Len(buffer) < Len(CurrentBytes)
                          /\ buffer = SubSeq(CurrentBytes, 1, Len(buffer))
                       \/ MissesTheEnd(Current)
  BY DEF ReadsPastMissedEndsOnly, Framing, MissedTheEnd, CurrentBytes, Current
<1> DEFINE bytes == buffer \o socket
           m == sent[Current]
<1>1. TypesOK /\ Reading /\ buffer \in Seq(Nat)
  BY DEF Framing, TypesOK
<1>2. bytes # <<>>
  <2>1. Len(bytes) = Len(buffer) + Len(socket) /\ Len(buffer) \in Nat /\ Len(socket) \in Nat
    BY ConcatProperties, LenProperties DEF Framing, TypesOK
  <2>2. Len(buffer) # 0
    BY <1>1, EmptySeq
  <2>3. Len(bytes) # 0
    BY <2>1, <2>2
  <2> QED BY <2>3, Len(<<>>) = 0
<1>3. /\ Len(bytes) = Len(buffer) + Len(socket)
      /\ Len(buffer) \in Nat /\ Len(socket) \in Nat
      /\ \A j \in 1..Len(buffer) : bytes[j] = buffer[j]
      /\ Len(received) < Len(sent)
      /\ Current \in 1..Len(sent) /\ Len(sent) \in Nat /\ m \in Messages
      /\ CurrentBytes \in Seq(Nat) /\ Len(CurrentBytes) \in Nat /\ Len(CurrentBytes) >= 2
      /\ \A j \in 1..Len(bytes) : j <= Len(CurrentBytes) => bytes[j] = CurrentBytes[j]
  BY <1>1, <1>2, UnderWay
<1> HIDE DEF bytes
<1>4. \A j \in 1..Len(buffer) : j <= Len(CurrentBytes) => buffer[j] = CurrentBytes[j]
  <2>1. \A j \in 1..Len(buffer) : j \in 1..Len(bytes)
    BY <1>3
  <2> QED BY <1>3, <2>1
<1>5. ASSUME Len(buffer) < Len(CurrentBytes)
      PROVE  buffer = SubSeq(CurrentBytes, 1, Len(buffer))
  <2> DEFINE begun == SubSeq(CurrentBytes, 1, Len(buffer))
  <2>1. Len(buffer) \in 0..Len(CurrentBytes)
    BY <1>3, <1>5
  <2>2. /\ begun \in Seq(Nat) /\ Len(begun) = Len(buffer)
        /\ \A i \in 1..Len(buffer) : begun[i] = CurrentBytes[i]
    BY <1>3, <2>1, Cut
  <2> HIDE DEF begun
  <2>3. \A i \in 1..Len(buffer) : i <= Len(CurrentBytes)
    BY <1>3, <1>5
  <2>4. buffer = begun
    BY <1>1, <1>4, <2>2, <2>3, SeqEqual
  <2> QED BY <2>4 DEF begun
<1>6. CASE messageSizeKnown
  <2>1. /\ Len(buffer) # Len(CurrentBytes)
        /\ Len(buffer) > Len(CurrentBytes) => MissesTheEnd(Current)
    BY <1>1, <1>6 DEF Reading, InsideMessage
  <2>2. Len(buffer) < Len(CurrentBytes) \/ Len(buffer) > Len(CurrentBytes)
    BY <1>3, <2>1
  <2> QED BY <1>3, <1>5, <2>1, <2>2
<1>7. CASE ~messageSizeKnown /\ Len(buffer) >= Len(CurrentBytes)
  <2>1. /\ Len(buffer) < 5
        /\ \A n \in 2..Len(buffer) :
             buffer[n] >= Radix \/ (n = 2 /\ Current \in passedOver)
    BY <1>1, <1>7 DEF Reading, InsideMessage, HeaderSoFar, maxMQTTFixedHeaderSize
  <2>2. Len(CurrentBytes) < 5
    BY <1>3, <1>7, <2>1
  <2> HIDE DEF m
  <2>3. Digits(m) = 1
    <3>1. /\ Len(CurrentBytes) = 1 + Digits(m) + m.length
          /\ Digits(m) \in 1..3 /\ m.length \in Nat
          /\ Digits(m) = 2 => m.length >= Radix
          /\ Digits(m) = 3 => m.length >= Radix * Radix
          /\ Radix \in Nat /\ Radix > 1 /\ Radix * Radix \in Nat /\ Radix * Radix >= 2 * Radix
      BY <1>3, BytesShape, RemainingLengthShape, MessageTypes, RadixFacts DEF CurrentBytes, m
    <3> QED BY <2>2, <3>1
  <2>4. buffer[2] < Radix
    <3>1. 2 \in 1..Len(buffer) /\ 2 <= Len(CurrentBytes)
      BY <1>3, <1>7
    <3>2. buffer[2] = CurrentBytes[2]
      BY <1>4, <3>1
    <3>3. CurrentBytes[1 + 1] = RemainingLength(m.length)[1] /\ 1 + 1 = 2
      <4>1. 1 \in 1..Digits(m)
        BY <2>3
      <4>2. \A i \in 1..Digits(m) : CurrentBytes[1 + i] = RemainingLength(m.length)[i]
        BY <1>3, BytesShape DEF CurrentBytes, m
      <4>3. CurrentBytes[1 + 1] = RemainingLength(m.length)[1]
        BY <4>1, <4>2
      <4> QED BY <4>3
    <3>4. RemainingLength(m.length)[1] < Radix
      <4>1. m \in Messages
        BY <1>3 DEF m
      <4> QED BY <2>3, <4>1, RemainingLengthShape
    <3> QED BY <3>2, <3>3, <3>4
  <2>5. Current \in passedOver
    <3> DEFINE second == buffer[2]
    <3>1. 2 \in 2..Len(buffer) /\ 2 \in 1..Len(buffer)
      BY <1>3, <1>7
    <3>2. second \in Nat /\ Radix \in Nat /\ second < Radix
      BY <1>1, <2>4, <3>1, RadixAssumption, ElementOfSeq
    <3> HIDE DEF second
    <3>3. ~(second >= Radix)
      BY <3>2
    <3> QED BY <2>1, <3>1, <3>3 DEF second
  <2>6. ASSUME NEW k \in 3..Len(CurrentBytes)
        PROVE  CurrentBytes[k] >= Radix
    <3>1. k \in 2..Len(buffer) /\ k # 2 /\ k \in 1..Len(buffer) /\ k <= Len(CurrentBytes)
      BY <1>3, <1>7
    <3> QED BY <1>4, <2>1, <3>1
  <2>7. Current <= Len(sent)
    BY <1>3
  <2>8. MissesTheEnd(Current)
    BY <2>2, <2>5, <2>6, <2>7
       DEF MissesTheEnd, CurrentBytes, maxMQTTFixedHeaderSize, minMQTTFixedHeaderSize
  <2> QED BY <1>3, <2>8
<1>8. Len(buffer) < Len(CurrentBytes) \/ Len(buffer) >= Len(CurrentBytes)
  BY <1>3
<1> QED BY <1>3, <1>5, <1>6, <1>7, <1>8

\* MQTTConnection.cpp, readMessageData: what is in the buffer is the beginning of
\* the message the client is sending and never all of it, and nothing is written
\* past the buffer, but for a message that came in such pieces that its end is missed.
THEOREM AlwaysReadsPastMissedEndsOnly == Spec => []ReadsPastMissedEndsOnly
BY AlwaysFraming, FramingBoundsReads, PTL

=============================================================================
