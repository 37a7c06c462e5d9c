-------------------------- MODULE MCMQTTMessages ----------------------------
(* Bytes of three bits; messages well-formed, cut, altered and at their limits. *)
EXTENDS MQTTMessages

Speed == <<1>>
Depth == <<1, 2>>
TwoTopics == <<Speed, Depth>>
\* The filter <<2>> is a wildcard.
AllStands == {<<Speed, Speed>>, <<Depth, Depth>>, <<<<2>>, Speed>>, <<<<2>>, Depth>>}
TwoValues == {<<>>, <<3, 1, 2>>}
OneIsSet == {[topic \in {Speed} |-> <<3, 1, 2>>]}

String(s) == <<Len(s) \div ByteRange, Len(s) % ByteRange>> \o s

\* Filters of one topic, of both, of none, with a zero, too long, and so long that
\* the length has a high byte; as many as a SUBACK can answer, and one more.
LongFilter == [i \in 1..(ByteRange + 1) |-> 1]
FilterLists ==
  {<<Speed>>, <<<<3>>, <<2>>>>, <<<<1, 0>>, Depth>>, <<<<1, 2, 1>>, Speed, <<3>>>>, <<LongFilter, Speed>>}
    \cup {[i \in 1..n |-> IF i % 2 = 0 THEN <<3>> ELSE Speed] : n \in {ByteRange - 3, ByteRange - 2}}

\* Pieces of two entries cut anywhere, with a byte more or a byte of length altered.
Altered(payloads) ==
  UNION {{SubSeq(p, 1, n) : n \in 0..Len(p)} \cup {Append(p, b) : b \in 0..3}
           \cup {[p EXCEPT ![2] = b] : b \in 0..4} \cup {[p EXCEPT ![1] = 1]} : p \in payloads}

AnyBytes == UNION {[1..n -> 0..3] : n \in 0..3}

SubscribePayload(filters, qos) == FlattenSeq([i \in DOMAIN filters |-> Append(String(filters[i]), qos)])
UnsubscribePayload(filters) == FlattenSeq([i \in DOMAIN filters |-> String(filters[i])])

\* Payloads that are no such message: empty strings are not topic filters.
NoSubscribe ==
  LET p == AnyBytes \cup Altered({SubscribePayload(<<f, g>>, q) : f, g \in {Speed, <<1, 0>>}, q \in {0, 3}})
  IN {bytes \in p : ~CutsInto(bytes, 1..Len(bytes), QoSTails, 1)}
NoUnsubscribe ==
  LET p == AnyBytes \cup Altered({UnsubscribePayload(<<f, g>>) : f, g \in {Speed, <<1, 0>>}})
  IN {bytes \in p : ~CutsInto(bytes, 1..Len(bytes), NoTail, 1)}
EmptyFilters == {<<>>, <<Speed, <<>>>>, <<<<>>, Speed>>}

WithPacket(flags, whole, packetId, payload, says) ==
  [flags |-> flags, whole |-> whole, packetId |-> packetId, payload |-> payload, says |-> says]

PacketID == ByteRange + 2
BadHeader(payload) ==
  {WithPacket(0, TRUE, 1, payload, <<>>), WithPacket(2, TRUE, 0, payload, <<>>),
   WithPacket(2, FALSE, 1, <<>>, <<>>)}

Subscribes ==
  {WithPacket(2, TRUE, PacketID, SubscribePayload(filters, Len(filters) % 3), filters) :
     filters \in FilterLists}
  \cup {WithPacket(2, TRUE, 1, bytes, <<>>) :
          bytes \in NoSubscribe \cup {SubscribePayload(f, 1) : f \in EmptyFilters}}
  \cup BadHeader(SubscribePayload(<<Speed>>, 0))

Unsubscribes ==
  {WithPacket(2, TRUE, PacketID, UnsubscribePayload(filters), filters) :
     filters \in FilterLists}
  \cup {WithPacket(2, TRUE, 1, bytes, <<>>) :
          bytes \in NoUnsubscribe \cup {UnsubscribePayload(f) : f \in EmptyFilters}}
  \cup BadHeader(UnsubscribePayload(<<Speed>>))

-----------------------------------------------------------------------------

Plain ==
  [flags |-> 0, whole |-> TRUE, named |-> TRUE, reserved |-> FALSE, level |-> 4,
   cleanSession |-> TRUE, will |-> FALSE, willQoS |-> 0, willRetain |-> FALSE,
   userName |-> FALSE, password |-> FALSE]
WithWill == [Plain EXCEPT !.will = TRUE, !.willQoS = 2, !.willRetain = TRUE]

\* Headers a CONNECT may have, with the number of strings that follow.
GoodHeaders ==
  {<<Plain, 1>>, <<[Plain EXCEPT !.cleanSession = FALSE], 1>>, <<[Plain EXCEPT !.level = 3], 1>>,
   <<WithWill, 3>>, <<[Plain EXCEPT !.userName = TRUE], 2>>, <<[Plain EXCEPT !.password = TRUE], 2>>,
   <<[WithWill EXCEPT !.userName = TRUE, !.password = TRUE], 5>>}
BadHeaders ==
  {[Plain EXCEPT !.flags = 1], [Plain EXCEPT !.whole = FALSE], [Plain EXCEPT !.named = FALSE],
   [Plain EXCEPT !.reserved = TRUE], [Plain EXCEPT !.willQoS = 1], [Plain EXCEPT !.willRetain = TRUE],
   [WithWill EXCEPT !.willQoS = 3]}

StringLists ==
  {[i \in 1..n |-> IF i % 2 = k THEN <<>> ELSE <<1>>] : n \in 1..5, k \in {0, 1}}
    \cup {<<<<1, 1>>>>, <<<<1, 1, 1>>>>}
ConnectPayload(strings) == UnsubscribePayload(strings)
ConnectPayloads ==
  {ConnectPayload(s) : s \in StringLists} \cup AnyBytes
    \cup Altered({ConnectPayload(<<<<1>>, <<>>, <<1>>>>)})

\* Short enough to try every way of cutting them.
Comparable == {p \in ConnectPayloads : Len(p) <= 11}

Connects ==
  {[flags |-> h.flags, whole |-> h.whole, named |-> h.named, reserved |-> h.reserved,
    level |-> h.level, cleanSession |-> h.cleanSession, will |-> h.will, willQoS |-> h.willQoS,
    willRetain |-> h.willRetain, userName |-> h.userName, password |-> h.password,
    payload |-> p, says |-> <<>>] : h \in BadHeaders, p \in {ConnectPayload(<<<<1>>>>)}}
  \cup
  {[flags |-> h[1].flags, whole |-> TRUE, named |-> TRUE, reserved |-> FALSE,
    level |-> h[1].level, cleanSession |-> h[1].cleanSession, will |-> h[1].will,
    willQoS |-> h[1].willQoS, willRetain |-> h[1].willRetain, userName |-> h[1].userName,
    password |-> h[1].password, payload |-> p,
    says |-> IF CutsInto(p, {h[2]}, NoTail, 0) THEN <<p>> ELSE <<>>] :
    h \in GoodHeaders, p \in Comparable}

Others ==
  {[type |-> t, flags |-> 0, payload |-> <<>>] : t \in 0..15 \ {1, 8, 10}}
    \cup {[type |-> PINGREQ, flags |-> 1, payload |-> <<>>], [type |-> PINGREQ, flags |-> 0, payload |-> <<0>>]}

=============================================================================
