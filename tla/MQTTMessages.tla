---------------------------- MODULE MQTTMessages ----------------------------
(***************************************************************************)
(* What the broker makes of the bytes of a message, and what its client    *)
(* makes of the bytes of the answers: the parsers of CONNECT, SUBSCRIBE    *)
(* and UNSUBSCRIBE, whose cursors move over strings with lengths of their  *)
(* own, and the writing of messages, field by field, to a socket that may  *)
(* take only the beginning of one.  One connection, from its opening on.   *)
(*                                                                         *)
(* A byte is less than ByteRange (256).  A received message is what        *)
(* follows its type: flags, a variable header (fields instead of bytes)    *)
(* and the payload, byte by byte; `says' is what the client means by it,   *)
(* <<>> if it is not such a message at all.  Tables and timers of the      *)
(* broker are in MQTTBroker, the cutting of the stream is MQTTConnection.  *)
(***************************************************************************)
EXTENDS Naturals, SequencesExt

CONSTANTS
  ByteRange,
  maxTopicFilterLength, maxMQTTClientIDLength,
  Topics,              \* the leaves in the order of the tree, each once
  Stands,              \* pairs of a topic filter and a topic it matches
  Values,              \* values of leaves
  RetainedBefore,      \* values the leaves may have when the client comes
  ConnectMessages, SubscribeMessages, UnsubscribeMessages, OtherMessages,
  MaxMessages,         \* bound on the messages the client sends
  MaxUpdates,          \* bound on the values set while it is there
  MaxUnread            \* bound on the bytes after a message cut short

ASSUME ByteAssumption == ByteRange \in Nat /\ ByteRange > 3
ASSUME TopicsAssumption == \A i \in DOMAIN Topics : 0 \notin {Topics[i][k] : k \in DOMAIN Topics[i]}
ASSUME BoundsAssumption ==
  {maxTopicFilterLength, maxMQTTClientIDLength, MaxMessages, MaxUpdates, MaxUnread} \subseteq Nat

VARIABLES
  open, hasSession,    \* the connection is up; MQTTConnection::mqttSession
  subscribed,          \* topics the session is subscribed to
  retained,            \* the value of each topic that has one
  toClient,            \* bytes the socket took
  readable,            \* how many of them came before a message was cut short
  half,                \* was one?
  asked,               \* what the client sent and is to be answered
  published,           \* values the data model handed over for this client
  updates,             \* number of values set
  judged               \* was the last message what it should be, and was it accepted?

vars == <<open, hasSession, subscribed, retained, toClient, readable, half, asked,
          published, updates, judged>>

CONNECT == 1
CONNACK == 2
PUBLISH == 3
SUBSCRIBE == 8
SUBACK == 9
UNSUBSCRIBE == 10
UNSUBACK == 11
PINGREQ == 12
PINGRESP == 13
DISCONNECT == 14

ServerOnly == {CONNACK, SUBACK, UNSUBACK, PINGRESP}
Reserved == {0, 15}

Init ==
  /\ open = TRUE
  /\ hasSession = FALSE
  /\ subscribed = {}
  /\ retained \in RetainedBefore
  /\ toClient = <<>> /\ readable = 0 /\ half = FALSE
  /\ asked = <<>> /\ published = <<>> /\ updates = 0
  /\ judged = [wellFormed |-> FALSE, accepted |-> FALSE]

\* The elements of a sequence that are in the set, in their order.
Only(seq, set) ==
  LET only[n \in 0..Len(seq)] ==
        IF n = 0 THEN <<>>
        ELSE IF seq[n] \in set THEN Append(only[n - 1], seq[n]) ELSE only[n - 1]
  IN only[Len(seq)]

-----------------------------------------------------------------------------
(* Strings: two bytes of length, then the characters *)

\* MQTTString::length
LengthAt(bytes, pos) == bytes[pos] * ByteRange + bytes[pos + 1]

StringAt(bytes, pos) == SubSeq(bytes, pos + 2, pos + 1 + LengthAt(bytes, pos))

\* Slip: a string may not end with the message.
AfterStringButLast(bytes, pos) ==
  LET remaining == Len(bytes) - pos + 1
  IN IF remaining < 2 \/ 2 + LengthAt(bytes, pos) >= remaining THEN {}
     ELSE {pos + 2 + LengthAt(bytes, pos)}

\* MQTTMessage::parseString: the position after the string, if there is room for it.
AfterString(bytes, pos) ==
  LET remaining == Len(bytes) - pos + 1
  IN IF remaining < 2 \/ 2 + LengthAt(bytes, pos) > remaining THEN {}
     ELSE {pos + 2 + LengthAt(bytes, pos)}

\* The position after as many strings, if they all fit.
AfterStrings(bytes, number) ==
  LET after[n \in 0..number] ==
        IF n = 0 THEN {1} ELSE UNION {AfterString(bytes, pos) : pos \in after[n - 1]}
  IN after[number]

\* The position after a topic filter that is not empty and, in a SUBSCRIBE, a QoS.
AfterTopicFilter(bytes, pos, withQoS) ==
  LET ends == {end \in AfterString(bytes, pos) : end > pos + 2}
  IN IF withQoS THEN {end + 1 : end \in {e \in ends : e <= Len(bytes) /\ bytes[e] <= 2}}
     ELSE ends

\* How many topic filters the loop of parse() counts, if it comes to the end of the payload.
CountTopicFilters(bytes, withQoS) ==
  LET CountFrom[pos \in 1..(Len(bytes) + 1)] ==
        IF pos = Len(bytes) + 1 THEN {0}
        ELSE UNION {{n + 1 : n \in CountFrom[next]} : next \in AfterTopicFilter(bytes, pos, withQoS)}
  IN IF bytes = <<>> THEN {} ELSE CountFrom[1]

\* getTopicFilter walks over the payload a second time, without checks.
TopicFilter(bytes, withQoS, i) ==
  LET start[n \in 1..i] ==
        IF n = 1 THEN 1
        ELSE LET last == start[n - 1]
             IN last + 2 + LengthAt(bytes, last) + (IF withQoS THEN 1 ELSE 0)
  IN StringAt(bytes, start[i])

\* MQTTString::copyTo, to a C string: it ends with the first zero.
CString(string) ==
  LET zeros == {i \in DOMAIN string : string[i] = 0}
  IN IF zeros = {} THEN string ELSE SubSeq(string, 1, Min(zeros) - 1)

-----------------------------------------------------------------------------
(* The parsers *)

\* MQTTConnectMessage::parse
ParsesConnect(m) ==
  /\ m.flags = 0 /\ m.whole
  /\ m.named /\ ~m.reserved
  /\ IF m.will THEN m.willQoS <= 2 ELSE m.willQoS = 0 /\ ~m.willRetain
  /\ LET strings == 1 + (IF m.will THEN 2 ELSE 0) + (IF m.userName THEN 1 ELSE 0)
                      + (IF m.password THEN 1 ELSE 0)
     IN AfterStrings(m.payload, strings) = {Len(m.payload) + 1}

ClientID(m) == StringAt(m.payload, 1)

\* What sanityCheck and connectMessageReceived ask of a CONNECT, in their order,
\* and the return code of the CONNACK if it is not so.
Checks(m) ==
  <<<<m.level = 4, 1>>,
    <<ClientID(m) # <<>> \/ m.cleanSession, 2>>,
    <<~m.will, 3>>,
    <<~m.userName /\ ~m.password, 4>>,
    <<Len(ClientID(m)) <= maxMQTTClientIDLength, 2>>>>

ReturnCode(m) ==
  LET failing == {i \in DOMAIN Checks(m) : ~Checks(m)[i][1]}
  IN IF failing = {} THEN 0 ELSE Checks(m)[Min(failing)][2]

\* parse() of SUBSCRIBE and UNSUBSCRIBE: the number of topic filters.
ParseFilters(m, withQoS) ==
  IF m.flags = 2 /\ m.whole /\ m.packetId # 0
  THEN CountTopicFilters(m.payload, withQoS) ELSE {}

\* parse() of PINGREQ and DISCONNECT.
ParsesEmpty(m) == m.flags = 0 /\ m.payload = <<>>

-----------------------------------------------------------------------------
(* Writing *)

\* The digits of a remaining length, to the base of half a byte.
Radix == ByteRange \div 2

\* Slip: no digit says that another one follows.
RemainingLengthPlain(length) == <<length % ByteRange>>

\* mqttWriteRemainingLength
RemainingLength(length) ==
  LET Digits[n \in 0..length] ==
        IF n < Radix THEN <<n>> ELSE <<Radix + (n % Radix)>> \o Digits[n \div Radix]
  IN Digits[length]

\* mqttWriteUInt16
UInt16(n) == <<n \div ByteRange, n % ByteRange>>

Written(type, flags, length, body) == <<type * 16 + flags>> \o RemainingLength(length) \o body

ConnAck(sessionPresent, returnCode) ==
  Written(CONNACK, 0, 2, <<IF sessionPresent THEN 1 ELSE 0, returnCode>>)

PingResp == Written(PINGRESP, 0, 0, <<>>)

\* The number of results and the remaining length are bytes.
SubAck(packetId, results) ==
  Written(SUBACK, 0, (2 + Len(results)) % ByteRange, UInt16(packetId) \o results)

UnsubAck(packetId) == Written(UNSUBACK, 0, 2, UInt16(packetId))

\* sendMQTTPublishMessage, with QoS 0.
Publish(p) ==
  Written(PUBLISH, IF p.retain THEN 1 ELSE 0, Len(p.topic) + 2 + Len(p.value),
          UInt16(Len(p.topic)) \o p.topic \o p.value)

\* mqttSubscribeResult
SubscribeResult(success) == IF success THEN 0 ELSE ByteRange \div 2

\* Every write of every message is taken by the socket.
WriteAll(messages) ==
  /\ toClient' = toClient \o FlattenSeq(messages)
  /\ readable' = IF half THEN readable ELSE Len(toClient')
  /\ UNCHANGED half

\* The socket takes the first `size' bytes of message i only: the write that
\* falls short is the last one of that message, and the next message is written
\* all the same.
WriteCutting(messages, i, size) ==
  LET before == toClient \o FlattenSeq(SubSeq(messages, 1, i - 1))
  IN /\ ~half /\ half' = TRUE
     /\ readable' = Len(before)
     /\ toClient' = before \o SubSeq(messages[i], 1, size)
                      \o FlattenSeq(SubSeq(messages, i + 1, Len(messages)))

\* The bound on short writes is one.
Write(messages) ==
  \/ WriteAll(messages)
  \/ \E i \in DOMAIN messages : \E size \in 0..(Len(messages[i]) - 1) :
       WriteCutting(messages, i, size)

WriteNothing == UNCHANGED <<toClient, readable, half>>

-----------------------------------------------------------------------------
(* Handlers of messages *)

\* terminateConnection; what remains of the session is in MQTTBroker.
Terminate ==
  /\ open' = FALSE /\ hasSession' = FALSE
  /\ WriteNothing /\ UNCHANGED <<subscribed, published>>

Request(type, packetId, says) == [type |-> type, packetId |-> packetId, says |-> says]

Judge(wellFormed, accepted) == judged' = [wellFormed |-> wellFormed, accepted |-> accepted]

\* A CONNECT that is fine is answered by the tables: with a new session, an old
\* one, or a refusal because there is no room or the client has a connection.
ConnectAnswered(m) ==
  /\ UNCHANGED <<open, published>>
  /\ \/ /\ ReturnCode(m) # 0
        /\ Write(<<ConnAck(FALSE, ReturnCode(m))>>)
        /\ UNCHANGED <<hasSession, subscribed>>
     \/ /\ ReturnCode(m) = 0
        /\ Write(<<ConnAck(FALSE, 3)>>)
        /\ UNCHANGED <<hasSession, subscribed>>
     \/ /\ ReturnCode(m) = 0
        /\ Write(<<ConnAck(FALSE, 0)>>)
        /\ hasSession' = TRUE /\ subscribed' = {}
     \/ /\ ReturnCode(m) = 0
        /\ Write(<<ConnAck(~m.cleanSession, 0)>>)
        /\ hasSession' = TRUE /\ subscribed' \in SUBSET Range(Topics)

\* connectMessageReceived.  After a second CONNECT the handler goes on with a
\* connection that is stopped, where nothing it writes arrives.
ConnectReceived(m) ==
  /\ asked' = Append(asked, Request(CONNECT, 0, <<>>))
  /\ Judge(m.says # <<>> /\ ~hasSession, ParsesConnect(m) /\ ~hasSession)
  /\ \/ (hasSession \/ ~ParsesConnect(m)) /\ Terminate
     \/ ~hasSession /\ ParsesConnect(m) /\ ConnectAnswered(m)

\* Slip: the limit of the string is taken to include its final zero.
TopicsOfShorter(filter) ==
  IF Len(filter) >= maxTopicFilterLength THEN <<>>
  ELSE Only(Topics, {topic \in Range(Topics) : <<CString(filter), topic>> \in Stands})

\* What one filter of a SUBSCRIBE comes to in the tree, in the order of the tree.
TopicsOf(filter) ==
  IF Len(filter) > maxTopicFilterLength THEN <<>>
  ELSE Only(Topics, {topic \in Range(Topics) : <<CString(filter), topic>> \in Stands})

\* A leaf sends a new subscriber the value it has, if it has been set.
RetainedPublishes(topics) ==
  LET set == Only(topics, DOMAIN retained)
  IN [i \in DOMAIN set |-> [topic |-> set[i], value |-> retained[set[i]], retain |-> TRUE]]

\* subscribeMessageReceived with as many topic filters.
Subscribe(m, number) ==
  LET filters == [i \in 1..number |-> TopicFilter(m.payload, TRUE, i)]
      results == [i \in 1..number |-> SubscribeResult(TopicsOf(filters[i]) # <<>>)]
      publishes == RetainedPublishes(FlattenSeq([i \in 1..number |-> TopicsOf(filters[i])]))
  IN /\ subscribed' = subscribed \cup UNION {Range(TopicsOf(filters[i])) : i \in 1..number}
     /\ published' = published \o publishes
     /\ Write([i \in DOMAIN publishes |-> Publish(publishes[i])] \o <<SubAck(m.packetId, results)>>)
     /\ UNCHANGED <<open, hasSession>>

SubscribeReceived(m) ==
  LET numbers == IF hasSession THEN ParseFilters(m, TRUE) ELSE {}
  IN /\ asked' = Append(asked, Request(SUBSCRIBE, m.packetId, m.says))
     /\ Judge(m.says # <<>> /\ hasSession, numbers # {})
     /\ \/ numbers = {} /\ Terminate
        \/ \E number \in numbers : Subscribe(m, number)

\* unsubscribeMessageReceived with as many topic filters.
Unsubscribe(m, number) ==
  LET filters == [i \in 1..number |-> TopicFilter(m.payload, FALSE, i)]
  IN /\ subscribed' = subscribed \ UNION {Range(TopicsOf(filters[i])) : i \in 1..number}
     /\ Write(<<UnsubAck(m.packetId)>>)
     /\ UNCHANGED <<open, hasSession, published>>

UnsubscribeReceived(m) ==
  LET numbers == IF hasSession THEN ParseFilters(m, FALSE) ELSE {}
  IN /\ asked' = Append(asked, Request(UNSUBSCRIBE, m.packetId, m.says))
     /\ Judge(m.says # <<>> /\ hasSession, numbers # {})
     /\ \/ numbers = {} /\ Terminate
        \/ \E number \in numbers : Unsubscribe(m, number)

PingRequestReceived(m) ==
  /\ m.type = PINGREQ
  /\ asked' = Append(asked, Request(PINGREQ, 0, <<>>))
  /\ \/ /\ ParsesEmpty(m) /\ hasSession
        /\ Write(<<PingResp>>)
        /\ UNCHANGED <<open, hasSession, subscribed, published>>
     \/ (~ParsesEmpty(m) \/ ~hasSession) /\ Terminate

\* DISCONNECT, in every case, and what no client may send.
ConnectionEnded(m) ==
  /\ m.type \in {DISCONNECT} \cup ServerOnly \cup Reserved
  /\ Terminate /\ UNCHANGED asked

\* PUBLISH and the messages of its higher qualities of service are not answered.
Unimplemented(m) ==
  /\ m.type \notin {PINGREQ, DISCONNECT} \cup ServerOnly \cup Reserved
  /\ WriteNothing /\ UNCHANGED <<open, hasSession, subscribed, published, asked>>

\* messageReceived, by the type of the message.
MessageReceived ==
  /\ open /\ Len(asked) < MaxMessages
  /\ Len(toClient) <= readable + MaxUnread
  /\ \/ \E m \in ConnectMessages : ConnectReceived(m)
     \/ \E m \in SubscribeMessages : SubscribeReceived(m)
     \/ \E m \in UnsubscribeMessages : UnsubscribeReceived(m)
     \/ \E m \in OtherMessages :
          /\ PingRequestReceived(m) \/ ConnectionEnded(m) \/ Unimplemented(m)
          /\ UNCHANGED judged
  /\ UNCHANGED <<retained, updates>>

\* A leaf is set: MQTTSession::publish, if the session is subscribed to it.
LeafSet(topic, value) ==
  /\ open /\ updates < MaxUpdates
  /\ Len(toClient) <= readable + MaxUnread
  /\ updates' = updates + 1
  /\ retained' = [t \in DOMAIN retained \cup {topic} |-> IF t = topic THEN value ELSE retained[t]]
  /\ \/ /\ hasSession /\ topic \in subscribed
        /\ LET p == [topic |-> topic, value |-> value, retain |-> FALSE]
           IN published' = Append(published, p) /\ Write(<<Publish(p)>>)
     \/ /\ ~hasSession \/ topic \notin subscribed
        /\ WriteNothing /\ UNCHANGED published
  /\ UNCHANGED <<open, hasSession, subscribed, asked, judged>>

Next ==
  \/ MessageReceived
  \/ \E topic \in Range(Topics), value \in Values : LeafSet(topic, value)

Spec == Init /\ [][Next]_vars

-----------------------------------------------------------------------------
(* What MQTT says, to compare with. *)

\* `bytes' can be cut behind each of `cuts' into that many pieces, each of which is
\* one string of a least length followed by one of the tails.
IsPiece(piece, tails, least) ==
  \E tail \in tails :
    LET size == Len(piece) - Len(tail)
    IN /\ size >= 2 + least /\ size = 2 + LengthAt(piece, 1)
       /\ SubSeq(piece, size + 1, Len(piece)) = tail

BeginBefore(cuts, cut) == Max({c \in cuts : c < cut} \cup {0})

CutsAt(bytes, cuts, tails, least) ==
  /\ Len(bytes) \in cuts
  /\ \A cut \in cuts : IsPiece(SubSeq(bytes, BeginBefore(cuts, cut) + 1, cut), tails, least)

CutsInto(bytes, numbers, tails, least) ==
  \E cuts \in SUBSET (1..Len(bytes)) :
    Cardinality(cuts) \in numbers /\ CutsAt(bytes, cuts, tails, least)

\* `bytes' are these strings, each behind its length and before a tail of that size.
Spells(bytes, strings, tails, size) ==
  LET end[n \in 0..Len(strings)] ==
        IF n = 0 THEN 0 ELSE end[n - 1] + 2 + Len(strings[n]) + size
  IN /\ Len(bytes) = end[Len(strings)]
     /\ \A n \in DOMAIN strings : \E tail \in tails :
          /\ Len(tail) = size
          /\ SubSeq(bytes, end[n - 1] + 1, end[n]) = UInt16(Len(strings[n])) \o strings[n] \o tail

QoSTails == {<<0>>, <<1>>, <<2>>}
NoTail == {<<>>}

\* A CONNECT says something if the fields its flags announce are all there is.
ASSUME ConnectAssumption ==
  \A m \in ConnectMessages :
    /\ m.payload \in Seq(Nat)
    /\ LET will == IF m.will THEN 2 ELSE 0
           user == IF m.userName THEN 1 ELSE 0
           password == IF m.password THEN 1 ELSE 0
       IN m.says # <<>> <=>
            /\ m.flags = 0 /\ m.whole /\ m.named /\ ~m.reserved
            /\ m.will => m.willQoS <= 2
            /\ ~m.will => m.willQoS = 0 /\ ~m.willRetain
            /\ CutsInto(m.payload, {1 + will + user + password}, NoTail, 0)

\* A SUBSCRIBE or UNSUBSCRIBE says topic filters that are not empty, or nothing if it
\* cannot be cut into any.
SaysFilters(m, tails, size) ==
  LET header == m.flags = 2 /\ m.whole /\ m.packetId # 0
  IN IF m.says # <<>>
     THEN header /\ Spells(m.payload, m.says, tails, size) /\ <<>> \notin Range(m.says)
     ELSE ~(header /\ CutsInto(m.payload, 1..Len(m.payload), tails, 1))

ASSUME FiltersAssumption ==
  /\ \A m \in SubscribeMessages \cup UnsubscribeMessages :
       m.payload \in Seq(Nat) /\ m.says \in Seq(Seq(Nat)) /\ m.packetId \in Nat
  /\ \A m \in SubscribeMessages : SaysFilters(m, QoSTails, 1)
  /\ \A m \in UnsubscribeMessages : SaysFilters(m, NoTail, 0)

\* Whatever the broker publishes has a length that can be written.
ASSUME PublishAssumption ==
  /\ Topics \in Seq(Seq(Nat)) /\ Values \subseteq Seq(Nat)
  /\ \A topic \in Range(Topics), value \in Values :
       Len(topic) + 2 + Len(value) < Radix * Radix * Radix * Radix
  /\ \A set \in RetainedBefore :
       \E topics \in SUBSET Range(Topics) : set \in [topics -> Values]

\* A client takes the stream apart: type and flags, the digits of the remaining
\* length, and as many bytes.  A rest that is not a message has type 0.
Rest == [type |-> 0, flags |-> 0, body |-> <<>>]

\* Digits behind which there is another one: three at most.
MoreDigits(bytes, pos) ==
  Max({n \in 0..3 : \A i \in 1..n : pos + i <= Len(bytes) /\ bytes[pos + i] >= Radix})

Digit(bytes, pos, more, i) == IF i <= more THEN bytes[pos + 1 + i] % Radix ELSE 0

LengthSaid(bytes, pos, more) ==
  Digit(bytes, pos, more, 0)
    + Radix * (Digit(bytes, pos, more, 1)
                 + Radix * (Digit(bytes, pos, more, 2) + Radix * Digit(bytes, pos, more, 3)))

MessageAt(bytes, pos, start, next) ==
  [type |-> bytes[pos] \div 16, flags |-> bytes[pos] % 16, body |-> SubSeq(bytes, start, next - 1)]

Messages(bytes) ==
  LET From[pos \in 1..(Len(bytes) + 1)] ==
        IF pos = Len(bytes) + 1 THEN <<>>
        ELSE LET more == MoreDigits(bytes, pos)
                 start == pos + more + 2
                 next == start + LengthSaid(bytes, pos, more)
             IN IF start > Len(bytes) + 1 \/ next > Len(bytes) + 1 THEN <<Rest>>
                ELSE <<MessageAt(bytes, pos, start, next)>> \o From[next]
  IN From[1]

\* What a client has been told, as far as it could read.
Read == Messages(SubSeq(toClient, 1, readable))
ReadPublishes == Only(Read, {r \in Range(Read) : r.type = PUBLISH})
ReadAnswers == Only(Read, {r \in Range(Read) : r.type # PUBLISH})

\* The number of topic filters for which the length of a SUBACK is no byte any more.
AckTooLong == \E i \in DOMAIN asked : asked[i].type = SUBSCRIBE /\ Len(asked[i].says) >= ByteRange - 2

StandsForATopic(filter) ==
  Len(filter) <= maxTopicFilterLength /\ \E topic \in Range(Topics) : <<CString(filter), topic>> \in Stands

Answers(r, request) ==
  CASE request.type = CONNECT -> r.type = CONNACK /\ Len(r.body) = 2
    [] request.type = PINGREQ -> r.type = PINGRESP /\ r.body = <<>>
    [] request.type = UNSUBSCRIBE ->
         r.type = UNSUBACK /\ r.body = <<request.packetId \div ByteRange, request.packetId % ByteRange>>
    [] request.type = SUBSCRIBE ->
         /\ r.type = SUBACK /\ Len(r.body) = 2 + Len(request.says)
         /\ r.body[1] * ByteRange + r.body[2] = request.packetId
         /\ \A i \in DOMAIN request.says : r.body[2 + i] = 0 <=> StandsForATopic(request.says[i])

Tells(r, p) ==
  /\ Len(r.body) = 2 + Len(p.topic) + Len(p.value)
  /\ r.body[1] * ByteRange + r.body[2] = Len(p.topic)
  /\ SubSeq(r.body, 3, Len(r.body)) = p.topic \o p.value
  /\ r.flags = 1 <=> p.retain

-----------------------------------------------------------------------------
(* Properties *)

\* The parsers accept a message exactly if it is one: if its payload can be cut
\* into strings of the number and with the tails it must have, whatever its bytes.
AcceptsExactlyWellFormed == judged.wellFormed <=> judged.accepted

\* Every message of a client with a session is answered, in order, with its own
\* packet ID and a result for each of its topic filters: success if the filter
\* stands for a topic.  (The SUBACK for 254 filters has no length.)
AnswersAsAsked ==
  ~AckTooLong =>
    /\ Len(ReadAnswers) <= Len(asked)
    /\ \A i \in DOMAIN ReadAnswers : Answers(ReadAnswers[i], asked[i])
    /\ open /\ ~half => Len(ReadAnswers) = Len(asked)

\* A client reads the values it was sent, whole, in order and marked as retained
\* or new, up to a message the socket did not take in full.
PublishesReadable ==
  ~AckTooLong =>
    /\ Len(ReadPublishes) <= Len(published)
    /\ \A i \in DOMAIN ReadPublishes : Tells(ReadPublishes[i], published[i])
    /\ ~half => Len(ReadPublishes) = Len(published)

=============================================================================
