# LunaMon in TLA+

LunaMon reads NMEA 0183 messages from a serial port and from WiFi, keeps their
values in a tree of MQTT topics (the data model) and is an MQTT broker that
publishes them. It runs on a microcontroller: one thread, one loop (`loop()` in
`src/Luna_Mon.cpp`), no operating system, no persistent storage. Each pass of
the loop calls the `service` method of every part once, and each of these does
what it can without waiting.

Two things make it hard to get right. Everything has a fixed number of slots and
is tied together with pointers and valid bits that handlers keep up to date one
assignment at a time; and clients, TCP and time do as they like between any two
calls. That is what the modules here are about.

All paths below are relative to the root of the repository.

## The parts of the system

| Part | State | Operations | Talks to |
|---|---|---|---|
| **MQTT broker** `src/MQTT/MQTTBroker.*`, `MQTTSession.*` | five connection slots, five session slots, a valid bit for each, pointers between the two, keep alive and tear down timers, the flag `dataModelDebugNeedsUpdating` | `service` (lost connections, session timers, `$SYS` debugs, messages, new clients), one handler per MQTT message, `terminateConnection`, `cleanupLostConnection` | WiFiNINA (polled), data model (calls), WiFi manager (called back) |
| **MQTT connection** `src/MQTT/MQTTConnection.*` | message buffer, `messageSizeKnown`, `messageSize`, session pointer | `begin`, `readMessageData`, `stop` | WiFi client (polled) |
| **MQTT messages** `src/MQTT/MQTT*Message.*`, `MQTTString.*` | none | parse, serialize | broker |
| **Data model** `src/DataModel/*` | tree of nodes and leaves; per leaf an array of five subscribers; the count of subscriptions; retained values | `subscribe`, `unsubscribe`, `unsubscribeAll`, publish of a value | broker's sessions (called back to publish) |
| **Timers** `src/Util/PassiveTimer.*` | end time in a 32 bit millisecond counter | set, advance, expired, elapsed | broker, statistics, NMEA WiFi source |
| **Statistics** `src/StatsManager/*` | harvest timer, counters | `service` harvests every 10 s | data model |
| **NMEA sources** `src/NMEA/NMEASource.*`, `NMEALine.*` | input buffer, partial line | `service` reads, cuts lines, parses, hands on | bridge |
| **NMEA messages** `src/NMEA/*` | one static message buffer | parse | bridge |
| **Bridge** `src/NMEADataModelBridge/*` | none of its own | copies fields to leaves | data model |
| **WiFi manager** `src/WiFiManager/*` | connection state | `service` | notifies broker and NMEA WiFi source |
| **NMEA WiFi source** `src/NMEAWiFiSource/*` | TCP client, one retry timer | `service`, two notifications | NMEA source |
| **Logger** `src/Util/Logger.*` | level and base of the current line, the text kept of it, five leaves with the latest lines | `<<` | console, data model; called by everyone |
| **Utilities** `src/Util/*` | none | conversions, `fatalError` | everyone |

The behaviours that are hard:

- **Orders of handlers.** A client may come back before the broker has noticed
  that its old connection is lost; a timer may end a connection while its client
  is being served on another; the WiFi module may offer an old client as new.
- **Many assignments that belong together.** Ending a connection touches two
  pointers, two valid bits, a timer and every subscriber list, and the code does
  it in two versions.
- **Reuse of slots.** `begin` of a session or a connection resets some fields and
  relies on the previous owner for others.
- **Streams.** TCP cuts MQTT messages and NMEA lines anywhere, and may take only the
  beginning of what the broker writes.
- **What comes in is not what should.** Words of a sentence are missing, garbled or at the limits
  of what can be shown; lengths in a message are what the client chose.
- **Calls that come back.** Setting a leaf publishes it, publishing logs, and a line of the
  log is kept in leaves.
- **Counters that wrap around** after 49.7 days.
- **Limits**: five slots, five subscribers of a leaf, fixed buffers.
- **Things that must happen in the end** though nobody waits for them: lost
  connections are found only by polling.

## The modules

| Module | Models | State and actions |
|---|---|---|
| `MQTTBroker` | tables of `MQTTBroker`, fields of `MQTTSession` and `MQTTConnection`, subscriber lists, WiFi notifications | One variable per field, a function on slots. One action per handler and outcome. Handlers in any order. |
| `MQTTBrokerLoop` | `MQTTBroker::service` | EXTENDS `MQTTBroker`; `phase` and `position` are the place in the pass. The environment acts between any two steps. Fairness and liveness are here. |
| `ClientSessions` | the promise to a client (abstract) | Per client: absent, away or served at an endpoint; topics. Knows no slots. |
| `MQTTBrokerSessions` | the refinement mapping | `MQTTBroker` implements `ClientSessions`. |
| `DataModel` | topic filters, the walk of the tree, the subscribers of a leaf | Per leaf the array of subscribers; the subscription count; a ghost, the filters granted. One action per call of the broker: `subscribe`, `unsubscribe`, `unsubscribeAll`. |
| `MQTTConnection` | `readMessageData` with TCP below it | Bytes on the wire, in the socket, in the buffer; the messages handed over. |
| `MQTTMessages` | the parsers, the handlers' answers, the writing of packets | One connection: bytes of the client's messages, bytes the socket took, the part of them a client can read; what was asked and published, to compare with. |
| `PassiveTimer` | the timer's arithmetic | Operators only; the range of the clock is a parameter. |
| `StatsManager` | `StatsManager::service`, `StatCounter::update` | EXTENDS `PassiveTimer`; ghost variables keep true time and true events. |
| `NMEASource` | `NMEASource::service`, over any stream | `available`, `buffer`, `carriageReturnFound`, `inputLine`; the messages handed over; a ghost with the lines there are. |
| `NMEAWiFiSource` | `NMEAWiFiSource`, `WiFiManager`, TCP | EXTENDS `NMEASource`; the manager's connection state and timer, the client's connection, what the server sends. |
| `NMEAFields`, `NMEAMessages` | the classes `NMEAxxx`: words to fields, lines to messages | Operators only. |
| `TopicTree` | the elements of `DataModel.cpp` as they are declared | Two functions: each element with its parent, each node with its children. |
| `DataModelLeaves` | leaves: what they hold, publish, retain and count | `content`, `retainedValues`, `watching`, `shown`. |
| `NMEABook` | what NMEA 0183 says the sentences mean (to compare with) | Operators only. |
| `NMEADataModelBridge` | lines to messages to leaves to subscribers | EXTENDS all of these; one action for a line, one for each call of a client. |
| `Logger` | `Logger`, with the lines logged while an entry is published | Fields of `Logger`, the entries, the place in `addErrorLineToDebugs`; the line a caller is logging. |
| `MQTTBrokerSessions_proofs`, `MQTTConnection_proofs`, `MQTTMessages_proofs`, `DataModel_proofs`, `StatsManager_proofs`, `Logger_proofs`, `NMEADataModelBridge_proofs`, `NMEAWiFiSource_proofs` | | Theorems, checked by TLAPS. |
| `MC*` | | Instances for TLC. |

### MQTTBroker

`connectionValid`/`sessionValid` are the valid bits, `mqttSession` and
`connection` the two pointers (slot numbers or `None`), `clientID`,
`cleanSession`, `keepAliveTime`, `keepAliveTimer`, `tearDownTimer` the fields of a
session. A timer is the number of ticks left; how timers compare with the
millisecond clock is `PassiveTimer`. `subscribers[leaf]` are the sessions a leaf
publishes to. `fatal` is set where the code calls `fatalError`, which never
returns; nothing happens afterwards, which is why the configurations set
`CHECK_DEADLOCK FALSE`. `incoming` and `alive` stand for the WiFi module:
clients `WiFiServer::available` has not returned yet, and `WiFiClient::connected`.

What a CONNECT contains is abstracted to the outcomes the handler
distinguishes: it does not parse, is refused as unsupported, is not sane, or
has a client ID (or none), a Clean Session flag and a keep alive time. A
SUBSCRIBE or UNSUBSCRIBE is the set of leaves its filters match. As
`terminateConnection` is called from the middle of handlers, it is an operator
that is a conjunct of the actions it belongs to. A second CONNECT needs actions of
its own because the handler goes on after `terminateConnection`; the constant
`RepeatConnect` says whether clients may send one. `connAck` is what the client
read of the last CONNACK: `sendMQTTConnectAckMessage` may write less than all of it and
say so, and nobody looks (`SendConnAck`). `wifiClientIsExistingConnection` compares the
endpoint of every connection, but asks the `WiFiClient` for it, which has lost its address once
it is gone (`MQTTConnection.h:34`): hence `alive[c]` in its model.

`ClientSessions` promises what the comment at `MQTTSession.cpp:56` asks for, but
for one thing: what topics a client finds when it returns with Clean Session set is left open there,
as the code does not keep that part (finding 2).

Actions named as *Slip* are not part of the specification: each is a plausible
mistake in the definition it precedes, and substituting it makes a property fail.

### DataModel

A leaf is its path, a sequence of names, and the tree is the set of its leaves. A
filter is a sequence of levels; `PrefixOf`, `MixedLevels` and `SysNames` say of
names and levels what the code finds by comparing characters. The recursion of
the walk is written without recursion: `Reaches(f, leaf, i)` says that the calls
of `topicFilterMatch` on the way to depth `i` all matched and none was the last
level. `Subscribes` and `Unsubscribes` are the leaves a walk ends at, and differ
because `DataModelRoot` overrides the walk of a subscription only. `MQTTBroker`
calls `subscribe` and `unsubscribe` once per filter of a message; there a message is
the set of leaves its filters come to, and `subscribers[leaf]` is the set of
entries of the array here. `held` is what SUBACKs promised, to compare the
arrays with.

`MQTTMatches` is not translated from the code: it is MQTT's definition, level by
level, to compare the walk with. Two differences are part of the code and of the
properties that compare: a level that is the beginning of a name matches
it (`topicFilterMatch` stops at the end of the level and does not look whether the
name goes on), with `gps/` and `/date` as the case of an empty level
(`Abbreviates`); and `leaf/#` does not match `leaf`.

### MQTTConnection

Length digits have the base `Radix` (128 in MQTT, 2 for TLC, so that messages of a
few bytes have headers of two, three and four bytes) and the buffer has 6 bytes. A
message is any of `Messages`; TCP delivers any prefix of what is on the wire.
`passedOver` are the messages whose second byte `readMessageData` did not ask whether it ends
the header, and `MissesTheEnd` says which of them the code then misses. The buffer is as long
as it is declared: a read of more than it has room for is the outcome `Overrun`, and as
nobody knows what the memory behind it held, nothing is said of what follows.

### MQTTMessages

A byte is less than `ByteRange` (256 in MQTT, 8 for TLC, so that lengths of strings and of messages
take two bytes and the remaining length takes two digits within a few bytes). A CONNECT, SUBSCRIBE
or UNSUBSCRIBE has its flags and variable header as fields and its payload as bytes; a
`SUBSCRIBE` is thus any sequence of bytes with lengths in it that may be wrong. `says` is what
the sender means by it, `<<>>` if it is not such a message. `Write` appends the bytes of one `write`
call after the other to what the socket took and may stop within any; `Messages` is a client that
reads them back. `Stands`, which filters stand for which topics, is a parameter: that is
`DataModel`.

### TopicTree, DataModelLeaves, NMEADataModelBridge

`TopicTree` has every element of `DataModel.cpp` with its name, type and parent, and apart from
that the arrays of children. Leaves hold a value or none (`content`); `Assigned`, `Removed` and
`Updated` are `operator =`, `removeValue` and `updated`, and `Text` is what each type of
leaf publishes, as far as the string of fixed length has room for it that the leaf puts it
together in (`Fitting`, `TimeInLeaf`). `shown` is what a client has been sent last of a topic. A word of a
sentence is missing, empty, garbled, a letter, a number, a time, a date or an angle; a field is a
function from words to a value, a rejection, the removal of the value or no change, and a message is
a record of these. Each message is constructed
anew in the static message buffer, so nothing of an earlier one is left there.

`NMEABook` says independently which word of a sentence means what, and what may be shown of it.
`told` keeps for each leaf the words that last told its value.

### Logger

A text is a sequence of characters. `BeginLine`, the items and `EndLine` are the `<<` of a
statement; the same actions are the lines that the subscribers log while `addErrorLineToDebugs` is
at work (`stage`), which may begin when an assignment has changed an entry and hence
published it. The code logs such lines at debug level only (`publishToConnection`); the model
allows every level, as the comment on `inLogger` (`Logger.h:94`) does.

### NMEASource and NMEAWiFiSource

`buffer` is what the code calls `remaining` characters from `bufferPos` on. `Cut` is
`processBuffer` with its recursion, as a recursive function of the position it starts at;
`Leave` is what the caller does with a completed line. Which lines are messages
(`sanityCheck`, `parseNMEAMessage`) is the parameter `Sentences`. Next to it `ideal` cuts
the characters read one by one, anew for each connection, and counts the faults of the
input: carriage returns without line feed, line feeds without carriage return and connections
that end within a line.
The source on the serial port is the case of one connection that lasts.

In `NMEAWiFiSource` a failed `connect()` may leave an attempt behind that succeeds later
(`tcp = "trying"`), as the comment in `connect()` believes of WiFiNINA.
`notifyWiFiConnected` and `notifyWiFiDisconnected` call the broker first, which registers
first (`setup()`); as its `wifiDisconnected` is a fatal error, `LosesWiFi` ends the program
and the source's `wifiDisconnected` is never reached.

## The runs

| Run | Instance | What it checks |
|---|---|---|
| `broker` | 2 slots, 2 client IDs, 2 endpoints, 1 leaf, keep alive 0, tear down time 2, one CONNECT per connection, CONNACKs that may fall short | pointers and valid bits agree; subscribers are sessions; the assertion of `terminateConnection`; a CONNACK that was read tells the truth, and a session was told of unless its CONNACK fell short; retained sessions live until their timer ends; nobody's session is taken over; subscriptions survive the loss of the connection, the absence and the return; `MQTTBroker` implements `ClientSessions` |
| `broker_loop` | 2 slots, 1 client ID, 1 endpoint, keep alive 0 or 1, tear down time 1, second CONNECTs allowed, every step of `service` | one session per client and one connection per endpoint; `$SYS` is current when its flag is clear; liveness: lost connections freed, silent clients disconnected, absent sessions ended, `$SYS` updated |
| `data_model` | 3 leaves, one in `$SYS`, two of them with names that begin alike; 2 sessions; 18 filters: `#`, `+` at each place, names, beginnings of names, invalid ones; 2 filters held per session | one entry each, always room, the count is true, the walk is MQTT's matching, subscriptions are backed by granted filters |
| `framing` | 3 messages of length 0, 1, 3 or 4, cut anywhere; a buffer of 6 bytes | messages are handed over whole, in order, and all of them but those `MissesTheEnd` names; the reader reads past the end of these only, and past the buffer only after the end of one of these |
| `mqtt_messages` | 3 messages of a client, well-formed or altered in a byte, a length or a flag; 2 topics, 2 values; one value set between; one write that falls short anywhere | parsers accept the well-formed messages only; answers fit what was asked; the client can read what it is sent |
| `stats` | clock of 16 ms, interval 4 ms, counter of 8, passes of up to 9 ms | harvests never early, with the true interval and the true count; the interval is zero only while harvests catch up after a pass longer than it |
| `nmea` | two connections, five streams of up to 11 characters, lines of at most 4 | handlers get the messages of the stream once and in order, none is lost and none made up but for one at each fault of the input, the buffer is used up, `$SYS` follows the connection |
| `nmea_bridge` | the whole tree below `gps` and `depth`; 2 clients, 2 subscriptions; about 400 streams of 3 lines, one of them with a word left out, garbled or at a limit of its field, of its rounding or of its leaf's string, and one of 7 lines | subscribers, early and late, show what the last well-formed sentence said; all of these and no others are handled; the count of retained values; the tree is consistent |
| `logger` | 3 entries of 3 characters, lines of 2 items, 4 selectors | the entries show the latest lines; no line is broken by another; numbers in the base asked for |
| `second_connect_fatal` | 2 slots, 1 client ID, 2 endpoints, second CONNECTs allowed | finding 1 below |
| `clean_return` | the same, one CONNECT per connection | finding 2 |
| `buffer_overrun` | as `framing` | finding 3 |

**Bounds.** Slots are interchangeable except for the order of the scans; two are
enough to have a full table, a free slot before and behind a used one, a client
that reconnects while its old connection holds a slot, and a refused client. The
table's pathologies involve two actors: the client that left the slot and the one
that got it. Two client names and two endpoints give sessions named by
endpoints and sessions named by IDs, both at once. Keep alive time 0 is a
boundary: it means no keep alive in MQTT and an expired timer here. In `broker` it is the only
one: its timer may end a connection at any time, which leaves nothing out that a longer one could
do to the tables; when a timer ends is the subject of `broker_loop`. `Tick`
changes timers only while one runs, so nothing grows without bound. In `data_model`
the leaves have two and three levels, so every wildcard can be at the first, a middle
and the last level, and `MaxHeld` bounds the ghost only: two filters held are enough for
overlapping ones. In `framing`,
the lengths are chosen so that messages have one, two and three length digits, are
empty, just fit the buffer, and do not fit. In `mqtt_messages` the messages
are chosen so that each `return false` of a parser is met by one that fails nothing before it; `MaxUnread`
bounds what the socket takes after it fell short once, which the client cannot read. In `nmea_bridge` every
word of every sentence is left out and garbled once, between two sentences that say all, and each
number is at the limits of its type and of its rounding once; two clients are enough for an early
and a late one. In `logger` three entries are the fewest with two turns of the loop
that scrolls, and lines are shorter and longer than an entry. In `nmea` the streams have an empty line, two lines in one buffer, a line longer than the
limit, a carriage return before text and before another line, and a beginning of a line at the
end; pieces of one to four characters cut them everywhere; two connections are enough for
what one leaves to the next. Streams begin with a line: of a stream that begins within one,
the code could glue the beginning of an old line and the end of a new one, which only
the checksum would notice. In `stats` the clock wraps around many
times; `MaxOverdue` bounds how far the model follows a missed timer.

**Views.** `Live` (`MCMQTTBroker`) identifies states that differ only in fields of
unused slots, in the timer a session does not use and in what `$SYS` shows. No
guard of an action reads these while `RepeatConnect` is false, and no property of
the run does. `LiveLoop` (`MCMQTTBrokerLoop`) does the same for second CONNECTs, after which freed
slots may still be pointed at: it keeps the fields of every slot that anything in use
leads to, and what `$SYS` shows while that is held to be current.

**Fairness.** The broker's steps are weakly fair because `loop()` calls
`service` for ever. `NoMessageLeft` and `NewClientGreeted` are weakly fair and
`NoNewClient` strongly fair: clients do not send messages without end within one
`serviceConnection`, nor arrive without end within one round of `available()`. The
loops `while (readMessage...)` and `while (available())` of the code would
otherwise never end, and no property about anything else could hold. `Tick` is
weakly fair: time passes. No client does anything fairly. In `NMEAWiFiSource` the two
`service` methods and the timer are weakly fair, and neither WiFi nor the server is. In
`MQTTConnection` what was sent arrives and is read in the end.

## What is proved

`MQTTBrokerSessions_proofs` proves about `MQTTBroker` for any number of slots, clients, endpoints and leaves
every safety and action property of the `broker` and `broker_loop` runs. `TypeCorrect` comes first; types are proved
here and in `DataModel_proofs` only, no run checks them. The
inductive invariant is `Consistent`: the two directions of the link
(`SessionLinks`, `ConnectionLinks`), that `None`-pointers and acknowledgements
agree, that clean sessions never outlive their connection, that subscribers are
sessions, that names of sessions are unique and that no session is lost.
`LinksSymmetric` alone is not inductive: that `terminateConnection` finds its
session needs to know that a clean session in use has a connection, that a new
link does not steal one needs to know which sessions are away, and that a reused
slot has no subscribers is the work of whoever ended its last session. That what a client was
told stays true (`AlwaysToldOfSession`) rests on the same links. Each
action has one step in the proof; terminating a connection is one lemma,
since ten actions contain it. Properties that hold with second CONNECTs too
(`OneSessionPerClient`, `OneConnectionPerClient`, `RetainedUntilTearDown`, `DebugsCurrent`) are proved
without the assumption `~RepeatConnect`, from smaller invariants; the others
(`LinksSymmetric`, `SubscribersAreSessions`, `NeverLosesTrack`, `ToldOfSession`, `NoTakeOver`,
`SubscriptionsSurvive`) are checked and proved for one CONNECT per connection, as the
first finding breaks what they rest on.

It then proves that `MQTTBroker` implements `ClientSessions`, for any
number of slots, clients, endpoints and leaves and with one CONNECT per connection. The
refinement mapping finds a client's session by its name, so the proof needs that
names are unique (`OneSessionPerClient`, part of `Consistent`) and that whatever is in use has a
name and an endpoint (`Named`); with the types and the states of a session they are the
invariant `Sound`. A handler changes the session of one client: it is enough to show
what it shows of this one, and that it leaves the others alone (`OneChanges`,
`SessionsAlone`). That a new session is begun only where the promise has room is
counting again: names in use are as many as valid slots (`RoomForOne`).

`MQTTConnection_proofs` proves both invariants of the `framing` run (`FramedAsSent`,
`ReadsPastMissedEndsOnly`) for every base of the length digits, every size of the buffer up to the code's three digits, all types, payloads
and lengths, and any way TCP cuts the bytes. The inductive invariant is `Framing`. Its
`Reading` says that no byte is lost (what was handed over, the buffer, the socket and the
wire together are what was sent, `Carries`) and what the reader knows within a message: the
size, when it is known, is the message's, and bytes of a header that were looked at do not
end it, except for a second byte that was passed over because the first one came alone
(`HeaderSoFar`). It holds until something is written past the buffer; that this happens only in a
message whose end was missed is part of it. Without these exceptions the invariant is not
inductive: `MissesTheEnd` is all there is to finding 3. The step that
needs arithmetic is `HeaderComplete`: when the test for a complete header succeeds, if need
be on bytes of the next message, the length worked out is the right one or is
seen to be too large. Assumed: a base of two at least, a buffer smaller than the least
message with three digits (`SizeAssumption`; 1024 bytes in the code, three digits from 16384 on), lengths of up to three
digits; bytes are numbers.

`DataModel_proofs` proves every property of the `data_model` run for any tree,
filters and number of sessions, as long as there are as many positions as
sessions. The inductive invariant is `Inv`: types, one entry each, held filters are
valid (`HeldValid`), and every entry is backed by a held filter (`HeldCovers`). That
there is always room follows by counting: positions that are all taken by different
sessions other than one would be fewer than the sessions. `CountTrue` adds
bijections between the leaves that gain or lose an entry and the entries themselves.
`WalkIsMatching`, the equality of the walk and of MQTT's definition, is a theorem about
filters alone. The least position of a set, of which the code's scans make use, is a
lemma from well-foundedness of the natural numbers (`Least`).

`Logger_proofs` proves both properties of the `logger` run for any number of entries of
any length and for lines of any number of items. The inductive invariant is `Inv`. Its
`Placement` says where each recorded line is in every stage of `addErrorLineToDebugs`
(while entries are scrolled, those below `scrolled` have moved, those above have not,
one is in two of them); its `KeptLine` that outside the logger `errorLine` is as much of
the current line as an entry holds and inside it the line still to be shown, which is
what makes `eol`'s choice not to clear it (`LineKept`) necessary. That cutting after each
item is cutting the whole line is the lemma `CutAppend`, about sequences of any length.
Assumed: two entries at least, entries of at least one character, numbers below 256.

`StatsManager_proofs` proves first, for every range of the clock, that a timer never
expires early, expires in time if it is polled before the clock passes the middle
or the end of its range, is missed otherwise, and that elapsed times are exact; then
both properties of the `stats` run for every range of
the clock and of the counters and every interval. `NeverEarly` follows from `TimerTrue`,
that the timer shows the time the next harvest is due (up to whole turns of the clock),
with `NeverExpiresEarly`: a time less than half the range ahead is shown at one place
only (`ShownOnce`). `RatesTrue` is proved for passes of the loop of any length below the range of
the clock. That it divides by zero only while it catches up after a pass longer than the
interval rests on `NotExpired`: a timer seen expired for the
first time after a shorter pass and then advanced by an interval is not expired at the time of this harvest
(`AdvancedInTime`), hence no harvest shows the same time as the one before, not even
after the timer was missed for whole turns. Assumed: between two calls the
clock does not wrap around more than once (`GapAssumption`).

`NMEADataModelBridge_proofs` proves all five properties of the `nmea_bridge` run, for every
stream of lines, any leaves of the tree and any number of clients that subscribe and
unsubscribe anywhere.

- `AlwaysUpToDate` and `AlwaysDrifts` follow from the inductive invariant `LeavesInv`. A
  leaf publishes only when it changes and sends a new subscriber what it holds, so
  `SubscribersUpToDate` needs that nothing is shown of a topic that is not subscribed to
  (`Unseen`). Unsubscribing counts down the leaf with the number of subscriptions and would
  give it its first value, uncounted, if it had none; it has one as soon as anybody
  subscribed (`CountReady`). Whatever a message is bridged to fits the leaf that gets it
  (`MessagesBridged`): sixteen bit leaves, which keep eight bits, are given natural numbers.
- `AlwaysHandlesWellFormed` goes from words to lines. For each kind of field, the words it
  accepts are those the book allows, which has the same limits (`Readable`); each message asks for the entries of
  the book, in order and no others (`ReadByBook`); hence a message is accepted if and only if
  all its words may be there (`AcceptedByBook`). The two forms of VTG need that after
  the end of a line no word follows (`MissingAfter`): the code looks for the third word where
  the book lets it be absent, but the fourth, which must be there, is missing then too. The
  proof corrected the book, which had allowed `-0` where the code takes unsigned numbers only.
- `AlwaysShowsWhatWasSaid` joins the two. Its inductive invariant, with `LeavesInv`, is
  `ToldInv`: whatever text is up to date with what a leaf holds is a text that the book
  lets the topic show for the words told last, and no words are ever told of the two leaves
  that the data model writes itself. It speaks of all texts, not of the subscribers there
  are, because a client may subscribe after the sentence. For every number that fits its field, with
  any number of decimals, what the leaf's string has room for of the digits the code prints is
  within half a unit of what was read, with the
  exceptions that `IsShownInTenths` and `IsShownInHundredths` name (`TenthsShown`,
  `HundredthsShown`, `MinutesShown`); each kind of field is shown so (`ReadIsShown`); each
  message is bridged to the leaves the book names, and to no others (`BridgedByBook`); a
  leaf is left as it is exactly if the sentence says nothing of it (`KeepsIs`). `ToldInv`
  quantifies over all texts, so that TLC cannot evaluate it; it checks the property.

- `AlwaysWalksByName` compares the two ways `DataModel.cpp` writes the tree down. First the tables
  themselves: every element but the uppermost is in the array of its parent and in no other
  (`ChildHasParent`, `ParentHasChild`), and the children of a node have different names
  (`NamesDiffer`), so that no two elements have the same topic (`NamesTell`). `TopicName` is a
  recursive function; it is shown to exist and to have its equation by going down
  the tree, which is five deep (`DownTheTree`). That the name of a topic begins with that of a node
  then means that the node is above it (`BeginsIs`), and each step of the walk comes one deeper
  (`DownReaches`), so that four steps come to all leaves (`WalkIsByName`). What is proved is about
  the tables as they are: a child in a second array, a parent that is not the node above, or
  two children of one name would each fail it.

Assumed: lines are sequences of the words `Words` (`StreamsAssumption`), which have numbers of any
size and all fractions of a second but those written past `secondFractionStr` (`Fractions`; see below), leaves are those of
the tree and the two that the data model writes itself are among them.

`NMEAWiFiSource_proofs` proves both invariants of the `nmea` run, for any streams, any set of
sentences, lines of any length, TCP cutting the streams anywhere and any number of connections.
The inductive invariant is `SourceInv`: what was handed over, the line kept and the flag that a
line feed is due are what may be `Made` of the characters before those in the buffer (`Lag`). Made
of them is either the line there is, with as many differences as there were faults (`InStep`), or
another line with one fault in reserve, to account for what that line turns out to be
(`OutOfStep`): after a carriage return in the middle of a buffer the code drops the character after
it, and at the end of a buffer it does not, so neither the line nor the place of the difference
is known. Faults that end connections may be counted before the code has read that far
(`Follows`). As `Cut` and `IdealAfter` are recursive functions, each is first shown to exist and
to have its equation, then to make of every sequence what `Result` and `AtSteps` say, by
induction over the length: from the last position to the first for `Cut`, as it calls itself
for later positions (`CutMakes`). The rule of induction used (`Induction`) comes from the
well-foundedness of the natural numbers, as a lemma about sets. A corollary is
`AlwaysExactWithoutFaults`: without faults in the stream nothing is lost or made up at all. The
proof corrected the property `NothingInvented`, which had allowed for lost messages only: see
"A carriage return without line feed" below.

`MQTTMessages_proofs` proves all three invariants of its run. That the parsers accept exactly the
messages that are well-formed, whatever the number and length of their strings, goes from cuts to
cursors. What a well-formed payload is (`CutsInto`) is a set of cuts; what the code does is a cursor
that moves by lengths it reads. The proof shows that both take the same `Pieces` (`PieceString`,
`PieceQoS`, `AfterStringSteps`, `AfterFilterSteps`), that from each place there is one of them at
most (`IsSteps`), and that a chain of such steps is a set of cuts (`ChainOn`, `NextCut`); the
recursive functions of the cursors are first shown to exist and to have their equations, forwards
for CONNECT (`AfterExists`) and backwards for topic filters (`CountExists`).

`AnswersAsAsked` and `PublishesReadable` compare what was asked and published with what a client
reads back from the bytes. What a writer writes is first shown to be what a reader reads: the
digits of a remaining length (`LengthIsRead`), and messages one behind the other
(`MessagesAreRead`: if bytes can be divided so that each part is a message, the
recursive `Messages` finds just these). The inductive invariant is `ToldInv`. It says of
the bytes before the first message that was cut (`ReadPart`) that they are
messages of which those that are not PUBLISH answer the first requests and the others
tell the first values handed over (`Told`): all the values unless a message was cut, and all
the requests if besides the connection is open (`ReadsUp`). The properties alone are not
inductive: they speak of what can be read now, and another message can be read behind
it only if nothing is left over that does not end a message. A write puts several
messages into the socket, retained values of one subscription among them, and may
be cut within any: what is read grows by a beginning of these
(`WritesOn`), and by nothing after the first cut. `AckTooLong` is excepted, as the
length of such a SUBACK does not fit its byte and is written modulo 256: from there on a client
reads whatever the bytes happen to say.

Assumed is what `says` means (`ConnectAssumption`, `FiltersAssumption`), which TLC evaluates for the
messages of the run; that topics and values are short enough for a remaining length of
four digits (`PublishAssumption`; they have a few hundred characters at most in the code); that no topic holds the byte 0 and that the bounds are natural numbers.

Only model-checked is liveness (`LostConnectionsFreed`, `AwaySessionsEnd`, `DebugsEventuallyCurrent`,
`SilentClientsDisconnected`, `EverythingRead`, `StatusFollows`, `BufferUsedUp`), which is out of the
prover's reach. Every safety property that a passing run checks is a theorem, with the assumptions named
above.

## Findings

1. **A second CONNECT is not the end of a connection** (`MQTTBroker.cpp:397`). The
   handler terminates the connection and goes on. If the session was clean and the
   CONNECT does not parse, it terminates it again, does not find the session and
   calls `fatalError` (run `second_connect_fatal`). If the CONNECT is fine, it
   links the freed slot with a session (action `SecondConnectProceeds`). Such a session goes
   astray: it points at a connection that is freed or has another session by then, so its keep alive
   timer, when it ends, disconnects that other session, and restarts the tear down timer of one
   that is already away, again and again. `AwaySessionsEnd` makes an exception while there is
   such a session (`Astray`), and the proofs assume `~RepeatConnect` where this matters.
2. **A clean return keeps the old subscriptions** (`MQTTSession.cpp:59`). The comment above it says:
   "If the client reconnects with the Clean Session set, we need to clear out the old subscriptions".
   The condition is inverted: it clears them when the session was clean and the CONNECT is not, and no
   clean session outlives its connection while clients send one CONNECT per connection (run
   `clean_return`). `SubscriptionsSurvive` and `ClientSessions` say nothing of such a return.
3. **A short message makes the reader write past its buffer** (`MQTTConnection.cpp:101`). When the
   first byte of a message arrives alone, the next read takes two bytes before the
   reader looks at the length, and each read after it one. A message of two bytes (PINGREQ,
   DISCONNECT) with more behind it is read past its end and never handled; so is one of three or
   four bytes whose bytes from the third on are all at least 128, as they may be in an
   acknowledgement (`MissesTheEnd`). `messageSize - bytesInBuffer` is then below zero, which is nearly
   2^32 as the numbers are unsigned: all that comes is put into `buffer`, whose 1024
   bytes (`MQTTConnection.h:43`) are used up some time later, though the comment at
   line 90 says that the buffer is fixed and longer messages are excused (run `buffer_overrun`).
   `ReadsPastMissedEndsOnly` says that no other message does this, and `EverythingRead` that
   nothing else is lost.

## Known divergences

What the code does and a reader would not expect. The models do the same and the properties allow
for it, no more widely than the code needs.

- **CONNACKs cut short** (`MQTTBroker.cpp:471`, `484`). Whether the CONNACK was written is not looked
  at: a client may have a session and not know. `ToldOfSession` makes an exception for it.
- **Keep alive 0** (`MQTTSession.cpp:90`), which is none in MQTT, sets a timer that has expired: the
  next pass disconnects the client.
- **Two harvests in a millisecond** (`StatCounter.cpp:48`). After a pass of the loop longer than the
  interval of 10 s, and `connect()` blocks for about that long (`NMEAWiFiSource.cpp:90`),
  harvests catch up one per pass, and two within a millisecond divide by zero. `RatesTrue` says that this
  is the only way.
- **Timers polled late** (`PassiveTimer.cpp:73`): a timer that ends just before the clock passes
  the middle or the end of its range and is polled just after is seen to be expired only one
  range, 50 days, later (theorem `MissedAtBoundary`; `ExpiresWithinHalf` is the converse).
- **`+` and `$SYS`** (`DataModelRoot.cpp:93`): unsubscribing from a filter that begins with
  `+` unsubscribes from `$SYS` topics. More generally
  subscriptions are kept per leaf, not per filter: with `gps/#` and `gps/date` held, giving up
  one ends both for `gps/date`. `OnlyWhatWasGranted` is therefore an implication only.
- **A carriage return without line feed** (`NMEASource.cpp:114`) inside a buffer costs the
  character after it, the `$` of the next message, though the comment above it says that what
  is still in the buffer is processed; at the end of a buffer it does not.
  `LosesOnlyAfterFaults` allows for the message that is lost. The character may also be noise
  before a `$`: then what is left is a message that no line of the stream is, and
  `NothingInvented` allows for one at each fault.
- **Old lines on a new connection** (`NMEAWiFiSource.cpp:68`): lines that are in the buffer when a
  connection ends are handled after the next one is up, however much later that is, and the
  beginning of a line is glued to the first line then.
- **Losing WiFi** (`MQTTBroker.cpp:278`) ends the program, so the manager's reconnecting
  (`WiFiManager.cpp:104`), and the short timeout it was given for that, are of no use.
- **Insane CONNECTs** (`MQTTBroker.cpp:411`) log "Terminating connection" but the
  connection stays, without a session and hence without a timer. Any client that
  never sends a CONNECT holds a slot in the same way.
- **Messages cut short** (`MQTTBroker.cpp:764`). When the socket does not take all of a PUBLISH the
  broker counts it as dropped and writes the next message after its beginning, which the client
  takes for the rest. `PublishesReadable` speaks of what comes before.
- **A SUBACK for 254 topic filters** (`MQTTBroker.cpp:811`) says that nothing follows its header
  (`AckTooLong`).
- **Messages with numbers only.** A PUBREC, not a PUBLISH, is counted as a publish message
  received (`MQTTBroker.cpp:376`), and what clients publish is not acknowledged. A user name or a
  password are refused, each with a message that speaks of the password.
- **Retained values are counted twice** (`DataModelRetainedValueLeaf.cpp:53`). `removeValue` does not
  count a value off, and the next one is counted again; `RetainedCountDrifts` says exactly by how much.
- **16 bit leaves have 8 bits** (`DataModelUInt16Leaf.h:27`): new subscribers are sent
  the value modulo 256, and a change by 256 is not published.
- **Decimals.** Two decimals from .95 on are rounded to ten tenths and shown as such, three from
  .995 on to 100 hundredths; hundredths below ten are not shown at all, as the fill character is
  the one that ends a string (`DataModelHundredthsUInt8Leaf.cpp:41`); -0.5 is shown as
  0.5. Where the string of a leaf is too short, the last digit is lost: 65535.97 is shown
  as 65535.1, not 65535.10 (`DataModelTenthsUInt16Leaf.cpp:27`, 7 characters), -32768.96 as
  -32768.1 (`DataModelTenthsInt16Leaf.cpp:28`, 8 characters), and 255.996 as 255.10
  (`DataModelHundredthsUInt8Leaf.cpp:27`, 6 characters). `IsShownInTenths` and
  `IsShownInHundredths` name these.
- **Fractions of a second.** A sentence whose fraction does not fit 32 bits is rejected
  (`NMEATime.cpp:56`), and of another six digits are shown (`DataModel.h:111`). The book says the same. A
  fraction of more than ten digits that fits, because it begins with zeros, is written past the
  12 characters of `secondFractionStr` (`NMEATime.cpp:84`); the models have no such words.
- **Leap seconds** (`NMEATime.cpp:46`): a sentence at 23:59:60 is rejected.
- **A mode that is left out** (`NMEAFAAModeIndicator.cpp:111`) leaves the mode of an earlier sentence
  on show; every other optional field is removed.
- **No fix.** An RMC or GGA sentence without a position is rejected as a whole
  (`NMEARMCMessage.cpp:52`), so the topics go on showing the last position, and that the data
  are valid. To the properties such a sentence is not well-formed.
- **Words at the end.** A line that ends with a comma lacks its last word
  (`NMEALine.cpp:94`), which only counts where the word must be there.

## Not modelled

- The counters of messages and bytes: nothing but `$SYS` shows them and no handler reads them.
- The wording of log lines, and lines longer than an entry that are logged character by character
  (`Logger.cpp:336`), after which C++ promises nothing.
- `WiFiServer::available` preferring a client with data to a new one, as the code's
  own comment says: the model allows it, but no fairness of the WiFi module is known
  that a property could rest on.
- What happens after a write past the end of a buffer: C++ promises nothing then.
- The order in which C++ constructs the static objects of different files: `DataModel`'s
  constructor (`DataModel.cpp:413`) sets a leaf that is another file's object, before or after that
  leaf is constructed. The models begin when everything is constructed.
- QoS cookies of subscriptions: nothing reads them.
- The bits inside AIS messages, which are neither shown nor logged beyond their framing; the names of
  talkers (`NMEATalker`); the characters of checksums and numbers (`CharacterTools`, `StringTools`).
- Configuration, and the checks of the WiFi module before the loop begins.

## Plan

Done in this order: `MQTTBroker` and its proofs, `ClientSessions`,
`MQTTBrokerLoop`, `MQTTConnection`, `PassiveTimer` and `StatsManager` with their proofs,
`DataModel` and its proofs, `NMEASource`, `NMEAWiFiSource`, the fields, messages and leaves with the bridge that composes
them, `MQTTMessages`, `Logger` and its proofs. What could follow:

1. `DataModel` composed with `MQTTBroker`: the arrays implement its sets of subscribers.
2. The bits of AIS messages, once the code publishes them.
