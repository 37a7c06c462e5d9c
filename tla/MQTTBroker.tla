----------------------------- MODULE MQTTBroker -----------------------------
(***************************************************************************)
(* The connection and session tables of the broker (MQTTBroker.cpp,        *)
(* MQTTSession.cpp, MQTTConnection.cpp) and the subscriptions its sessions *)
(* hold in the data model.                                                 *)
(*                                                                         *)
(* A connection (slot of `connections') is a TCP connection; a session     *)
(* (slot of `sessions') is what the broker remembers of a client and may   *)
(* outlive its connection.  The two point at each other, and every handler *)
(* has to keep the two pointers, the two valid bits and the subscriber     *)
(* lists together by hand.                                                 *)
(*                                                                         *)
(* The program is one cooperative loop, so a handler is one step.  This    *)
(* module lets the handlers run in any order; MQTTBrokerLoop adds the      *)
(* order in which MQTTBroker::service calls them.  A timer is the number   *)
(* of ticks left before it expires.                                        *)
(***************************************************************************)
EXTENDS Naturals

CONSTANTS
  maxMQTTSessions,  \* slots of both tables
  ClientIDs,        \* the client IDs that clients choose
  Endpoints,        \* remote "ip:port" of a TCP client
  Leaves,           \* leaves of the data model
  KeepAlives,       \* keep alive times a CONNECT may ask for, in ticks
  TearDownTime,     \* unconnectedSessionTearDownTime, in ticks
  RepeatConnect,    \* may a client send CONNECT on a connection that has a session?
  None              \* NULL, and the empty client ID

ASSUME SlotsAssumption == maxMQTTSessions \in Nat
ASSUME TimesAssumption == KeepAlives \subseteq Nat /\ TearDownTime \in Nat
ASSUME NoneAssumption == None \notin Nat \cup ClientIDs \cup Endpoints
ASSUME RepeatAssumption == RepeatConnect \in BOOLEAN

VARIABLES
  connectionValid,  \* connections in use
  wifiClient,       \* the endpoint a connection serves
  mqttSession,      \* MQTTConnection::mqttSession
  connAck,          \* what the client of a connection read of the answer to its last CONNECT
  sessionValid,     \* sessions in use
  clientID, cleanSession, connection, keepAliveTime,
  keepAliveTimer, tearDownTimer,
  subscribers,      \* per leaf, the sessions subscribed to it
  dataModelDebugNeedsUpdating,
  connectionDebugs, \* what $SYS last showed of the connections,
  sessionDebugs,    \* and of the sessions
  wifiIsConnected,
  fatal,            \* why the program called fatalError
  incoming,         \* clients the WiFi module holds for WiFiServer::available
  alive             \* wifiClient.connected() of each connection

connectionVars == <<connectionValid, wifiClient, mqttSession, connAck>>
sessionVars == <<sessionValid, clientID, cleanSession, connection,
                 keepAliveTime, keepAliveTimer, tearDownTimer, subscribers>>
debugVars == <<dataModelDebugNeedsUpdating, connectionDebugs, sessionDebugs>>
networkVars == <<incoming, alive>>
programVars == <<wifiIsConnected, fatal>>
vars == <<connectionVars, sessionVars, debugVars, networkVars, programVars>>

Slots == 1..maxMQTTSessions
Names == ClientIDs \cup Endpoints   \* a client without an ID is named by its endpoint

\* CONNACKs, by return code and session present flag, and one not written in full.
Acks == {"none", "accepted", "resumed", "refused", "cut short"}
Fatals == {"none", "lost WiFi", "lost track of session"}

\* setSeconds(keepAliveTime + keepAliveTime / 2)
KeepAliveTicks(k) == k + k \div 2

ConnectMessages ==
  [clientID : ClientIDs \cup {None}, cleanSession : BOOLEAN, keepAlive : KeepAlives]

\* The slot a scan from the start of a table returns.
IsFirst(slot, candidates) ==
  slot \in candidates /\ \A other \in candidates : slot <= other

Connected(s) == connection[s] # None
HasSession(c) == mqttSession[c] # None

\* Slip: the subscriptions stay.
UnsubscribeNone(s) == subscribers

\* DataModel::unsubscribeAll
UnsubscribeAll(s) == [leaf \in Leaves |-> subscribers[leaf] \ {s}]
Running == fatal = "none"

Init ==
  /\ connectionValid = [c \in Slots |-> FALSE]
  /\ wifiClient = [c \in Slots |-> None]
  /\ mqttSession = [c \in Slots |-> None]
  /\ connAck = [c \in Slots |-> "none"]
  /\ sessionValid = [s \in Slots |-> FALSE]
  /\ clientID = [s \in Slots |-> None]
  /\ cleanSession = [s \in Slots |-> FALSE]
  /\ connection = [s \in Slots |-> None]
  /\ keepAliveTime = [s \in Slots |-> 0]
  /\ keepAliveTimer = [s \in Slots |-> 0]
  /\ tearDownTimer = [s \in Slots |-> 0]
  /\ subscribers = [leaf \in Leaves |-> {}]
  /\ dataModelDebugNeedsUpdating = TRUE
  /\ connectionDebugs = {}
  /\ sessionDebugs = {}
  /\ wifiIsConnected = FALSE
  /\ fatal = "none"
  /\ incoming = {}
  /\ alive = [c \in Slots |-> FALSE]

-----------------------------------------------------------------------------
(* The world around the broker: WiFi, TCP clients, time. *)

WifiConnected ==
  /\ Running
  /\ ~wifiIsConnected
  /\ wifiIsConnected' = TRUE
  /\ UNCHANGED <<connectionVars, sessionVars, debugVars, networkVars, fatal>>

WifiDisconnected ==
  /\ Running
  /\ wifiIsConnected
  /\ wifiIsConnected' = FALSE
  /\ fatal' = "lost WiFi"
  /\ UNCHANGED <<connectionVars, sessionVars, debugVars, networkVars>>

LiveEndpoints == {wifiClient[c] : c \in {d \in Slots : alive[d]}}

\* A TCP connection from an endpoint is one of a kind while it lasts.
ClientOpens(e) ==
  /\ wifiIsConnected
  /\ e \notin incoming \cup LiveEndpoints
  /\ incoming' = incoming \cup {e}
  /\ UNCHANGED <<connectionVars, sessionVars, debugVars, programVars, alive>>

ClientGivesUp(e) ==
  /\ e \in incoming
  /\ incoming' = incoming \ {e}
  /\ UNCHANGED <<connectionVars, sessionVars, debugVars, programVars, alive>>

\* The client closes, or is lost; the broker learns of it from connected().
ConnectionDrops(c) ==
  /\ alive[c]
  /\ alive' = [alive EXCEPT ![c] = FALSE]
  /\ UNCHANGED <<connectionVars, sessionVars, debugVars, programVars, incoming>>

Decremented(timer) == [s \in Slots |-> IF timer[s] = 0 THEN 0 ELSE timer[s] - 1]

Tick ==
  /\ \E s \in Slots : keepAliveTimer[s] # 0 \/ tearDownTimer[s] # 0
  /\ keepAliveTimer' = Decremented(keepAliveTimer)
  /\ tearDownTimer' = Decremented(tearDownTimer)
  /\ UNCHANGED <<connectionVars, sessionValid, clientID, cleanSession, connection,
                 keepAliveTime, subscribers, debugVars, networkVars, programVars>>

-----------------------------------------------------------------------------
(* Ending a connection: MQTTBroker::terminateConnection, which handlers and *)
(* the keep alive timer call, and checkForLostConnections.                  *)

\* The tables after MQTTSession::disconnect and, unless the session is
\* retained, its removal from `sessions'.
\* Slip: retained sessions are removed too.
ValidAfterDisconnectOfAny(s) == [sessionValid EXCEPT ![s] = FALSE]

ValidAfterDisconnect(s) ==
  IF cleanSession[s] THEN [sessionValid EXCEPT ![s] = FALSE] ELSE sessionValid

\* Slip: disconnect forgets to clear MQTTSession::connection.
LinksKeptAfterDisconnect(s) == connection

LinksAfterDisconnect(s) == [connection EXCEPT ![s] = None]

SubscribersAfterDisconnect(s) ==
  IF cleanSession[s] THEN UnsubscribeAll(s) ELSE subscribers

TearDownAfterDisconnect(s) ==
  IF cleanSession[s] THEN tearDownTimer ELSE [tearDownTimer EXCEPT ![s] = TearDownTime]

\* The search for the session of a connection that is not retained fails.
LostTrack(c) ==
  HasSession(c) /\ cleanSession[mqttSession[c]] /\ ~sessionValid[mqttSession[c]]

\* fatalError ends the program, so what the handler changed before is not kept.
Halt ==
  /\ fatal' = "lost track of session"
  /\ UNCHANGED <<connectionVars, sessionVars, debugVars, networkVars, wifiIsConnected>>

DetachSession(c) ==
  \/ /\ ~HasSession(c)
     /\ UNCHANGED sessionVars
  \/ /\ HasSession(c)
     /\ sessionValid' = ValidAfterDisconnect(mqttSession[c])
     /\ connection' = LinksAfterDisconnect(mqttSession[c])
     /\ subscribers' = SubscribersAfterDisconnect(mqttSession[c])
     /\ tearDownTimer' = TearDownAfterDisconnect(mqttSession[c])
     /\ UNCHANGED <<clientID, cleanSession, keepAliveTime, keepAliveTimer>>

\* Slip: the debugs are not marked as out of date.
FreeConnectionUnflagged(c) ==
  /\ connectionValid' = [connectionValid EXCEPT ![c] = FALSE]
  /\ UNCHANGED <<wifiClient, mqttSession, connAck, debugVars, incoming, programVars>>

\* mqttSession keeps its value: only MQTTConnection::begin resets it.
FreeConnection(c) ==
  /\ connectionValid' = [connectionValid EXCEPT ![c] = FALSE]
  /\ dataModelDebugNeedsUpdating' = TRUE
  /\ UNCHANGED <<wifiClient, mqttSession, connAck, connectionDebugs, sessionDebugs,
                 incoming, programVars>>

TerminateConnection(c) ==
  \/ /\ ~LostTrack(c)
     /\ alive' = [alive EXCEPT ![c] = FALSE]
     /\ DetachSession(c)
     /\ FreeConnection(c)
  \/ LostTrack(c) /\ Halt

CleanupLostConnection(c) ==
  /\ Running
  /\ connectionValid[c]
  /\ ~alive[c]
  /\ \/ /\ ~LostTrack(c)
        /\ DetachSession(c)
        /\ FreeConnection(c)
        /\ UNCHANGED alive
     \/ LostTrack(c) /\ Halt

-----------------------------------------------------------------------------
(* MQTTSession::service *)

KeepAliveExpires(s) ==
  /\ Running
  /\ sessionValid[s]
  /\ Connected(s)
  /\ keepAliveTimer[s] = 0
  /\ TerminateConnection(connection[s])

TearDownExpires(s) ==
  /\ Running
  /\ sessionValid[s]
  /\ ~Connected(s)
  /\ tearDownTimer[s] = 0
  /\ subscribers' = UnsubscribeAll(s)
  /\ sessionValid' = [sessionValid EXCEPT ![s] = FALSE]
  /\ dataModelDebugNeedsUpdating' = TRUE
  /\ UNCHANGED <<connectionVars, clientID, cleanSession, connection, keepAliveTime,
                 keepAliveTimer, tearDownTimer, connectionDebugs, sessionDebugs,
                 networkVars, programVars>>

-----------------------------------------------------------------------------
(* What $SYS shows of the broker.  The client counts are the number of      *)
(* session debugs with and without an endpoint.                             *)

NameOf(s) == IF s = None THEN None ELSE clientID[s]
EndpointOf(c) == IF c = None THEN None ELSE wifiClient[c]

ConnectionDebugs ==
  {<<wifiClient[c], NameOf(mqttSession[c])>> : c \in {d \in Slots : connectionValid[d]}}

SessionDebugs ==
  {<<clientID[s], EndpointOf(connection[s])>> : s \in {r \in Slots : sessionValid[r]}}

UpdateDataModelDebugs ==
  /\ Running
  /\ dataModelDebugNeedsUpdating
  /\ connectionDebugs' = ConnectionDebugs
  /\ sessionDebugs' = SessionDebugs
  /\ dataModelDebugNeedsUpdating' = FALSE
  /\ UNCHANGED <<connectionVars, sessionVars, networkVars, programVars>>

-----------------------------------------------------------------------------
(* WiFiServer::available returns a new client, or one the broker has.       *)

FreeConnections == {c \in Slots : ~connectionValid[c]}

\* Slip: available() is taken to return new clients only.
EveryWiFiClientIsNew(e) == FALSE

\* MQTTConnection::matches asks the WiFiClient, which has lost its address by
\* the time it is seen to be gone (MQTTConnection.h:34), so it may not match.
WiFiClientIsExistingConnection(e) ==
  \E c \in Slots : connectionValid[c] /\ alive[c] /\ wifiClient[c] = e

AvailableClient(e) ==
  /\ Running
  /\ wifiIsConnected
  /\ e \in incoming \cup LiveEndpoints
  /\ ~WiFiClientIsExistingConnection(e)
  /\ incoming' = incoming \ {e}

\* Slip: MQTTConnection::begin leaves the pointer of the slot's last connection.
PointerLeft(c) == mqttSession

PointerReset(c) == [mqttSession EXCEPT ![c] = None]

NewConnection(e, c) ==
  /\ AvailableClient(e)
  /\ IsFirst(c, FreeConnections)
  /\ connectionValid' = [connectionValid EXCEPT ![c] = TRUE]
  /\ wifiClient' = [wifiClient EXCEPT ![c] = e]
  /\ mqttSession' = PointerReset(c)
  /\ connAck' = [connAck EXCEPT ![c] = "none"]
  /\ alive' = [alive EXCEPT ![c] = TRUE]
  /\ dataModelDebugNeedsUpdating' = TRUE
  /\ UNCHANGED <<sessionVars, connectionDebugs, sessionDebugs, programVars>>

RefuseIncomingWiFiClient(e) ==
  /\ AvailableClient(e)
  /\ FreeConnections = {}
  /\ UNCHANGED <<connectionVars, sessionVars, debugVars, programVars, alive>>

-----------------------------------------------------------------------------
(* A complete message from a connection reaches messageReceived.  After     *)
(* terminateConnection the client is stopped and yields no more messages.   *)

MessageFrom(c) ==
  /\ Running
  /\ wifiIsConnected
  /\ connectionValid[c]
  /\ alive[c]

\* Any of the three writes may fall short, and no caller looks at the result.
SendConnAck(c, ack) ==
  \E written \in {ack, "cut short"} : connAck' = [connAck EXCEPT ![c] = written]

\* sendMQTTConnectAckMessage with an error code; the connection stays open.
RefuseConnect(c) ==
  /\ SendConnAck(c, "refused")
  /\ UNCHANGED <<connectionValid, wifiClient, mqttSession, sessionVars, debugVars,
                 networkVars, programVars>>

FirstConnect(c) == MessageFrom(c) /\ ~HasSession(c)

\* Another protocol level, no client ID without a clean session (sanityCheck);
\* a will, a user name, a password, or too long a client ID.
ConnectNotServed(c) == FirstConnect(c) /\ RefuseConnect(c)

ConnectMalformed(c) == FirstConnect(c) /\ TerminateConnection(c)

Sane(m) == m.clientID # None \/ m.cleanSession

ClientName(c, m) == IF m.clientID = None THEN wifiClient[c] ELSE m.clientID

\* Slip: only sessions that are away are looked at.
MatchingAwaySessions(valid, name) ==
  {s \in Slots : valid[s] /\ clientID[s] = name /\ ~Connected(s)}

MatchingSessions(valid, name) == {s \in Slots : valid[s] /\ clientID[s] = name}
FreeSessions(valid) == {s \in Slots : ~valid[s]}

\* Slip: connectTo is not called.
PointerUnset(c, s) == mqttSession

ConnectTo(c, s) == [mqttSession EXCEPT ![c] = s]

\* Both ends of a new link between connection c and session s.
Link(c, s, links, ack) ==
  /\ connection' = [links EXCEPT ![s] = c]
  /\ mqttSession' = ConnectTo(c, s)
  /\ SendConnAck(c, ack)
  /\ dataModelDebugNeedsUpdating' = TRUE
  /\ UNCHANGED <<wifiClient, connectionDebugs, sessionDebugs, incoming, programVars>>

\* Slip: a retained session is cleared when it is continued.
SubscribersAfterAnyReconnect(s, m, subs) ==
  IF ~m.cleanSession THEN [leaf \in Leaves |-> subs[leaf] \ {s}] ELSE subs

\* MQTTSession::reconnect clears the subscriptions when a clean session is
\* continued as a retained one.
SubscribersAfterReconnect(s, m, subs) ==
  IF ~m.cleanSession /\ cleanSession[s]
  THEN [leaf \in Leaves |-> subs[leaf] \ {s}] ELSE subs

StartSession(s, m) ==
  /\ cleanSession' = [cleanSession EXCEPT ![s] = m.cleanSession]
  /\ keepAliveTime' = [keepAliveTime EXCEPT ![s] = m.keepAlive]
  /\ keepAliveTimer' = [keepAliveTimer EXCEPT ![s] = KeepAliveTicks(m.keepAlive)]

\* Slip: a session is taken over though its client is connected.
AnyIsAway(s, links) == TRUE

IsAway(s, links) == links[s] = None

\* Slip: the session present flag is set for any session that is continued.
AlwaysPresent(m) == "resumed"

\* The session present flag is !cleanSession.
SessionPresent(m) == IF m.cleanSession THEN "accepted" ELSE "resumed"

\* The client is known and away: MQTTSession::reconnect.
Reconnect(c, s, m, valid, links, subs) ==
  /\ IsFirst(s, MatchingSessions(valid, ClientName(c, m)))
  /\ IsAway(s, links)
  /\ StartSession(s, m)
  /\ subscribers' = SubscribersAfterReconnect(s, m, subs)
  /\ sessionValid' = valid
  /\ Link(c, s, links, SessionPresent(m))
  /\ UNCHANGED clientID

\* The client is not known and a slot is free: MQTTSession::begin.
Begin(c, s, m, valid, links, subs) ==
  /\ MatchingSessions(valid, ClientName(c, m)) = {}
  /\ IsFirst(s, FreeSessions(valid))
  /\ StartSession(s, m)
  /\ subscribers' = subs
  /\ sessionValid' = [valid EXCEPT ![s] = TRUE]
  /\ clientID' = [clientID EXCEPT ![s] = ClientName(c, m)]
  /\ Link(c, s, links, "accepted")

\* The client has a connected session, or there is no slot left for it.
ServerUnavailable(c, m, valid, links) ==
  \/ \E s \in Slots : /\ IsFirst(s, MatchingSessions(valid, ClientName(c, m)))
                      /\ ~IsAway(s, links)
  \/ /\ MatchingSessions(valid, ClientName(c, m)) = {}
     /\ FreeSessions(valid) = {}

ConnectReconnects(c, m) ==
  /\ FirstConnect(c)
  /\ Sane(m)
  /\ \E s \in Slots : Reconnect(c, s, m, sessionValid, connection, subscribers)
  /\ UNCHANGED <<connectionValid, alive, tearDownTimer>>

ConnectBegins(c, m) ==
  /\ FirstConnect(c)
  /\ Sane(m)
  /\ \E s \in Slots : Begin(c, s, m, sessionValid, connection, subscribers)
  /\ UNCHANGED <<connectionValid, alive, tearDownTimer>>

ConnectUnavailable(c, m) ==
  /\ FirstConnect(c)
  /\ Sane(m)
  /\ ServerUnavailable(c, m, sessionValid, connection)
  /\ RefuseConnect(c)

\* What a client may say in a CONNECT on a connection that has a session.
SecondConnectMessages == IF RepeatConnect THEN ConnectMessages ELSE {}

\* A second CONNECT terminates the connection, and then the handler goes on:
\* a malformed one terminates it again, a well-formed one may link the
\* stopped connection with a session.  Its acknowledgement cannot be sent.
SecondConnect(c) == MessageFrom(c) /\ HasSession(c)

SecondConnectMalformed(c) ==
  /\ SecondConnect(c)
  /\ IF cleanSession[mqttSession[c]] THEN Halt ELSE TerminateConnection(c)

SecondConnectRefused(c) == SecondConnect(c) /\ TerminateConnection(c)

SecondConnectProceeds(c, m) ==
  LET old == mqttSession[c]
      valid == ValidAfterDisconnect(old)
      links == LinksAfterDisconnect(old)
      subs == SubscribersAfterDisconnect(old)
  IN /\ SecondConnect(c)
     /\ ~LostTrack(c)
     /\ Sane(m)
     /\ \E s \in Slots : \/ Reconnect(c, s, m, valid, links, subs)
                         \/ Begin(c, s, m, valid, links, subs)
     /\ tearDownTimer' = TearDownAfterDisconnect(old)
     /\ connectionValid' = [connectionValid EXCEPT ![c] = FALSE]
     /\ alive' = [alive EXCEPT ![c] = FALSE]

SecondConnectUnavailable(c, m) ==
  /\ SecondConnect(c)
  /\ ~LostTrack(c)
  /\ Sane(m)
  /\ ServerUnavailable(c, m, ValidAfterDisconnect(mqttSession[c]),
                       LinksAfterDisconnect(mqttSession[c]))
  /\ TerminateConnection(c)

\* MQTTSession::resetKeepAliveTimer
ResetKeepAliveTimer(s) ==
  keepAliveTimer' = [keepAliveTimer EXCEPT ![s] = KeepAliveTicks(keepAliveTime[s])]

\* SUBSCRIBE and UNSUBSCRIBE, where `matched' is what the topic filters match.
SubscribeMessage(c, matched) ==
  /\ MessageFrom(c)
  /\ HasSession(c)
  /\ ResetKeepAliveTimer(mqttSession[c])
  /\ subscribers' = [leaf \in Leaves |->
       IF leaf \in matched THEN subscribers[leaf] \cup {mqttSession[c]} ELSE subscribers[leaf]]
  /\ UNCHANGED <<connectionVars, sessionValid, clientID, cleanSession, connection,
                 keepAliveTime, tearDownTimer, debugVars, networkVars, programVars>>

UnsubscribeMessage(c, matched) ==
  /\ MessageFrom(c)
  /\ HasSession(c)
  /\ ResetKeepAliveTimer(mqttSession[c])
  /\ subscribers' = [leaf \in Leaves |->
       IF leaf \in matched THEN subscribers[leaf] \ {mqttSession[c]} ELSE subscribers[leaf]]
  /\ UNCHANGED <<connectionVars, sessionValid, clientID, cleanSession, connection,
                 keepAliveTime, tearDownTimer, debugVars, networkVars, programVars>>

PingRequestMessage(c) ==
  /\ MessageFrom(c)
  /\ HasSession(c)
  /\ ResetKeepAliveTimer(mqttSession[c])
  /\ UNCHANGED <<connectionVars, sessionValid, clientID, cleanSession, connection,
                 keepAliveTime, tearDownTimer, subscribers, debugVars, networkVars,
                 programVars>>

\* DISCONNECT, reserved and server-only messages, messages that do not parse
\* or cannot be framed, and SUBSCRIBE, UNSUBSCRIBE or PINGREQ without a
\* session, all end the connection and change nothing else.
TerminatingMessage(c) == MessageFrom(c) /\ TerminateConnection(c)

-----------------------------------------------------------------------------

Environment ==
  \/ WifiConnected \/ WifiDisconnected \/ Tick
  \/ \E e \in Endpoints : ClientOpens(e) \/ ClientGivesUp(e)
  \/ \E c \in Slots : ConnectionDrops(c)

Service ==
  \/ \E c \in Slots : CleanupLostConnection(c)
  \/ \E s \in Slots : KeepAliveExpires(s) \/ TearDownExpires(s)
  \/ UpdateDataModelDebugs
  \/ \E e \in Endpoints : \/ RefuseIncomingWiFiClient(e)
                          \/ \E c \in Slots : NewConnection(e, c)

ConnectMessage(c) ==
  \/ ConnectNotServed(c) \/ ConnectMalformed(c)
  \/ \E m \in ConnectMessages :
       ConnectReconnects(c, m) \/ ConnectBegins(c, m) \/ ConnectUnavailable(c, m)
  \/ \E m \in SecondConnectMessages :
       \/ SecondConnectMalformed(c) \/ SecondConnectRefused(c)
       \/ SecondConnectProceeds(c, m) \/ SecondConnectUnavailable(c, m)

MessageReceived(c) ==
  \/ ConnectMessage(c)
  \/ PingRequestMessage(c)
  \/ TerminatingMessage(c)
  \/ \E matched \in SUBSET Leaves :
       SubscribeMessage(c, matched) \/ UnsubscribeMessage(c, matched)

Next == Environment \/ Service \/ \E c \in Slots : MessageReceived(c)

Spec == Init /\ [][Next]_vars

-----------------------------------------------------------------------------
(* Properties *)

\* Every variable has its type; the only type invariant of this module.
TypeOK ==
  /\ connectionValid \in [Slots -> BOOLEAN]
  /\ wifiClient \in [Slots -> Endpoints \cup {None}]
  /\ mqttSession \in [Slots -> Slots \cup {None}]
  /\ connAck \in [Slots -> Acks]
  /\ sessionValid \in [Slots -> BOOLEAN]
  /\ clientID \in [Slots -> Names \cup {None}]
  /\ cleanSession \in [Slots -> BOOLEAN]
  /\ connection \in [Slots -> Slots \cup {None}]
  /\ keepAliveTime \in [Slots -> Nat]
  /\ keepAliveTimer \in [Slots -> Nat]
  /\ tearDownTimer \in [Slots -> Nat]
  /\ subscribers \in [Leaves -> SUBSET Slots]
  /\ dataModelDebugNeedsUpdating \in BOOLEAN
  /\ connectionDebugs \subseteq (Endpoints \cup {None}) \X (Names \cup {None})
  /\ sessionDebugs \subseteq (Names \cup {None}) \X (Endpoints \cup {None})
  /\ wifiIsConnected \in BOOLEAN
  /\ fatal \in Fatals
  /\ incoming \subseteq Endpoints
  /\ alive \in [Slots -> BOOLEAN]

\* A session in use that has a connection is the session of that connection,
\* which is in use.
SessionLinks ==
  \A s \in Slots : sessionValid[s] /\ Connected(s) =>
    connectionValid[connection[s]] /\ mqttSession[connection[s]] = s

\* A connection in use that has a session is the connection of that session,
\* which is in use.
ConnectionLinks ==
  \A c \in Slots : connectionValid[c] /\ HasSession(c) =>
    sessionValid[mqttSession[c]] /\ connection[mqttSession[c]] = c

\* The pointers MQTTSession::connection and MQTTConnection::mqttSession of the
\* slots in use are inverse to each other and never dangle, though seven
\* places in the code set them and the valid bits one at a time.
LinksSymmetric == SessionLinks /\ ConnectionLinks

\* At most one session in use per client name, through every way a session
\* is kept, continued or replaced (MQTTBroker::findMatchingSession).
OneSessionPerClient ==
  \A r, s \in Slots :
    sessionValid[r] /\ sessionValid[s] /\ clientID[r] = clientID[s] => r = s

\* Only sessions in use are subscribed: MQTTSession::begin does not clear
\* subscriptions, so whoever ended the slot's last session must have.
SubscribersAreSessions ==
  \A leaf \in Leaves : \A s \in subscribers[leaf] : sessionValid[s]

\* The searches behind "Lost track of a MQTT Session" never fail.
NeverLosesTrack == fatal # "lost track of session"

\* A client on an open connection that read a CONNACK knows where it stands:
\* one that was accepted has a session, and one that outlives the connection if
\* it was told that it resumes it; one that was refused has none.  A client with
\* a session was told so, but for a CONNACK that could not be written
\* (connectMessageReceived ignores that).
ToldOfSession ==
  \A c \in Slots : connectionValid[c] =>
    /\ connAck[c] \in {"accepted", "resumed"} =>
         \E s \in Slots : sessionValid[s] /\ connection[s] = c
    /\ \A s \in Slots : sessionValid[s] /\ connection[s] = c =>
         /\ connAck[c] \in {"accepted", "resumed", "cut short"}
         /\ connAck[c] = "resumed" => ~cleanSession[s]

\* A TCP client never gets a second connection slot while its first lives,
\* though WiFiServer::available may offer it again.
OneConnectionPerClient ==
  \A c, d \in Slots :
    connectionValid[c] /\ connectionValid[d] /\ alive[c] /\ alive[d]
      /\ wifiClient[c] = wifiClient[d] => c = d

\* The flag protocol of MQTTBroker.h: while the flag is clear, $SYS shows
\* the connections and sessions there are.
DebugsCurrent ==
  ~dataModelDebugNeedsUpdating =>
    connectionDebugs = ConnectionDebugs /\ sessionDebugs = SessionDebugs

\* A retained session ends only when its client stayed away for the whole
\* tear down time.
RetainedUntilTearDown ==
  [][\A s \in Slots : sessionValid[s] /\ ~cleanSession[s] /\ ~sessionValid'[s] =>
       ~Connected(s) /\ tearDownTimer[s] = 0]_vars

\* A CONNECT never takes a session away from the connection it is on.
NoTakeOver ==
  [][\A s \in Slots : Connected(s) /\ connection'[s] # None =>
       connection'[s] = connection[s]]_vars

\* A client that returns with Clean Session set: its old session goes on as a
\* clean one.
CleanReturn(s) == ~Connected(s) /\ Connected(s)' /\ cleanSession'[s]

\* A session has the same subscriptions before and after its connection is lost,
\* while it is away, and when its client returns to go on with it.
SubscriptionsSurvive ==
  [][\A s \in Slots :
       /\ sessionValid[s] /\ sessionValid'[s]
       /\ ~Connected(s) \/ ~Connected(s)'
       /\ ~CleanReturn(s)
       => \A leaf \in Leaves : s \in subscribers'[leaf] <=> s \in subscribers[leaf]]_vars

\* "If the client reconnects with the Clean Session set, we need to clear out the
\* old subscriptions before we establish the connection" (MQTTSession.cpp:56).
CleanReturnStartsEmpty ==
  [][\A s \in Slots : sessionValid[s] /\ CleanReturn(s) =>
       \A leaf \in Leaves : s \notin subscribers'[leaf]]_vars

=============================================================================
