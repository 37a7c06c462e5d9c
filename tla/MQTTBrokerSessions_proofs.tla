---------------------- MODULE MQTTBrokerSessions_proofs ----------------------
(***************************************************************************)
(* Theorems about MQTTBroker, for every number of slots, every set of      *)
(* clients, endpoints, leaves and keep alive times; and that it implements *)
(* ClientSessions when a client sends CONNECT once per connection.         *)
(***************************************************************************)
EXTENDS MQTTBrokerSessions, FiniteSetTheorems, TLAPS


-----------------------------------------------------------------------------
(* Type correctness *)

LEMMA TicksType == \A k \in Nat : KeepAliveTicks(k) \in Nat
  BY DEF KeepAliveTicks

LEMMA NoneIsNoSlot == None \notin Slots
  BY NoneAssumption DEF Slots

\* The tables after MQTTSession::disconnect have the types of the tables.
LEMMA DisconnectTypes ==
  ASSUME TypeOK, NEW s \in Slots
  PROVE  /\ ValidAfterDisconnect(s) \in [Slots -> BOOLEAN]
         /\ LinksAfterDisconnect(s) \in [Slots -> Slots \cup {None}]
         /\ SubscribersAfterDisconnect(s) \in [Leaves -> SUBSET Slots]
         /\ TearDownAfterDisconnect(s) \in [Slots -> Nat]
  BY TimesAssumption
     DEF TypeOK, ValidAfterDisconnect, LinksAfterDisconnect,
         SubscribersAfterDisconnect, TearDownAfterDisconnect, UnsubscribeAll

LEMMA HaltType ==
  ASSUME TypeOK, Halt
  PROVE  TypeOK'
  BY DEF TypeOK, Halt, Fatals, vars, connectionVars, sessionVars, debugVars, networkVars,
         programVars, Names, Acks

LEMMA DetachType ==
  ASSUME TypeOK, NEW c \in Slots, DetachSession(c)
  PROVE  /\ sessionValid' \in [Slots -> BOOLEAN]
         /\ connection' \in [Slots -> Slots \cup {None}]
         /\ subscribers' \in [Leaves -> SUBSET Slots]
         /\ tearDownTimer' \in [Slots -> Nat]
         /\ clientID' \in [Slots -> Names \cup {None}]
         /\ cleanSession' \in [Slots -> BOOLEAN]
         /\ keepAliveTime' \in [Slots -> Nat]
         /\ keepAliveTimer' \in [Slots -> Nat]
<1>1. CASE ~HasSession(c)
  BY <1>1 DEF DetachSession, sessionVars, TypeOK
<1>2. CASE HasSession(c)
  <2>1. mqttSession[c] \in Slots
    BY <1>2 DEF HasSession, TypeOK
  <2> QED
    BY <1>2, <2>1, DisconnectTypes DEF DetachSession, TypeOK
<1> QED BY <1>1, <1>2

LEMMA TerminateType ==
  ASSUME TypeOK, NEW c \in Slots, TerminateConnection(c)
  PROVE  TypeOK'
<1>1. CASE LostTrack(c) /\ Halt
  BY <1>1, HaltType
<1>2. CASE /\ ~LostTrack(c)
           /\ alive' = [alive EXCEPT ![c] = FALSE]
           /\ DetachSession(c)
           /\ FreeConnection(c)
  BY <1>2, DetachType DEF FreeConnection, TypeOK, programVars
<1> QED BY <1>1, <1>2 DEF TerminateConnection

LEMMA CleanupType ==
  ASSUME TypeOK, NEW c \in Slots, CleanupLostConnection(c)
  PROVE  TypeOK'
<1>1. CASE LostTrack(c) /\ Halt
  BY <1>1, HaltType
<1>2. CASE /\ ~LostTrack(c)
           /\ DetachSession(c)
           /\ FreeConnection(c)
           /\ UNCHANGED alive
  BY <1>2, DetachType DEF FreeConnection, TypeOK, programVars
<1> QED BY <1>1, <1>2 DEF CleanupLostConnection

\* A successful CONNECT, first or second, from tables that have their types.
LEMMA ReconnectType ==
  ASSUME TypeOK, NEW c \in Slots, NEW s \in Slots, NEW m \in ConnectMessages,
         NEW valid \in [Slots -> BOOLEAN],
         NEW links \in [Slots -> Slots \cup {None}],
         NEW subs \in [Leaves -> SUBSET Slots],
         Reconnect(c, s, m, valid, links, subs) \/ Begin(c, s, m, valid, links, subs),
         connectionValid' \in [Slots -> BOOLEAN],
         alive' \in [Slots -> BOOLEAN],
         tearDownTimer' \in [Slots -> Nat]
  PROVE  TypeOK'
<1>1. m.keepAlive \in Nat /\ m.cleanSession \in BOOLEAN /\ m.clientID \in ClientIDs \cup {None}
  BY TimesAssumption DEF ConnectMessages
<1>2. ClientName(c, m) \in Names \cup {None}
  BY <1>1 DEF ClientName, TypeOK, Names
<1>3. KeepAliveTicks(m.keepAlive) \in Nat
  BY <1>1, TicksType
<1>4. /\ cleanSession' \in [Slots -> BOOLEAN]
      /\ keepAliveTime' \in [Slots -> Nat]
      /\ keepAliveTimer' \in [Slots -> Nat]
  BY <1>1, <1>3 DEF Reconnect, Begin, StartSession, TypeOK
<1>5. /\ connection' \in [Slots -> Slots \cup {None}]
      /\ mqttSession' \in [Slots -> Slots \cup {None}]
      /\ connAck' \in [Slots -> Acks]
      /\ dataModelDebugNeedsUpdating' \in BOOLEAN
      /\ UNCHANGED <<wifiClient, connectionDebugs, sessionDebugs, incoming, programVars>>
  <2>1. Link(c, s, links, SessionPresent(m)) \/ Link(c, s, links, "accepted")
    BY DEF Reconnect, Begin
  <2>2. PICK ack \in Acks : connAck' = [connAck EXCEPT ![c] = ack]
    BY <2>1 DEF Link, SendConnAck, SessionPresent, Acks
  <2>3. /\ connection' = [links EXCEPT ![s] = c]
        /\ mqttSession' = [mqttSession EXCEPT ![c] = s]
        /\ dataModelDebugNeedsUpdating' = TRUE
        /\ UNCHANGED <<wifiClient, connectionDebugs, sessionDebugs, incoming, programVars>>
    BY <2>1 DEF Link, ConnectTo
  <2> QED
    BY <2>2, <2>3 DEF TypeOK
<1>6. /\ sessionValid' \in [Slots -> BOOLEAN]
      /\ subscribers' \in [Leaves -> SUBSET Slots]
      /\ clientID' \in [Slots -> Names \cup {None}]
  <2>1. CASE Reconnect(c, s, m, valid, links, subs)
    <3>1. SubscribersAfterReconnect(s, m, subs) \in [Leaves -> SUBSET Slots]
      BY DEF SubscribersAfterReconnect
    <3> QED BY <2>1, <3>1 DEF Reconnect, TypeOK
  <2>2. CASE Begin(c, s, m, valid, links, subs)
    BY <2>2, <1>2 DEF Begin, TypeOK
  <2> QED BY <2>1, <2>2
<1>7. UNCHANGED <<wifiClient, connectionDebugs, sessionDebugs, incoming, wifiIsConnected, fatal>>
  BY <1>5 DEF programVars
<1>8. /\ wifiClient' \in [Slots -> Endpoints \cup {None}]
      /\ connectionDebugs' \subseteq (Endpoints \cup {None}) \X (Names \cup {None})
      /\ sessionDebugs' \subseteq (Names \cup {None}) \X (Endpoints \cup {None})
      /\ wifiIsConnected' \in BOOLEAN
      /\ fatal' \in Fatals
      /\ incoming' \subseteq Endpoints
  BY <1>7 DEF TypeOK
<1> QED
  BY <1>4, <1>5, <1>6, <1>8 DEF TypeOK

LEMMA RefuseType ==
  ASSUME TypeOK, NEW c \in Slots, RefuseConnect(c)
  PROVE  TypeOK'
  BY DEF TypeOK, RefuseConnect, SendConnAck, Acks, sessionVars, debugVars, networkVars, programVars

LEMMA ConnectType ==
  ASSUME TypeOK, NEW c \in Slots, ConnectMessage(c)
  PROVE  TypeOK'
<1>1. CASE ConnectNotServed(c)
  BY <1>1, RefuseType DEF ConnectNotServed
<1>3. CASE ConnectMalformed(c)
  BY <1>3, TerminateType DEF ConnectMalformed
<1>4. CASE SecondConnectMalformed(c)
  BY <1>4, TerminateType, HaltType DEF SecondConnectMalformed
<1>5. CASE SecondConnectRefused(c)
  BY <1>5, TerminateType DEF SecondConnectRefused
<1>6. ASSUME NEW m \in ConnectMessages, ConnectReconnects(c, m) \/ ConnectBegins(c, m)
      PROVE  TypeOK'
  <2>1. PICK s \in Slots : \/ Reconnect(c, s, m, sessionValid, connection, subscribers)
                           \/ Begin(c, s, m, sessionValid, connection, subscribers)
    BY <1>6 DEF ConnectReconnects, ConnectBegins
  <2>2. UNCHANGED <<connectionValid, alive, tearDownTimer>>
    BY <1>6 DEF ConnectReconnects, ConnectBegins
  <2>3. /\ sessionValid \in [Slots -> BOOLEAN]
        /\ connection \in [Slots -> Slots \cup {None}]
        /\ subscribers \in [Leaves -> SUBSET Slots]
        /\ connectionValid' \in [Slots -> BOOLEAN]
        /\ alive' \in [Slots -> BOOLEAN]
        /\ tearDownTimer' \in [Slots -> Nat]
    BY <2>2 DEF TypeOK
  <2> QED BY <2>1, <2>3, ReconnectType
<1>7. ASSUME NEW m \in ConnectMessages, ConnectUnavailable(c, m)
      PROVE  TypeOK'
  BY <1>7, RefuseType DEF ConnectUnavailable
<1>8. ASSUME NEW m \in ConnectMessages, SecondConnectProceeds(c, m)
      PROVE  TypeOK'
  <2> DEFINE old == mqttSession[c]
             valid == ValidAfterDisconnect(old)
             links == LinksAfterDisconnect(old)
             subs == SubscribersAfterDisconnect(old)
  <2>1. old \in Slots
    BY <1>8 DEF SecondConnectProceeds, SecondConnect, HasSession, TypeOK
  <2>2. PICK s \in Slots : \/ Reconnect(c, s, m, valid, links, subs)
                           \/ Begin(c, s, m, valid, links, subs)
    BY <1>8 DEF SecondConnectProceeds
  <2>3. /\ tearDownTimer' = TearDownAfterDisconnect(old)
        /\ connectionValid' = [connectionValid EXCEPT ![c] = FALSE]
        /\ alive' = [alive EXCEPT ![c] = FALSE]
    BY <1>8 DEF SecondConnectProceeds
  <2>4. /\ valid \in [Slots -> BOOLEAN]
        /\ links \in [Slots -> Slots \cup {None}]
        /\ subs \in [Leaves -> SUBSET Slots]
        /\ tearDownTimer' \in [Slots -> Nat]
    BY <2>1, <2>3, DisconnectTypes
  <2>5. connectionValid' \in [Slots -> BOOLEAN] /\ alive' \in [Slots -> BOOLEAN]
    BY <2>3 DEF TypeOK
  <2> HIDE DEF valid, links, subs
  <2> QED BY <2>2, <2>4, <2>5, ReconnectType
<1>9. ASSUME NEW m \in ConnectMessages, SecondConnectUnavailable(c, m)
      PROVE  TypeOK'
  BY <1>9, TerminateType DEF SecondConnectUnavailable
<1> QED
  BY <1>1, <1>3, <1>4, <1>5, <1>6, <1>7, <1>8, <1>9 DEF ConnectMessage, SecondConnectMessages

LEMMA MessageType ==
  ASSUME TypeOK, NEW c \in Slots, MessageReceived(c)
  PROVE  TypeOK'
<1> USE DEF sessionVars, connectionVars, debugVars, networkVars, programVars
<1>1. CASE ConnectMessage(c)
  BY <1>1, ConnectType
<1>2. CASE TerminatingMessage(c)
  BY <1>2, TerminateType DEF TerminatingMessage
<1>3. ASSUME HasSession(c), ResetKeepAliveTimer(mqttSession[c])
      PROVE  keepAliveTimer' \in [Slots -> Nat] /\ mqttSession[c] \in Slots
  BY <1>3, TicksType DEF ResetKeepAliveTimer, HasSession, TypeOK
<1>4. CASE PingRequestMessage(c)
  BY <1>4, <1>3 DEF PingRequestMessage, TypeOK
<1>5. ASSUME NEW matched \in SUBSET Leaves, SubscribeMessage(c, matched)
      PROVE  TypeOK'
  BY <1>5, <1>3 DEF SubscribeMessage, TypeOK
<1>6. ASSUME NEW matched \in SUBSET Leaves, UnsubscribeMessage(c, matched)
      PROVE  TypeOK'
  BY <1>6, <1>3 DEF UnsubscribeMessage, TypeOK
<1> QED
  BY <1>1, <1>2, <1>4, <1>5, <1>6 DEF MessageReceived

LEMMA ServiceType ==
  ASSUME TypeOK, Service
  PROVE  TypeOK'
<1> USE DEF sessionVars, connectionVars, debugVars, networkVars, programVars
<1>1. ASSUME NEW c \in Slots, CleanupLostConnection(c)
      PROVE  TypeOK'
  BY <1>1, CleanupType
<1>2. ASSUME NEW s \in Slots, KeepAliveExpires(s)
      PROVE  TypeOK'
  <2>1. connection[s] \in Slots /\ TerminateConnection(connection[s])
    BY <1>2 DEF KeepAliveExpires, Connected, TypeOK
  <2> QED BY <2>1, TerminateType
<1>3. ASSUME NEW s \in Slots, TearDownExpires(s)
      PROVE  TypeOK'
  BY <1>3 DEF TearDownExpires, UnsubscribeAll, TypeOK
<1>4. CASE UpdateDataModelDebugs
  <2>1. ConnectionDebugs \subseteq (Endpoints \cup {None}) \X (Names \cup {None})
    <3>1. \A s \in Slots \cup {None} : NameOf(s) \in Names \cup {None}
      BY NoneIsNoSlot DEF NameOf, TypeOK
    <3>2. \A c \in Slots : wifiClient[c] \in Endpoints \cup {None} /\ mqttSession[c] \in Slots \cup {None}
      BY DEF TypeOK
    <3> QED BY <3>1, <3>2 DEF ConnectionDebugs
  <2>2. SessionDebugs \subseteq (Names \cup {None}) \X (Endpoints \cup {None})
    <3>1. \A c \in Slots \cup {None} : EndpointOf(c) \in Endpoints \cup {None}
      BY NoneIsNoSlot DEF EndpointOf, TypeOK
    <3>2. \A s \in Slots : clientID[s] \in Names \cup {None} /\ connection[s] \in Slots \cup {None}
      BY DEF TypeOK
    <3> QED BY <3>1, <3>2 DEF SessionDebugs
  <2>3. /\ connectionDebugs' = ConnectionDebugs
        /\ sessionDebugs' = SessionDebugs
        /\ dataModelDebugNeedsUpdating' = FALSE
        /\ UNCHANGED <<connectionVars, sessionVars, networkVars, programVars>>
    BY <1>4 DEF UpdateDataModelDebugs
  <2> QED
    BY <2>1, <2>2, <2>3 DEF TypeOK
<1>5. ASSUME NEW e \in Endpoints, RefuseIncomingWiFiClient(e)
      PROVE  TypeOK'
  BY <1>5 DEF RefuseIncomingWiFiClient, AvailableClient, TypeOK
<1>6. ASSUME NEW e \in Endpoints, NEW c \in Slots, NewConnection(e, c)
      PROVE  TypeOK'
  BY <1>6 DEF NewConnection, AvailableClient, PointerReset, TypeOK, Acks
<1> QED
  BY <1>1, <1>2, <1>3, <1>4, <1>5, <1>6 DEF Service

LEMMA EnvironmentType ==
  ASSUME TypeOK, Environment
  PROVE  TypeOK'
<1> USE DEF sessionVars, connectionVars, debugVars, networkVars, programVars
<1>1. CASE WifiConnected
  BY <1>1 DEF WifiConnected, TypeOK
<1>2. CASE WifiDisconnected
  BY <1>2 DEF WifiDisconnected, TypeOK, Fatals
<1>3. CASE Tick
  BY <1>3 DEF Tick, Decremented, TypeOK
<1>4. ASSUME NEW e \in Endpoints, ClientOpens(e) \/ ClientGivesUp(e)
      PROVE  TypeOK'
  BY <1>4 DEF ClientOpens, ClientGivesUp, TypeOK
<1>5. ASSUME NEW c \in Slots, ConnectionDrops(c)
      PROVE  TypeOK'
  BY <1>5 DEF ConnectionDrops, TypeOK
<1> QED
  BY <1>1, <1>2, <1>3, <1>4, <1>5 DEF Environment

\* The tables always hold slots, names and times: no handler writes a pointer
\* to a slot that does not exist.
THEOREM TypeCorrect == Spec => []TypeOK
<1>1. Init => TypeOK
  <2> SUFFICES ASSUME Init PROVE TypeOK
    OBVIOUS
  <2>1. /\ connectionValid \in [Slots -> BOOLEAN]
        /\ wifiClient \in [Slots -> Endpoints \cup {None}]
        /\ mqttSession \in [Slots -> Slots \cup {None}]
        /\ connAck \in [Slots -> Acks]
        /\ alive \in [Slots -> BOOLEAN]
    BY DEF Init, Acks
  <2>2. /\ sessionValid \in [Slots -> BOOLEAN]
        /\ clientID \in [Slots -> Names \cup {None}]
        /\ cleanSession \in [Slots -> BOOLEAN]
        /\ connection \in [Slots -> Slots \cup {None}]
    BY DEF Init
  <2>3. /\ keepAliveTime \in [Slots -> Nat]
        /\ keepAliveTimer \in [Slots -> Nat]
        /\ tearDownTimer \in [Slots -> Nat]
    BY DEF Init
  <2>4. /\ subscribers \in [Leaves -> SUBSET Slots]
        /\ dataModelDebugNeedsUpdating \in BOOLEAN
        /\ connectionDebugs = {} /\ sessionDebugs = {} /\ incoming = {}
        /\ wifiIsConnected \in BOOLEAN
        /\ fatal \in Fatals
    BY DEF Init, Fatals
  <2> QED BY <2>1, <2>2, <2>3, <2>4 DEF TypeOK
<1>2. TypeOK /\ [Next]_vars => TypeOK'
  <2> SUFFICES ASSUME TypeOK, [Next]_vars
               PROVE  TypeOK'
    OBVIOUS
  <2>1. CASE Next
    BY <2>1, EnvironmentType, ServiceType, MessageType DEF Next
  <2>2. CASE UNCHANGED vars
    BY <2>2 DEF vars, sessionVars, connectionVars, debugVars, networkVars, programVars, TypeOK
  <2> QED BY <2>1, <2>2
<1> QED BY <1>1, <1>2, PTL DEF Spec

-----------------------------------------------------------------------------
(* Consistency of the tables, when clients send CONNECT once per connection. *)
(* Each conjunct needs others: a session finds its connection in use because *)
(* connections that end unlink the session their pointer names, and that     *)
(* pointer names the right session because of the other direction; no        *)
(* session is lost track of because of the second; subscriptions can be      *)
(* added only through a connection, whose session is in use.                 *)

Consistent ==
  /\ SessionLinks
  /\ ConnectionLinks
  /\ OneSessionPerClient
  /\ SubscribersAreSessions
  /\ NeverLosesTrack

LEMMA NotLost ==
  ASSUME TypeOK, ConnectionLinks, NEW c \in Slots, connectionValid[c]
  PROVE  ~LostTrack(c)
  BY DEF ConnectionLinks, LostTrack

LEMMA DetachConsistent ==
  ASSUME TypeOK, Consistent, NEW c \in Slots, connectionValid[c],
         DetachSession(c),
         connectionValid' = [connectionValid EXCEPT ![c] = FALSE],
         UNCHANGED <<mqttSession, fatal>>
  PROVE  Consistent'
<1>1. CASE ~HasSession(c)
  <2>1. \A s \in Slots : sessionValid[s] => connection[s] # c
    BY <1>1, NoneIsNoSlot DEF Consistent, SessionLinks, Connected, HasSession, TypeOK
  <2>2. UNCHANGED sessionVars
    BY <1>1 DEF DetachSession
  <2>3. SessionLinks'
    BY <2>1, <2>2 DEF Consistent, SessionLinks, Connected, sessionVars, TypeOK
  <2>4. ConnectionLinks'
    BY <2>2 DEF Consistent, ConnectionLinks, HasSession, sessionVars, TypeOK
  <2> QED
    BY <2>2, <2>3, <2>4
       DEF Consistent, OneSessionPerClient, SubscribersAreSessions, NeverLosesTrack, sessionVars
<1>2. CASE HasSession(c)
  <2> DEFINE s == mqttSession[c]
  <2>1. s \in Slots /\ sessionValid[s] /\ connection[s] = c /\ c # None
    BY <1>2, NoneIsNoSlot DEF Consistent, ConnectionLinks, HasSession, TypeOK
  <2>2. /\ sessionValid' = ValidAfterDisconnect(s)
        /\ connection' = [connection EXCEPT ![s] = None]
        /\ subscribers' = SubscribersAfterDisconnect(s)
        /\ clientID' = clientID
    BY <1>2, <2>1 DEF DetachSession, LinksAfterDisconnect
  <2>3. /\ \A r \in Slots : sessionValid'[r] => sessionValid[r]
        /\ \A r \in Slots \ {s} : sessionValid'[r] = sessionValid[r]
    BY <2>1, <2>2 DEF ValidAfterDisconnect, TypeOK
  <2>4. \A r \in Slots : sessionValid[r] /\ connection[r] = c => r = s
    BY <2>1 DEF Consistent, SessionLinks, Connected
  <2>5. \A d \in Slots : connectionValid[d] /\ mqttSession[d] = s => d = c
    BY <2>1, NoneIsNoSlot DEF Consistent, ConnectionLinks, HasSession, TypeOK
  <2>6. SessionLinks'
    <3> SUFFICES ASSUME NEW r \in Slots, sessionValid'[r], connection'[r] # None
                 PROVE  connectionValid'[connection'[r]] /\ mqttSession'[connection'[r]] = r
      BY DEF SessionLinks, Connected
    <3>1. r # s /\ connection'[r] = connection[r]
      BY <2>1, <2>2 DEF TypeOK
    <3>2. connection[r] # c /\ connection[r] \in Slots
      BY <3>1, <2>3, <2>4 DEF TypeOK
    <3> QED
      BY <3>1, <3>2, <2>3 DEF Consistent, SessionLinks, Connected, TypeOK
  <2>7. ConnectionLinks'
    <3> SUFFICES ASSUME NEW d \in Slots, connectionValid'[d], mqttSession'[d] # None
                 PROVE  sessionValid'[mqttSession'[d]] /\ connection'[mqttSession'[d]] = d
      BY DEF ConnectionLinks, HasSession
    <3>1. d # c /\ connectionValid[d] /\ mqttSession'[d] = mqttSession[d]
      BY DEF TypeOK
    <3>2. mqttSession[d] \in Slots \ {s}
      BY <3>1, <2>5 DEF TypeOK
    <3> QED
      BY <3>1, <3>2, <2>2, <2>3 DEF Consistent, ConnectionLinks, HasSession, TypeOK
  <2>8. OneSessionPerClient'
    BY <2>2, <2>3 DEF Consistent, OneSessionPerClient
  <2>9. SubscribersAreSessions'
    <3>1. CASE cleanSession[s]
      <4>1. subscribers' = [leaf \in Leaves |-> subscribers[leaf] \ {s}]
        BY <3>1, <2>2 DEF SubscribersAfterDisconnect, UnsubscribeAll
      <4> QED
        BY <4>1, <2>3 DEF Consistent, SubscribersAreSessions, TypeOK
    <3>2. CASE ~cleanSession[s]
      BY <3>2, <2>2 DEF SubscribersAfterDisconnect, ValidAfterDisconnect, Consistent,
                        SubscribersAreSessions
    <3> QED BY <3>1, <3>2
  <2>10. NeverLosesTrack'
    BY DEF Consistent, NeverLosesTrack
  <2> QED BY <2>6, <2>7, <2>8, <2>9, <2>10 DEF Consistent
<1> QED BY <1>1, <1>2

LEMMA TerminateConsistent ==
  ASSUME TypeOK, Consistent, NEW c \in Slots, connectionValid[c], TerminateConnection(c)
  PROVE  Consistent'
<1>1. ~LostTrack(c)
  BY NotLost DEF Consistent
<1>2. DetachSession(c) /\ FreeConnection(c)
  BY <1>1 DEF TerminateConnection
<1> QED
  BY <1>2, DetachConsistent DEF FreeConnection, programVars

LEMMA CleanupConsistent ==
  ASSUME TypeOK, Consistent, NEW c \in Slots, CleanupLostConnection(c)
  PROVE  Consistent'
<1>1. connectionValid[c] /\ ~LostTrack(c)
  BY NotLost DEF Consistent, CleanupLostConnection
<1>2. DetachSession(c) /\ FreeConnection(c)
  BY <1>1 DEF CleanupLostConnection
<1> QED
  BY <1>1, <1>2, DetachConsistent DEF FreeConnection, programVars

\* The new link is between a connection without a session and a session that
\* is away or new, so neither end was linked before.
LEMMA ConnectConsistent ==
  ASSUME TypeOK, Consistent, NEW c \in Slots, NEW m \in ConnectMessages,
         ConnectReconnects(c, m) \/ ConnectBegins(c, m)
  PROVE  Consistent'
<1>1. connectionValid[c] /\ mqttSession[c] = None
  BY DEF ConnectReconnects, ConnectBegins, FirstConnect, MessageFrom, HasSession
<1>2. PICK s \in Slots : \/ Reconnect(c, s, m, sessionValid, connection, subscribers)
                         \/ Begin(c, s, m, sessionValid, connection, subscribers)
  BY DEF ConnectReconnects, ConnectBegins
<1>3. /\ connection' = [connection EXCEPT ![s] = c]
      /\ mqttSession' = [mqttSession EXCEPT ![c] = s]
      /\ connectionValid' = connectionValid
      /\ fatal' = fatal
  <2>1. Link(c, s, connection, SessionPresent(m)) \/ Link(c, s, connection, "accepted")
    BY <1>2 DEF Reconnect, Begin
  <2>2. connectionValid' = connectionValid
    BY DEF ConnectReconnects, ConnectBegins
  <2> QED BY <2>1, <2>2 DEF Link, ConnectTo, programVars
<1>4. /\ sessionValid' = [sessionValid EXCEPT ![s] = TRUE]
      /\ sessionValid[s] => connection[s] = None
      /\ \A r \in Slots \ {s} : clientID'[r] = clientID[r]
      /\ \A r \in Slots \ {s} : sessionValid[r] => clientID'[r] # clientID'[s]
      /\ \A leaf \in Leaves : subscribers'[leaf] \subseteq subscribers[leaf]
  <2>1. CASE Reconnect(c, s, m, sessionValid, connection, subscribers)
    <3>1. sessionValid[s] /\ connection[s] = None /\ UNCHANGED <<sessionValid, clientID>>
      BY <2>1 DEF Reconnect, IsFirst, MatchingSessions, IsAway
    <3>2. sessionValid' = [sessionValid EXCEPT ![s] = TRUE]
      BY <3>1 DEF TypeOK
    <3>3. \A r \in Slots \ {s} : sessionValid[r] => clientID[r] # clientID[s]
      BY <3>1 DEF Consistent, OneSessionPerClient
    <3>4. \A leaf \in Leaves : subscribers'[leaf] \subseteq subscribers[leaf]
      BY <2>1 DEF Reconnect, SubscribersAfterReconnect, TypeOK
    <3> QED BY <3>1, <3>2, <3>3, <3>4
  <2>2. CASE Begin(c, s, m, sessionValid, connection, subscribers)
    <3>1. /\ ~sessionValid[s]
          /\ sessionValid' = [sessionValid EXCEPT ![s] = TRUE]
          /\ clientID' = [clientID EXCEPT ![s] = ClientName(c, m)]
          /\ subscribers' = subscribers
      BY <2>2 DEF Begin, IsFirst, FreeSessions
    <3>2. \A r \in Slots : sessionValid[r] => clientID[r] # ClientName(c, m)
      BY <2>2 DEF Begin, MatchingSessions
    <3> QED BY <3>1, <3>2 DEF TypeOK
  <2> QED BY <1>2, <2>1, <2>2
<1>5. SessionLinks'
  <2> SUFFICES ASSUME NEW r \in Slots, sessionValid'[r], connection'[r] # None
               PROVE  connectionValid'[connection'[r]] /\ mqttSession'[connection'[r]] = r
    BY DEF SessionLinks, Connected
  <2>1. CASE r = s
    BY <2>1, <1>1, <1>3 DEF TypeOK
  <2>2. CASE r # s
    <3>1. sessionValid[r] /\ connection'[r] = connection[r]
      BY <2>2, <1>3, <1>4 DEF TypeOK
    <3>2. connection[r] \in Slots /\ mqttSession[connection[r]] = r /\ connectionValid[connection[r]]
      BY <3>1 DEF Consistent, SessionLinks, Connected, TypeOK
    <3>3. connection[r] # c
      BY <3>2, <1>1, NoneIsNoSlot
    <3> QED BY <3>1, <3>2, <3>3, <1>3 DEF TypeOK
  <2> QED BY <2>1, <2>2
<1>6. ConnectionLinks'
  <2> SUFFICES ASSUME NEW d \in Slots, connectionValid'[d], mqttSession'[d] # None
               PROVE  sessionValid'[mqttSession'[d]] /\ connection'[mqttSession'[d]] = d
    BY DEF ConnectionLinks, HasSession
  <2>1. CASE d = c
    BY <2>1, <1>3, <1>4 DEF TypeOK
  <2>2. CASE d # c
    <3>1. mqttSession'[d] = mqttSession[d] /\ connectionValid[d]
      BY <2>2, <1>3 DEF TypeOK
    <3>2. mqttSession[d] \in Slots /\ sessionValid[mqttSession[d]] /\ connection[mqttSession[d]] = d
      BY <3>1 DEF Consistent, ConnectionLinks, HasSession, TypeOK
    <3>3. mqttSession[d] # s
      BY <3>2, <1>4, NoneIsNoSlot
    <3> QED BY <3>1, <3>2, <3>3, <1>3, <1>4 DEF TypeOK
  <2> QED BY <2>1, <2>2
<1>7. OneSessionPerClient'
  <2>1. \A r \in Slots \ {s} : sessionValid'[r] = sessionValid[r]
    BY <1>4 DEF TypeOK
  <2> QED
    BY <2>1, <1>4 DEF Consistent, OneSessionPerClient
<1>8. SubscribersAreSessions'
  BY <1>4 DEF Consistent, SubscribersAreSessions, TypeOK
<1> QED
  BY <1>3, <1>5, <1>6, <1>7, <1>8 DEF Consistent, NeverLosesTrack

\* What the tables are consistent about: a step that leaves all of this alone
\* keeps them consistent.
tables == <<connectionValid, mqttSession, sessionValid, clientID, connection, subscribers, fatal>>

LEMMA UnchangedConsistent ==
  ASSUME Consistent, UNCHANGED tables
  PROVE  Consistent'
  BY DEF tables, Consistent, SessionLinks, ConnectionLinks, OneSessionPerClient,
         SubscribersAreSessions, NeverLosesTrack, Connected, HasSession

LEMMA TearDownConsistent ==
  ASSUME TypeOK, Consistent, NEW s \in Slots, TearDownExpires(s)
  PROVE  Consistent'
<1>1. /\ connection[s] = None
      /\ sessionValid' = [sessionValid EXCEPT ![s] = FALSE]
      /\ subscribers' = [leaf \in Leaves |-> subscribers[leaf] \ {s}]
      /\ UNCHANGED <<connectionValid, mqttSession, clientID, connection, fatal>>
  BY DEF TearDownExpires, Connected, UnsubscribeAll, connectionVars, programVars
<1>2. \A r \in Slots : sessionValid'[r] <=> sessionValid[r] /\ r # s
  BY <1>1 DEF TypeOK
<1>3. SessionLinks'
  BY <1>1, <1>2 DEF Consistent, SessionLinks, Connected, TypeOK
<1>4. ConnectionLinks'
  <2> SUFFICES ASSUME NEW c \in Slots, connectionValid'[c], mqttSession'[c] # None
               PROVE  sessionValid'[mqttSession'[c]] /\ connection'[mqttSession'[c]] = c
    BY DEF ConnectionLinks, HasSession
  <2>1. mqttSession[c] \in Slots /\ sessionValid[mqttSession[c]] /\ connection[mqttSession[c]] = c
    BY <1>1 DEF Consistent, ConnectionLinks, HasSession, TypeOK
  <2>2. mqttSession[c] # s
    BY <2>1, <1>1, NoneIsNoSlot
  <2> QED BY <2>1, <2>2, <1>1, <1>2
<1>5. OneSessionPerClient'
  BY <1>1, <1>2 DEF Consistent, OneSessionPerClient
<1>6. SubscribersAreSessions'
  BY <1>1, <1>2 DEF Consistent, SubscribersAreSessions, TypeOK
<1> QED
  BY <1>1, <1>3, <1>4, <1>5, <1>6 DEF Consistent, NeverLosesTrack

LEMMA NewConnectionConsistent ==
  ASSUME TypeOK, Consistent, NEW e \in Endpoints, NEW c \in Slots, NewConnection(e, c)
  PROVE  Consistent'
<1>1. /\ ~connectionValid[c]
      /\ connectionValid' = [connectionValid EXCEPT ![c] = TRUE]
      /\ mqttSession' = [mqttSession EXCEPT ![c] = None]
      /\ UNCHANGED <<sessionValid, clientID, connection, subscribers, fatal>>
  BY DEF NewConnection, IsFirst, FreeConnections, PointerReset, sessionVars, programVars
<1>2. \A s \in Slots : sessionValid[s] => connection[s] # c
  BY <1>1, NoneIsNoSlot DEF Consistent, SessionLinks, Connected
<1>3. SessionLinks'
  BY <1>1, <1>2 DEF Consistent, SessionLinks, Connected, TypeOK
<1>4. ConnectionLinks'
  BY <1>1 DEF Consistent, ConnectionLinks, HasSession, TypeOK
<1> QED
  BY <1>1, <1>3, <1>4
     DEF Consistent, OneSessionPerClient, SubscribersAreSessions, NeverLosesTrack

LEMMA SubscribeConsistent ==
  ASSUME TypeOK, Consistent, NEW c \in Slots, NEW matched \in SUBSET Leaves,
         SubscribeMessage(c, matched) \/ UnsubscribeMessage(c, matched)
  PROVE  Consistent'
<1>1. sessionValid[mqttSession[c]]
  BY DEF SubscribeMessage, UnsubscribeMessage, MessageFrom, Consistent, ConnectionLinks
<1>2. /\ \A leaf \in Leaves : subscribers'[leaf] \subseteq subscribers[leaf] \cup {mqttSession[c]}
      /\ UNCHANGED <<connectionValid, mqttSession, sessionValid, clientID, connection, fatal>>
  BY DEF SubscribeMessage, UnsubscribeMessage, connectionVars, programVars, TypeOK
<1>3. SubscribersAreSessions'
  BY <1>1, <1>2 DEF Consistent, SubscribersAreSessions
<1> QED
  BY <1>2, <1>3 DEF Consistent, SessionLinks, ConnectionLinks, OneSessionPerClient,
                    NeverLosesTrack, Connected, HasSession

LEMMA MessageConsistent ==
  ASSUME ~RepeatConnect, TypeOK, Consistent, NEW c \in Slots, MessageReceived(c)
  PROVE  Consistent'
<1>1. CASE ConnectMalformed(c) \/ TerminatingMessage(c)
  BY <1>1, TerminateConsistent
     DEF ConnectMalformed, TerminatingMessage, FirstConnect, MessageFrom
<1>2. ASSUME RefuseConnect(c)
      PROVE  Consistent'
  BY <1>2, UnchangedConsistent DEF RefuseConnect, tables, sessionVars, programVars
<1>3. CASE ConnectNotServed(c)
  BY <1>3, <1>2 DEF ConnectNotServed
<1>4. ASSUME NEW m \in ConnectMessages,
             ConnectReconnects(c, m) \/ ConnectBegins(c, m) \/ ConnectUnavailable(c, m)
      PROVE  Consistent'
  BY <1>4, <1>2, ConnectConsistent DEF ConnectUnavailable
<1>5. CASE PingRequestMessage(c)
  BY <1>5, UnchangedConsistent DEF PingRequestMessage, tables, connectionVars, programVars
<1>6. ASSUME NEW matched \in SUBSET Leaves,
             SubscribeMessage(c, matched) \/ UnsubscribeMessage(c, matched)
      PROVE  Consistent'
  BY <1>6, SubscribeConsistent
<1>7. SecondConnectMessages = {}
  BY DEF SecondConnectMessages
<1> QED
  BY <1>1, <1>3, <1>4, <1>5, <1>6, <1>7
     DEF MessageReceived, ConnectMessage, SecondConnectMessages, SecondConnectMalformed, SecondConnectRefused,
         SecondConnectProceeds, SecondConnectUnavailable

LEMMA ServiceConsistent ==
  ASSUME TypeOK, Consistent, Service
  PROVE  Consistent'
<1>1. ASSUME NEW s \in Slots, KeepAliveExpires(s)
      PROVE  Consistent'
  <2>1. /\ connection[s] \in Slots
        /\ connectionValid[connection[s]]
        /\ TerminateConnection(connection[s])
    BY <1>1 DEF KeepAliveExpires, Connected, TypeOK, Consistent, SessionLinks
  <2> QED BY <2>1, TerminateConsistent
<1>2. CASE UpdateDataModelDebugs
  BY <1>2, UnchangedConsistent
     DEF UpdateDataModelDebugs, tables, connectionVars, sessionVars, programVars
<1>3. ASSUME NEW e \in Endpoints, RefuseIncomingWiFiClient(e)
      PROVE  Consistent'
  BY <1>3, UnchangedConsistent
     DEF RefuseIncomingWiFiClient, tables, connectionVars, sessionVars, programVars
<1> QED
  BY <1>1, <1>2, <1>3, CleanupConsistent, TearDownConsistent, NewConnectionConsistent
     DEF Service

LEMMA EnvironmentConsistent ==
  ASSUME TypeOK, Consistent, Environment
  PROVE  Consistent'
<1> USE DEF tables, connectionVars, sessionVars, programVars
<1>1. CASE WifiConnected
  BY <1>1, UnchangedConsistent DEF WifiConnected
<1>2. CASE WifiDisconnected
  BY <1>2 DEF WifiDisconnected, Consistent, SessionLinks, ConnectionLinks, OneSessionPerClient,
              SubscribersAreSessions, NeverLosesTrack, Connected, HasSession
<1>3. CASE Tick
  BY <1>3, UnchangedConsistent DEF Tick
<1>4. ASSUME NEW e \in Endpoints, ClientOpens(e) \/ ClientGivesUp(e)
      PROVE  Consistent'
  BY <1>4, UnchangedConsistent DEF ClientOpens, ClientGivesUp
<1>5. ASSUME NEW c \in Slots, ConnectionDrops(c)
      PROVE  Consistent'
  BY <1>5, UnchangedConsistent DEF ConnectionDrops
<1> QED
  BY <1>1, <1>2, <1>3, <1>4, <1>5 DEF Environment

LEMMA NextConsistent ==
  ASSUME ~RepeatConnect, TypeOK, Consistent, [Next]_vars
  PROVE  Consistent'
<1>1. CASE UNCHANGED vars
  BY <1>1, UnchangedConsistent DEF vars, tables, connectionVars, sessionVars, programVars
<1>2. CASE Next
  BY <1>2, EnvironmentConsistent, ServiceConsistent, MessageConsistent DEF Next
<1> QED BY <1>1, <1>2

\* With one CONNECT per connection, the tables are always consistent.
THEOREM AlwaysConsistent ==
  ASSUME ~RepeatConnect
  PROVE  Spec => []Consistent
<1>1. Init => Consistent
  BY DEF Init, Consistent, SessionLinks, ConnectionLinks, OneSessionPerClient,
         SubscribersAreSessions, NeverLosesTrack, HasSession
<1>2. TypeOK /\ Consistent /\ [Next]_vars => Consistent'
  BY NextConsistent
<1> QED BY <1>1, <1>2, TypeCorrect, PTL DEF Spec

\* The pointers between the connections and the sessions in use are inverse.
THEOREM LinksAlwaysSymmetric ==
  ASSUME ~RepeatConnect
  PROVE  Spec => []LinksSymmetric
<1>1. Consistent => LinksSymmetric
  BY DEF Consistent, LinksSymmetric
<1> QED BY <1>1, AlwaysConsistent, PTL

\* No session inherits the subscriptions of the session before it in its slot.
THEOREM SubscribersAlwaysSessions ==
  ASSUME ~RepeatConnect
  PROVE  Spec => []SubscribersAreSessions
<1>1. Consistent => SubscribersAreSessions
  BY DEF Consistent
<1> QED BY <1>1, AlwaysConsistent, PTL

\* terminateConnection and invalidateSession find the session they look for.
THEOREM TrackNeverLost ==
  ASSUME ~RepeatConnect
  PROVE  Spec => []NeverLosesTrack
<1>1. Consistent => NeverLosesTrack
  BY DEF Consistent
<1> QED BY <1>1, AlwaysConsistent, PTL

-----------------------------------------------------------------------------
(* One session per client, whatever CONNECTs clients send. *)

\* A CONNECT continues a session, or begins one under a name nobody has.
LEMMA ConnectOneSession ==
  ASSUME TypeOK, OneSessionPerClient, NEW c \in Slots, NEW s \in Slots,
         NEW m \in ConnectMessages,
         NEW valid \in [Slots -> BOOLEAN], \A r \in Slots : valid[r] => sessionValid[r],
         NEW links, NEW subs,
         Reconnect(c, s, m, valid, links, subs) \/ Begin(c, s, m, valid, links, subs)
  PROVE  OneSessionPerClient'
<1>1. CASE Reconnect(c, s, m, valid, links, subs)
  BY <1>1 DEF Reconnect, OneSessionPerClient
<1>2. CASE Begin(c, s, m, valid, links, subs)
  <2>1. /\ sessionValid' = [valid EXCEPT ![s] = TRUE]
        /\ clientID' = [clientID EXCEPT ![s] = ClientName(c, m)]
        /\ \A r \in Slots : valid[r] => clientID[r] # ClientName(c, m)
    BY <1>2 DEF Begin, MatchingSessions
  <2>2. \A r \in Slots \ {s} : clientID'[r] = clientID[r] /\ sessionValid'[r] = valid[r]
    BY <2>1 DEF TypeOK
  <2>3. clientID'[s] = ClientName(c, m)
    BY <2>1 DEF TypeOK
  <2> QED BY <2>1, <2>2, <2>3 DEF OneSessionPerClient
<1> QED BY <1>1, <1>2

LEMMA NextOneSession ==
  ASSUME TypeOK, OneSessionPerClient, [Next]_vars
  PROVE  OneSessionPerClient'
<1> USE DEF sessionVars
<1> DEFINE Fewer == /\ clientID' = clientID
                    /\ \A s \in Slots : sessionValid'[s] => sessionValid[s]
<1>1. Fewer => OneSessionPerClient'
  BY DEF OneSessionPerClient
<1>2. Halt => Fewer
  BY DEF Halt
<1>3. ASSUME NEW r \in Slots
      PROVE  \A s \in Slots : ValidAfterDisconnect(r)[s] => sessionValid[s]
  BY DEF ValidAfterDisconnect, TypeOK
<1>4. \A c \in Slots : DetachSession(c) => Fewer
  BY <1>3 DEF DetachSession, HasSession, TypeOK
<1>5. \A c \in Slots : TerminateConnection(c) \/ CleanupLostConnection(c) => Fewer
  BY <1>2, <1>4 DEF TerminateConnection, CleanupLostConnection
<1>6. CASE UNCHANGED vars
  BY <1>1, <1>6 DEF vars
<1>7. CASE Environment
  BY <1>1, <1>7 DEF Environment, WifiConnected, WifiDisconnected, ClientOpens,
                    ClientGivesUp, ConnectionDrops, Tick
<1>8. CASE Service
  <2>1. ASSUME NEW s \in Slots, KeepAliveExpires(s)
        PROVE  Fewer
    <3>1. connection[s] \in Slots /\ TerminateConnection(connection[s])
      BY <2>1 DEF KeepAliveExpires, Connected, TypeOK
    <3> QED BY <3>1, <1>5
  <2>2. \A s \in Slots : TearDownExpires(s) => Fewer
    BY DEF TearDownExpires, TypeOK
  <2>3. UpdateDataModelDebugs => Fewer
    BY DEF UpdateDataModelDebugs
  <2>4. \A e \in Endpoints : RefuseIncomingWiFiClient(e) => Fewer
    BY DEF RefuseIncomingWiFiClient
  <2>5. \A e \in Endpoints, c \in Slots : NewConnection(e, c) => Fewer
    BY DEF NewConnection
  <2> QED BY <1>1, <1>5, <1>8, <2>1, <2>2, <2>3, <2>4, <2>5 DEF Service
<1>9. ASSUME NEW c \in Slots, MessageReceived(c)
      PROVE  OneSessionPerClient'
  <2>1. RefuseConnect(c) => Fewer
    BY DEF RefuseConnect
  <2>2. ASSUME NEW m \in ConnectMessages, ConnectReconnects(c, m) \/ ConnectBegins(c, m)
        PROVE  OneSessionPerClient'
    <3>1. PICK s \in Slots :
            \/ Reconnect(c, s, m, sessionValid, connection, subscribers)
            \/ Begin(c, s, m, sessionValid, connection, subscribers)
      BY <2>2 DEF ConnectReconnects, ConnectBegins
    <3>2. sessionValid \in [Slots -> BOOLEAN]
      BY DEF TypeOK
    <3> QED BY <3>1, <3>2, ConnectOneSession
  <2>3. ASSUME NEW m \in ConnectMessages, SecondConnectProceeds(c, m)
        PROVE  OneSessionPerClient'
    <3>1. mqttSession[c] \in Slots
      BY <2>3 DEF SecondConnectProceeds, SecondConnect, HasSession, TypeOK
    <3>2. PICK s \in Slots, links \in {LinksAfterDisconnect(mqttSession[c])},
               subs \in {SubscribersAfterDisconnect(mqttSession[c])} :
            \/ Reconnect(c, s, m, ValidAfterDisconnect(mqttSession[c]), links, subs)
            \/ Begin(c, s, m, ValidAfterDisconnect(mqttSession[c]), links, subs)
      BY <2>3 DEF SecondConnectProceeds
    <3>3. ValidAfterDisconnect(mqttSession[c]) \in [Slots -> BOOLEAN]
      BY <3>1, DisconnectTypes
    <3> QED BY <1>3, <3>1, <3>2, <3>3, ConnectOneSession
  <2>4. ConnectMessage(c) => OneSessionPerClient'
    BY <1>1, <1>2, <1>5, <2>1, <2>2, <2>3
       DEF ConnectMessage, SecondConnectMessages, ConnectNotServed, ConnectMalformed, SecondConnectMalformed,
           SecondConnectRefused, ConnectUnavailable, SecondConnectUnavailable
  <2>5. PingRequestMessage(c) => Fewer
    BY DEF PingRequestMessage
  <2>6. \A matched \in SUBSET Leaves :
          SubscribeMessage(c, matched) \/ UnsubscribeMessage(c, matched) => Fewer
    BY DEF SubscribeMessage, UnsubscribeMessage
  <2> QED BY <1>1, <1>5, <1>9, <2>4, <2>5, <2>6 DEF MessageReceived, TerminatingMessage
<1> QED BY <1>6, <1>7, <1>8, <1>9 DEF Next

\* A client name has at most one session in use, even where a second CONNECT on a
\* connection leaves sessions linked to connections that are freed.
THEOREM AlwaysOneSessionPerClient == Spec => []OneSessionPerClient
<1>1. Init => OneSessionPerClient
  BY DEF Init, OneSessionPerClient
<1>2. TypeOK /\ OneSessionPerClient /\ [Next]_vars => OneSessionPerClient'
  BY NextOneSession
<1> QED BY <1>1, <1>2, TypeCorrect, PTL DEF Spec

-----------------------------------------------------------------------------
(* What ends a session, whatever CONNECTs clients send. *)

LEMMA DisconnectEndsClean ==
  ASSUME TypeOK, NEW r \in Slots, NEW s \in Slots,
         sessionValid[s], ~ValidAfterDisconnect(r)[s]
  PROVE  cleanSession[s]
  BY DEF ValidAfterDisconnect, TypeOK

LEMMA DetachEndsClean ==
  ASSUME TypeOK, NEW c \in Slots, DetachSession(c) \/ Halt, NEW s \in Slots,
         sessionValid[s], ~sessionValid'[s]
  PROVE  cleanSession[s]
<1>1. CASE ~HasSession(c) \/ Halt
  BY <1>1 DEF DetachSession, sessionVars, Halt
<1>2. CASE DetachSession(c) /\ HasSession(c)
  <2>1. mqttSession[c] \in Slots
    BY <1>2 DEF HasSession, TypeOK
  <2> QED BY <1>2, <2>1, DisconnectEndsClean DEF DetachSession
<1> QED BY <1>1, <1>2

LEMMA TerminateEndsClean ==
  ASSUME TypeOK, NEW c \in Slots, TerminateConnection(c) \/ CleanupLostConnection(c),
         NEW s \in Slots, sessionValid[s], ~sessionValid'[s]
  PROVE  cleanSession[s]
  BY DetachEndsClean DEF TerminateConnection, CleanupLostConnection

\* A CONNECT that succeeds ends no session but the clean one it disconnects.
LEMMA ConnectEndsClean ==
  ASSUME TypeOK, NEW c \in Slots, NEW m \in ConnectMessages,
         \/ ConnectReconnects(c, m) \/ ConnectBegins(c, m)
         \/ SecondConnectProceeds(c, m),
         NEW s \in Slots, sessionValid[s], ~sessionValid'[s]
  PROVE  cleanSession[s]
<1>1. ASSUME NEW r \in Slots, NEW valid \in [Slots -> BOOLEAN], NEW links, NEW subs,
             Reconnect(c, r, m, valid, links, subs) \/ Begin(c, r, m, valid, links, subs)
      PROVE  ~valid[s]
  BY <1>1 DEF Reconnect, Begin
<1>2. sessionValid \in [Slots -> BOOLEAN]
  BY DEF TypeOK
<1>3. CASE ConnectReconnects(c, m)
  BY <1>1, <1>2, <1>3 DEF ConnectReconnects
<1>4. CASE ConnectBegins(c, m)
  BY <1>1, <1>2, <1>4 DEF ConnectBegins
<1>5. CASE SecondConnectProceeds(c, m)
  <2>1. mqttSession[c] \in Slots
    BY <1>5 DEF SecondConnectProceeds, SecondConnect, HasSession, TypeOK
  <2>2. ValidAfterDisconnect(mqttSession[c]) \in [Slots -> BOOLEAN]
    BY <2>1, DisconnectTypes
  <2>3. ~ValidAfterDisconnect(mqttSession[c])[s]
    BY <1>1, <1>5, <2>2 DEF SecondConnectProceeds
  <2> QED BY <2>1, <2>3, DisconnectEndsClean
<1> QED BY <1>3, <1>4, <1>5

LEMMA SessionEnds ==
  ASSUME TypeOK, [Next]_vars, NEW s \in Slots, sessionValid[s], ~sessionValid'[s],
         ~cleanSession[s]
  PROVE  TearDownExpires(s)
<1> USE DEF sessionVars
<1>1. CASE UNCHANGED vars
  BY <1>1 DEF vars
<1>2. CASE Environment
  BY <1>2 DEF Environment, WifiConnected, WifiDisconnected, ClientOpens, ClientGivesUp,
              ConnectionDrops, Tick
<1>3. CASE Service
  <2>1. ~UpdateDataModelDebugs
    BY DEF UpdateDataModelDebugs
  <2>2. \A e \in Endpoints : ~RefuseIncomingWiFiClient(e)
    BY DEF RefuseIncomingWiFiClient
  <2>3. \A e \in Endpoints, c \in Slots : ~NewConnection(e, c)
    BY DEF NewConnection
  <2>4. \A c \in Slots : ~CleanupLostConnection(c)
    BY TerminateEndsClean
  <2>5. ASSUME NEW r \in Slots, KeepAliveExpires(r)
        PROVE  FALSE
    <3>1. connection[r] \in Slots /\ TerminateConnection(connection[r])
      BY <2>5 DEF KeepAliveExpires, Connected, TypeOK
    <3> QED BY <3>1, TerminateEndsClean
  <2>6. ASSUME NEW r \in Slots, TearDownExpires(r)
        PROVE  r = s
    BY <2>6 DEF TearDownExpires, TypeOK
  <2> QED BY <1>3, <2>1, <2>2, <2>3, <2>4, <2>5, <2>6 DEF Service
<1>4. ASSUME NEW c \in Slots, MessageReceived(c)
      PROVE  FALSE
  <2>1. ~TerminateConnection(c)
    BY TerminateEndsClean
  <2>2. ~Halt
    BY DEF Halt
  <2>3. ~RefuseConnect(c)
    BY DEF RefuseConnect
  <2>4. \A m \in ConnectMessages :
          ~ConnectReconnects(c, m) /\ ~ConnectBegins(c, m) /\ ~SecondConnectProceeds(c, m)
    BY ConnectEndsClean
  <2>5. ~PingRequestMessage(c)
    BY DEF PingRequestMessage
  <2>6. \A matched \in SUBSET Leaves :
          ~SubscribeMessage(c, matched) /\ ~UnsubscribeMessage(c, matched)
    BY DEF SubscribeMessage, UnsubscribeMessage
  <2>7. ~TerminatingMessage(c)
    BY <2>1 DEF TerminatingMessage
  <2>8. ~ConnectMessage(c)
    BY <2>1, <2>2, <2>3, <2>4
       DEF ConnectMessage, SecondConnectMessages, ConnectNotServed, ConnectMalformed,
           SecondConnectMalformed, SecondConnectRefused, ConnectUnavailable,
           SecondConnectUnavailable
  <2> QED BY <1>4, <2>5, <2>6, <2>7, <2>8 DEF MessageReceived
<1> QED BY <1>1, <1>2, <1>3, <1>4 DEF Next

\* A retained session ends only by its tear down timer, while its client is
\* away: no drop, expired keep alive, message or second CONNECT ends it.
THEOREM AlwaysRetainedUntilTearDown == Spec => RetainedUntilTearDown
<1>1. TypeOK /\ [Next]_vars =>
        [\A s \in Slots : sessionValid[s] /\ ~cleanSession[s] /\ ~sessionValid'[s] =>
            ~Connected(s) /\ tearDownTimer[s] = 0]_vars
  BY SessionEnds DEF TearDownExpires
<1> QED BY <1>1, TypeCorrect, PTL DEF Spec, RetainedUntilTearDown

-----------------------------------------------------------------------------
(* Connections in use belong to different clients. *)

\* Only newConnection brings a connection slot into use.
LEMMA ConnectionsOnlyEnd ==
  ASSUME TypeOK, [Next]_vars, \A e \in Endpoints, c \in Slots : ~NewConnection(e, c)
  PROVE  /\ wifiClient' = wifiClient
         /\ \A c \in Slots : connectionValid'[c] => connectionValid[c]
         /\ \A c \in Slots : alive'[c] => alive[c]
<1> DEFINE Fewer == /\ wifiClient' = wifiClient
                    /\ \A c \in Slots : connectionValid'[c] => connectionValid[c]
                    /\ \A c \in Slots : alive'[c] => alive[c]
<1> USE DEF connectionVars, networkVars
<1>1. CASE UNCHANGED vars
  BY <1>1 DEF vars
<1>2. CASE Halt
  BY <1>2 DEF Halt
<1>3. ASSUME NEW c \in Slots, TerminateConnection(c) \/ CleanupLostConnection(c)
      PROVE  Fewer
  BY <1>2, <1>3 DEF TerminateConnection, CleanupLostConnection, FreeConnection, TypeOK
<1>4. CASE Environment
  BY <1>4 DEF Environment, WifiConnected, WifiDisconnected, ClientOpens, ClientGivesUp,
              ConnectionDrops, Tick, TypeOK
<1>5. CASE Service
  <2>1. ASSUME NEW r \in Slots, KeepAliveExpires(r)
        PROVE  Fewer
    <3>1. connection[r] \in Slots /\ TerminateConnection(connection[r])
      BY <2>1 DEF KeepAliveExpires, Connected, TypeOK
    <3> QED BY <3>1, <1>3
  <2>2. \A r \in Slots : TearDownExpires(r) => Fewer
    BY DEF TearDownExpires
  <2>3. UpdateDataModelDebugs => Fewer
    BY DEF UpdateDataModelDebugs
  <2>4. \A e \in Endpoints : RefuseIncomingWiFiClient(e) => Fewer
    BY DEF RefuseIncomingWiFiClient
  <2> QED BY <1>3, <1>5, <2>1, <2>2, <2>3, <2>4 DEF Service
<1>6. ASSUME NEW c \in Slots, MessageReceived(c)
      PROVE  Fewer
  <2>1. RefuseConnect(c) => Fewer
    BY DEF RefuseConnect
  <2>2. ASSUME NEW m \in ConnectMessages,
               \/ ConnectReconnects(c, m) \/ ConnectBegins(c, m)
               \/ SecondConnectProceeds(c, m)
        PROVE  Fewer
    <3>1. wifiClient' = wifiClient
      BY <2>2 DEF ConnectReconnects, ConnectBegins, SecondConnectProceeds, Reconnect, Begin, Link
    <3>2. \/ UNCHANGED <<connectionValid, alive>>
          \/ /\ connectionValid' = [connectionValid EXCEPT ![c] = FALSE]
             /\ alive' = [alive EXCEPT ![c] = FALSE]
      BY <2>2 DEF ConnectReconnects, ConnectBegins, SecondConnectProceeds
    <3> QED BY <3>1, <3>2 DEF TypeOK
  <2>3. ConnectMessage(c) => Fewer
    BY <1>2, <1>3, <2>1, <2>2
       DEF ConnectMessage, SecondConnectMessages, ConnectNotServed, ConnectMalformed,
           SecondConnectMalformed, SecondConnectRefused, ConnectUnavailable,
           SecondConnectUnavailable
  <2>4. PingRequestMessage(c) => Fewer
    BY DEF PingRequestMessage
  <2>5. \A matched \in SUBSET Leaves :
          SubscribeMessage(c, matched) \/ UnsubscribeMessage(c, matched) => Fewer
    BY DEF SubscribeMessage, UnsubscribeMessage
  <2> QED BY <1>3, <1>6, <2>3, <2>4, <2>5 DEF MessageReceived, TerminatingMessage
<1> QED BY <1>1, <1>4, <1>5, <1>6 DEF Next

\* However often WiFiServer::available offers a client the broker has, and
\* whatever CONNECTs clients send, two live connections are of two clients.
THEOREM AlwaysOneConnectionPerClient == Spec => []OneConnectionPerClient
<1>1. Init => OneConnectionPerClient
  BY DEF Init, OneConnectionPerClient
<1>2. ASSUME TypeOK, OneConnectionPerClient, [Next]_vars
      PROVE  OneConnectionPerClient'
  <2>1. CASE \A e \in Endpoints, c \in Slots : ~NewConnection(e, c)
    BY <1>2, <2>1, ConnectionsOnlyEnd DEF OneConnectionPerClient
  <2>2. ASSUME NEW e \in Endpoints, NEW n \in Slots, NewConnection(e, n)
        PROVE  OneConnectionPerClient'
    <3>1. /\ wifiClient' = [wifiClient EXCEPT ![n] = e]
          /\ connectionValid' = [connectionValid EXCEPT ![n] = TRUE]
          /\ alive' = [alive EXCEPT ![n] = TRUE]
          /\ ~WiFiClientIsExistingConnection(e)
      BY <2>2 DEF NewConnection, AvailableClient
    <3>2. \A c \in Slots \ {n} : connectionValid[c] /\ alive[c] => wifiClient[c] # e
      BY <3>1 DEF WiFiClientIsExistingConnection
    <3> QED BY <1>2, <3>1, <3>2 DEF OneConnectionPerClient, TypeOK
  <2> QED BY <2>1, <2>2
<1> QED BY <1>1, <1>2, TypeCorrect, PTL DEF Spec

-----------------------------------------------------------------------------
(* The flag protocol of the $SYS debugs. *)

debugged == <<connectionValid, wifiClient, mqttSession, sessionValid, clientID, connection>>

\* Who changes what $SYS shows raises the flag.
LEMMA ChangesAreFlagged ==
  ASSUME TypeOK, [Next]_vars, ~UpdateDataModelDebugs
  PROVE  dataModelDebugNeedsUpdating' = TRUE \/ UNCHANGED <<debugged, debugVars>>
<1> DEFINE Flagged == dataModelDebugNeedsUpdating' = TRUE \/ UNCHANGED <<debugged, debugVars>>
<1> USE DEF debugged, connectionVars, sessionVars, debugVars
<1>1. CASE UNCHANGED vars
  BY <1>1 DEF vars
<1>2. Halt => Flagged
  BY DEF Halt
<1>3. \A c \in Slots : TerminateConnection(c) \/ CleanupLostConnection(c) => Flagged
  BY <1>2 DEF TerminateConnection, CleanupLostConnection, FreeConnection
<1>4. CASE Environment
  BY <1>4 DEF Environment, WifiConnected, WifiDisconnected, ClientOpens, ClientGivesUp,
              ConnectionDrops, Tick
<1>5. CASE Service
  <2>1. ASSUME NEW r \in Slots, KeepAliveExpires(r)
        PROVE  Flagged
    <3>1. connection[r] \in Slots /\ TerminateConnection(connection[r])
      BY <2>1 DEF KeepAliveExpires, Connected, TypeOK
    <3> QED BY <3>1, <1>3
  <2>2. \A r \in Slots : TearDownExpires(r) => Flagged
    BY DEF TearDownExpires
  <2>3. \A e \in Endpoints : RefuseIncomingWiFiClient(e) => Flagged
    BY DEF RefuseIncomingWiFiClient
  <2>4. \A e \in Endpoints, c \in Slots : NewConnection(e, c) => Flagged
    BY DEF NewConnection
  <2> QED BY <1>3, <1>5, <2>1, <2>2, <2>3, <2>4 DEF Service
<1>6. ASSUME NEW c \in Slots, MessageReceived(c)
      PROVE  Flagged
  <2>1. RefuseConnect(c) => Flagged
    BY DEF RefuseConnect
  <2>2. \A m \in ConnectMessages :
          ConnectReconnects(c, m) \/ ConnectBegins(c, m) \/ SecondConnectProceeds(c, m) => Flagged
    BY DEF ConnectReconnects, ConnectBegins, SecondConnectProceeds, Reconnect, Begin, Link
  <2>3. ConnectMessage(c) => Flagged
    BY <1>2, <1>3, <2>1, <2>2
       DEF ConnectMessage, SecondConnectMessages, ConnectNotServed, ConnectMalformed,
           SecondConnectMalformed, SecondConnectRefused, ConnectUnavailable,
           SecondConnectUnavailable
  <2>4. PingRequestMessage(c) => Flagged
    BY DEF PingRequestMessage
  <2>5. \A matched \in SUBSET Leaves :
          SubscribeMessage(c, matched) \/ UnsubscribeMessage(c, matched) => Flagged
    BY DEF SubscribeMessage, UnsubscribeMessage
  <2> QED BY <1>3, <1>6, <2>3, <2>4, <2>5 DEF MessageReceived, TerminatingMessage
<1> QED BY <1>1, <1>4, <1>5, <1>6 DEF Next

\* While the flag is clear, $SYS shows the tables as they are.
THEOREM DebugsAlwaysCurrent == Spec => []DebugsCurrent
<1> USE DEF DebugsCurrent, ConnectionDebugs, SessionDebugs, NameOf, EndpointOf
<1>1. Init => DebugsCurrent
  BY DEF Init
<1>2. ASSUME TypeOK, DebugsCurrent, [Next]_vars
      PROVE  DebugsCurrent'
  <2>1. CASE UpdateDataModelDebugs
    BY <2>1 DEF UpdateDataModelDebugs, connectionVars, sessionVars
  <2>2. CASE dataModelDebugNeedsUpdating' = TRUE
    BY <2>2
  <2>3. CASE UNCHANGED <<debugged, debugVars>>
    BY <1>2, <2>3 DEF debugged, debugVars
  <2> QED BY <1>2, <2>1, <2>2, <2>3, ChangesAreFlagged
<1> QED BY <1>1, <1>2, TypeCorrect, PTL DEF Spec

-----------------------------------------------------------------------------
(* What clients were told. *)

\* ToldOfSession, seen from the pointer of the connection.
Told(c) ==
  /\ HasSession(c) => /\ connAck[c] \in {"accepted", "resumed", "cut short"}
                      /\ connAck[c] = "resumed" => ~cleanSession[mqttSession[c]]
  /\ ~HasSession(c) => connAck[c] \notin {"accepted", "resumed"}

AllTold == \A c \in Slots : connectionValid[c] => Told(c)

LEMMA ConnectTold ==
  ASSUME TypeOK, Consistent, AllTold, NEW c \in Slots, NEW m \in ConnectMessages,
         ConnectReconnects(c, m) \/ ConnectBegins(c, m)
  PROVE  AllTold'
<1>1. PICK s \in Slots : \/ Reconnect(c, s, m, sessionValid, connection, subscribers)
                         \/ Begin(c, s, m, sessionValid, connection, subscribers)
  BY DEF ConnectReconnects, ConnectBegins
<1>2. PICK ack \in {"accepted", "resumed", "cut short"} :
        /\ connAck' = [connAck EXCEPT ![c] = ack]
        /\ ack = "resumed" => ~m.cleanSession
  <2>1. Link(c, s, connection, SessionPresent(m)) \/ Link(c, s, connection, "accepted")
    BY <1>1 DEF Reconnect, Begin
  <2> QED BY <2>1 DEF Link, SendConnAck, SessionPresent
<1>3. /\ mqttSession' = [mqttSession EXCEPT ![c] = s]
      /\ cleanSession' = [cleanSession EXCEPT ![s] = m.cleanSession]
      /\ connectionValid' = connectionValid
  BY <1>1 DEF ConnectReconnects, ConnectBegins, Reconnect, Begin, Link, ConnectTo, StartSession
<1>4. ~sessionValid[s] \/ connection[s] = None
  BY <1>1 DEF Reconnect, IsAway, Begin, IsFirst, FreeSessions
<1> SUFFICES ASSUME NEW d \in Slots, connectionValid'[d]
             PROVE  Told(d)'
  BY DEF AllTold
<1>5. CASE d = c
  BY <1>2, <1>3, <1>5, NoneIsNoSlot DEF Told, HasSession, TypeOK
<1>6. CASE d # c
  <2>1. mqttSession'[d] = mqttSession[d] /\ connAck'[d] = connAck[d] /\ Told(d)
    BY <1>2, <1>3, <1>6 DEF AllTold, TypeOK
  <2>2. HasSession(d) => mqttSession[d] \in Slots \ {s}
    BY <1>3, <1>4, NoneIsNoSlot DEF Consistent, ConnectionLinks, HasSession, TypeOK
  <2>3. HasSession(d) => cleanSession'[mqttSession[d]] = cleanSession[mqttSession[d]]
    BY <1>3, <2>2 DEF TypeOK
  <2> QED BY <2>1, <2>3 DEF Told, HasSession
<1> QED BY <1>5, <1>6

LEMMA NextTold ==
  ASSUME ~RepeatConnect, TypeOK, Consistent, AllTold, [Next]_vars
  PROVE  AllTold'
<1> DEFINE Same == /\ UNCHANGED <<mqttSession, connAck, cleanSession>>
                   /\ \A c \in Slots : connectionValid'[c] => connectionValid[c]
<1> USE DEF connectionVars, sessionVars
<1>1. Same => AllTold'
  BY DEF AllTold, Told, HasSession
<1>2. Halt => Same
  BY DEF Halt
<1>3. \A c \in Slots : TerminateConnection(c) \/ CleanupLostConnection(c) => Same
  BY <1>2 DEF TerminateConnection, CleanupLostConnection, FreeConnection, DetachSession, TypeOK
<1>4. CASE UNCHANGED vars
  BY <1>1, <1>4 DEF vars
<1>5. CASE Environment
  BY <1>1, <1>5 DEF Environment, WifiConnected, WifiDisconnected, ClientOpens,
                    ClientGivesUp, ConnectionDrops, Tick
<1>6. CASE Service
  <2>1. ASSUME NEW r \in Slots, KeepAliveExpires(r)
        PROVE  Same
    <3>1. connection[r] \in Slots /\ TerminateConnection(connection[r])
      BY <2>1 DEF KeepAliveExpires, Connected, TypeOK
    <3> QED BY <3>1, <1>3
  <2>2. \A r \in Slots : TearDownExpires(r) => Same
    BY DEF TearDownExpires
  <2>3. UpdateDataModelDebugs => Same
    BY DEF UpdateDataModelDebugs
  <2>4. \A e \in Endpoints : RefuseIncomingWiFiClient(e) => Same
    BY DEF RefuseIncomingWiFiClient
  <2>5. ASSUME NEW e \in Endpoints, NEW c \in Slots, NewConnection(e, c)
        PROVE  AllTold'
    <3>1. /\ connectionValid' = [connectionValid EXCEPT ![c] = TRUE]
          /\ mqttSession' = [mqttSession EXCEPT ![c] = None]
          /\ connAck' = [connAck EXCEPT ![c] = "none"]
          /\ cleanSession' = cleanSession
      BY <2>5 DEF NewConnection, PointerReset
    <3> QED BY <3>1 DEF AllTold, Told, HasSession, TypeOK
  <2> QED BY <1>1, <1>3, <1>6, <2>1, <2>2, <2>3, <2>4, <2>5 DEF Service
<1>7. ASSUME NEW c \in Slots, MessageReceived(c)
      PROVE  AllTold'
  <2>1. ASSUME ~HasSession(c), RefuseConnect(c)
        PROVE  AllTold'
    <3>1. PICK ack \in {"refused", "cut short"} : connAck' = [connAck EXCEPT ![c] = ack]
      BY <2>1 DEF RefuseConnect, SendConnAck
    <3>2. UNCHANGED <<connectionValid, mqttSession, cleanSession>>
      BY <2>1 DEF RefuseConnect
    <3> QED BY <2>1, <3>1, <3>2 DEF AllTold, Told, HasSession, TypeOK
  <2>2. ConnectNotServed(c) => AllTold'
    BY <2>1 DEF ConnectNotServed, FirstConnect
  <2>3. \A m \in ConnectMessages : ConnectUnavailable(c, m) => AllTold'
    BY <2>1 DEF ConnectUnavailable, FirstConnect
  <2>4. SecondConnectMessages = {}
    BY DEF SecondConnectMessages
  <2>5. ConnectMessage(c) => AllTold'
    BY <1>1, <1>3, <2>2, <2>3, <2>4, ConnectTold
       DEF ConnectMessage, SecondConnectMessages, ConnectMalformed, SecondConnectMalformed, SecondConnectRefused,
           SecondConnectProceeds, SecondConnectUnavailable
  <2>6. PingRequestMessage(c) => Same
    BY DEF PingRequestMessage
  <2>7. \A matched \in SUBSET Leaves :
          SubscribeMessage(c, matched) \/ UnsubscribeMessage(c, matched) => Same
    BY DEF SubscribeMessage, UnsubscribeMessage
  <2> QED BY <1>1, <1>3, <1>7, <2>5, <2>6, <2>7 DEF MessageReceived, TerminatingMessage
<1> QED BY <1>4, <1>5, <1>6, <1>7 DEF Next

\* A client that could read the answer to its CONNECT knows whether it has a
\* session, and whether that outlives the connection.
THEOREM AlwaysToldOfSession ==
  ASSUME ~RepeatConnect
  PROVE  Spec => []ToldOfSession
<1>1. Init => AllTold
  BY DEF Init, AllTold
<1>2. TypeOK /\ Consistent /\ AllTold /\ [Next]_vars => AllTold'
  BY NextTold
<1>3. TypeOK /\ Consistent /\ AllTold => ToldOfSession
  <2> SUFFICES ASSUME TypeOK, Consistent, AllTold, NEW c \in Slots, connectionValid[c]
               PROVE  /\ connAck[c] \in {"accepted", "resumed"} =>
                            \E s \in Slots : sessionValid[s] /\ connection[s] = c
                      /\ \A s \in Slots : sessionValid[s] /\ connection[s] = c =>
                           /\ connAck[c] \in {"accepted", "resumed", "cut short"}
                           /\ connAck[c] = "resumed" => ~cleanSession[s]
    BY DEF ToldOfSession
  <2>1. Told(c)
    BY DEF AllTold
  <2>2. HasSession(c) => /\ mqttSession[c] \in Slots
                         /\ sessionValid[mqttSession[c]]
                         /\ connection[mqttSession[c]] = c
    BY DEF Consistent, ConnectionLinks, HasSession, TypeOK
  <2>3. \A s \in Slots : sessionValid[s] /\ connection[s] = c =>
          HasSession(c) /\ mqttSession[c] = s
    BY NoneIsNoSlot DEF Consistent, SessionLinks, Connected, HasSession
  <2> QED BY <2>1, <2>2, <2>3 DEF Told
<1> QED BY <1>1, <1>2, <1>3, TypeCorrect, AlwaysConsistent, PTL DEF Spec

-----------------------------------------------------------------------------
(* Sessions that are away. *)

\* A slot that is not in use has no connection; a session in use without a
\* connection is a retained one.
FreeUnlinked(valid, links) == \A s \in Slots : ~valid[s] => links[s] = None
AwayRetained(valid, links) ==
  \A s \in Slots : valid[s] /\ links[s] = None => ~cleanSession[s]
SessionStates == FreeUnlinked(sessionValid, connection) /\ AwayRetained(sessionValid, connection)

LEMMA DisconnectStates ==
  ASSUME TypeOK, SessionStates, NEW s \in Slots
  PROVE  /\ FreeUnlinked(ValidAfterDisconnect(s), LinksAfterDisconnect(s))
         /\ AwayRetained(ValidAfterDisconnect(s), LinksAfterDisconnect(s))
  BY DEF SessionStates, FreeUnlinked, AwayRetained, ValidAfterDisconnect,
         LinksAfterDisconnect, TypeOK

LEMMA TerminateStates ==
  ASSUME TypeOK, SessionStates, NEW c \in Slots,
         TerminateConnection(c) \/ CleanupLostConnection(c)
  PROVE  SessionStates'
<1>1. CASE Halt \/ (~HasSession(c) /\ DetachSession(c))
  BY <1>1 DEF Halt, DetachSession, sessionVars, SessionStates, FreeUnlinked, AwayRetained
<1>2. CASE HasSession(c) /\ DetachSession(c)
  <2>1. mqttSession[c] \in Slots
    BY <1>2 DEF HasSession, TypeOK
  <2>2. /\ sessionValid' = ValidAfterDisconnect(mqttSession[c])
        /\ connection' = LinksAfterDisconnect(mqttSession[c])
        /\ cleanSession' = cleanSession
    BY <1>2 DEF DetachSession
  <2> QED
    BY <2>1, <2>2, DisconnectStates DEF SessionStates, FreeUnlinked, AwayRetained
<1>3. Halt \/ DetachSession(c)
  BY DEF TerminateConnection, CleanupLostConnection
<1> QED BY <1>1, <1>2, <1>3

LEMMA ConnectStates ==
  ASSUME TypeOK, NEW c \in Slots, NEW s \in Slots, NEW m \in ConnectMessages,
         NEW valid \in [Slots -> BOOLEAN],
         NEW links \in [Slots -> Slots \cup {None}],
         NEW subs,
         FreeUnlinked(valid, links), AwayRetained(valid, links),
         Reconnect(c, s, m, valid, links, subs) \/ Begin(c, s, m, valid, links, subs)
  PROVE  SessionStates'
<1>1. /\ connection' = [links EXCEPT ![s] = c]
      /\ cleanSession' = [cleanSession EXCEPT ![s] = m.cleanSession]
      /\ c # None
  BY NoneIsNoSlot DEF Reconnect, Begin, Link, StartSession
<1>2. /\ sessionValid'[s]
      /\ \A r \in Slots \ {s} : sessionValid'[r] = valid[r]
  BY DEF Reconnect, Begin, IsFirst, MatchingSessions
<1> QED
  BY <1>1, <1>2 DEF SessionStates, FreeUnlinked, AwayRetained, TypeOK

LEMMA NextStates ==
  ASSUME TypeOK, SessionStates, [Next]_vars
  PROVE  SessionStates'
<1> USE DEF sessionVars
<1>1. UNCHANGED <<sessionValid, connection, cleanSession>> => SessionStates'
  BY DEF SessionStates, FreeUnlinked, AwayRetained
<1>2. CASE UNCHANGED vars
  BY <1>1, <1>2 DEF vars
<1>3. CASE Environment
  BY <1>1, <1>3 DEF Environment, WifiConnected, WifiDisconnected, ClientOpens,
                    ClientGivesUp, ConnectionDrops, Tick
<1>4. CASE Service
  <2>1. ASSUME NEW s \in Slots, KeepAliveExpires(s)
        PROVE  SessionStates'
    <3>1. connection[s] \in Slots /\ TerminateConnection(connection[s])
      BY <2>1 DEF KeepAliveExpires, Connected, TypeOK
    <3> QED BY <3>1, TerminateStates
  <2>2. ASSUME NEW s \in Slots, TearDownExpires(s)
        PROVE  SessionStates'
    BY <2>2 DEF TearDownExpires, Connected, SessionStates, FreeUnlinked, AwayRetained, TypeOK
  <2>3. UpdateDataModelDebugs => SessionStates'
    BY <1>1 DEF UpdateDataModelDebugs
  <2>4. \A e \in Endpoints, c \in Slots :
          RefuseIncomingWiFiClient(e) \/ NewConnection(e, c) => SessionStates'
    BY <1>1 DEF RefuseIncomingWiFiClient, NewConnection
  <2>5. \A e \in Endpoints : RefuseIncomingWiFiClient(e) => SessionStates'
    BY <1>1 DEF RefuseIncomingWiFiClient
  <2> QED BY <1>4, <2>1, <2>2, <2>3, <2>4, <2>5, TerminateStates DEF Service
<1>5. ASSUME NEW c \in Slots, MessageReceived(c)
      PROVE  SessionStates'
  <2>1. Halt => SessionStates'
    BY <1>1 DEF Halt
  <2>2. RefuseConnect(c) => SessionStates'
    BY <1>1 DEF RefuseConnect
  <2>3. ASSUME NEW m \in ConnectMessages, ConnectReconnects(c, m) \/ ConnectBegins(c, m)
        PROVE  SessionStates'
    <3>1. PICK s \in Slots :
            \/ Reconnect(c, s, m, sessionValid, connection, subscribers)
            \/ Begin(c, s, m, sessionValid, connection, subscribers)
      BY <2>3 DEF ConnectReconnects, ConnectBegins
    <3> QED BY <3>1, ConnectStates DEF SessionStates, TypeOK
  <2>4. ASSUME NEW m \in ConnectMessages, SecondConnectProceeds(c, m)
        PROVE  SessionStates'
    <3>1. mqttSession[c] \in Slots
      BY <2>4 DEF SecondConnectProceeds, SecondConnect, HasSession, TypeOK
    <3>2. PICK s \in Slots, subs \in {SubscribersAfterDisconnect(mqttSession[c])} :
            \/ Reconnect(c, s, m, ValidAfterDisconnect(mqttSession[c]),
                         LinksAfterDisconnect(mqttSession[c]), subs)
            \/ Begin(c, s, m, ValidAfterDisconnect(mqttSession[c]),
                     LinksAfterDisconnect(mqttSession[c]), subs)
      BY <2>4 DEF SecondConnectProceeds
    <3> QED BY <3>1, <3>2, ConnectStates, DisconnectStates, DisconnectTypes
  <2>5. ConnectMessage(c) => SessionStates'
    BY <2>1, <2>2, <2>3, <2>4, TerminateStates
       DEF ConnectMessage, SecondConnectMessages, ConnectNotServed, ConnectMalformed,
           SecondConnectMalformed, SecondConnectRefused, ConnectUnavailable,
           SecondConnectUnavailable
  <2>6. PingRequestMessage(c) => SessionStates'
    BY <1>1 DEF PingRequestMessage
  <2>7. \A matched \in SUBSET Leaves :
          SubscribeMessage(c, matched) \/ UnsubscribeMessage(c, matched) => SessionStates'
    BY <1>1 DEF SubscribeMessage, UnsubscribeMessage
  <2> QED BY <1>5, <2>5, <2>6, <2>7, TerminateStates DEF MessageReceived, TerminatingMessage
<1> QED BY <1>2, <1>3, <1>4, <1>5 DEF Next

\* The broker keeps no link of a free slot and no clean session that is away.
THEOREM AlwaysSessionStates == Spec => []SessionStates
<1>1. Init => SessionStates
  BY DEF Init, SessionStates, FreeUnlinked, AwayRetained
<1>2. TypeOK /\ SessionStates /\ [Next]_vars => SessionStates'
  BY NextStates
<1> QED BY <1>1, <1>2, TypeCorrect, PTL DEF Spec

\* A CONNECT is given a session only while nobody is connected to it.
THEOREM NeverTakesOver ==
  ASSUME ~RepeatConnect
  PROVE  Spec => NoTakeOver
<1> DEFINE Kept == \A s \in Slots : Connected(s) /\ connection'[s] # None =>
                                      connection'[s] = connection[s]
<1>1. ASSUME TypeOK, SessionStates, [Next]_vars
      PROVE  Kept
  <2> USE DEF sessionVars
  <2>1. CASE UNCHANGED connection
    BY <2>1
  <2>2. \A c \in Slots : TerminateConnection(c) \/ CleanupLostConnection(c) => Kept
    <3> SUFFICES ASSUME NEW c \in Slots, HasSession(c), DetachSession(c)
                 PROVE  Kept
      BY DEF TerminateConnection, CleanupLostConnection, DetachSession, Halt
    <3>1. mqttSession[c] \in Slots
      BY <1>1 DEF HasSession, TypeOK
    <3> QED BY <1>1, <3>1 DEF DetachSession, LinksAfterDisconnect, TypeOK
  <2>3. ASSUME NEW c \in Slots, NEW m \in ConnectMessages,
               ConnectReconnects(c, m) \/ ConnectBegins(c, m)
        PROVE  Kept
    <3>1. PICK s \in Slots :
            \/ Reconnect(c, s, m, sessionValid, connection, subscribers)
            \/ Begin(c, s, m, sessionValid, connection, subscribers)
      BY <2>3 DEF ConnectReconnects, ConnectBegins
    <3>2. connection[s] = None
      BY <1>1, <3>1 DEF Reconnect, IsAway, Begin, IsFirst, FreeSessions, SessionStates,
                        FreeUnlinked
    <3>3. connection' = [connection EXCEPT ![s] = c]
      BY <3>1 DEF Reconnect, Begin, Link
    <3> QED BY <1>1, <3>2, <3>3 DEF Connected, TypeOK
  <2>4. CASE Environment
    BY <2>4 DEF Environment, WifiConnected, WifiDisconnected, ClientOpens, ClientGivesUp,
                ConnectionDrops, Tick
  <2>5. CASE Service
    <3>1. ASSUME NEW s \in Slots, KeepAliveExpires(s)
          PROVE  Kept
      <4>1. connection[s] \in Slots /\ TerminateConnection(connection[s])
        BY <1>1, <3>1 DEF KeepAliveExpires, Connected, TypeOK
      <4> QED BY <4>1, <2>2
    <3> QED
      BY <2>1, <2>2, <2>5, <3>1
         DEF Service, TearDownExpires, UpdateDataModelDebugs, RefuseIncomingWiFiClient,
             NewConnection
  <2>6. ASSUME NEW c \in Slots, MessageReceived(c)
        PROVE  Kept
    <3>1. RefuseConnect(c) => Kept
      BY <2>1 DEF RefuseConnect
    <3>2. SecondConnectMessages = {}
      BY DEF SecondConnectMessages
    <3>3. ConnectMessage(c) => Kept
      BY <2>2, <2>3, <3>1, <3>2
         DEF ConnectMessage, SecondConnectMessages, ConnectNotServed, ConnectMalformed,
             SecondConnectMalformed, SecondConnectRefused, ConnectUnavailable,
             SecondConnectProceeds, SecondConnectUnavailable
    <3>4. PingRequestMessage(c) => Kept
      BY <2>1 DEF PingRequestMessage
    <3>5. \A matched \in SUBSET Leaves :
            SubscribeMessage(c, matched) \/ UnsubscribeMessage(c, matched) => Kept
      BY <2>1 DEF SubscribeMessage, UnsubscribeMessage
    <3> QED BY <2>2, <2>6, <3>3, <3>4, <3>5 DEF MessageReceived, TerminatingMessage
  <2> QED BY <1>1, <2>4, <2>5, <2>6 DEF Next, vars
<1>2. TypeOK /\ SessionStates /\ [Next]_vars => [Kept]_vars
  BY <1>1
<1> QED BY <1>2, TypeCorrect, AlwaysSessionStates, PTL DEF Spec, NoTakeOver

\* No session gains or loses a subscription by the loss of its connection, while
\* it is away, or when its client returns to go on with it.
THEOREM SubscriptionsAlwaysSurvive ==
  ASSUME ~RepeatConnect
  PROVE  Spec => SubscriptionsSurvive
<1> DEFINE Kept ==
      \A s \in Slots :
        /\ sessionValid[s] /\ sessionValid'[s]
        /\ ~Connected(s) \/ ~Connected(s)'
        /\ ~CleanReturn(s)
        => \A leaf \in Leaves : s \in subscribers'[leaf] <=> s \in subscribers[leaf]
<1>1. ASSUME TypeOK, Consistent, SessionStates, [Next]_vars
      PROVE  Kept
  <2> USE DEF sessionVars
  <2>1. CASE UNCHANGED subscribers
    BY <2>1
  <2>2. ASSUME NEW r \in Slots, subscribers' = UnsubscribeAll(r), ~sessionValid'[r]
        PROVE  Kept
    BY <2>2 DEF UnsubscribeAll
  <2>3. \A c \in Slots : TerminateConnection(c) \/ CleanupLostConnection(c) => Kept
    <3> SUFFICES ASSUME NEW c \in Slots, HasSession(c), DetachSession(c)
                 PROVE  Kept
      BY DEF TerminateConnection, CleanupLostConnection, DetachSession, Halt
    <3>1. mqttSession[c] \in Slots
      BY <1>1 DEF HasSession, TypeOK
    <3>2. CASE cleanSession[mqttSession[c]]
      BY <1>1, <2>2, <3>1, <3>2
         DEF DetachSession, SubscribersAfterDisconnect, ValidAfterDisconnect, TypeOK
    <3>3. CASE ~cleanSession[mqttSession[c]]
      BY <2>1, <3>3 DEF DetachSession, SubscribersAfterDisconnect
    <3> QED BY <3>2, <3>3
  <2>4. ASSUME NEW c \in Slots, NEW m \in ConnectMessages,
               ConnectReconnects(c, m) \/ ConnectBegins(c, m)
        PROVE  Kept
    <3>1. CASE ConnectBegins(c, m)
      BY <2>1, <3>1 DEF ConnectBegins, Begin
    <3>2. CASE ConnectReconnects(c, m)
      <4>1. PICK s \in Slots : Reconnect(c, s, m, sessionValid, connection, subscribers)
        BY <3>2 DEF ConnectReconnects
      <4>2. sessionValid[s] /\ connection[s] = None
        BY <4>1 DEF Reconnect, IsFirst, MatchingSessions, IsAway
      <4>3. ~cleanSession[s]
        BY <1>1, <4>2 DEF SessionStates, AwayRetained
      <4> QED BY <2>1, <4>1, <4>3 DEF Reconnect, SubscribersAfterReconnect
    <3> QED BY <2>4, <3>1, <3>2
  <2>5. CASE Environment
    BY <2>5 DEF Environment, WifiConnected, WifiDisconnected, ClientOpens, ClientGivesUp,
                ConnectionDrops, Tick
  <2>6. CASE Service
    <3>1. ASSUME NEW s \in Slots, KeepAliveExpires(s)
          PROVE  Kept
      <4>1. connection[s] \in Slots /\ TerminateConnection(connection[s])
        BY <1>1, <3>1 DEF KeepAliveExpires, Connected, TypeOK
      <4> QED BY <4>1, <2>3
    <3>2. ASSUME NEW s \in Slots, TearDownExpires(s)
          PROVE  Kept
      BY <1>1, <2>2, <3>2 DEF TearDownExpires, TypeOK
    <3> QED
      BY <2>1, <2>3, <2>6, <3>1, <3>2
         DEF Service, UpdateDataModelDebugs, RefuseIncomingWiFiClient, NewConnection
  <2>7. ASSUME NEW c \in Slots, MessageReceived(c)
        PROVE  Kept
    <3>1. RefuseConnect(c) => Kept
      BY <2>1 DEF RefuseConnect
    <3>2. SecondConnectMessages = {}
      BY DEF SecondConnectMessages
    <3>3. ConnectMessage(c) => Kept
      BY <2>3, <2>4, <3>1, <3>2
         DEF ConnectMessage, SecondConnectMessages, ConnectNotServed, ConnectMalformed,
             SecondConnectMalformed, SecondConnectRefused, ConnectUnavailable,
             SecondConnectProceeds, SecondConnectUnavailable
    <3>4. PingRequestMessage(c) => Kept
      BY <2>1 DEF PingRequestMessage
    <3>5. ASSUME NEW matched \in SUBSET Leaves,
                 SubscribeMessage(c, matched) \/ UnsubscribeMessage(c, matched)
          PROVE  Kept
      <4>1. connection[mqttSession[c]] = c /\ connection' = connection
        BY <1>1, <3>5 DEF SubscribeMessage, UnsubscribeMessage, MessageFrom, Consistent,
                          ConnectionLinks
      <4>2. Connected(mqttSession[c]) /\ Connected(mqttSession[c])'
        BY <4>1, NoneIsNoSlot, <3>5 DEF Connected, SubscribeMessage, UnsubscribeMessage,
                                        connectionVars
      <4>3. \A s \in Slots \ {mqttSession[c]} : \A leaf \in Leaves :
              s \in subscribers'[leaf] <=> s \in subscribers[leaf]
        BY <3>5 DEF SubscribeMessage, UnsubscribeMessage
      <4>4. ASSUME NEW s \in Slots, ~Connected(s) \/ ~Connected(s)'
            PROVE  s # mqttSession[c]
        BY <4>1, <4>2, <4>4, NoneIsNoSlot DEF Connected
      <4> QED BY <4>3, <4>4
    <3> QED BY <2>3, <2>7, <3>3, <3>4, <3>5 DEF MessageReceived, TerminatingMessage
  <2> QED BY <1>1, <2>5, <2>6, <2>7 DEF Next, vars
<1>2. TypeOK /\ Consistent /\ SessionStates /\ [Next]_vars => [Kept]_vars
  BY <1>1
<1> QED
  BY <1>2, TypeCorrect, AlwaysConsistent, AlwaysSessionStates, PTL DEF Spec, SubscriptionsSurvive

-----------------------------------------------------------------------------
(* The invariant of the refinement: the tables are consistent, and what is *)
(* in use has a name and an endpoint.                                      *)

Named ==
  /\ \A c \in Slots : connectionValid[c] => wifiClient[c] \in Endpoints
  /\ \A s \in Slots : sessionValid[s] => clientID[s] \in Names

Sound == TypeOK /\ Consistent /\ SessionStates /\ Named

LEMMA NextNamed ==
  ASSUME ~RepeatConnect, TypeOK, Named, [Next]_vars
  PROVE  Named'
<1> USE DEF sessionVars, connectionVars
<1> DEFINE Fewer == /\ UNCHANGED <<wifiClient, clientID>>
                    /\ \A c \in Slots : connectionValid'[c] => connectionValid[c]
                    /\ \A s \in Slots : sessionValid'[s] => sessionValid[s]
<1>1. Fewer => Named'
  BY DEF Named
<1>2. CASE UNCHANGED vars
  BY <1>1, <1>2 DEF vars
<1>3. CASE Environment
  BY <1>1, <1>3 DEF Environment, WifiConnected, WifiDisconnected, ClientOpens,
                    ClientGivesUp, ConnectionDrops, Tick
<1>4. ASSUME NEW c \in Slots, TerminateConnection(c) \/ CleanupLostConnection(c)
      PROVE  Named'
  <2>1. CASE Halt
    BY <1>1, <2>1 DEF Halt
  <2>2. CASE DetachSession(c) /\ FreeConnection(c)
    <3>1. \A d \in Slots : connectionValid'[d] => connectionValid[d]
      BY <2>2 DEF FreeConnection, TypeOK
    <3>2. \A s \in Slots : sessionValid'[s] => sessionValid[s]
      BY <2>2 DEF DetachSession, ValidAfterDisconnect, TypeOK, HasSession
    <3>3. UNCHANGED <<wifiClient, clientID>>
      BY <2>2 DEF DetachSession, FreeConnection
    <3> QED BY <1>1, <3>1, <3>2, <3>3
  <2> QED BY <1>4, <2>1, <2>2 DEF TerminateConnection, CleanupLostConnection
<1>5. CASE Service
  <2>1. ASSUME NEW s \in Slots, KeepAliveExpires(s)
        PROVE  Named'
    <3>1. connection[s] \in Slots /\ TerminateConnection(connection[s])
      BY <2>1 DEF KeepAliveExpires, Connected, TypeOK
    <3> QED BY <3>1, <1>4
  <2>2. \A s \in Slots : TearDownExpires(s) => Named'
    BY <1>1 DEF TearDownExpires, TypeOK
  <2>3. UpdateDataModelDebugs => Named'
    BY <1>1 DEF UpdateDataModelDebugs
  <2>4. \A e \in Endpoints : RefuseIncomingWiFiClient(e) => Named'
    BY <1>1 DEF RefuseIncomingWiFiClient
  <2>5. \A e \in Endpoints, c \in Slots : NewConnection(e, c) => Named'
    BY DEF NewConnection, Named, TypeOK
  <2> QED BY <1>4, <1>5, <2>1, <2>2, <2>3, <2>4, <2>5 DEF Service
<1>6. ASSUME NEW c \in Slots, MessageReceived(c)
      PROVE  Named'
  <2>1. RefuseConnect(c) => Named'
    BY <1>1 DEF RefuseConnect
  <2>2. ASSUME NEW m \in ConnectMessages, ConnectReconnects(c, m) \/ ConnectBegins(c, m)
        PROVE  Named'
    <3>1. PICK s \in Slots :
            \/ Reconnect(c, s, m, sessionValid, connection, subscribers)
            \/ Begin(c, s, m, sessionValid, connection, subscribers)
      BY <2>2 DEF ConnectReconnects, ConnectBegins
    <3>2. UNCHANGED <<connectionValid, wifiClient>> /\ connectionValid[c]
      BY <2>2, <3>1 DEF ConnectReconnects, ConnectBegins, Reconnect, Begin, Link,
                        FirstConnect, MessageFrom
    <3>3. ClientName(c, m) \in Names
      BY <3>2 DEF ClientName, ConnectMessages, Names, Named
    <3>4. \A r \in Slots : sessionValid'[r] => clientID'[r] \in Names
      BY <3>1, <3>3 DEF Reconnect, Begin, Named, TypeOK
    <3> QED BY <3>2, <3>4 DEF Named
  <2>3. SecondConnectMessages = {}
    BY DEF SecondConnectMessages
  <2>4. ConnectMessage(c) => Named'
    BY <1>4, <2>1, <2>2, <2>3
       DEF ConnectMessage, SecondConnectMessages, ConnectNotServed, ConnectMalformed,
           SecondConnectMalformed, SecondConnectRefused, ConnectUnavailable,
           SecondConnectProceeds, SecondConnectUnavailable
  <2>5. PingRequestMessage(c) => Named'
    BY <1>1 DEF PingRequestMessage
  <2>6. \A matched \in SUBSET Leaves :
          SubscribeMessage(c, matched) \/ UnsubscribeMessage(c, matched) => Named'
    BY <1>1 DEF SubscribeMessage, UnsubscribeMessage
  <2> QED BY <1>4, <1>6, <2>4, <2>5, <2>6 DEF MessageReceived, TerminatingMessage
<1> QED BY <1>2, <1>3, <1>5, <1>6 DEF Next

\* The tables are consistent, nobody is away with a clean session, and what
\* is in use carries the name of a client and an endpoint.
THEOREM AlwaysSound ==
  ASSUME ~RepeatConnect
  PROVE  Spec => []Sound
<1>1. Init => Named
  BY DEF Init, Named
<1>2. TypeOK /\ Named /\ [Next]_vars => Named'
  BY NextNamed
<1>3. Spec => []Named
  BY <1>1, <1>2, TypeCorrect, PTL DEF Spec
<1> QED
  BY <1>3, TypeCorrect, AlwaysConsistent, AlwaysSessionStates, PTL DEF Sound

-----------------------------------------------------------------------------
(* What the mapping of MQTTBrokerSessions shows of a table. *)

SessionMap == [client \in Names |-> SessionState(client)]
TopicMap == [client \in Names |-> TopicsOf(client)]

LEMMA FirstOfOne ==
  ASSUME NEW s \in Slots
  PROVE  (CHOOSE r \in Slots : IsFirst(r, {s})) = s
<1>1. IsFirst(s, {s}) /\ \A r \in Slots : IsFirst(r, {s}) => r = s
  BY DEF IsFirst, Slots
<1> QED BY <1>1

\* A client whose session is s is shown as s is.
LEMMA Shown ==
  ASSUME OneSessionPerClient, NEW client, NEW s \in Slots,
         sessionValid[s], clientID[s] = client
  PROVE  /\ SessionsOf(client) = {s}
         /\ SessionState(client) = IF Connected(s) THEN wifiClient[connection[s]] ELSE "away"
         /\ client \in RetainedClients <=> client \in Names /\ ~cleanSession[s]
         /\ TopicsOf(client) = {leaf \in Leaves : s \in subscribers[leaf]}
<1>1. SessionsOf(client) = {s}
  BY DEF SessionsOf, OneSessionPerClient
<1>2. SessionOf(client) = s
  BY <1>1, FirstOfOne DEF SessionOf
<1> QED BY <1>1, <1>2 DEF SessionState, RetainedClients, TopicsOf

LEMMA ShownNext ==
  ASSUME OneSessionPerClient', NEW client, NEW s \in Slots,
         sessionValid'[s], clientID'[s] = client
  PROVE  /\ SessionsOf(client)' = {s}
         /\ SessionState(client)' =
              IF Connected(s)' THEN wifiClient'[connection'[s]] ELSE "away"
         /\ client \in RetainedClients' <=> client \in Names /\ ~cleanSession'[s]
         /\ TopicsOf(client)' = {leaf \in Leaves : s \in subscribers'[leaf]}
<1>1. SessionsOf(client)' = {s}
  BY DEF SessionsOf, OneSessionPerClient
<1>2. SessionOf(client)' = s
  BY <1>1, FirstOfOne DEF SessionOf
<1> QED BY <1>1, <1>2 DEF SessionState, RetainedClients, TopicsOf

\* A client without a session is shown as absent.
LEMMA ShownAbsent ==
  ASSUME NEW client, SessionsOf(client) = {}
  PROVE  SessionState(client) = "absent" /\ client \notin RetainedClients /\ TopicsOf(client) = {}
  BY DEF SessionState, RetainedClients, TopicsOf

LEMMA ShownAbsentNext ==
  ASSUME NEW client, SessionsOf(client)' = {}
  PROVE  /\ SessionState(client)' = "absent"
         /\ client \notin RetainedClients'
         /\ TopicsOf(client)' = {}
  BY DEF SessionState, RetainedClients, TopicsOf

\* Steps that leave alone the sessions of all clients but one.
OthersKept(client) ==
  \A s \in Slots :
    /\ sessionValid[s] /\ clientID[s] # client <=> sessionValid'[s] /\ clientID'[s] # client
    /\ sessionValid[s] /\ clientID[s] # client =>
         /\ clientID'[s] = clientID[s]
         /\ cleanSession'[s] = cleanSession[s]
         /\ connection'[s] = connection[s]
         /\ Connected(s) => wifiClient'[connection[s]] = wifiClient[connection[s]]
         /\ \A leaf \in Leaves : s \in subscribers'[leaf] <=> s \in subscribers[leaf]

LEMMA OthersShownAlike ==
  ASSUME OneSessionPerClient, OneSessionPerClient', NEW client, OthersKept(client),
         NEW other \in Names \ {client}
  PROVE  /\ SessionState(other)' = SessionState(other)
         /\ other \in RetainedClients' <=> other \in RetainedClients
         /\ TopicsOf(other)' = TopicsOf(other)
<1>1. CASE SessionsOf(other) = {}
  <2>1. SessionsOf(other)' = {}
    BY <1>1 DEF SessionsOf, OthersKept
  <2> QED BY <1>1, <2>1, ShownAbsent, ShownAbsentNext
<1>2. CASE SessionsOf(other) # {}
  <2>1. PICK s \in Slots : sessionValid[s] /\ clientID[s] = other
    BY <1>2 DEF SessionsOf
  <2>2. /\ sessionValid'[s] /\ clientID'[s] = other
        /\ cleanSession'[s] = cleanSession[s]
        /\ connection'[s] = connection[s]
        /\ Connected(s) => wifiClient'[connection[s]] = wifiClient[connection[s]]
        /\ \A leaf \in Leaves : s \in subscribers'[leaf] <=> s \in subscribers[leaf]
    BY <2>1 DEF OthersKept
  <2>3. Connected(s)' <=> Connected(s)
    BY <2>2 DEF Connected
  <2>4. SessionState(other) = IF Connected(s) THEN wifiClient[connection[s]] ELSE "away"
    BY <2>1, Shown
  <2>5. SessionState(other)' = IF Connected(s)' THEN wifiClient'[connection'[s]] ELSE "away"
    BY <2>2, ShownNext
  <2>6. SessionState(other)' = SessionState(other)
    BY <2>2, <2>3, <2>4, <2>5
  <2>7. other \in RetainedClients' <=> other \in RetainedClients
    BY <2>1, <2>2, Shown, ShownNext
  <2>8. /\ TopicsOf(other) = {leaf \in Leaves : s \in subscribers[leaf]}
        /\ TopicsOf(other)' = {leaf \in Leaves : s \in subscribers'[leaf]}
    BY <2>1, <2>2, Shown, ShownNext
  <2> QED BY <2>2, <2>6, <2>7, <2>8
<1> QED BY <1>1, <1>2

\* What such a step does to the map.
LEMMA OneChanges ==
  ASSUME OneSessionPerClient, OneSessionPerClient', NEW client \in Names, OthersKept(client)
  PROVE  /\ SessionMap' = [SessionMap EXCEPT ![client] = SessionState(client)']
         /\ client \in RetainedClients' => RetainedClients' = RetainedClients \cup {client}
         /\ client \notin RetainedClients' => RetainedClients' = RetainedClients \ {client}
         /\ TopicMap' = [TopicMap EXCEPT ![client] = TopicsOf(client)']
<1>1. \A other \in Names \ {client} :
        /\ SessionState(other)' = SessionState(other)
        /\ other \in RetainedClients' <=> other \in RetainedClients
        /\ TopicsOf(other)' = TopicsOf(other)
  BY OthersShownAlike
<1>2. SessionMap' = [SessionMap EXCEPT ![client] = SessionState(client)']
  BY <1>1 DEF SessionMap
<1>3. TopicMap' = [TopicMap EXCEPT ![client] = TopicsOf(client)']
  BY <1>1 DEF TopicMap
<1>4. RetainedClients \subseteq Names /\ RetainedClients' \subseteq Names
  BY DEF RetainedClients
<1> QED BY <1>1, <1>2, <1>3, <1>4

\* Steps that leave every session alone: ClientSessions stutters.
LEMMA NoneChanges ==
  ASSUME Sound, OneSessionPerClient', OthersKept(None)
  PROVE  UNCHANGED Promise!vars
<1>1. \A other \in Names :
        /\ SessionState(other)' = SessionState(other)
        /\ other \in RetainedClients' <=> other \in RetainedClients
        /\ TopicsOf(other)' = TopicsOf(other)
  BY OthersShownAlike, NoneAssumption DEF Sound, Consistent, Names
<1>2. [client \in Names |-> SessionState(client)]' = [client \in Names |-> SessionState(client)]
  BY <1>1
<1>3. [client \in Names |-> TopicsOf(client)]' = [client \in Names |-> TopicsOf(client)]
  BY <1>1
<1>4. RetainedClients' = RetainedClients
  BY <1>1 DEF RetainedClients
<1> QED BY <1>2, <1>3, <1>4 DEF Promise!vars

LEMMA SessionsAlone ==
  ASSUME Sound, OneSessionPerClient',
         UNCHANGED <<sessionValid, clientID, cleanSession, connection, subscribers>>,
         \A c \in Slots : connectionValid[c] => wifiClient'[c] = wifiClient[c]
  PROVE  UNCHANGED Promise!vars
<1>1. \A s \in Slots : sessionValid[s] /\ Connected(s) => connectionValid[connection[s]]
  BY DEF Sound, Consistent, SessionLinks
<1>2. \A s \in Slots : Connected(s) => connection[s] \in Slots
  BY DEF Connected, Sound, TypeOK
<1>3. OthersKept(None)
  BY <1>1, <1>2 DEF OthersKept
<1> QED BY <1>3, NoneChanges

-----------------------------------------------------------------------------
(* The steps of the broker that are steps of ClientSessions. *)

\* The connection of a session ends: a clean session ends with it, a retained
\* one is left away.
LEMMA DetachImplements ==
  ASSUME Sound, Sound', NEW c \in Slots, connectionValid[c], HasSession(c),
         DetachSession(c), UNCHANGED wifiClient
  PROVE  Promise!Next
<1> PICK s \in Slots : s = mqttSession[c]
  BY DEF Sound, TypeOK, HasSession
<1>1. sessionValid[s] /\ connection[s] = c
  BY DEF Sound, Consistent, ConnectionLinks
<1> PICK client \in Names : client = clientID[s]
  BY <1>1 DEF Sound, Named
<1>2. /\ sessionValid' = ValidAfterDisconnect(s)
      /\ connection' = LinksAfterDisconnect(s)
      /\ subscribers' = SubscribersAfterDisconnect(s)
      /\ UNCHANGED <<clientID, cleanSession>>
  BY DEF DetachSession
<1>4. Connected(s) /\ wifiClient[c] \in Endpoints
  BY <1>1, NoneIsNoSlot DEF Connected, Sound, Named
<1>5. OneSessionPerClient /\ OneSessionPerClient'
  BY DEF Sound, Consistent
<1>6. OthersKept(client)
  <2> SUFFICES ASSUME NEW r \in Slots
               PROVE  /\ sessionValid[r] /\ clientID[r] # client
                           <=> sessionValid'[r] /\ clientID'[r] # client
                      /\ sessionValid[r] /\ clientID[r] # client =>
                           /\ connection'[r] = connection[r]
                           /\ \A leaf \in Leaves : r \in subscribers'[leaf] <=> r \in subscribers[leaf]
    BY <1>2 DEF OthersKept
  <2>1. clientID[r] # client => r # s
    OBVIOUS
  <2>2. r # s => sessionValid'[r] = sessionValid[r] /\ connection'[r] = connection[r]
    BY <1>1, <1>2 DEF ValidAfterDisconnect, LinksAfterDisconnect, Sound, TypeOK
  <2>3. r # s => \A leaf \in Leaves : r \in subscribers'[leaf] <=> r \in subscribers[leaf]
    BY <1>2 DEF SubscribersAfterDisconnect, UnsubscribeAll
  <2> QED BY <1>2, <2>1, <2>2, <2>3
<1>7. SessionMap[client] = wifiClient[c]
  BY <1>1, <1>4, <1>5, Shown DEF SessionMap
<1>8. client \in RetainedClients <=> ~cleanSession[s]
  BY <1>1, <1>5, Shown
<1>9. CASE cleanSession[s]
  <2>1. ~sessionValid'[s]
    BY <1>1, <1>2, <1>9 DEF ValidAfterDisconnect, Sound, TypeOK
  <2>2. SessionsOf(client)' = {}
    BY <1>1, <1>2, <1>5, <2>1 DEF SessionsOf, OneSessionPerClient, ValidAfterDisconnect, Sound, TypeOK
  <2>3. /\ SessionMap' = [SessionMap EXCEPT ![client] = "absent"]
        /\ RetainedClients' = RetainedClients \ {client}
        /\ TopicMap' = [TopicMap EXCEPT ![client] = {}]
    BY <1>5, <1>6, <2>2, OneChanges, ShownAbsentNext
  <2>4. Promise!End(client)
    BY <1>4, <1>7, <1>8, <1>9, <2>3 DEF Promise!End, Promise!Served, SessionMap, TopicMap
  <2> QED BY <2>4 DEF Promise!Next
<1>10. CASE ~cleanSession[s]
  <2>1. sessionValid'[s] /\ connection'[s] = None
    BY <1>1, <1>2, <1>10 DEF ValidAfterDisconnect, LinksAfterDisconnect, Sound, TypeOK
  <2>2. ~Connected(s)' /\ subscribers' = subscribers
    BY <1>2, <1>10, <2>1 DEF Connected, SubscribersAfterDisconnect
  <2>3. /\ SessionState(client)' = "away"
        /\ client \in RetainedClients'
        /\ TopicsOf(client)' = TopicsOf(client)
    <3>1. clientID'[s] = client /\ ~cleanSession'[s]
      BY <1>2, <1>10
    <3>2. SessionState(client)' = "away" /\ client \in RetainedClients'
      BY <1>5, <2>1, <2>2, <3>1, ShownNext
    <3>3. TopicsOf(client)' = {leaf \in Leaves : s \in subscribers'[leaf]}
      BY <1>5, <2>1, <3>1, ShownNext
    <3>4. TopicsOf(client) = {leaf \in Leaves : s \in subscribers[leaf]}
      BY <1>1, <1>5, Shown
    <3> QED BY <2>2, <3>2, <3>3, <3>4
  <2>4. /\ SessionMap' = [SessionMap EXCEPT ![client] = "away"]
        /\ RetainedClients' = RetainedClients \cup {client}
        /\ TopicMap' = [TopicMap EXCEPT ![client] = TopicsOf(client)]
    BY <1>5, <1>6, <2>3, OneChanges
  <2>5. RetainedClients' = RetainedClients /\ TopicMap' = TopicMap
    BY <1>8, <1>10, <2>4 DEF TopicMap
  <2>6. Promise!Leave(client)
    BY <1>4, <1>7, <1>8, <1>10, <2>4, <2>5 DEF Promise!Leave, Promise!Served, SessionMap, TopicMap
  <2> QED BY <2>6 DEF Promise!Next
<1> QED BY <1>9, <1>10

LEMMA TerminateImplements ==
  ASSUME Sound, Sound', NEW c \in Slots, connectionValid[c],
         TerminateConnection(c) \/ CleanupLostConnection(c)
  PROVE  Promise!Next \/ UNCHANGED Promise!vars
<1>1. OneSessionPerClient'
  BY DEF Sound, Consistent
<1>2. CASE Halt
  BY <1>1, <1>2, SessionsAlone DEF Halt, sessionVars, connectionVars
<1>3. CASE DetachSession(c) /\ FreeConnection(c) /\ HasSession(c)
  BY <1>3, DetachImplements DEF FreeConnection
<1>4. CASE DetachSession(c) /\ FreeConnection(c) /\ ~HasSession(c)
  BY <1>1, <1>4, SessionsAlone DEF DetachSession, FreeConnection, sessionVars
<1> QED BY <1>2, <1>3, <1>4 DEF TerminateConnection, CleanupLostConnection

\* A session that was away too long ends.
LEMMA TearDownImplements ==
  ASSUME Sound, Sound', NEW s \in Slots, TearDownExpires(s)
  PROVE  Promise!Next
<1>1. /\ sessionValid[s] /\ ~Connected(s)
      /\ sessionValid' = [sessionValid EXCEPT ![s] = FALSE]
      /\ subscribers' = UnsubscribeAll(s)
      /\ UNCHANGED <<clientID, cleanSession, connection, wifiClient>>
  BY DEF TearDownExpires, connectionVars
<1>2. PICK client \in Names : client = clientID[s]
  BY <1>1 DEF Sound, Named
<1>3. OneSessionPerClient /\ OneSessionPerClient'
  BY DEF Sound, Consistent
<1>4. \A r \in Slots \ {s} :
        /\ sessionValid'[r] = sessionValid[r]
        /\ \A leaf \in Leaves : r \in subscribers'[leaf] <=> r \in subscribers[leaf]
  BY <1>1 DEF UnsubscribeAll, Sound, TypeOK
<1>5. ~sessionValid'[s]
  BY <1>1 DEF Sound, TypeOK
<1>6. OthersKept(client)
  BY <1>1, <1>2, <1>4, <1>5 DEF OthersKept
<1>7. SessionsOf(client)' = {}
  BY <1>1, <1>2, <1>3, <1>4, <1>5 DEF SessionsOf, OneSessionPerClient
<1>8. /\ SessionMap' = [SessionMap EXCEPT ![client] = "absent"]
      /\ RetainedClients' = RetainedClients \ {client}
      /\ TopicMap' = [TopicMap EXCEPT ![client] = {}]
  BY <1>2, <1>3, <1>6, <1>7, OneChanges, ShownAbsentNext
<1>9. SessionMap[client] = "away"
  BY <1>1, <1>2, <1>3, Shown DEF SessionMap
<1>10. Promise!End(client)
  BY <1>8, <1>9 DEF Promise!End, SessionMap, TopicMap
<1> QED BY <1>2, <1>10 DEF Promise!Next

\* A CONNECT gives a client that was away its session back.
LEMMA ReconnectImplements ==
  ASSUME Sound, Sound', NEW c \in Slots, NEW m \in ConnectMessages, NEW s \in Slots,
         connectionValid[c],
         Reconnect(c, s, m, sessionValid, connection, subscribers)
  PROVE  Promise!Next
<1>1. /\ sessionValid[s] /\ connection[s] = None /\ clientID[s] = ClientName(c, m)
      /\ cleanSession' = [cleanSession EXCEPT ![s] = m.cleanSession]
      /\ connection' = [connection EXCEPT ![s] = c]
      /\ UNCHANGED <<sessionValid, clientID, wifiClient>>
  BY DEF Reconnect, IsFirst, MatchingSessions, IsAway, StartSession, Link
<1>2. PICK client \in Names : client = clientID[s]
  BY <1>1 DEF Sound, Named
<1>3. OneSessionPerClient /\ OneSessionPerClient'
  BY DEF Sound, Consistent
<1>4. subscribers' = subscribers
  BY <1>1 DEF Reconnect, SubscribersAfterReconnect, Sound, SessionStates, AwayRetained
<1>5. /\ connection'[s] = c
      /\ cleanSession'[s] = m.cleanSession
      /\ \A r \in Slots \ {s} : connection'[r] = connection[r] /\ cleanSession'[r] = cleanSession[r]
  BY <1>1 DEF Sound, TypeOK
<1>6. OthersKept(client)
  BY <1>1, <1>2, <1>4, <1>5 DEF OthersKept
<1>7. Connected(s)' /\ wifiClient[c] \in Endpoints /\ m.cleanSession \in BOOLEAN
  BY <1>5, NoneIsNoSlot DEF Connected, Sound, Named, ConnectMessages
<1>8. clientID'[s] = client /\ sessionValid'[s]
  BY <1>1, <1>2
<1>9. /\ SessionState(client)' = wifiClient[c]
      /\ client \in RetainedClients' <=> ~m.cleanSession
      /\ TopicsOf(client)' = {leaf \in Leaves : s \in subscribers[leaf]}
  BY <1>1, <1>3, <1>4, <1>5, <1>7, <1>8, ShownNext
<1>10. /\ SessionState(client) = "away"
       /\ TopicsOf(client) = {leaf \in Leaves : s \in subscribers[leaf]}
  BY <1>1, <1>2, <1>3, Shown DEF Connected
<1>11. /\ SessionMap' = [SessionMap EXCEPT ![client] = wifiClient[c]]
       /\ RetainedClients' = IF m.cleanSession THEN RetainedClients \ {client}
                                               ELSE RetainedClients \cup {client}
       /\ TopicMap' = [TopicMap EXCEPT ![client] = TopicsOf(client)]
  BY <1>3, <1>6, <1>9, <1>10, OneChanges
<1>12. SessionMap[client] = "away" /\ TopicMap' = TopicMap
  BY <1>10, <1>11 DEF SessionMap, TopicMap
<1>13. Promise!Return(client, wifiClient[c], m.cleanSession)
  BY <1>11, <1>12 DEF Promise!Return, Promise!Retained, SessionMap, TopicMap
<1> QED BY <1>2, <1>7, <1>13 DEF Promise!Next

\* ClientSessions counts with the Cardinality of its own instance of FiniteSets.
LEMMA SameCardinality == \A S : Promise!Cardinality(S) = Cardinality(S)
  BY DEF Promise!Cardinality, Cardinality

\* While a slot is free, fewer clients have a session than there are slots.
LEMMA RoomForOne ==
  ASSUME Sound, NEW free \in Slots, ~sessionValid[free]
  PROVE  Cardinality(Promise!Known) < maxMQTTSessions
<1> DEFINE Known == {client \in Names : SessionsOf(client) # {}}
           slot == [client \in Known |-> SessionOf(client)]
<1>1. ASSUME NEW client \in Known
      PROVE  /\ slot[client] \in Slots \ {free}
             /\ clientID[slot[client]] = client
  <2>1. PICK s \in Slots : sessionValid[s] /\ clientID[s] = client
    BY DEF SessionsOf
  <2>2. SessionsOf(client) = {s}
    BY <2>1, Shown DEF Sound, Consistent
  <2>3. SessionOf(client) = s
    BY <2>2, FirstOfOne DEF SessionOf
  <2> QED BY <2>1, <2>3
<1>2. IsFiniteSet(Slots) /\ Cardinality(Slots) = maxMQTTSessions
  BY FS_Interval, SlotsAssumption DEF Slots
<1>3. IsFiniteSet(Slots \ {free}) /\ Cardinality(Slots \ {free}) = maxMQTTSessions - 1
  BY <1>2, FS_RemoveElement
<1>4. slot \in Injection(Known, Slots \ {free})
  BY <1>1 DEF Injection, IsInjective
<1>5. IsFiniteSet(Known) /\ Cardinality(Known) <= maxMQTTSessions - 1
  BY <1>3, <1>4, FS_Injection
<1>6. Promise!Known \in SUBSET Known
  BY ShownAbsent DEF Promise!Known
<1>7. IsFiniteSet(Promise!Known) /\ Cardinality(Promise!Known) <= Cardinality(Known)
  BY <1>5, <1>6, FS_Subset
<1>8. Cardinality(Promise!Known) \in Nat /\ Cardinality(Known) \in Nat
  BY <1>5, <1>7, FS_CardinalityType
<1> QED BY <1>5, <1>7, <1>8, SlotsAssumption

\* A CONNECT of a client that is not known gives it a session without topics.
LEMMA BeginImplements ==
  ASSUME Sound, Sound', NEW c \in Slots, NEW m \in ConnectMessages, NEW s \in Slots,
         connectionValid[c],
         Begin(c, s, m, sessionValid, connection, subscribers)
  PROVE  Promise!Next
<1>1. /\ ~sessionValid[s]
      /\ sessionValid' = [sessionValid EXCEPT ![s] = TRUE]
      /\ clientID' = [clientID EXCEPT ![s] = ClientName(c, m)]
      /\ cleanSession' = [cleanSession EXCEPT ![s] = m.cleanSession]
      /\ connection' = [connection EXCEPT ![s] = c]
      /\ UNCHANGED <<subscribers, wifiClient>>
  BY DEF Begin, IsFirst, FreeSessions, StartSession, Link
<1>2. wifiClient[c] \in Endpoints /\ m.cleanSession \in BOOLEAN
  BY DEF Sound, Named, ConnectMessages
<1>3. PICK client \in Names : client = ClientName(c, m)
  BY <1>2 DEF ClientName, ConnectMessages, Names
<1>4. OneSessionPerClient /\ OneSessionPerClient'
  BY DEF Sound, Consistent
<1>5. /\ sessionValid'[s] /\ clientID'[s] = client
      /\ cleanSession'[s] = m.cleanSession
      /\ connection'[s] = c
      /\ \A r \in Slots \ {s} :
           /\ sessionValid'[r] = sessionValid[r]
           /\ clientID'[r] = clientID[r]
           /\ cleanSession'[r] = cleanSession[r]
           /\ connection'[r] = connection[r]
  BY <1>1, <1>3 DEF Sound, TypeOK
<1>6. OthersKept(client)
  BY <1>1, <1>5 DEF OthersKept
<1>7. SessionsOf(client) = {}
  BY <1>3 DEF Begin, MatchingSessions, SessionsOf
<1>8. \A leaf \in Leaves : s \notin subscribers[leaf]
  BY <1>1 DEF Sound, Consistent, SubscribersAreSessions
<1>9. Connected(s)'
  BY <1>5, NoneIsNoSlot DEF Connected
<1>10. /\ SessionState(client)' = wifiClient[c]
       /\ client \in RetainedClients' <=> ~m.cleanSession
       /\ TopicsOf(client)' = {}
  BY <1>1, <1>4, <1>5, <1>8, <1>9, ShownNext
<1>11. SessionState(client) = "absent" /\ TopicsOf(client) = {}
  BY <1>7, ShownAbsent
<1>12. /\ SessionMap' = [SessionMap EXCEPT ![client] = wifiClient[c]]
       /\ RetainedClients' = IF m.cleanSession THEN RetainedClients \ {client}
                                               ELSE RetainedClients \cup {client}
       /\ TopicMap' = [TopicMap EXCEPT ![client] = {}]
  BY <1>4, <1>6, <1>10, OneChanges
<1>13. SessionMap[client] = "absent" /\ TopicMap' = TopicMap
  BY <1>11, <1>12 DEF SessionMap, TopicMap
<1>14. Cardinality(Promise!Known) < maxMQTTSessions
  BY <1>1, RoomForOne
<1>15. Promise!Arrive(client, wifiClient[c], m.cleanSession)
  BY <1>12, <1>13, <1>14, SameCardinality DEF Promise!Arrive, Promise!Retained, SessionMap, TopicMap
<1> QED BY <1>2, <1>15 DEF Promise!Next

\* SUBSCRIBE and UNSUBSCRIBE change the topics of the session of their
\* connection, and of no other.
LEMMA SubscribeImplements ==
  ASSUME Sound, Sound', NEW c \in Slots, NEW matched \in SUBSET Leaves,
         SubscribeMessage(c, matched) \/ UnsubscribeMessage(c, matched)
  PROVE  Promise!Next
<1>1. /\ connectionValid[c] /\ HasSession(c)
      /\ UNCHANGED <<sessionValid, clientID, cleanSession, connection, wifiClient>>
  BY DEF SubscribeMessage, UnsubscribeMessage, MessageFrom, connectionVars
<1>2. PICK s \in Slots : s = mqttSession[c]
  BY <1>1 DEF Sound, TypeOK, HasSession
<1>3. sessionValid[s] /\ connection[s] = c
  BY <1>1, <1>2 DEF Sound, Consistent, ConnectionLinks
<1>4. PICK client \in Names : client = clientID[s]
  BY <1>3 DEF Sound, Named
<1>5. OneSessionPerClient /\ OneSessionPerClient'
  BY DEF Sound, Consistent
<1>6. /\ Connected(s) /\ Connected(s)'
      /\ wifiClient[c] \in Endpoints
      /\ sessionValid'[s] /\ clientID'[s] = client
  BY <1>1, <1>3, <1>4, NoneIsNoSlot DEF Connected, Sound, Named
<1>7. \A r \in Slots \ {s}, leaf \in Leaves : r \in subscribers'[leaf] <=> r \in subscribers[leaf]
  BY <1>2 DEF SubscribeMessage, UnsubscribeMessage
<1>8. OthersKept(client)
  BY <1>1, <1>4, <1>7 DEF OthersKept
<1>9. /\ SessionState(client) = wifiClient[c]
      /\ client \in RetainedClients <=> ~cleanSession[s]
      /\ TopicsOf(client) = {leaf \in Leaves : s \in subscribers[leaf]}
  BY <1>3, <1>4, <1>5, <1>6, Shown
<1>10. /\ SessionState(client)' = wifiClient[c]
       /\ client \in RetainedClients' <=> ~cleanSession[s]
       /\ TopicsOf(client)' = {leaf \in Leaves : s \in subscribers'[leaf]}
  BY <1>1, <1>3, <1>5, <1>6, ShownNext
<1>11. \/ TopicsOf(client)' = TopicsOf(client) \cup matched
       \/ TopicsOf(client)' = TopicsOf(client) \ matched
  <2>1. CASE SubscribeMessage(c, matched)
    <3>1. \A leaf \in Leaves : s \in subscribers'[leaf] <=> leaf \in matched \/ s \in subscribers[leaf]
      BY <1>2, <2>1 DEF SubscribeMessage
    <3> QED BY <1>9, <1>10, <3>1
  <2>2. CASE UnsubscribeMessage(c, matched)
    <3>1. \A leaf \in Leaves : s \in subscribers'[leaf] <=> leaf \notin matched /\ s \in subscribers[leaf]
      BY <1>2, <2>2 DEF UnsubscribeMessage
    <3> QED BY <1>9, <1>10, <3>1
  <2> QED BY <2>1, <2>2
<1>12. /\ SessionMap' = [SessionMap EXCEPT ![client] = SessionState(client)]
       /\ client \in RetainedClients' => RetainedClients' = RetainedClients \cup {client}
       /\ client \notin RetainedClients' => RetainedClients' = RetainedClients \ {client}
       /\ TopicMap' = [TopicMap EXCEPT ![client] = TopicsOf(client)']
  BY <1>5, <1>8, <1>9, <1>10, OneChanges
<1>13. SessionMap' = SessionMap /\ RetainedClients' = RetainedClients
  BY <1>9, <1>10, <1>12 DEF SessionMap
<1>14. SessionMap[client] \in Endpoints /\ TopicMap[client] = TopicsOf(client)
  BY <1>6, <1>9 DEF SessionMap, TopicMap
<1>15. \/ TopicMap' = [TopicMap EXCEPT ![client] = @ \cup matched]
       \/ TopicMap' = [TopicMap EXCEPT ![client] = @ \ matched]
  BY <1>11, <1>12, <1>14
<1>16. Promise!ChangeTopics(client, matched)
  BY <1>13, <1>14, <1>15 DEF Promise!ChangeTopics, Promise!Served, SessionMap, TopicMap
<1> QED BY <1>16 DEF Promise!Next

-----------------------------------------------------------------------------
(* Every step is a step of ClientSessions or a stutter. *)

Step == Promise!Next \/ UNCHANGED Promise!vars

LEMMA NextImplements ==
  ASSUME ~RepeatConnect, Sound, Sound', [Next]_vars
  PROVE  Step
<1> USE DEF sessionVars, connectionVars
<1> DEFINE
  Alone == /\ UNCHANGED sessionVars
           /\ \A c \in Slots : connectionValid[c] => wifiClient'[c] = wifiClient[c]
<1>1. Alone => Step
  <2>1. OneSessionPerClient'
    BY DEF Sound, Consistent
  <2> QED BY <2>1, SessionsAlone DEF Step
<1>2. UNCHANGED <<sessionValid, clientID, cleanSession, connection, subscribers, wifiClient>> => Step
  <2>1. OneSessionPerClient'
    BY DEF Sound, Consistent
  <2> QED BY <2>1, SessionsAlone DEF Step
<1>3. CASE UNCHANGED vars
  BY <1>2, <1>3 DEF vars
<1>4. CASE Environment
  BY <1>2, <1>4 DEF Environment, WifiConnected, WifiDisconnected, ClientOpens,
                    ClientGivesUp, ConnectionDrops, Tick
<1>5. CASE Service
  <2>1. ASSUME NEW c \in Slots, CleanupLostConnection(c)
        PROVE  Step
    BY <2>1, TerminateImplements DEF CleanupLostConnection, Step
  <2>2. ASSUME NEW s \in Slots, KeepAliveExpires(s)
        PROVE  Step
    <3>1. /\ connection[s] \in Slots /\ TerminateConnection(connection[s])
          /\ connectionValid[connection[s]]
      BY <2>2 DEF KeepAliveExpires, Connected, Sound, TypeOK, Consistent, SessionLinks
    <3> QED BY <3>1, TerminateImplements DEF Step
  <2>3. \A s \in Slots : TearDownExpires(s) => Step
    BY TearDownImplements DEF Step
  <2>4. UpdateDataModelDebugs => Step
    BY <1>2 DEF UpdateDataModelDebugs
  <2>5. \A e \in Endpoints : RefuseIncomingWiFiClient(e) => Step
    BY <1>2 DEF RefuseIncomingWiFiClient
  <2>6. ASSUME NEW e \in Endpoints, NEW c \in Slots, NewConnection(e, c)
        PROVE  Step
    <3>1. /\ ~connectionValid[c] /\ wifiClient' = [wifiClient EXCEPT ![c] = e]
          /\ UNCHANGED sessionVars
      BY <2>6 DEF NewConnection, IsFirst, FreeConnections
    <3>2. \A d \in Slots : connectionValid[d] => wifiClient'[d] = wifiClient[d]
      BY <3>1 DEF Sound, TypeOK
    <3> QED BY <1>1, <3>1, <3>2
  <2> QED BY <1>5, <2>1, <2>2, <2>3, <2>4, <2>5, <2>6 DEF Service
<1>6. ASSUME NEW c \in Slots, MessageReceived(c)
      PROVE  Step
  <2>1. RefuseConnect(c) => Step
    BY <1>2 DEF RefuseConnect
  <2>2. MessageFrom(c) /\ TerminateConnection(c) => Step
    BY TerminateImplements DEF MessageFrom, Step
  <2>3. ASSUME NEW m \in ConnectMessages, ConnectReconnects(c, m) \/ ConnectBegins(c, m)
        PROVE  Step
    <3>1. connectionValid[c]
      BY <2>3 DEF ConnectReconnects, ConnectBegins, FirstConnect, MessageFrom
    <3>2. PICK s \in Slots :
            \/ Reconnect(c, s, m, sessionValid, connection, subscribers)
            \/ Begin(c, s, m, sessionValid, connection, subscribers)
      BY <2>3 DEF ConnectReconnects, ConnectBegins
    <3> QED BY <3>1, <3>2, ReconnectImplements, BeginImplements DEF Step
  <2>4. SecondConnectMessages = {}
    BY DEF SecondConnectMessages
  <2>5. ConnectMessage(c) => Step
    BY <2>1, <2>2, <2>3, <2>4
       DEF ConnectMessage, SecondConnectMessages, ConnectNotServed, ConnectMalformed,
           SecondConnectMalformed, SecondConnectRefused, ConnectUnavailable,
           SecondConnectProceeds, SecondConnectUnavailable, FirstConnect
  <2>6. PingRequestMessage(c) => Step
    BY <1>2 DEF PingRequestMessage
  <2>7. \A matched \in SUBSET Leaves :
          SubscribeMessage(c, matched) \/ UnsubscribeMessage(c, matched) => Step
    BY SubscribeImplements DEF Step
  <2> QED BY <1>6, <2>2, <2>5, <2>6, <2>7 DEF MessageReceived, TerminatingMessage
<1> QED BY <1>3, <1>4, <1>5, <1>6 DEF Next

LEMMA InitImplements == Init => Promise!Init
<1> SUFFICES ASSUME Init PROVE Promise!Init
  OBVIOUS
<1>1. \A client \in Names : SessionsOf(client) = {}
  BY DEF Init, SessionsOf
<1>2. \A client \in Names :
        SessionState(client) = "absent" /\ client \notin RetainedClients /\ TopicsOf(client) = {}
  BY <1>1, ShownAbsent
<1>3. [client \in Names |-> SessionState(client)] = [client \in Names |-> "absent"]
  BY <1>2
<1>4. [client \in Names |-> TopicsOf(client)] = [client \in Names |-> {}]
  BY <1>2
<1>5. RetainedClients = {}
  BY <1>2 DEF RetainedClients
<1> QED BY <1>3, <1>4, <1>5 DEF Promise!Init

\* The slot tables, the pointers between them and the subscriber lists are an
\* implementation of one session per client: whatever handler runs, each client
\* sees only its session arrive, return, be left, change its topics or end.
THEOREM BrokerImplementsClientSessions ==
  ASSUME ~RepeatConnect
  PROVE  Spec => ImplementsClientSessions
<1>1. Sound /\ Sound' /\ [Next]_vars => [Promise!Next]_(Promise!vars)
  BY NextImplements DEF Step
<1> QED
  BY <1>1, InitImplements, AlwaysSound, PTL DEF Spec, ImplementsClientSessions, Promise!Spec

=============================================================================
