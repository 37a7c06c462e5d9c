------------------------- MODULE MQTTBrokerSessions -------------------------
(***************************************************************************)
(* The broker implements ClientSessions: the slot tables, the pointers and *)
(* the subscriber lists, seen from the clients.                            *)
(***************************************************************************)
EXTENDS MQTTBroker

ASSUME PlacesAssumption == "absent" \notin Endpoints /\ "away" \notin Endpoints

SessionsOf(client) == {s \in Slots : sessionValid[s] /\ clientID[s] = client}

SessionOf(client) == CHOOSE s \in Slots : IsFirst(s, SessionsOf(client))

SessionState(client) ==
  CASE SessionsOf(client) = {} -> "absent"
    [] SessionsOf(client) # {} /\ ~Connected(SessionOf(client)) -> "away"
    [] OTHER -> wifiClient[connection[SessionOf(client)]]

RetainedClients == {client \in Names : \E s \in SessionsOf(client) : ~cleanSession[s]}

TopicsOf(client) == {leaf \in Leaves : \E s \in SessionsOf(client) : s \in subscribers[leaf]}

Promise == INSTANCE ClientSessions WITH
  Clients <- Names,
  Places <- Endpoints,
  Topics <- Leaves,
  Capacity <- maxMQTTSessions,
  Absent <- "absent",
  Away <- "away",
  session <- [client \in Names |-> SessionState(client)],
  retained <- RetainedClients,
  topics <- [client \in Names |-> TopicsOf(client)]

\* The tables, their pointers and the subscriber lists behave, for every client,
\* as the session the broker promises it: the handlers of MQTTBroker.cpp and
\* MQTTSession.cpp take only the steps of ClientSessions.
ImplementsClientSessions == Promise!Spec

=============================================================================
