---------------------------- MODULE MCMQTTBroker ----------------------------
(* The broker's tables with few slots, clients and endpoints, for TLC. *)
EXTENDS MQTTBrokerSessions, TLC

CONSTANTS alice, bob, e1, e2, leaf1

OneClient == {alice}
TwoClients == {alice, bob}
TwoEndpoints == {e1, e2}
OneLeaf == {leaf1}
KeepAliveZero == {0}

\* Clients and endpoints are only compared for equality.
Symmetry == Permutations(TwoClients) \cup Permutations(TwoEndpoints)

\* No handler reads the fields of a slot that is not in use, the keep alive
\* timer of a session without a connection, the tear down timer of one with a
\* connection, or what $SYS shows, so states that differ only there behave
\* alike.
Live ==
  <<[c \in Slots |-> IF connectionValid[c]
                     THEN <<wifiClient[c], mqttSession[c], connAck[c], alive[c]>>
                     ELSE <<>>],
    [s \in Slots |-> IF sessionValid[s]
                     THEN <<clientID[s], cleanSession[s], connection[s], keepAliveTime[s],
                            IF Connected(s) THEN keepAliveTimer[s] ELSE tearDownTimer[s]>>
                     ELSE <<>>],
    subscribers, wifiIsConnected, fatal, incoming>>

=============================================================================
