-------------------------- MODULE MCMQTTBrokerLoop --------------------------
(* The broker's loop with two slots, for TLC. *)
EXTENDS MQTTBrokerLoop

CONSTANTS alice, e1

OneClient == {alice}
OneEndpoint == {e1}
NoLeaf == {}
KeepAliveZeroOne == {0, 1}

\* No handler reads connAck, the fields of a free slot that nothing in use
\* points to, the keep alive timer of a session without a connection, the tear
\* down timer of one with a connection, or what $SYS shows once it is marked as
\* out of date, so states that differ only there behave alike.
ConnectionReached(c) ==
  connectionValid[c] \/ \E s \in Slots : sessionValid[s] /\ connection[s] = c

SessionReached(s) ==
  sessionValid[s] \/ \E c \in Slots : ConnectionReached(c) /\ mqttSession[c] = s

LiveLoop ==
  <<connectionValid, sessionValid, alive,
    [c \in Slots |-> IF ConnectionReached(c) THEN <<wifiClient[c], mqttSession[c]>> ELSE <<>>],
    [s \in Slots |-> IF SessionReached(s)
                     THEN <<clientID[s], cleanSession[s], connection[s],
                            IF Connected(s) THEN <<keepAliveTime[s], keepAliveTimer[s]>>
                            ELSE <<tearDownTimer[s]>>>>
                     ELSE <<>>],
    IF dataModelDebugNeedsUpdating THEN <<>> ELSE <<connectionDebugs, sessionDebugs>>,
    programVars, incoming, phase, position>>

=============================================================================
