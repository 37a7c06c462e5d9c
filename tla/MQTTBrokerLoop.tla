--------------------------- MODULE MQTTBrokerLoop ---------------------------
(***************************************************************************)
(* MQTTBroker::service, the only caller of the handlers of MQTTBroker: one *)
(* pass looks for lost connections, services the sessions, brings $SYS up  *)
(* to date, reads the messages of every connection and then takes in new   *)
(* clients, reading the first messages of each at once.  Clients, the      *)
(* network and time act between any two of its steps.                      *)
(***************************************************************************)
EXTENDS MQTTBroker

VARIABLES
  phase,    \* what the pass is doing
  position  \* and to which slot

loopVars == <<vars, phase, position>>

Phases == {"lost connections", "sessions", "debugs", "connections", "new clients", "greeting"}

LoopInit == Init /\ phase = "lost connections" /\ position = 1

\* Slip: the scan stops before the last slot.
ScanAllButLast(following) ==
  IF position + 1 < maxMQTTSessions
  THEN position' = position + 1 /\ UNCHANGED phase
  ELSE position' = 1 /\ phase' = following

\* for (position = 0; position < maxMQTTSessions; position++)
Scan(following) ==
  IF position < maxMQTTSessions
  THEN position' = position + 1 /\ UNCHANGED phase
  ELSE position' = 1 /\ phase' = following

CheckForLostConnections ==
  /\ phase = "lost connections"
  /\ \/ CleanupLostConnection(position)
     \/ Running /\ ~(connectionValid[position] /\ ~alive[position]) /\ UNCHANGED vars
  /\ Scan("sessions")

\* Slip: only sessions with a connection are serviced.
ServiceSessionWithConnection(s) == KeepAliveExpires(s)

\* Slip: only sessions without a connection are serviced.
ServiceSessionWithoutConnection(s) == TearDownExpires(s)

ServiceSession(s) == KeepAliveExpires(s) \/ TearDownExpires(s)

TimerRuns(s) == IF Connected(s) THEN keepAliveTimer[s] # 0 ELSE tearDownTimer[s] # 0

ServiceSessions ==
  /\ phase = "sessions"
  /\ \/ ServiceSession(position)
     \/ Running /\ (sessionValid[position] => TimerRuns(position)) /\ UNCHANGED vars
  /\ Scan("debugs")

\* Slip: the flag is only looked at while WiFi is down.
ServiceDebugsOffline ==
  /\ phase = "debugs"
  /\ \/ UpdateDataModelDebugs /\ ~wifiIsConnected
     \/ Running /\ (wifiIsConnected \/ ~dataModelDebugNeedsUpdating) /\ UNCHANGED vars
  /\ phase' = IF wifiIsConnected THEN "connections" ELSE "lost connections"
  /\ UNCHANGED position

ServiceDebugs ==
  /\ phase = "debugs"
  /\ \/ UpdateDataModelDebugs
     \/ Running /\ ~dataModelDebugNeedsUpdating /\ UNCHANGED vars
  /\ phase' = IF wifiIsConnected THEN "connections" ELSE "lost connections"
  /\ UNCHANGED position

\* serviceConnection reads and handles messages as long as there are any.
ReadMessage ==
  /\ phase \in {"connections", "greeting"}
  /\ MessageReceived(position)
  /\ UNCHANGED <<phase, position>>

NoMessageLeft ==
  /\ Running
  /\ phase = "connections"
  /\ Scan("new clients")
  /\ UNCHANGED vars

\* handleNewWiFiClient
HandleNewWiFiClient(e) ==
  /\ phase = "new clients"
  /\ \/ /\ RefuseIncomingWiFiClient(e)
        /\ UNCHANGED <<phase, position>>
     \/ \E c \in Slots : /\ NewConnection(e, c)
                         /\ phase' = "greeting"
                         /\ position' = c

NewClientGreeted ==
  /\ Running
  /\ phase = "greeting"
  /\ phase' = "new clients"
  /\ position' = 1
  /\ UNCHANGED vars

\* available() returns nothing, or a client that has a connection already.
NoNewClient ==
  /\ Running
  /\ phase = "new clients"
  /\ phase' = "lost connections"
  /\ UNCHANGED <<vars, position>>

LoopStep ==
  \/ CheckForLostConnections \/ ServiceSessions \/ ServiceDebugs
  \/ ReadMessage \/ NoMessageLeft
  \/ \E e \in Endpoints : HandleNewWiFiClient(e)
  \/ NewClientGreeted \/ NoNewClient

LoopNext == LoopStep \/ (Environment /\ UNCHANGED <<phase, position>>)

\* The program runs the loop for ever, and time passes.  Clients do not send
\* messages or arrive without end while one serviceConnection, or one round of
\* available(), lasts.
LoopFairness ==
  /\ WF_loopVars(CheckForLostConnections)
  /\ WF_loopVars(ServiceSessions)
  /\ WF_loopVars(ServiceDebugs)
  /\ WF_loopVars(NoMessageLeft)
  /\ WF_loopVars(NewClientGreeted)
  /\ SF_loopVars(NoNewClient)
  /\ WF_loopVars(Tick /\ UNCHANGED <<phase, position>>)

LoopSpec == LoopInit /\ [][LoopNext]_loopVars /\ LoopFairness

-----------------------------------------------------------------------------
(* Properties *)

\* A connection whose client is gone gives its slot back, whatever the other
\* clients do (checkForLostConnections).
LostConnectionsFreed ==
  \A c \in Slots :
    connectionValid[c] /\ ~alive[c] ~> ~connectionValid[c] \/ ~Running

\* A second CONNECT may leave a session linked to a connection that is freed or
\* has another session by now; nothing it hears of its client is meant for it.
OnItsConnection(s) ==
  /\ sessionValid[s] /\ Connected(s)
  /\ connectionValid[connection[s]] /\ mqttSession[connection[s]] = s

\* When the keep alive time of such a session is over, it is the session that its
\* connection points at which is disconnected, and its tear down timer restarted.
Astray(s) == sessionValid[s] /\ Connected(s) /\ ~OnItsConnection(s)

\* A session whose client stays away is torn down: the tear down timer is
\* serviced in every pass, and nothing but a session that went astray restarts it.
AwaySessionsEnd ==
  \A s \in Slots :
    sessionValid[s] /\ ~Connected(s) ~>
      ~sessionValid[s] \/ Connected(s) \/ ~Running \/ \E r \in Slots : Astray(r)

\* A session that stays connected hears of its client again and again: a
\* silent one is disconnected when its keep alive time is over, though its TCP
\* connection looks alive.
SilentClientsDisconnected ==
  \A s \in Slots :
    []<>(~OnItsConnection(s) \/ ~Running)
      \/ []<><<keepAliveTimer'[s] > keepAliveTimer[s]>>_keepAliveTimer

\* What $SYS shows is brought up to date after every change.
DebugsEventuallyCurrent == dataModelDebugNeedsUpdating ~> ~dataModelDebugNeedsUpdating \/ ~Running

=============================================================================
