--------------------------- MODULE NMEAWiFiSource ---------------------------
(***************************************************************************)
(* NMEAWiFiSource, an NMEASource whose stream is a TCP connection to a     *)
(* server of NMEA messages, and WiFiManager, which joins the WiFi network  *)
(* and tells the source and the MQTT broker (its only clients, the broker  *)
(* the first to register) when it is joined and lost.                      *)
(***************************************************************************)
EXTENDS NMEASource

CONSTANTS
  Streams,        \* what the server sends on a connection
  MaxConnections  \* bound on the connections the server accepts

ASSUME StreamsAssumption == \A s \in Streams : s \in Seq(Characters \cup {CR, LF})
ASSUME ConnectionsAssumption == MaxConnections \in Nat

VARIABLES
  connectionState, waiting,   \* WiFiManager; `waiting' until connectionWaitTimer expires
  wifi,                       \* WiFi.status() == WL_CONNECTED
  running,                    \* until fatalError
  clientConnected, connectionStatusLeaf,
  tcp,                        \* the client's connection: none, being tried, or up
  wire,                       \* what the server has yet to send
  connections                 \* how many it has accepted

managerVars == <<connectionState, waiting>>
clientVars == <<clientConnected, connectionStatusLeaf>>
tcpVars == <<tcp, wire, connections>>
vars == <<sourceVars, managerVars, wifi, running, clientVars, tcpVars>>

Init ==
  /\ SourceInit
  /\ connectionState = "never" /\ waiting = FALSE
  /\ wifi = FALSE /\ running = TRUE
  /\ clientConnected = FALSE /\ connectionStatusLeaf = FALSE
  /\ tcp = "none" /\ wire = <<>> /\ connections = 0

-----------------------------------------------------------------------------
(* TCP.  The first character of a new connection begins a new line. *)

\* An attempt succeeds: the server sends a stream of its own.
Accepted ==
  /\ connections < MaxConnections
  /\ connections' = connections + 1
  /\ tcp' = "up"
  /\ wire' \in Streams
  /\ ideal' = [ideal EXCEPT !.line = <<>>, !.ended = FALSE,
                            !.faults = IF ideal.line = <<>> /\ ~ideal.ended THEN @ ELSE @ + 1]

\* An attempt does not succeed in time; the WiFi module may go on with it.
NotAccepted ==
  /\ tcp' \in {"none", "trying"}
  /\ UNCHANGED <<wire, connections, ideal>>

LateAccept ==
  /\ running /\ wifi /\ tcp = "trying"
  /\ Accepted
  /\ UNCHANGED <<available, buffer, carriageReturnFound, inputLine, handled,
                 managerVars, wifi, running, clientVars>>

GivesUp ==
  /\ running /\ tcp = "trying"
  /\ tcp' = "none"
  /\ UNCHANGED <<sourceVars, managerVars, wifi, running, clientVars, wire, connections>>

Arrive ==
  /\ running /\ tcp = "up" /\ wifi
  /\ \E n \in 1..Len(wire) :
       /\ available' = available \o SubSeq(wire, 1, n)
       /\ wire' = SubSeq(wire, n + 1, Len(wire))
  /\ UNCHANGED <<buffer, carriageReturnFound, inputLine, handled, ideal,
                 managerVars, wifi, running, clientVars, tcp, connections>>

\* The connection ends; what has arrived may still be read, or is lost too.
HangUp ==
  /\ running /\ tcp = "up"
  /\ tcp' = "none" /\ wire' = <<>>
  /\ available' \in {available, <<>>}
  /\ UNCHANGED <<buffer, carriageReturnFound, inputLine, handled, ideal,
                 managerVars, wifi, running, clientVars, connections>>

WiFiChanges ==
  /\ running
  /\ wifi' = ~wifi
  /\ UNCHANGED <<sourceVars, managerVars, running, clientVars, tcpVars>>

\* WiFiClient::connected
ClientIsConnected == tcp = "up" \/ available # <<>>

-----------------------------------------------------------------------------
(* WiFiManager *)

\* NMEAWiFiSource::wifiConnected, called by notifyWiFiConnected.
ConnectOnce ==
  \/ /\ Accepted
     /\ available' = <<>>
     /\ clientConnected' = TRUE /\ connectionStatusLeaf' = TRUE
  \/ /\ NotAccepted
     /\ UNCHANGED <<available, clientVars>>

ConnectionEstablished ==
  /\ connectionState' = "connected"
  /\ ConnectOnce
  /\ UNCHANGED waiting

\* WiFi.begin, with a timeout so short that it may succeed or not.
InitiateConnection ==
  \/ /\ wifi' = TRUE
     /\ ConnectionEstablished
  \/ /\ connectionState' = "wait" /\ waiting' = TRUE
     /\ UNCHANGED <<wifi, available, ideal, clientVars, tcpVars>>

CheckForConnectionCompleted ==
  /\ connectionState = "wait"
  /\ \/ wifi /\ ConnectionEstablished /\ UNCHANGED wifi
     \/ ~wifi /\ ~waiting /\ InitiateConnection

\* The broker is told first, and calls fatalError.
LosesWiFi ==
  /\ connectionState = "connected" /\ ~wifi
  /\ running' = FALSE
  /\ UNCHANGED <<sourceVars, managerVars, wifi, clientVars, tcpVars>>

ManagerService ==
  /\ running
  /\ \/ /\ \/ connectionState = "never" /\ InitiateConnection
           \/ CheckForConnectionCompleted
        /\ UNCHANGED <<buffer, carriageReturnFound, inputLine, handled, running>>
     \/ LosesWiFi

WaitTimerExpires ==
  /\ running /\ waiting
  /\ waiting' = FALSE
  /\ UNCHANGED <<sourceVars, connectionState, wifi, running, clientVars, tcpVars>>

-----------------------------------------------------------------------------
(* NMEAWiFiSource *)

\* Slip: a connection that succeeded late is not looked for.
OnlyKnownConnected == clientConnected /\ ClientIsConnected

\* A connection known, or found to have succeeded after all.
FoundConnected ==
  /\ ClientIsConnected
  /\ clientConnected \/ connectionState = "connected"

ServiceConnected ==
  /\ FoundConnected
  /\ clientConnected' = TRUE /\ connectionStatusLeaf' = TRUE
  /\ SourceService
  /\ UNCHANGED tcpVars

\* Slip: nobody looks whether the other side has hung up.
NotFoundHungUp == FALSE

\* "Make sure the other side hasn't hung up on us."
FoundHungUp == clientConnected /\ ~ClientIsConnected

\* One attempt to connect again, and service as usual if it succeeds.
ServiceHungUp ==
  /\ FoundHungUp
  /\ \/ /\ Accepted
        /\ Leave(BeforeRead)
        /\ UNCHANGED <<available, clientVars>>
     \/ /\ NotAccepted
        /\ clientConnected' = FALSE /\ connectionStatusLeaf' = FALSE
        /\ UNCHANGED <<available, buffer, carriageReturnFound, inputLine, handled>>

Service ==
  /\ running
  /\ ServiceConnected \/ ServiceHungUp
  /\ UNCHANGED <<managerVars, wifi, running>>

Next ==
  \/ LateAccept \/ GivesUp \/ Arrive \/ HangUp \/ WiFiChanges
  \/ ManagerService \/ WaitTimerExpires \/ Service

\* loop() calls both services for ever; time passes.
Spec ==
  /\ Init /\ [][Next]_vars
  /\ WF_vars(ManagerService) /\ WF_vars(Service) /\ WF_vars(WaitTimerExpires)

-----------------------------------------------------------------------------
(* Properties *)

\* $SYS shows sooner or later that a connection is up, even one that succeeded
\* only after connect() had returned, and that it has ended.
StatusFollows ==
  /\ [](tcp = "up" => <>(connectionStatusLeaf \/ tcp # "up" \/ ~running))
  /\ [](connectionStatusLeaf => <>(~connectionStatusLeaf \/ ClientIsConnected \/ ~running))

\* The lines in the buffer are handled while the connection lasts, though each
\* pass handles one at most and no more input may come.
BufferUsedUp ==
  [](buffer # <<>> => <>(buffer = <<>> \/ ~clientConnected \/ ~running))

=============================================================================
