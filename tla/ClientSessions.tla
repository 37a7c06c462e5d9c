--------------------------- MODULE ClientSessions ---------------------------
(***************************************************************************)
(* What the broker promises each client: its session is absent, away, or   *)
(* served at one endpoint; a session that is away keeps its topics until   *)
(* the client is back to go on with it or the session ends; a new session  *)
(* has none.  A client that comes back with a clean session is promised    *)
(* neither its old topics nor that they are gone.                          *)
(* Nothing here knows of slots, pointers, valid bits or timers.            *)
(***************************************************************************)
EXTENDS Naturals, FiniteSets

CONSTANTS
  Clients,     \* the names of clients
  Places,      \* where a client may be served
  Topics,      \* what a client may subscribe to
  Capacity,    \* how many sessions the broker keeps
  Absent, Away \* the client has no session; has one, but is not connected
               \* (two values that are no places)

VARIABLES
  session,   \* per client: Absent, Away, or where it is served
  retained,  \* the clients whose session outlives a connection
  topics     \* what each client's session is subscribed to

vars == <<session, retained, topics>>

Served(client) == session[client] \in Places
Known == {client \in Clients : session[client] # Absent}

Init ==
  /\ session = [client \in Clients |-> Absent]
  /\ retained = {}
  /\ topics = [client \in Clients |-> {}]

Retained(client, clean) == IF clean THEN retained \ {client} ELSE retained \cup {client}

Arrive(client, place, clean) ==
  /\ session[client] = Absent
  /\ Cardinality(Known) < Capacity
  /\ session' = [session EXCEPT ![client] = place]
  /\ retained' = Retained(client, clean)
  /\ UNCHANGED topics

Return(client, place, clean) ==
  /\ session[client] = Away
  /\ session' = [session EXCEPT ![client] = place]
  /\ retained' = Retained(client, clean)
  /\ \/ UNCHANGED topics
     \/ clean /\ topics' = [topics EXCEPT ![client] = {}]

Leave(client) ==
  /\ Served(client)
  /\ client \in retained
  /\ session' = [session EXCEPT ![client] = Away]
  /\ UNCHANGED <<retained, topics>>

\* A clean session ends with its connection, a retained one while it is away.
End(client) ==
  /\ \/ Served(client) /\ client \notin retained
     \/ session[client] = Away
  /\ session' = [session EXCEPT ![client] = Absent]
  /\ retained' = retained \ {client}
  /\ topics' = [topics EXCEPT ![client] = {}]

ChangeTopics(client, chosen) ==
  /\ Served(client)
  /\ \/ topics' = [topics EXCEPT ![client] = @ \cup chosen]
     \/ topics' = [topics EXCEPT ![client] = @ \ chosen]
  /\ UNCHANGED <<session, retained>>

Next ==
  \E client \in Clients :
    \/ \E place \in Places, clean \in BOOLEAN :
         Arrive(client, place, clean) \/ Return(client, place, clean)
    \/ Leave(client)
    \/ End(client)
    \/ \E chosen \in SUBSET Topics : ChangeTopics(client, chosen)

Spec == Init /\ [][Next]_vars

=============================================================================
