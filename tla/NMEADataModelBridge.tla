------------------------ MODULE NMEADataModelBridge ------------------------
(***************************************************************************)
(* From a line to the subscribers: NMEASource::lineCompleted parses it,    *)
(* and NMEADataModelBridge puts what the message says on leaves of the     *)
(* data model, while clients subscribe to parts of the tree of topics and  *)
(* unsubscribe again.                                                      *)
(***************************************************************************)
EXTENDS NMEABook

CONSTANTS
  Streams,         \* sequences of lines a source may send
  Subtrees,        \* elements of the tree that clients subscribe to, with a #
  MaxSubscribing   \* bound on how often clients subscribe and unsubscribe

ASSUME StreamsAssumption ==
  Streams \subseteq Seq([type : STRING, words : Seq(Words), encapsulated : BOOLEAN])
ASSUME SubtreesAssumption ==
  /\ Subtrees \subseteq DOMAIN Element
  /\ MaxSubscribing \in Nat

VARIABLES
  stream,          \* the lines to come
  messagesCounter, \* NMEASource::messagesCounter
  messagesBridgedCounter,
  wellFormed,      \* history: lines that say what the book asks for
  told,            \* history: per leaf, what told its value last, and the words
  wanted,          \* history: per session, the leaves whose names it asked for
  subscribing      \* how often clients have subscribed and unsubscribed

history == <<wellFormed, told>>

vars == <<leafVars, stream, messagesCounter, messagesBridgedCounter, history, wanted, subscribing>>

Untold == [what |-> "none", words |-> <<>>]

Init ==
  /\ LeavesInit
  /\ stream \in Streams
  /\ messagesCounter = 0 /\ messagesBridgedCounter = 0
  /\ wellFormed = 0
  /\ told = [leaf \in Leaves |-> Untold]
  /\ wanted = [s \in Sessions |-> {}]
  /\ subscribing = 0

-----------------------------------------------------------------------------
(* What each message is bridged to: the result for each leaf *)

bridgeNMEADBKMessage(f) ==
  [depthBelowKeelFeet |-> f.depthFeet,
   depthBelowKeelMeters |-> f.depthMeters,
   depthBelowKeelFathoms |-> f.depthFathoms]

bridgeNMEADBSMessage(f) ==
  [depthBelowSurfaceFeet |-> f.depthFeet,
   depthBelowSurfaceMeters |-> f.depthMeters,
   depthBelowSurfaceFathoms |-> f.depthFathoms]

bridgeNMEADBTMessage(f) ==
  [depthBelowTransducerFeet |-> f.depthFeet,
   depthBelowTransducerMeters |-> f.depthMeters,
   depthBelowTransducerFathoms |-> f.depthFathoms]

bridgeNMEAGGAMessage(f) ==
  [gpsTime |-> f.time,
   gpsLatitude |-> f.latitude,
   gpsLongitude |-> f.longitude,
   gpsGPSQuality |-> f.gpsQuality,
   gpsNumberSatellites |-> f.numberSatellites,
   gpsHorizontalDilutionOfPrecision |-> f.horizontalDilutionOfPrecision,
   gpsAltitude |-> f.antennaAltitude,
   gpsGeoidalSeparation |-> f.geoidalSeparation,
   gpsDataAge |-> f.gpsDataAge,
   gpsDifferentialReferenceStation |-> f.differentialReferenceStation]

bridgeNMEAGLLMessage(f) ==
  [gpsLatitude |-> f.latitude,
   gpsLongitude |-> f.longitude,
   gpsTime |-> f.time,
   gpsDataValid |-> f.dataValid,
   gpsFAAModeindicator |-> f.faaModeIndicator]

bridgeNMEAGSAMessage(f) ==
  [gpsSatelliteSelectionMode |-> Sets(IF f.automaticMode.value THEN "Automatic" ELSE "Manual"),
   gpsFixMode |-> f.gpsFixMode,
   gpsActiveSatellites |-> f.satelliteIDs,
   gpsPDOP |-> f.pdop,
   gpsHDOP |-> f.hdop,
   gpsVDOP |-> f.vdop]

bridgeNMEAGSTMessage(f) ==
  [gpsStandardDeviationOfRangeInputsRMS |-> f.standardDeviationOfRangeInputsRMS,
   gpsStandardDeviationOfSemiMajorAxis |-> f.standardDeviationOfSemiMajorAxis,
   gpsStandardDeviationOfSemiMinorAxis |-> f.standardDeviationOfSemiMinorAxis,
   gpsOrientationOfSemiMajorAxis |-> f.orientationOfSemiMajorAxis,
   gpsStandardDeviationOfLatitudeError |-> f.standardDeviationOfLatitudeError,
   gpsStandardDeviationOfLongitudeError |-> f.standardDeviationOfLongitudeError,
   gpsStandardDeviationOfAltitudeError |-> f.standardDeviationOfAltitudeError]

bridgeNMEARMCMessage(f) ==
  [gpsTime |-> f.time,
   gpsDataValid |-> f.dataValid,
   gpsLatitude |-> f.latitude,
   gpsLongitude |-> f.longitude,
   gpsSpeedOverGround |-> f.speedOverGround,
   gpsTrackMadeGoodTrue |-> f.trackMadeGood,
   gpsDate |-> f.date,
   gpsMagneticVariation |-> f.magneticVariation,
   gpsFAAModeindicator |-> f.faaModeIndicator]

bridgeNMEAVTGMessage(f) ==
  [gpsTrackMadeGoodTrue |-> f.trackMadeGoodTrue,
   gpsTrackMadeGoodMagnetic |-> f.trackMadeGoodMagnetic,
   gpsSpeedOverGround |-> f.speedOverGround,
   gpsSpeedOverGroundKmPerH |-> f.speedOverGroundKmPerH,
   gpsFAAModeindicator |-> f.faaModeIndicator]

Ignored == {"GSV", "TXT", "VDM", "VDO"}

BridgedTo(type, f) ==
  CASE type = "DBK" -> bridgeNMEADBKMessage(f)
    [] type = "DBS" -> bridgeNMEADBSMessage(f)
    [] type = "DBT" -> bridgeNMEADBTMessage(f)
    [] type = "GGA" -> bridgeNMEAGGAMessage(f)
    [] type = "GLL" -> bridgeNMEAGLLMessage(f)
    [] type = "GSA" -> bridgeNMEAGSAMessage(f)
    [] type = "GST" -> bridgeNMEAGSTMessage(f)
    [] type = "RMC" -> bridgeNMEARMCMessage(f)
    [] type = "VTG" -> bridgeNMEAVTGMessage(f)

processMessage(message) ==
  IF message.type \in Ignored
  THEN UNCHANGED <<leafVars, messagesBridgedCounter>>
  ELSE /\ Publish(BridgedTo(message.type, message.fields))
       /\ messagesBridgedCounter' = messagesBridgedCounter + 1

lineCompleted(line) ==
  LET message == parseNMEAMessage(line)
  IN IF message.type = "none"
     THEN UNCHANGED <<leafVars, messagesBridgedCounter, messagesCounter>>
     ELSE processMessage(message) /\ messagesCounter' = messagesCounter + 1

-----------------------------------------------------------------------------
(* Steps *)

\* What the line tells by the book.
Remember(line) ==
  IF ~IsWellFormed(line) THEN UNCHANGED history
  ELSE LET entries == {entry \in Book(line.type, line.words) : Tells(entry, line.words)}
           EntryFor(leaf) == CHOOSE entry \in entries : entry.leaf = leaf
       IN /\ wellFormed' = wellFormed + 1
          /\ told' = [leaf \in Leaves |->
               IF \E entry \in entries : entry.leaf = leaf
               THEN [what |-> EntryFor(leaf).what, words |-> WordsOf(EntryFor(leaf), line.words)]
               ELSE told[leaf]]

HandleLine ==
  /\ stream # <<>>
  /\ stream' = Tail(stream)
  /\ lineCompleted(Head(stream))
  /\ Remember(Head(stream))
  /\ UNCHANGED <<wanted, subscribing>>

\* The leaves whose topics begin with the name of an element.
NamedBelow(e) ==
  {leaf \in Leaves : /\ Len(TopicName[e]) <= Len(TopicName[leaf])
                     /\ SubSeq(TopicName[leaf], 1, Len(TopicName[e])) = TopicName[e]}

Subscribe(s, e) ==
  /\ subscribing < MaxSubscribing
  /\ subscribing' = subscribing + 1
  /\ SubscribeTo(s, Below(e) \cap Leaves)
  /\ wanted' = [wanted EXCEPT ![s] = @ \cup NamedBelow(e)]
  /\ UNCHANGED <<stream, messagesCounter, messagesBridgedCounter, history>>

Unsubscribe(s, e) ==
  /\ subscribing < MaxSubscribing
  /\ subscribing' = subscribing + 1
  /\ UnsubscribeFrom(s, Below(e) \cap Leaves)
  /\ wanted' = [wanted EXCEPT ![s] = @ \ NamedBelow(e)]
  /\ UNCHANGED <<stream, messagesCounter, messagesBridgedCounter, history>>

Export ==
  /\ ExportStats
  /\ UNCHANGED <<stream, messagesCounter, messagesBridgedCounter, history, wanted, subscribing>>

Next ==
  \/ HandleLine
  \/ \E s \in Sessions, e \in Subtrees : Subscribe(s, e) \/ Unsubscribe(s, e)
  \/ Export

Spec == Init /\ [][Next]_vars

-----------------------------------------------------------------------------
(* Properties *)

\* Whatever a client subscribed to, before or after, it shows on each topic
\* what the last well-formed sentence said of it: the right word of it, within
\* half a unit of what is shown, or nothing where the sentence left it out.
\* (The exceptions are in IsShownInTenths and IsShownInHundredths; of a time six
\* decimals are shown.)
ShowsWhatWasSaid ==
  \A leaf \in Leaves : \A s \in watching[leaf] :
    told[leaf] # Untold => MayShow(told[leaf].what, told[leaf].words, shown[s][leaf])

\* Every well-formed sentence is handled and no other line is.
HandlesWellFormed == messagesCounter = wellFormed

\* Walking down the arrays of children, subscribing and unsubscribing come to
\* the topics whose names, built up along the parents, begin as asked for.
WalksByName ==
  \A s \in Sessions : {leaf \in Leaves : s \in watching[leaf]} = wanted[s]

=============================================================================
