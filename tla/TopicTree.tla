----------------------------- MODULE TopicTree -----------------------------
(***************************************************************************)
(* The tables of DataModel.cpp that make up the tree of topics.  The tree  *)
(* is written down twice: every element points to its parent, from which   *)
(* the name of a topic is built, and every node has an array of its        *)
(* children, along which SUBSCRIBE and UNSUBSCRIBE walk.                   *)
(***************************************************************************)
EXTENDS Sequences

\* The types of leaves: "passing" is DataModelLeaf, which retains no value, and
\* "time" the string that may be given more than its buffer has room for.
Leaf(type, name, parent) == [type |-> type, name |-> name, parent |-> parent]
Node(name, parent) == [type |-> "node", name |-> name, parent |-> parent]

BrokerElements ==
  [sysBrokerConnection1 |-> Leaf("string", "1", "sysBrokerConnectionsNode"),
   sysBrokerConnection2 |-> Leaf("string", "2", "sysBrokerConnectionsNode"),
   sysBrokerConnection3 |-> Leaf("string", "3", "sysBrokerConnectionsNode"),
   sysBrokerConnection4 |-> Leaf("string", "4", "sysBrokerConnectionsNode"),
   sysBrokerConnection5 |-> Leaf("string", "5", "sysBrokerConnectionsNode"),
   sysBrokerConnectionsNode |-> Node("connections", "sysBrokerNode"),
   sysBrokerSession1 |-> Leaf("string", "1", "sysBrokerSessionsNode"),
   sysBrokerSession2 |-> Leaf("string", "2", "sysBrokerSessionsNode"),
   sysBrokerSession3 |-> Leaf("string", "3", "sysBrokerSessionsNode"),
   sysBrokerSession4 |-> Leaf("string", "4", "sysBrokerSessionsNode"),
   sysBrokerSession5 |-> Leaf("string", "5", "sysBrokerSessionsNode"),
   sysBrokerSessionsNode |-> Node("sessions", "sysBrokerNode"),
   sysBrokerClientsConnected |-> Leaf("uint32", "connected", "sysBrokerClientsNode"),
   sysBrokerClientsDisconnected |-> Leaf("uint32", "disconnected", "sysBrokerClientsNode"),
   sysBrokerClientsMaximum |-> Leaf("uint32", "maximum", "sysBrokerClientsNode"),
   sysBrokerClientsTotal |-> Leaf("uint32", "total", "sysBrokerClientsNode"),
   sysBrokerClientsNode |-> Node("clients", "sysBrokerNode"),
   sysBrokerMessagesRetainedCount |-> Leaf("uint16", "count", "sysBrokerMessagesRetainedNode"),
   sysBrokerMessagesRetainedNode |-> Node("retained", "sysBrokerMessagesNode"),
   sysBrokerMessagesPublishReceived |-> Leaf("uint32", "received", "sysBrokerMessagesPublishNode"),
   sysBrokerMessagesPublishSent |-> Leaf("uint32", "sent", "sysBrokerMessagesPublishNode"),
   sysBrokerMessagesPublishDropped |-> Leaf("uint32", "dropped", "sysBrokerMessagesPublishNode"),
   sysBrokerMessagesPublishNode |-> Node("publish", "sysBrokerMessagesNode"),
   sysBrokerMessagesReceived |-> Leaf("uint32", "received", "sysBrokerMessagesNode"),
   sysBrokerMessagesSent |-> Leaf("uint32", "sent", "sysBrokerMessagesNode"),
   sysBrokerMessagesNode |-> Node("messages", "sysBrokerNode"),
   sysBrokerSubscriptionsCount |-> Leaf("uint32", "count", "sysBrokerSubscriptionsNode"),
   sysBrokerSubscriptionsNode |-> Node("subscriptions", "sysBrokerNode"),
   sysBrokerUptime |-> Leaf("uint32", "uptime", "sysBrokerNode"),
   sysBrokerVersion |-> Leaf("string", "version", "sysBrokerNode"),
   sysBrokerNode |-> Node("broker", "sysNode")]

BrokerChildren ==
  [sysBrokerConnectionsNode |->
     {"sysBrokerConnection1", "sysBrokerConnection2", "sysBrokerConnection3",
      "sysBrokerConnection4", "sysBrokerConnection5"},
   sysBrokerSessionsNode |->
     {"sysBrokerSession1", "sysBrokerSession2", "sysBrokerSession3", "sysBrokerSession4",
      "sysBrokerSession5"},
   sysBrokerClientsNode |->
     {"sysBrokerClientsConnected", "sysBrokerClientsDisconnected", "sysBrokerClientsMaximum",
      "sysBrokerClientsTotal"},
   sysBrokerMessagesRetainedNode |->
     {"sysBrokerMessagesRetainedCount"},
   sysBrokerMessagesPublishNode |->
     {"sysBrokerMessagesPublishReceived", "sysBrokerMessagesPublishSent",
      "sysBrokerMessagesPublishDropped"},
   sysBrokerMessagesNode |->
     {"sysBrokerMessagesReceived", "sysBrokerMessagesSent", "sysBrokerMessagesPublishNode",
      "sysBrokerMessagesRetainedNode"},
   sysBrokerSubscriptionsNode |->
     {"sysBrokerSubscriptionsCount"},
   sysBrokerNode |->
     {"sysBrokerConnectionsNode", "sysBrokerSessionsNode", "sysBrokerClientsNode",
      "sysBrokerMessagesNode", "sysBrokerSubscriptionsNode", "sysBrokerUptime",
      "sysBrokerVersion"}]

SystemElements ==
  [sysNEMAWiFiState |-> Leaf("bool", "state", "sysNMEAWiFiNode"),
   sysNMEAWiFiMessages |-> Leaf("passing", "messages", "sysNMEAWiFiNode"),
   sysNMEAWiFiMessageRate |-> Leaf("passing", "messageRate", "sysNMEAWiFiNode"),
   sysNMEAWiFiNode |-> Node("wifi", "sysNMEANode"),
   sysNMEAUSBMessages |-> Leaf("passing", "messages", "sysNMEAUSBNode"),
   sysNMEAUSBMessageRate |-> Leaf("passing", "messageRate", "sysNMEAUSBNode"),
   sysNMEAUSBNode |-> Node("usb", "sysNMEANode"),
   sysNMEANode |-> Node("nmea", "sysNode"),
   sysDataModelLeafUpdates |-> Leaf("passing", "updates", "sysDataModelNode"),
   sysDataModelLeafUpdateRate |-> Leaf("passing", "updateRate", "sysDataModelNode"),
   sysDataModelNode |-> Node("dataModel", "sysNode"),
   sysNMEADataModelMessagesBridged |-> Leaf("passing", "messages", "sysNMEADataModelBridgeNode"),
   sysNMEADataModelMessageBridgeRate |-> Leaf("passing", "messageRate", "sysNMEADataModelBridgeNode"),
   sysNMEADataModelBridgeNode |-> Node("nmeaDataModelBridge", "sysNode"),
   sysLogEntry1 |-> Leaf("string", "1", "sysLogNode"),
   sysLogEntry2 |-> Leaf("string", "2", "sysLogNode"),
   sysLogEntry3 |-> Leaf("string", "3", "sysLogNode"),
   sysLogEntry4 |-> Leaf("string", "4", "sysLogNode"),
   sysLogEntry5 |-> Leaf("string", "5", "sysLogNode"),
   sysLogNode |-> Node("log", "sysNode"),
   sysNode |-> Node("$SYS", "dataModelRoot")]

SystemChildren ==
  [sysNMEAWiFiNode |->
     {"sysNEMAWiFiState", "sysNMEAWiFiMessages", "sysNMEAWiFiMessageRate"},
   sysNMEAUSBNode |->
     {"sysNMEAUSBMessages", "sysNMEAUSBMessageRate"},
   sysNMEANode |->
     {"sysNMEAUSBNode", "sysNMEAWiFiNode"},
   sysDataModelNode |->
     {"sysDataModelLeafUpdates", "sysDataModelLeafUpdateRate"},
   sysNMEADataModelBridgeNode |->
     {"sysNMEADataModelMessagesBridged", "sysNMEADataModelMessageBridgeRate"},
   sysLogNode |->
     {"sysLogEntry1", "sysLogEntry2", "sysLogEntry3", "sysLogEntry4", "sysLogEntry5"},
   sysNode |->
     {"sysBrokerNode", "sysNMEANode", "sysDataModelNode", "sysNMEADataModelBridgeNode",
      "sysLogNode"}]

GpsElements ==
  [gpsTime |-> Leaf("time", "time", "gpsNode"),
   gpsDate |-> Leaf("string", "date", "gpsNode"),
   gpsDataValid |-> Leaf("bool", "dataValid", "gpsNode"),
   gpsLatitude |-> Leaf("string", "latitude", "gpsNode"),
   gpsLongitude |-> Leaf("string", "longitude", "gpsNode"),
   gpsAltitude |-> Leaf("signedTenths", "altitude", "gpsNode"),
   gpsSpeedOverGround |-> Leaf("tenths", "speedOverGround", "gpsNode"),
   gpsSpeedOverGroundKmPerH |-> Leaf("tenths", "speedOverGroundKmPerH", "gpsNode"),
   gpsTrackMadeGoodTrue |-> Leaf("tenths", "trackMadeGoodTrue", "gpsNode"),
   gpsTrackMadeGoodMagnetic |-> Leaf("tenths", "trackMadeGoodMagnetic", "gpsNode"),
   gpsMagneticVariation |-> Leaf("signedTenths", "magneticVariation", "gpsNode"),
   gpsFAAModeindicator |-> Leaf("string", "faaModeIndicator", "gpsNode"),
   gpsGPSQuality |-> Leaf("string", "gpsQuality", "gpsNode"),
   gpsNumberSatellites |-> Leaf("uint16", "numberSatellites", "gpsNode"),
   gpsHorizontalDilutionOfPrecision |-> Leaf("hundredths", "horizontalDilutionOfPrecision", "gpsNode"),
   gpsGeoidalSeparation |-> Leaf("signedTenths", "geoidalSeparation", "gpsNode"),
   gpsDataAge |-> Leaf("tenths", "dataAge", "gpsNode"),
   gpsDifferentialReferenceStation |-> Leaf("uint16", "differentialReferenceStation", "gpsNode"),
   gpsSatelliteSelectionMode |-> Leaf("string", "satelliteSelectionMode", "gpsNode"),
   gpsFixMode |-> Leaf("string", "fixMode", "gpsNode"),
   gpsActiveSatellites |-> Leaf("string", "activeSatellites", "gpsNode"),
   gpsPDOP |-> Leaf("shortHundredths", "pdop", "gpsNode"),
   gpsHDOP |-> Leaf("shortHundredths", "hdop", "gpsNode"),
   gpsVDOP |-> Leaf("shortHundredths", "vdop", "gpsNode"),
   gpsStandardDeviationOfRangeInputsRMS |-> Leaf("tenths", "standardDeviationOfRangeInputsRMS", "gpsNode"),
   gpsStandardDeviationOfSemiMajorAxis |-> Leaf("tenths", "standardDeviationOfSemiMajorAxis", "gpsNode"),
   gpsStandardDeviationOfSemiMinorAxis |-> Leaf("tenths", "standardDeviationOfSemiMinorAxis", "gpsNode"),
   gpsOrientationOfSemiMajorAxis |-> Leaf("tenths", "orientationOfSemiMajorAxis", "gpsNode"),
   gpsStandardDeviationOfLatitudeError |-> Leaf("tenths", "standardDeviationOfLatitudeError", "gpsNode"),
   gpsStandardDeviationOfLongitudeError |-> Leaf("tenths", "standardDeviationOfLongitudeError", "gpsNode"),
   gpsStandardDeviationOfAltitudeError |-> Leaf("tenths", "standardDeviationOfAltitudeError", "gpsNode"),
   gpsNode |-> Node("gps", "dataModelRoot")]

GpsChildren ==
  [gpsNode |->
     {"gpsTime", "gpsDate", "gpsDataValid", "gpsLatitude", "gpsLongitude", "gpsAltitude",
      "gpsSpeedOverGround", "gpsSpeedOverGroundKmPerH", "gpsTrackMadeGoodTrue",
      "gpsTrackMadeGoodMagnetic", "gpsMagneticVariation", "gpsFAAModeindicator",
      "gpsGPSQuality", "gpsNumberSatellites", "gpsHorizontalDilutionOfPrecision",
      "gpsGeoidalSeparation", "gpsDataAge", "gpsDifferentialReferenceStation",
      "gpsSatelliteSelectionMode", "gpsFixMode", "gpsActiveSatellites", "gpsPDOP", "gpsHDOP",
      "gpsVDOP", "gpsStandardDeviationOfRangeInputsRMS",
      "gpsStandardDeviationOfSemiMajorAxis", "gpsStandardDeviationOfSemiMinorAxis",
      "gpsOrientationOfSemiMajorAxis", "gpsStandardDeviationOfLatitudeError",
      "gpsStandardDeviationOfLongitudeError", "gpsStandardDeviationOfAltitudeError"}]

DepthElements ==
  [depthBelowTransducerFeet |-> Leaf("tenths", "feet", "depthBelowTransducerNode"),
   depthBelowTransducerMeters |-> Leaf("tenths", "meters", "depthBelowTransducerNode"),
   depthBelowTransducerFathoms |-> Leaf("tenths", "fathoms", "depthBelowTransducerNode"),
   depthBelowTransducerNode |-> Node("belowTransducer", "depthNode"),
   depthBelowKeelFeet |-> Leaf("tenths", "feet", "depthBelowKeelNode"),
   depthBelowKeelMeters |-> Leaf("tenths", "meters", "depthBelowKeelNode"),
   depthBelowKeelFathoms |-> Leaf("tenths", "fathoms", "depthBelowKeelNode"),
   depthBelowKeelNode |-> Node("belowKeel", "depthNode"),
   depthBelowSurfaceFeet |-> Leaf("tenths", "feet", "depthBelowSurfaceNode"),
   depthBelowSurfaceMeters |-> Leaf("tenths", "meters", "depthBelowSurfaceNode"),
   depthBelowSurfaceFathoms |-> Leaf("tenths", "fathoms", "depthBelowSurfaceNode"),
   depthBelowSurfaceNode |-> Node("belowSurface", "depthNode"),
   depthNode |-> Node("depth", "dataModelRoot")]

DepthChildren ==
  [depthBelowTransducerNode |->
     {"depthBelowTransducerFeet", "depthBelowTransducerMeters",
      "depthBelowTransducerFathoms"},
   depthBelowKeelNode |->
     {"depthBelowKeelFeet", "depthBelowKeelMeters", "depthBelowKeelFathoms"},
   depthBelowSurfaceNode |->
     {"depthBelowSurfaceFeet", "depthBelowSurfaceMeters", "depthBelowSurfaceFathoms"},
   depthNode |->
     {"depthBelowTransducerNode", "depthBelowKeelNode", "depthBelowSurfaceNode"}]

topNodeChildren == [dataModelRoot |-> {"sysNode", "gpsNode", "depthNode"}]

Element ==
  [e \in DOMAIN BrokerElements \cup DOMAIN SystemElements \cup DOMAIN GpsElements
           \cup DOMAIN DepthElements |->
     CASE e \in DOMAIN BrokerElements -> BrokerElements[e]
       [] e \in DOMAIN SystemElements -> SystemElements[e]
       [] e \in DOMAIN GpsElements -> GpsElements[e]
       [] OTHER -> DepthElements[e]]

\* The arrays of all nodes.
ChildrenWith(depthChildren) ==
  [n \in DOMAIN BrokerChildren \cup DOMAIN SystemChildren \cup DOMAIN GpsChildren
           \cup DOMAIN depthChildren \cup DOMAIN topNodeChildren |->
     CASE n \in DOMAIN BrokerChildren -> BrokerChildren[n]
       [] n \in DOMAIN SystemChildren -> SystemChildren[n]
       [] n \in DOMAIN GpsChildren -> GpsChildren[n]
       [] n \in DOMAIN depthChildren -> depthChildren[n]
       [] OTHER -> topNodeChildren[n]]

\* Slip: a new child is entered in a second array by mistake.
TwiceInChildren ==
  ChildrenWith([DepthChildren EXCEPT !["depthBelowKeelNode"] = @ \cup {"depthBelowSurfaceFeet"}])

Children == ChildrenWith(DepthChildren)

LeafTopics == {e \in DOMAIN Element : Element[e].type # "node"}

\* DataModelElement::buildTopicName goes up from the leaf.
TopicName[e \in DOMAIN Element] ==
  IF Element[e].parent = "dataModelRoot" THEN <<Element[e].name>>
  ELSE Append(TopicName[Element[e].parent], Element[e].name)

\* The leaves that the walk of DataModelNode::subscribeAll comes to below an
\* element, within the depth of the tree.
Below(e) ==
  LET Step(elements) == UNION {IF n \in DOMAIN Children THEN Children[n] ELSE {n} : n \in elements}
  IN Step(Step(Step(Step({e}))))

=============================================================================
