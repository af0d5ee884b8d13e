---------------------------- MODULE MqttSession -----------------------------
(***************************************************************************)
(* The MQTT session of main.c: mqtt_app_start, mqtt_event_handler and the  *)
(* publishing of publish_sensor_state (module Telemetry), over the esp-mqtt *)
(* client as main.c uses it: it reconnects by itself, calls the handler    *)
(* from its own task, keeps no session, and sends at QoS 0.                *)
(***************************************************************************)
EXTENDS Naturals, Sequences, Lists

CONSTANT MaxReports  \* bound: the values published before the model stops

ASSUME ReportsAssumption == MaxReports \in Nat

VARIABLES
  state,    \* the client: off, disconnected or connected
  link,     \* the TCP connection under it: up or dead
  toBroker, \* what is on the way to the broker
  toClient, \* what is on the way back
  event,    \* the event the client is about to hand to mqtt_event_handler
  sub,      \* TRUE while the broker holds the subscription to /emqx/recive
  reports,  \* the number of values published so far
  heard     \* the values the broker has passed on to a listener

mqttVars == <<state, link, toBroker, toClient, event, sub, reports, heard>>

Subscribe == [kind |-> "subscribe", n |-> 0]
Greeting  == [kind |-> "data", n |-> 0]
Value(i)  == [kind |-> "report", n |-> i]

MqttInit ==
  /\ state = "off"
  /\ link = "dead"
  /\ toBroker = <<>>
  /\ toClient = <<>>
  /\ event = "none"
  /\ sub = FALSE
  /\ reports = 0
  /\ heard = <<>>

MqttAppStart ==
  /\ state = "off"
  /\ state' = "disconnected"
  /\ UNCHANGED <<link, toBroker, toClient, event, sub, reports, heard>>

\* A packet written to a dead connection is lost without an error.
Write(p) ==
  toBroker' = IF link = "up" THEN Append(toBroker, p) ELSE toBroker

-----------------------------------------------------------------------------
(* mqtt_event_handler.                                                     *)

\* Mutant: the subscription is left to the session.
ConnectedPrintsOnly == UNCHANGED toBroker

OnConnected == Write(Subscribe)

HandleConnected ==
  /\ event = "CONNECTED"
  /\ event' = "none"
  /\ OnConnected
  /\ UNCHANGED <<state, link, toClient, sub, reports, heard>>

\* esp_mqtt_client_publish answers -1 when the client is not connected.
HandleSubscribed ==
  /\ event = "SUBSCRIBED"
  /\ event' = "none"
  /\ IF state = "connected" THEN Write(Greeting) ELSE UNCHANGED toBroker
  /\ UNCHANGED <<state, link, toClient, sub, reports, heard>>

\* Data, and the loss of the connection, are only logged.
HandleOther ==
  /\ event \in {"DISCONNECTED", "DATA"}
  /\ event' = "none"
  /\ UNCHANGED <<state, link, toBroker, toClient, sub, reports, heard>>

Handler == HandleConnected \/ HandleSubscribed \/ HandleOther

-----------------------------------------------------------------------------
(* publish_sensor_state, in the timer service task.                        *)

\* Mutant: a value is sent twice.
PublishTwice ==
  IF state = "connected" /\ link = "up"
  THEN toBroker' = toBroker \o <<Value(reports'), Value(reports')>>
  ELSE UNCHANGED toBroker

\* At QoS 0 a value published without a connection is dropped (-1).
PublishQos0 ==
  IF state = "connected" THEN Write(Value(reports')) ELSE UNCHANGED toBroker

Publish ==
  /\ state # "off"
  /\ reports < MaxReports
  /\ reports' = reports + 1
  /\ PublishQos0
  /\ UNCHANGED <<state, link, toClient, event, sub, heard>>

-----------------------------------------------------------------------------
(* The client library, the network and the broker.                         *)

\* The client reconnects with a clean session.
Connects ==
  /\ state = "disconnected"
  /\ event = "none"
  /\ state' = "connected"
  /\ link' = "up"
  /\ event' = "CONNECTED"
  /\ UNCHANGED <<toBroker, toClient, sub, reports, heard>>

\* A packet of the broker becomes an event of the handler.
ClientReceives ==
  /\ state = "connected"
  /\ event = "none"
  /\ toClient # <<>>
  /\ event' = Head(toClient)
  /\ toClient' = Tail(toClient)
  /\ UNCHANGED <<state, link, toBroker, sub, reports, heard>>

\* The client finds out about the dead connection later than it dies.
NoticesLoss ==
  /\ state = "connected"
  /\ link = "dead"
  /\ event = "none"
  /\ state' = "disconnected"
  /\ event' = "DISCONNECTED"
  /\ UNCHANGED <<link, toBroker, toClient, sub, reports, heard>>

LinkDies ==
  /\ link = "up"
  /\ link' = "dead"
  /\ toBroker' = <<>>
  /\ toClient' = <<>>
  /\ sub' = FALSE
  /\ UNCHANGED <<state, event, reports, heard>>

BrokerGrants ==
  /\ toBroker # <<>> /\ Head(toBroker) = Subscribe
  /\ toBroker' = Tail(toBroker)
  /\ sub' = TRUE
  /\ toClient' = Append(toClient, "SUBSCRIBED")
  /\ UNCHANGED <<state, link, event, reports, heard>>

BrokerPassesOn ==
  /\ toBroker # <<>> /\ Head(toBroker) # Subscribe
  /\ toBroker' = Tail(toBroker)
  /\ heard' = IF Head(toBroker) = Greeting THEN heard
              ELSE Append(heard, Head(toBroker).n)
  /\ UNCHANGED <<state, link, toClient, event, sub, reports>>

Commands ==
  /\ sub
  /\ toClient = <<>>
  /\ toClient' = <<"DATA">>
  /\ UNCHANGED <<state, link, toBroker, event, sub, reports, heard>>

Client == Handler \/ Connects \/ ClientReceives \/ NoticesLoss

Broker == BrokerGrants \/ BrokerPassesOn

MqttNext == MqttAppStart \/ Publish \/ Client \/ Broker \/ LinkDies \/ Commands

MqttSpec == MqttInit /\ [][MqttNext]_mqttVars

\* The client's task runs and tries to connect for ever; a broker serves
\* what reaches it.  The loss of a connection is never owed.
MqttFairSpec == MqttSpec /\ WF_mqttVars(MqttAppStart) /\ WF_mqttVars(Client) /\ WF_mqttVars(Broker)

-----------------------------------------------------------------------------
(* Properties.                                                             *)


Reports == {Value(i) : i \in 1..MaxReports}

Packets == {Subscribe, Greeting} \cup Reports

MqttTypeOK ==
  /\ state \in {"off", "disconnected", "connected"}
  /\ link \in {"up", "dead"}
  /\ toBroker \in Seq(Packets)
  /\ toClient \in Seq({"SUBSCRIBED", "DATA"})
  /\ event \in {"none", "CONNECTED", "DISCONNECTED", "SUBSCRIBED", "DATA"}
  /\ sub \in BOOLEAN
  /\ reports \in 0..MaxReports

OnWay ==
  LET values == Keep(toBroker, Reports)
  IN  [i \in DOMAIN values |-> values[i].n]

C == INSTANCE LossyChannel WITH onWay <- OnWay

\* However often the connection dies, reports are heard at most once and in
\* their order: an old value never arrives after a newer one.
RefinesLossyChannel == C!CSpec

\* The subscription dies with each connection and is made again for each: a
\* connection that lasts has one.
LastingConnectionIsSubscribed ==
  <>[](state = "connected" /\ link = "up") => <>[]sub

\* The loss at QoS 0 is confined to the time without a connection: what is
\* published on a live connection that lasts is heard.
LiveReportsAreHeard ==
  \A v \in 1..MaxReports :
    (/\ state = "connected" /\ reports = v - 1
     /\ [](link = "up") /\ <>(reports = v))
      ~> (\E i \in DOMAIN heard : heard[i] = v)
=============================================================================
