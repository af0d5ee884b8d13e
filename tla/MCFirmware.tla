----------------------------- MODULE MCFirmware ------------------------------
(***************************************************************************)
(* The parts of main.c that keep to themselves, in one run: they share no  *)
(* variable of the models, so the steps of one leave what is said of the   *)
(* others as it was, and a behaviour in which one of them runs alone shows *)
(* what can happen to it.  The first state chooses the part that runs.     *)
(***************************************************************************)
EXTENDS Clock, LogBuffer, WebFiles, Boot, MqttSession

VARIABLES
  part,                                                     \* which one runs
  regar, asked, replies, shown, presses, served, error

Page == INSTANCE Dashboard WITH MaxOpen <- 2, MaxPresses <- 2, MaxServed <- 3

pageVars == <<regar, asked, replies, shown, presses, served, error>>

vars == <<part, clockVars, logVars, filesVars, bootVars, mqttVars, pageVars>>

Parts == {"clock", "log", "files", "boot", "mqtt", "page"}

Init ==
  /\ part \in Parts
  /\ ClockInit /\ LogInit /\ FilesInit
  /\ BootInit /\ MqttInit /\ Page!Init
  /\ part # "files" => mode = "AP" /\ stored = Pages

ClockRuns ==
  part = "clock" /\ ClockNext
  /\ UNCHANGED <<part, logVars, filesVars, bootVars, mqttVars, pageVars>>

LogRuns ==
  part = "log" /\ LogNext
  /\ UNCHANGED <<part, clockVars, filesVars, bootVars, mqttVars, pageVars>>

FilesRun ==
  part = "files" /\ FilesNext
  /\ UNCHANGED <<part, clockVars, logVars, bootVars, mqttVars, pageVars>>

BootRuns ==
  part = "boot" /\ BootNext
  /\ UNCHANGED <<part, clockVars, logVars, filesVars, mqttVars, pageVars>>

MqttRuns ==
  part = "mqtt" /\ MqttNext
  /\ UNCHANGED <<part, clockVars, logVars, filesVars, bootVars, pageVars>>

PageRuns ==
  part = "page" /\ Page!Next
  /\ UNCHANGED <<part, clockVars, logVars, filesVars, bootVars, mqttVars>>

Next == ClockRuns \/ LogRuns \/ FilesRun \/ BootRuns \/ MqttRuns \/ PageRuns

\* The fairness of each part, while it is the one that runs.
BootFairness ==
  /\ WF_bootVars(part = "boot" /\ AppMain)
  /\ WF_bootVars(part = "boot" /\ HttpServerTask)

MqttFairness ==
  /\ WF_mqttVars(part = "mqtt" /\ MqttAppStart)
  /\ WF_mqttVars(part = "mqtt" /\ Client)
  /\ WF_mqttVars(part = "mqtt" /\ Broker)

PageFairness ==
  /\ WF_pageVars(part = "page" /\ Page!UpdateValues)
  /\ \A s \in Page!Slots :
       /\ WF_pageVars(part = "page" /\ \E r \in asked :
                        r.slot = s /\ (Page!ServeData(r) \/ Page!ServeRegar(r)))
       /\ SF_pageVars(part = "page" /\ \E r \in replies :
                        r.slot = s /\ (Page!DataArrives(r) \/ Page!ToggleAnswered(r)))

Spec == Init /\ [][Next]_vars /\ BootFairness /\ MqttFairness /\ PageFairness

-----------------------------------------------------------------------------
(* Properties.                                                             *)

\* MqttSession: a connection that lasts has its subscription, and what is
\* published on it is heard.
LastingConnectionWorks ==
  /\ LastingConnectionIsSubscribed /\ LiveReportsAreHeard

\* Boot: a device that starts and is no longer disturbed ends up serving its
\* pages, but for the three ends named there.
StartsSettle == part = "boot" => EveryStartSettles

\* Dashboard: when the valve stays as it is the page ends up showing it; its
\* variables, and those of the other parts, keep their types.
PageSettles ==
  /\ [](ClockTypeOK /\ LogTypeOK /\ FilesTypeOK /\ MqttTypeOK /\ Page!TypeOK)
  /\ part = "page" => Page!PageSettles
=============================================================================
