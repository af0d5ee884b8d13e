------------------------------ MODULE Dashboard -----------------------------
(***************************************************************************)
(* The page of app.js against the device: updateValues polls /data every   *)
(* second without waiting for the last answer, toggleRegar asks /regar.    *)
(* Each request has a connection of its own, so the server may take them,  *)
(* and the browser see the answers, in any order; a browser may send a GET *)
(* again when its connection breaks before the answer.                     *)
(***************************************************************************)
EXTENDS Naturals, FiniteSets

CONSTANTS MaxOpen,    \* the connections a browser opens to one host
          MaxPresses, \* bound: how often the button is pressed
          MaxServed   \* bound: how often /regar is served, repetitions included

VARIABLES
  regar,    \* the device's global
  asked,    \* requests on their way to the server
  replies,  \* replies on their way to the page
  shown,    \* the colour of the element "regar"
  presses,  \* how often the button has been pressed
  served,   \* how often toggle_regar_handler has run
  error     \* what the handler of the last toggle's answer did

vars == <<regar, asked, replies, shown, presses, served, error>>

Slots == 1..MaxOpen

Busy == {r.slot : r \in asked \cup replies}

Init ==
  /\ regar = FALSE
  /\ asked = {}
  /\ replies = {}
  /\ shown = "none"
  /\ presses = 0
  /\ served = 0
  /\ error = "none"

Fetch(uri) ==
  \E s \in Slots \ Busy : asked' = asked \cup {[slot |-> s, uri |-> uri]}

UpdateValues ==
  /\ Fetch("/data")
  /\ UNCHANGED <<regar, replies, shown, presses, served, error>>

ToggleRegar ==
  /\ presses < MaxPresses
  /\ Fetch("/regar")
  /\ presses' = presses + 1
  /\ error' = "none"
  /\ UNCHANGED <<regar, replies, shown, served>>

-----------------------------------------------------------------------------
(* The server: send_data and toggle_regar_handler (module Telemetry).      *)

ServeData(r) ==
  /\ r \in asked /\ r.uri = "/data"
  /\ asked' = asked \ {r}
  /\ replies' = replies \cup {[slot |-> r.slot, uri |-> "/data", regar |-> regar]}
  /\ UNCHANGED <<regar, shown, presses, served, error>>

\* The answer is ON or OFF.
ServeRegar(r) ==
  /\ r \in asked /\ r.uri = "/regar"
  /\ served < MaxServed
  /\ asked' = asked \ {r}
  /\ regar' = ~regar
  /\ served' = served + 1
  /\ replies' = replies \cup {[slot |-> r.slot, uri |-> "/regar", regar |-> ~regar]}
  /\ UNCHANGED <<shown, presses, error>>

\* The connection breaks: the page sees an error, or the browser tries again.
ReplyLost(r) ==
  /\ r \in replies
  /\ replies' = replies \ {r}
  /\ \/ UNCHANGED asked
     \/ /\ served < MaxServed
        /\ asked' = asked \cup {[slot |-> r.slot, uri |-> r.uri]}
  /\ UNCHANGED <<regar, shown, presses, served, error>>

-----------------------------------------------------------------------------
(* The answers in the page.                                                *)

Colour(v) == IF v THEN "green" ELSE "red"

\* Mutant: only the first answer is shown.
FirstOnly(v) == IF shown # "none" THEN shown ELSE Colour(v)

ShownFor(v) == Colour(v)

DataArrives(r) ==
  /\ r \in replies /\ r.uri = "/data"
  /\ replies' = replies \ {r}
  /\ shown' = ShownFor(r.regar)
  /\ UNCHANGED <<regar, asked, presses, served, error>>

\* response.json() rejects ON and OFF, so catch runs after a success too.
ToggleAnswered(r) ==
  /\ r \in replies /\ r.uri = "/regar"
  /\ replies' = replies \ {r}
  /\ error' = "toggled, error logged"
  /\ UNCHANGED <<regar, asked, shown, presses, served>>

Server == \E r \in asked : ServeData(r) \/ ServeRegar(r)

Page == \E r \in replies : DataArrives(r) \/ ToggleAnswered(r)

Next ==
  \/ UpdateValues \/ ToggleRegar
  \/ Server \/ Page
  \/ \E r \in replies : ReplyLost(r)

Spec == Init /\ [][Next]_vars

\* setInterval fires again; the server serves each request it has; of the
\* polls that keep being answered not all are lost.
FairSpec ==
  /\ Spec
  /\ WF_vars(UpdateValues)
  /\ \A s \in Slots :
       /\ WF_vars(\E r \in asked : r.slot = s /\ (ServeData(r) \/ ServeRegar(r)))
       /\ SF_vars(\E r \in replies : r.slot = s /\ (DataArrives(r) \/ ToggleAnswered(r)))

-----------------------------------------------------------------------------
(* Properties.                                                             *)

TypeOK ==
  /\ regar \in BOOLEAN
  /\ asked \subseteq [slot : Slots, uri : {"/data", "/regar"}]
  /\ replies \subseteq [slot : Slots, uri : {"/data", "/regar"}, regar : BOOLEAN]
  /\ \A r, q \in asked \cup replies : r.slot = q.slot => r = q
  /\ shown \in {"none", "green", "red"}
  /\ presses \in 0..MaxPresses

\* Answers overtake each other and old ones are shown after new ones, but
\* when the valve stays as it is the page ends up showing it, for ever.
PageSettles ==
  \A v \in BOOLEAN : <>[](regar = v) => <>[](shown = Colour(v))

\* The page reports an error in switching only if nothing was switched.
ErrorMeansNotToggled == error # "toggled, error logged"
=============================================================================
