---------------------------- MODULE LossyChannel ----------------------------
(***************************************************************************)
(* What a listener of the greenhouse is promised: each report is heard at  *)
(* most once and in the order of the reports; any of them may be lost.     *)
(***************************************************************************)
EXTENDS Naturals, Sequences

VARIABLES reports,  \* how many reports the device has made
          onWay,    \* those that may still be heard, in order
          heard     \* those that have been heard, in order

cvars == <<reports, onWay, heard>>

CInit == reports = 0 /\ onWay = <<>> /\ heard = <<>>

Report ==
  /\ reports' = reports + 1
  /\ onWay' \in {onWay, Append(onWay, reports + 1)}
  /\ UNCHANGED heard

Hear ==
  /\ onWay # <<>>
  /\ heard' = Append(heard, Head(onWay))
  /\ onWay' = Tail(onWay)
  /\ UNCHANGED reports

LoseAll ==
  /\ onWay' = <<>>
  /\ UNCHANGED <<reports, heard>>

CNext == Report \/ Hear \/ LoseAll

CSpec == CInit /\ [][CNext]_cvars
=============================================================================
