----------------------------- MODULE MCTelemetry -----------------------------
(* Small instances of Telemetry. *)
EXTENDS Telemetry

OneReading == {[humidity |-> 60, temperature |-> 25]}

TwoReadings == {[humidity |-> 60, temperature |-> 25],
                [humidity |-> 41, temperature |-> 18]}

\* The raw samples around the threshold: 49, 50 and 51 after the division.
AroundThreshold == {1999, 2039, 2040}

\* A dry and a wet sample, and the largest one (102 after the division).
DryAndWet == {0, 2040}
FullScale == {2000, 4095}
=============================================================================
