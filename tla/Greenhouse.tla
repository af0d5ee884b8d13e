----------------------------- MODULE Greenhouse -----------------------------
(***************************************************************************)
(* What the telemetry of main.c promises, without its tasks and globals:   *)
(* the air and the soil are each sampled in one indivisible step, every    *)
(* report tells the values of one sampling, the alarm is a switch with a   *)
(* dead point at the threshold, and the valve may be flipped at any time.  *)
(* Telemetry is shown to implement this specification.                     *)
(***************************************************************************)
EXTENDS Integers

CONSTANTS DhtReadings,  \* the pairs the DHT11 can deliver
          AdcRaw        \* the raw values the ADC channel can deliver

VARIABLES air,     \* humidity and temperature of the last good DHT11 reading
          soil,    \* the last soil humidity
          alarm,   \* 1 while the soil is too dry
          valve,   \* 1 while watering
          phase,   \* "sample" or "tell"
          told,    \* the quantities told so far in this report
          report   \* their values

avars == <<air, soil, alarm, valve, phase, told, report>>

Quantities == {"humidity", "temperature", "regar", "alarmariego", "humedadsuelo"}

SoilOf(raw) == raw \div 40

\* The threshold itself leaves the alarm as it was.
AlarmAfter(s, a) ==
  IF s > 50 THEN 0 ELSE IF s < 50 THEN 1 ELSE a

AInit ==
  /\ air = [humidity |-> 0, temperature |-> 0]
  /\ \E raw \in AdcRaw : soil = SoilOf(raw)
  /\ alarm = AlarmAfter(soil, 0)
  /\ valve = 0
  /\ phase = "sample"
  /\ told = {}
  /\ report = [q \in Quantities |-> 0]

Quantity(q) ==
  CASE q = "humidity"     -> air.humidity
    [] q = "temperature"  -> air.temperature
    [] q = "humedadsuelo" -> soil
    [] q = "alarmariego"  -> alarm
    [] q = "regar"        -> valve

SampleAir ==
  /\ phase = "sample"
  /\ \E r \in DhtReadings :
        air' = [humidity |-> r.humidity, temperature |-> r.temperature]
  /\ UNCHANGED <<soil, alarm, valve, phase, told, report>>

SampleSoil ==
  /\ phase = "sample"
  /\ \E raw \in AdcRaw : soil' = SoilOf(raw)
  /\ alarm' = AlarmAfter(soil', alarm)
  /\ UNCHANGED <<air, valve, phase, told, report>>

BeginReport ==
  /\ phase = "sample"
  /\ phase' = "tell"
  /\ told' = {}
  /\ report' = [q \in Quantities |-> 0]
  /\ UNCHANGED <<air, soil, alarm, valve>>

Tell(q) ==
  /\ phase = "tell"
  /\ q \notin told
  /\ told' = told \cup {q}
  /\ report' = [report EXCEPT ![q] = Quantity(q)]
  /\ UNCHANGED <<air, soil, alarm, valve, phase>>

EndReport ==
  /\ phase = "tell"
  /\ told = Quantities
  /\ phase' = "sample"
  /\ UNCHANGED <<air, soil, alarm, valve, told, report>>

FlipValve ==
  /\ valve' = 1 - valve
  /\ UNCHANGED <<air, soil, alarm, phase, told, report>>

ANext ==
  \/ SampleAir
  \/ SampleSoil
  \/ BeginReport
  \/ \E q \in Quantities : Tell(q)
  \/ EndReport
  \/ FlipValve

ASpec == AInit /\ [][ANext]_avars
=============================================================================
