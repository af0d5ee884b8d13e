------------------------------ MODULE Telemetry ------------------------------
(***************************************************************************)
(* The running device of main.c once app_main has returned: the timer      *)
(* service task, which runs timer_callback (leer_Dht, leerHumedadSuelo,    *)
(* publish_sensor_state) every period, and the single-threaded HTTP server *)
(* task, which runs send_data and toggle_regar_handler.  The two tasks     *)
(* share the global variables of main.c with no lock between them, so each *)
(* load and each store of a global is a step.  Adjacent stores (and the    *)
(* loads of one argument list) with no call between them may be performed  *)
(* in any order, since nothing in the code orders them.                    *)
(***************************************************************************)
EXTENDS Integers, Sequences

CONSTANTS DhtReadings,  \* the good readings the DHT11 can deliver
          AdcRaw        \* the raw values adc1_get_raw can deliver

ASSUME DhtAssumption ==
  DhtReadings \subseteq [humidity : 0..255, temperature : 0..255]

ASSUME AdcAssumption == AdcRaw \subseteq 0..4095

VARIABLES
  mem,         \* the shared globals of main.c
  dht11_data,  \* what DHT11_read last returned
  suelo,       \* the value leerHumedadSuelo has just computed
  pend,        \* the globals the timer task still has to store
  tpc,         \* where the timer task is
  topic,       \* the topic publish_sensor_state is at
  message,     \* its buffer message[16]
  sent,        \* what this round has handed to esp_mqtt_client_publish
  logged,      \* how many entries of this round mqtt_logs holds
  gpio,        \* the level driven on LED_GPIO
  hpc,         \* where the HTTP server task is
  todo,        \* the globals send_data has still to load
  snap,        \* the values it has loaded
  want,        \* the entries the %s conversion saw in mqtt_logs (its strlen)
  got,         \* the entries it has copied out
  nul,         \* TRUE if it copied a NUL in place of an entry
  quiet        \* history: timer_callback has not run during this request

timerVars == <<dht11_data, suelo, pend, tpc, topic, message, sent, logged>>
httpVars  == <<gpio, hpc, todo, snap, want, got, nul>>
vars      == <<mem, timerVars, httpVars, quiet>>

Globals == {"humidity", "temperature", "regar", "alarmariego", "humedadsuelo"}

\* The order of the calls in publish_sensor_state.
Topics == <<"humidity", "temperature", "regar", "alarmariego", "humedadsuelo",
            "current_tiempo">>

\* Mutant: the second comparison of leerHumedadSuelo is missing.
AlarmaNeverSet(s, a) ==
  IF s > 50 THEN 0 ELSE a

\* The two comparisons of leerHumedadSuelo: neither holds at 50.
AlarmaRiego(s, a) ==
  IF s > 50 THEN 0 ELSE IF s < 50 THEN 1 ELSE a

HumedadSuelo(raw) == raw \div 40

DhtError == [status |-> "error", humidity |-> -1, temperature |-> -1]

DhtOk(r) ==
  [status |-> "ok", humidity |-> r.humidity, temperature |-> r.temperature]

Zeroed == [g \in Globals |-> 0]

\* app_main has run leerHumedadSuelo once, before the timer exists.
Init ==
  /\ \E raw \in AdcRaw : suelo = HumedadSuelo(raw)
  /\ mem = [Zeroed EXCEPT !["humedadsuelo"] = suelo,
                          !["alarmariego"] = AlarmaRiego(suelo, 0)]
  /\ dht11_data = [status |-> "ok", humidity |-> 0, temperature |-> 0]
  /\ pend = {}
  /\ tpc = "idle"
  /\ topic = 1
  /\ message = 0
  /\ sent = Zeroed
  /\ logged = 0
  /\ gpio = 0
  /\ hpc = "idle"
  /\ todo = {}
  /\ snap = Zeroed
  /\ want = 0
  /\ got = 0
  /\ nul = FALSE
  /\ quiet = FALSE

-----------------------------------------------------------------------------
(* The timer service task.                                                 *)

TimerFires ==
  /\ tpc = "idle"
  /\ tpc' = "leer_Dht"
  /\ quiet' = FALSE
  /\ UNCHANGED <<mem, dht11_data, suelo, pend, topic, message, sent, logged, httpVars>>

\* Mutants: the status is not checked; the temperature is not stored.
StoresUnchecked(r) == {"humidity", "temperature"}
StoresHumidityOnly(r) == IF r.status = "ok" THEN {"humidity"} ELSE {}

\* A failed reading leaves humidity and temperature as they were.
StoresAfterDht(r) ==
  IF r.status = "ok" THEN {"humidity", "temperature"} ELSE {}

LeerDht ==
  /\ tpc = "leer_Dht"
  /\ dht11_data' \in {DhtOk(r) : r \in DhtReadings} \cup {DhtError}
  /\ pend' = StoresAfterDht(dht11_data')
  /\ tpc' = IF pend' = {} THEN "leerHumedadSuelo" ELSE "store_dht"
  /\ UNCHANGED <<mem, suelo, topic, message, sent, logged, httpVars, quiet>>

LeerHumedadSuelo ==
  /\ tpc = "leerHumedadSuelo"
  /\ \E raw \in AdcRaw : suelo' = HumedadSuelo(raw)
  /\ pend' = {"humedadsuelo"} \cup (IF suelo' = 50 THEN {} ELSE {"alarmariego"})
  /\ tpc' = "store_suelo"
  /\ UNCHANGED <<mem, dht11_data, topic, message, sent, logged, httpVars, quiet>>

ValueFor(g) ==
  CASE g \in {"humidity", "temperature"} -> dht11_data[g]
    [] g = "humedadsuelo"                -> suelo
    [] g = "alarmariego"                 -> AlarmaRiego(suelo, mem["alarmariego"])

StoreGlobal(g) ==
  /\ tpc \in {"store_dht", "store_suelo"}
  /\ g \in pend
  /\ mem' = [mem EXCEPT ![g] = ValueFor(g)]
  /\ pend' = pend \ {g}
  /\ tpc' = IF pend' # {} THEN tpc
            ELSE IF tpc = "store_dht" THEN "leerHumedadSuelo" ELSE "memset"
  /\ UNCHANGED <<dht11_data, suelo, topic, message, sent, logged, httpVars, quiet>>

ClearLogs ==
  /\ tpc = "memset"
  /\ logged' = 0
  /\ topic' = 1
  /\ sent' = Zeroed
  /\ tpc' = "snprintf"
  /\ UNCHANGED <<mem, dht11_data, suelo, pend, message, httpVars, quiet>>

\* Mutants: the alarm's call prints regar; regar's call prints the alarm.
MessageAlarmFromRegar(t) ==
  CASE t = "alarmariego"                -> mem["regar"]
    [] t \in Globals \ {"alarmariego"} -> mem[t]
    [] OTHER                            -> 0
MessageRegarFromAlarm(t) ==
  CASE t = "regar"                -> mem["alarmariego"]
    [] t \in Globals \ {"regar"} -> mem[t]
    [] OTHER                      -> 0

\* The wall clock of current_tiempo is not modelled: its message is 0.
MessageFor(t) ==
  IF t \in Globals THEN mem[t] ELSE 0

FormatMessage ==
  /\ tpc = "snprintf"
  /\ message' = MessageFor(Topics[topic])
  /\ tpc' = "publish"
  /\ UNCHANGED <<mem, dht11_data, suelo, pend, topic, sent, logged, httpVars, quiet>>

\* msg_id is -1 when the client is not connected; only the text of the log
\* entry depends on it, so the round goes on either way.
PublishMessage ==
  /\ tpc = "publish"
  /\ sent' = IF Topics[topic] \in Globals
             THEN [sent EXCEPT ![Topics[topic]] = message] ELSE sent
  /\ message' = 0
  /\ tpc' = "strncat"
  /\ UNCHANGED <<mem, dht11_data, suelo, pend, topic, logged, httpVars, quiet>>

AppendLog ==
  /\ tpc = "strncat"
  /\ logged' = logged + 1
  /\ topic' = topic + 1
  /\ tpc' = IF topic = Len(Topics) THEN "idle" ELSE "snprintf"
  /\ UNCHANGED <<mem, dht11_data, suelo, pend, message, sent, httpVars, quiet>>

TimerTask ==
  \/ TimerFires
  \/ LeerDht
  \/ LeerHumedadSuelo
  \/ \E g \in Globals : StoreGlobal(g)
  \/ ClearLogs
  \/ FormatMessage
  \/ PublishMessage
  \/ AppendLog

-----------------------------------------------------------------------------
(* The HTTP server task.                                                   *)

ToggleRegar ==
  /\ hpc = "idle"
  /\ mem' = [mem EXCEPT !["regar"] = 1 - @]
  /\ hpc' = "gpio_set_level"
  /\ UNCHANGED <<timerVars, gpio, todo, snap, want, got, nul, quiet>>

LevelOfRegar == mem["regar"]

\* The level follows regar; the answer ON or OFF that is sent next changes
\* nothing on the device.
SetLevel ==
  /\ hpc = "gpio_set_level"
  /\ gpio' = LevelOfRegar
  /\ hpc' = "idle"
  /\ UNCHANGED <<mem, timerVars, todo, snap, want, got, nul, quiet>>

SendData ==
  /\ hpc = "idle"
  /\ hpc' = "load"
  /\ todo' = Globals
  /\ quiet' = (tpc = "idle")
  /\ UNCHANGED <<mem, timerVars, gpio, snap, want, got, nul>>

\* Mutant: the reply repeats what was last published.
LoadedFromReport(g) == sent[g]

Loaded(g) == mem[g]

LoadGlobal(g) ==
  /\ hpc = "load"
  /\ g \in todo
  /\ snap' = [snap EXCEPT ![g] = Loaded(g)]
  /\ todo' = todo \ {g}
  /\ UNCHANGED <<mem, timerVars, gpio, hpc, want, got, nul, quiet>>

\* snprintf converts %s by taking the length first ...
LogLength ==
  /\ hpc = "load"
  /\ todo = {}
  /\ want' = logged
  /\ hpc' = "copy"
  /\ UNCHANGED <<mem, timerVars, gpio, todo, snap, got, nul, quiet>>

\* ... and copying that many bytes, of whatever the buffer then holds.
CopyEntry ==
  /\ hpc = "copy"
  /\ got < want
  /\ got' = got + 1
  /\ nul' = (nul \/ got >= logged)
  /\ UNCHANGED <<mem, timerVars, gpio, hpc, todo, snap, want, quiet>>

JsonReady ==
  /\ hpc = "copy"
  /\ got = want
  /\ hpc' = "send"
  /\ UNCHANGED <<mem, timerVars, gpio, todo, snap, want, got, nul, quiet>>

\* The reply is cut at the first NUL: its length is strlen(json_buf).
SendReply ==
  /\ hpc = "send"
  /\ hpc' = "idle"
  /\ snap' = Zeroed
  /\ want' = 0
  /\ got' = 0
  /\ nul' = FALSE
  /\ quiet' = FALSE
  /\ UNCHANGED <<mem, timerVars, gpio, todo>>

Request == ToggleRegar \/ SendData

Respond ==
  \/ SetLevel
  \/ \E g \in Globals : LoadGlobal(g)
  \/ LogLength
  \/ CopyEntry
  \/ JsonReady
  \/ SendReply

Next == TimerTask \/ Request \/ Respond

Spec == Init /\ [][Next]_vars

\* The timer service task and the HTTP server task are always scheduled in
\* the end; the auto-reload timer fires again; no client has to send requests.
Fairness == WF_vars(TimerTask) /\ WF_vars(Respond)

FairSpec == Spec /\ Fairness

-----------------------------------------------------------------------------
(* Properties.                                                             *)

TimerPcs == {"idle", "leer_Dht", "store_dht", "leerHumedadSuelo",
             "store_suelo", "memset", "snprintf", "publish", "strncat"}

HttpPcs == {"idle", "gpio_set_level", "load", "copy", "send"}

\* The values each global can hold: DHT11 bytes, a 12-bit sample over 40, and
\* two booleans.
RangeOf(g) ==
  CASE g \in {"humidity", "temperature"} -> 0..255
    [] g = "humedadsuelo"                -> 0..102
    [] g \in {"alarmariego", "regar"}    -> 0..1

MemTypeOK ==
  /\ mem \in [Globals -> Int]
  /\ \A g \in Globals : mem[g] \in RangeOf(g)

TimerTypeOK ==
  /\ dht11_data \in [status : {"ok", "error"}, humidity : -1..255,
                      temperature : -1..255]
  /\ suelo \in 0..102
  /\ pend \subseteq Globals \ {"regar"}
  /\ tpc \in TimerPcs
  /\ topic \in 1..(Len(Topics) + 1)
  /\ message \in Int
  /\ sent \in [Globals -> Int]
  /\ logged \in 0..Len(Topics)

HttpTypeOK ==
  /\ gpio \in 0..1
  /\ hpc \in HttpPcs
  /\ todo \subseteq Globals
  /\ snap \in [Globals -> Int]
  /\ want \in 0..Len(Topics)
  /\ got \in 0..Len(Topics)
  /\ nul \in BOOLEAN
  /\ quiet \in BOOLEAN

\* Type invariant.  A failed DHT11 reading (-1) never reaches a global, and
\* the soil global never exceeds 102, the largest 12-bit sample over 40.
TypeOK == MemTypeOK /\ TimerTypeOK /\ HttpTypeOK

\* The topics whose values this round has already handed to the client.
SentUpTo == IF tpc = "strncat" THEN topic ELSE topic - 1

Sent(g) == \E i \in 1..SentUpTo : Topics[i] = g

\* Before the first good reading the two globals hold their initial zeros.
AirPairs ==
  {<<0, 0>>} \cup {<<r.humidity, r.temperature>> : r \in DhtReadings}

\* The humidity and the temperature that one publish_sensor_state sends come
\* from the same DHT11 reading, however many readings failed in between.
OneReadingPerReport ==
  Sent("humidity") /\ Sent("temperature")
    => <<sent["humidity"], sent["temperature"]>> \in AirPairs

\* The alarm that one publish_sensor_state sends agrees with the soil
\* humidity it sends, although they are stored and formatted separately.
AlarmAgreesWithSoil ==
  Sent("alarmariego") /\ Sent("humedadsuelo")
    => /\ sent["humedadsuelo"] > 50 => sent["alarmariego"] = 0
       /\ sent["humedadsuelo"] < 50 => sent["alarmariego"] = 1

\* A /data reply that timer_callback did not overlap is exact: every value is
\* the device's, and every log entry of the last round is there, uncut.
QuietReplyIsExact ==
  hpc = "send" /\ quiet => snap = mem /\ got = logged /\ ~nul

\* send_data says it sends "the JSON": the document it built is never cut.
ReplyIsWholeJson ==
  hpc = "send" => ~nul

\* The page shows humedadsuelo with a percent sign.
SoilIsPercentage ==
  mem["humedadsuelo"] \in 0..100

\* The level that lights the LED, by the definition next to LED_GPIO.
LED_ON == 0

\* toggle_regar_handler lights the LED exactly when it switches watering on.
LedLitWhileWatering ==
  [][hpc = "gpio_set_level" => (gpio' = LED_ON <=> mem'["regar"] = 1)]_gpio

\* A valve position that lasts is reported again and again, and in the end
\* no report says anything else.
ValveIsReported ==
  \A v \in 0..1 :
    <>[](mem["regar"] = v)
      => /\ []<>(Sent("regar") /\ sent["regar"] = v)
         /\ <>[](Sent("regar") => sent["regar"] = v)

-----------------------------------------------------------------------------
(* Telemetry implements Greenhouse: a sample counts from the moment it is  *)
(* read, before its stores, and a value is told when it is formatted.      *)

Telling == tpc \in {"snprintf", "publish", "strncat"}

ToldUpTo == IF tpc \in {"publish", "strncat"} THEN topic ELSE topic - 1

AbsAir ==
  IF tpc = "store_dht"
  THEN [humidity |-> dht11_data.humidity, temperature |-> dht11_data.temperature]
  ELSE [humidity |-> mem["humidity"], temperature |-> mem["temperature"]]

AbsSoil == IF tpc = "store_suelo" THEN suelo ELSE mem["humedadsuelo"]

AbsAlarm ==
  IF tpc = "store_suelo" THEN AlarmaRiego(suelo, mem["alarmariego"])
                         ELSE mem["alarmariego"]

AbsTold == {g \in Globals : \E i \in 1..ToldUpTo : Topics[i] = g}

AbsReport ==
  IF tpc = "publish" /\ Topics[topic] \in Globals
  THEN [sent EXCEPT ![Topics[topic]] = message] ELSE sent

G == INSTANCE Greenhouse WITH
  air    <- AbsAir,
  soil   <- AbsSoil,
  alarm  <- AbsAlarm,
  valve  <- mem["regar"],
  phase  <- IF Telling THEN "tell" ELSE "sample",
  told   <- AbsTold,
  report <- AbsReport

\* The unsynchronised tasks together behave as the atomic sampler of
\* Greenhouse: no interleaving shows in a report.
RefinesGreenhouse == G!ASpec
=============================================================================
