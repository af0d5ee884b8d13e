--------------------------- MODULE Telemetry_proofs ---------------------------
(***************************************************************************)
(* Proofs about Telemetry, for every set of DHT11 readings and of ADC      *)
(* samples: its type invariant, the three invariants on reports, replies   *)
(* and the valve, and the refinement of Greenhouse.                        *)
(***************************************************************************)
EXTENDS Telemetry, TLAPS

-----------------------------------------------------------------------------
(* Facts about the constants of publish_sensor_state and the arithmetic.   *)

\* publish_sensor_state makes six calls, and these are their topics.
LEMMA TopicFacts ==
  /\ Len(Topics) = 6
  /\ Topics[1] = "humidity"     /\ Topics[2] = "temperature"
  /\ Topics[3] = "regar"        /\ Topics[4] = "alarmariego"
  /\ Topics[5] = "humedadsuelo" /\ Topics[6] = "current_tiempo"
BY DEF Topics

\* A 12-bit sample over 40 is at most 102.
LEMMA SoilRange == ASSUME NEW raw \in AdcRaw PROVE HumedadSuelo(raw) \in 0..102
<1>1. raw \in Int /\ 0 <= raw /\ raw <= 4095
  BY AdcAssumption
<1>2. raw \div 40 \in Int /\ 0 <= raw \div 40 /\ raw \div 40 <= 102
  BY <1>1
<1>3. QED
  BY <1>2 DEF HumedadSuelo

\* The globals, the DHT11 record and the two tasks' variables keep their types
\* only together with where each pending store may be: what IInv adds to TypeOK.
StoreInv ==
  /\ tpc \notin {"store_dht", "store_suelo"} => pend = {}
  /\ tpc = "store_dht" => /\ pend # {}
                          /\ pend \subseteq {"humidity", "temperature"}
                          /\ dht11_data.status = "ok"
  /\ tpc = "store_suelo" => /\ pend # {}
                            /\ pend \subseteq {"humedadsuelo", "alarmariego"}
                            /\ "alarmariego" \in pend => suelo # 50
  /\ dht11_data.status = "ok" => /\ dht11_data.humidity \in 0..255
                                 /\ dht11_data.temperature \in 0..255

\* Where publish_sensor_state is in its list of topics.
TopicInv ==
  IF tpc \in {"snprintf", "publish", "strncat"}
  THEN topic \in 1..6 /\ logged = topic - 1
  ELSE topic \in {1, 7} /\ logged = topic - 1

\* send_data copies at most what it measured.
CopyInv ==
  /\ got <= want
  /\ hpc \notin {"copy", "send"} => want = 0 /\ got = 0 /\ nul = FALSE
  /\ hpc # "load" => todo = {}

TInv == TypeOK /\ StoreInv /\ TopicInv /\ CopyInv

-----------------------------------------------------------------------------

LEMMA TypeInit == Init => TInv
<1> SUFFICES ASSUME Init PROVE TInv
  OBVIOUS
<1> USE DEF Init
<1>1. suelo \in 0..102
  BY SoilRange
<1>2. MemTypeOK
  BY <1>1 DEF MemTypeOK, Zeroed, Globals, RangeOf, AlarmaRiego
<1>3. TimerTypeOK
  BY <1>1, TopicFacts DEF TimerTypeOK, Zeroed, Globals, TimerPcs
<1>4. HttpTypeOK
  <2>1. hpc \in HttpPcs /\ snap \in [Globals -> Int] /\ todo \subseteq Globals
    BY DEF HttpPcs, Zeroed
  <2>2. gpio \in 0..1 /\ want \in 0..Len(Topics) /\ got \in 0..Len(Topics)
    BY TopicFacts
  <2>3. nul \in BOOLEAN /\ quiet \in BOOLEAN
    OBVIOUS
  <2>4. QED
    BY <2>1, <2>2, <2>3 DEF HttpTypeOK
<1>5. StoreInv /\ TopicInv /\ CopyInv
  BY DEF StoreInv, TopicInv, CopyInv
<1>6. QED
  BY <1>2, <1>3, <1>4, <1>5 DEF TInv, TypeOK

\* A store puts a value of the global's own range in it.
LEMMA StoreTyped ==
  ASSUME TInv, NEW g \in Globals, tpc \in {"store_dht", "store_suelo"}, g \in pend
  PROVE  ValueFor(g) \in RangeOf(g)
<1>1. CASE tpc = "store_dht"
  BY <1>1 DEF TInv, TypeOK, TimerTypeOK, StoreInv, ValueFor, RangeOf
<1>2. CASE tpc = "store_suelo"
  <2>1. suelo \in 0..102 /\ mem["alarmariego"] \in 0..1
    BY DEF TInv, TypeOK, TimerTypeOK, MemTypeOK, Globals, RangeOf
  <2>2. g \in {"humedadsuelo", "alarmariego"}
    BY <1>2 DEF TInv, StoreInv
  <2>3. QED
    BY <2>1, <2>2 DEF ValueFor, RangeOf, AlarmaRiego
<1>3. QED
  BY <1>1, <1>2

LEMMA MemTyped == TInv /\ [Next]_vars => MemTypeOK'
<1> SUFFICES ASSUME TInv, [Next]_vars PROVE MemTypeOK'
  OBVIOUS
<1>1. CASE UNCHANGED mem
  BY <1>1 DEF TInv, TypeOK, MemTypeOK
<1>2. ASSUME NEW g \in Globals, StoreGlobal(g) PROVE MemTypeOK'
  <2>1. ValueFor(g) \in RangeOf(g) /\ RangeOf(g) \subseteq Int
    BY <1>2, StoreTyped DEF StoreGlobal, RangeOf, Globals
  <2>2. QED
    BY <1>2, <2>1 DEF StoreGlobal, TInv, TypeOK, MemTypeOK
<1>3. CASE ToggleRegar
  <2>1. 1 - mem["regar"] \in RangeOf("regar") /\ "regar" \in Globals
    BY DEF TInv, TypeOK, MemTypeOK, RangeOf, Globals
  <2>2. RangeOf("regar") \subseteq Int
    BY DEF RangeOf
  <2>3. QED
    BY <1>3, <2>1, <2>2 DEF ToggleRegar, TInv, TypeOK, MemTypeOK
<1>4. QED
  BY <1>1, <1>2, <1>3 DEF Next, TimerTask, Request, Respond, vars,
     TimerFires, LeerDht, LeerHumedadSuelo, ClearLogs, FormatMessage,
     PublishMessage, AppendLog, SetLevel, SendData, LoadGlobal, LogLength,
     CopyEntry, JsonReady, SendReply

\* A good reading of the DHT11 is a pair of bytes, a failed one -1 and -1.
LEMMA ReadingTyped ==
  ASSUME NEW r \in {DhtOk(x) : x \in DhtReadings} \cup {DhtError}
  PROVE  /\ r \in [status : {"ok", "error"}, humidity : -1..255,
                    temperature : -1..255]
         /\ r.status = "ok" => /\ r.humidity \in 0..255
                               /\ r.temperature \in 0..255
                               /\ <<r.humidity, r.temperature>> \in AirPairs
         /\ StoresAfterDht(r) # {} => r.status = "ok"
         /\ StoresAfterDht(r) \subseteq {"humidity", "temperature"}
<1>1. CASE r = DhtError
  BY <1>1 DEF DhtError, StoresAfterDht
<1>2. ASSUME NEW x \in DhtReadings, r = DhtOk(x)
      PROVE  /\ r \in [status : {"ok"}, humidity : 0..255, temperature : 0..255]
             /\ <<r.humidity, r.temperature>> \in AirPairs
  BY <1>2, DhtAssumption DEF DhtOk, AirPairs
<1>3. QED
  BY <1>1, <1>2 DEF StoresAfterDht

\* The two steps of the timer task that take in a sample.
LEMMA SampleTyped ==
  ASSUME TInv, LeerDht \/ LeerHumedadSuelo
  PROVE  TimerTypeOK' /\ StoreInv' /\ TopicInv'
<1>1. CASE LeerDht
  <2>1. dht11_data' \in {DhtOk(r) : r \in DhtReadings} \cup {DhtError}
    BY <1>1 DEF LeerDht
  <2>2. pend' \subseteq {"humidity", "temperature"}
    BY <1>1, <2>1, ReadingTyped DEF LeerDht
  <2>3. dht11_data' \in [status : {"ok", "error"}, humidity : -1..255,
                         temperature : -1..255]
    BY <2>1, ReadingTyped
  <2>4. TimerTypeOK'
    BY <1>1, <2>2, <2>3
    DEF LeerDht, TInv, TypeOK, TimerTypeOK, TimerPcs, Globals
  <2>5. StoreInv'
    BY <1>1, <2>1, <2>2, ReadingTyped DEF LeerDht, StoreInv
  <2>6. TopicInv'
    BY <1>1 DEF LeerDht, TInv, TopicInv
  <2>7. QED
    BY <2>4, <2>5, <2>6
<1>2. CASE LeerHumedadSuelo
  <2>1. suelo' \in 0..102
    BY <1>2, SoilRange DEF LeerHumedadSuelo
  <2>2. /\ pend' \subseteq {"humedadsuelo", "alarmariego"} /\ pend' # {}
        /\ "alarmariego" \in pend' => suelo' # 50
    BY <1>2 DEF LeerHumedadSuelo
  <2>3. TimerTypeOK'
    BY <1>2, <2>1, <2>2
    DEF LeerHumedadSuelo, TInv, TypeOK, TimerTypeOK, TimerPcs, Globals
  <2>4. StoreInv'
    BY <1>2, <2>2 DEF LeerHumedadSuelo, TInv, StoreInv
  <2>5. TopicInv'
    BY <1>2 DEF LeerHumedadSuelo, TInv, TopicInv
  <2>6. QED
    BY <2>3, <2>4, <2>5
<1>3. QED
  BY <1>1, <1>2

\* The steps of publish_sensor_state walk once through the six topics.
LEMMA PublishTyped ==
  ASSUME TInv, ClearLogs \/ FormatMessage \/ PublishMessage \/ AppendLog
  PROVE  TimerTypeOK' /\ StoreInv' /\ TopicInv'
<1> USE TopicFacts DEF TInv, TypeOK
<1>1. CASE ClearLogs
  <2>1. TimerTypeOK'
    BY <1>1 DEF ClearLogs, TimerTypeOK, TimerPcs, Zeroed
  <2>2. StoreInv' /\ TopicInv'
    BY <1>1 DEF ClearLogs, StoreInv, TopicInv
  <2>3. QED
    BY <2>1, <2>2
<1>2. CASE FormatMessage
  <2>1. message' \in Int
    BY <1>2 DEF FormatMessage, MessageFor, MemTypeOK
  <2>2. TimerTypeOK'
    BY <1>2, <2>1 DEF FormatMessage, TimerTypeOK, TimerPcs
  <2>3. StoreInv' /\ TopicInv'
    BY <1>2 DEF FormatMessage, StoreInv, TopicInv
  <2>4. QED
    BY <2>2, <2>3
<1>3. CASE PublishMessage
  <2>1. sent' \in [Globals -> Int]
    BY <1>3 DEF PublishMessage, TimerTypeOK
  <2>2. TimerTypeOK'
    BY <1>3, <2>1 DEF PublishMessage, TimerTypeOK, TimerPcs
  <2>3. StoreInv' /\ TopicInv'
    BY <1>3 DEF PublishMessage, StoreInv, TopicInv
  <2>4. QED
    BY <2>2, <2>3
<1>4. CASE AppendLog
  <2>1. topic \in 1..6 /\ logged = topic - 1
    BY <1>4 DEF AppendLog, TopicInv
  <2>2. TimerTypeOK'
    BY <1>4, <2>1 DEF AppendLog, TimerTypeOK, TimerPcs
  <2>3. StoreInv' /\ TopicInv'
    BY <1>4, <2>1 DEF AppendLog, StoreInv, TopicInv
  <2>4. QED
    BY <2>2, <2>3
<1>5. QED
  BY <1>1, <1>2, <1>3, <1>4

LEMMA TimerTyped ==
  TInv /\ [Next]_vars => TimerTypeOK' /\ StoreInv' /\ TopicInv'
<1> SUFFICES ASSUME TInv, [Next]_vars
             PROVE  TimerTypeOK' /\ StoreInv' /\ TopicInv'
  OBVIOUS
<1>1. CASE UNCHANGED timerVars
  BY <1>1 DEF timerVars, TInv, TypeOK, TimerTypeOK, StoreInv, TopicInv
<1>2. CASE TimerFires
  BY <1>2 DEF TimerFires, TInv, TypeOK, TimerTypeOK, TimerPcs, StoreInv, TopicInv
<1>3. ASSUME NEW g \in Globals, StoreGlobal(g)
      PROVE  TimerTypeOK' /\ StoreInv' /\ TopicInv'
  BY <1>3 DEF StoreGlobal, TInv, TypeOK, TimerTypeOK, TimerPcs, StoreInv, TopicInv
<1>4. QED
  BY <1>1, <1>2, <1>3, SampleTyped, PublishTyped
  DEF Next, TimerTask, Request, Respond, vars, timerVars, ToggleRegar, SetLevel,
      SendData, LoadGlobal, LogLength, CopyEntry, JsonReady, SendReply

LEMMA HttpTyped == TInv /\ [Next]_vars => HttpTypeOK' /\ CopyInv'
<1> SUFFICES ASSUME TInv, [Next]_vars PROVE HttpTypeOK' /\ CopyInv'
  OBVIOUS
<1> USE TopicFacts DEF TInv, TypeOK, HttpTypeOK, HttpPcs, CopyInv
<1>1. CASE UNCHANGED httpVars /\ (UNCHANGED quiet \/ quiet' = FALSE)
  BY <1>1 DEF httpVars
<1>2. CASE ToggleRegar
  BY <1>2 DEF ToggleRegar
<1>3. CASE SetLevel
  BY <1>3 DEF SetLevel, LevelOfRegar, MemTypeOK, RangeOf, Globals
<1>4. CASE SendData
  BY <1>4 DEF SendData
<1>5. ASSUME NEW g \in Globals, LoadGlobal(g) PROVE HttpTypeOK' /\ CopyInv'
  BY <1>5 DEF LoadGlobal, Loaded, MemTypeOK
<1>6. CASE LogLength
  BY <1>6 DEF LogLength, TimerTypeOK
<1>7. CASE CopyEntry
  BY <1>7 DEF CopyEntry
<1>8. CASE JsonReady
  BY <1>8 DEF JsonReady
<1>9. CASE SendReply
  <2>1. snap' \in [Globals -> Int] /\ want' = 0 /\ got' = 0 /\ hpc' = "idle"
    BY <1>9 DEF SendReply, Zeroed
  <2>2. nul' \in BOOLEAN /\ quiet' \in BOOLEAN /\ nul' = FALSE
    BY <1>9 DEF SendReply
  <2>3. gpio' = gpio /\ todo' = todo /\ todo = {}
    BY <1>9 DEF SendReply
  <2>4. QED
    BY <2>1, <2>2, <2>3
<1>10. CASE TimerTask
  BY <1>10, <1>1 DEF TimerTask, TimerFires, LeerDht, LeerHumedadSuelo, StoreGlobal,
     ClearLogs, FormatMessage, PublishMessage, AppendLog
<1>11. QED
  BY <1>1, <1>2, <1>3, <1>4, <1>5, <1>6, <1>7, <1>8, <1>9, <1>10
  DEF Next, Request, Respond, vars

\* Every global stays in its range (a failed DHT11 reading never reaches one,
\* the soil stays at most 102), for any readings and samples.
THEOREM TypeCorrect == Spec => []TypeOK
<1>1. Init => TInv
  BY TypeInit
<1>2. TInv /\ [Next]_vars => TInv'
  BY MemTyped, TimerTyped, HttpTyped DEF TInv, TypeOK
<1>3. TInv => TypeOK
  BY DEF TInv
<1>4. QED
  BY <1>1, <1>2, <1>3, PTL DEF Spec

-----------------------------------------------------------------------------
(* Reports.  While the timer task is between two stores the pair in memory *)
(* is torn, and while it formats, what was sent must still be in memory:   *)
(* neither property is inductive without saying so.                        *)

\* The pair in memory, or the one being stored, is of one reading.
AirInv ==
  /\ dht11_data.status = "ok"
       => <<dht11_data.humidity, dht11_data.temperature>> \in AirPairs
  /\ tpc # "store_dht" => <<mem["humidity"], mem["temperature"]>> \in AirPairs
  /\ tpc = "store_dht"
       => \A g \in {"humidity", "temperature"} \ pend : mem[g] = dht11_data[g]

Agrees(s, a) == (s > 50 => a = 0) /\ (s < 50 => a = 1)

\* The alarm in memory agrees with the soil in memory, or each has been
\* stored from the sample being stored.
SoilInv ==
  /\ tpc # "store_suelo" => Agrees(mem["humedadsuelo"], mem["alarmariego"])
  /\ tpc = "store_suelo"
       => /\ "humedadsuelo" \notin pend => mem["humedadsuelo"] = suelo
          /\ "alarmariego" \notin pend => Agrees(suelo, mem["alarmariego"])

\* In a report, every sensor value sent or about to be sent is still the one
\* in memory.
FreshInv ==
  Telling =>
    /\ \A g \in Globals \ {"regar"} : Sent(g) => sent[g] = mem[g]
    /\ tpc = "publish" /\ Topics[topic] \in Globals \ {"regar"}
         => message = mem[Topics[topic]]

ReportInv == AirInv /\ SoilInv /\ FreshInv /\ OneReadingPerReport /\ AlarmAgreesWithSoil

LEMMA ReportInit == Init => ReportInv
<1> SUFFICES ASSUME Init PROVE ReportInv
  OBVIOUS
<1>1. AirInv
  BY DEF Init, AirInv, AirPairs, Zeroed, Globals
<1>2. SoilInv
  BY SoilRange DEF Init, SoilInv, Agrees, Zeroed, Globals, AlarmaRiego
<1>3. SentUpTo = 0 /\ ~Telling
  BY DEF Init, SentUpTo, Telling
<1>4. FreshInv /\ OneReadingPerReport /\ AlarmAgreesWithSoil
  BY <1>3 DEF FreshInv, OneReadingPerReport, AlarmAgreesWithSoil, Sent
<1>5. QED
  BY <1>1, <1>2, <1>4 DEF ReportInv

LEMMA AirStep == TInv /\ AirInv /\ [Next]_vars => AirInv'
<1> SUFFICES ASSUME TInv, AirInv, [Next]_vars PROVE AirInv'
  OBVIOUS
<1> USE DEF AirInv
<1>1. CASE UNCHANGED <<mem, dht11_data, pend>> /\ ("store_dht" \notin {tpc, tpc'} \/ tpc' = tpc)
  BY <1>1 DEF AirPairs
<1>2. CASE LeerDht
  <2>1. dht11_data'.status = "ok"
          => <<dht11_data'.humidity, dht11_data'.temperature>> \in AirPairs
    BY <1>2, ReadingTyped DEF LeerDht
  <2>2. tpc' = "store_dht" => pend' = {"humidity", "temperature"}
    BY <1>2 DEF LeerDht, StoresAfterDht
  <2>3. UNCHANGED mem /\ tpc # "store_dht"
    BY <1>2 DEF LeerDht
  <2>4. QED
    BY <2>1, <2>2, <2>3 DEF AirPairs
<1>3. CASE LeerHumedadSuelo
  BY <1>3 DEF LeerHumedadSuelo, AirPairs
<1>4. ASSUME NEW g \in Globals, StoreGlobal(g) PROVE AirInv'
  <2>1. CASE tpc = "store_dht"
    <3>1. mem' = [mem EXCEPT ![g] = dht11_data[g]] /\ g \in {"humidity", "temperature"}
      BY <1>4, <2>1 DEF StoreGlobal, ValueFor, TInv, StoreInv
    <3>2. \A h \in {"humidity", "temperature"} \ pend' : mem'[h] = dht11_data[h]
      BY <1>4, <2>1, <3>1 DEF StoreGlobal, TInv, TypeOK, MemTypeOK
    <3>3. tpc' # "store_dht" => pend' = {}
      BY <1>4, <2>1 DEF StoreGlobal
    <3>4. UNCHANGED dht11_data /\ dht11_data.status = "ok"
      BY <1>4, <2>1 DEF StoreGlobal, TInv, StoreInv
    <3>5. QED
      BY <3>2, <3>3, <3>4 DEF AirPairs
  <2>2. CASE tpc = "store_suelo"
    <3>1. g \in {"humedadsuelo", "alarmariego"} /\ tpc' # "store_dht"
      BY <1>4, <2>2 DEF StoreGlobal, TInv, StoreInv
    <3>2. mem'["humidity"] = mem["humidity"] /\ mem'["temperature"] = mem["temperature"]
      BY <1>4, <3>1 DEF StoreGlobal, TInv, TypeOK, MemTypeOK, Globals
    <3>3. QED
      BY <1>4, <2>2, <3>1, <3>2 DEF StoreGlobal, AirPairs
  <2>3. QED
    BY <1>4, <2>1, <2>2 DEF StoreGlobal
<1>5. CASE ToggleRegar
  <2>1. \A g \in {"humidity", "temperature"} : mem'[g] = mem[g]
    BY <1>5 DEF ToggleRegar, TInv, TypeOK, MemTypeOK, Globals
  <2>2. QED
    BY <1>5, <2>1 DEF ToggleRegar, timerVars, AirPairs
<1>6. QED
  BY <1>1, <1>2, <1>3, <1>4, <1>5 DEF Next, TimerTask, Request, Respond, vars,
     timerVars, TimerFires, ClearLogs, FormatMessage, PublishMessage, AppendLog,
     SetLevel, SendData, LoadGlobal, LogLength, CopyEntry, JsonReady, SendReply

LEMMA SoilStep == TInv /\ SoilInv /\ [Next]_vars => SoilInv'
<1> SUFFICES ASSUME TInv, SoilInv, [Next]_vars PROVE SoilInv'
  OBVIOUS
<1> USE DEF SoilInv, Agrees
<1>1. CASE UNCHANGED <<mem, suelo, pend>> /\ ("store_suelo" \notin {tpc, tpc'} \/ tpc' = tpc)
  BY <1>1
<1>2. CASE LeerDht
  BY <1>2 DEF LeerDht
<1>3. CASE LeerHumedadSuelo
  <2>1. "humedadsuelo" \in pend' /\ tpc' = "store_suelo"
    BY <1>3 DEF LeerHumedadSuelo
  <2>2. "alarmariego" \notin pend' => suelo' = 50
    BY <1>3 DEF LeerHumedadSuelo
  <2>3. QED
    BY <2>1, <2>2
<1>4. ASSUME NEW g \in Globals, StoreGlobal(g) PROVE SoilInv'
  <2>1. CASE tpc = "store_suelo"
    <3>1. g \in {"humedadsuelo", "alarmariego"} /\ g \in pend
      BY <1>4, <2>1 DEF StoreGlobal, TInv, StoreInv
    <3>2. UNCHANGED suelo /\ pend' = pend \ {g} /\ suelo \in Int
      BY <1>4 DEF StoreGlobal, TInv, TypeOK, TimerTypeOK
    <3>3. CASE g = "humedadsuelo"
      <4>1. mem'["humedadsuelo"] = suelo /\ mem'["alarmariego"] = mem["alarmariego"]
        BY <1>4, <3>3 DEF StoreGlobal, ValueFor, TInv, TypeOK, MemTypeOK, Globals
      <4>2. tpc' # "store_suelo" => pend' = {}
        BY <1>4, <2>1 DEF StoreGlobal
      <4>3. QED
        BY <2>1, <3>2, <3>3, <4>1, <4>2
    <3>4. CASE g = "alarmariego"
      <4>1. /\ mem'["alarmariego"] = AlarmaRiego(suelo, mem["alarmariego"])
            /\ mem'["humedadsuelo"] = mem["humedadsuelo"]
        BY <1>4, <3>4 DEF StoreGlobal, ValueFor, TInv, TypeOK, MemTypeOK, Globals
      <4>2. tpc' # "store_suelo" => pend' = {}
        BY <1>4, <2>1 DEF StoreGlobal
      <4>3. QED
        BY <2>1, <3>2, <3>4, <4>1, <4>2 DEF AlarmaRiego
    <3>5. QED
      BY <3>1, <3>3, <3>4
  <2>2. CASE tpc = "store_dht"
    <3>1. g \in {"humidity", "temperature"} /\ tpc' # "store_suelo"
      BY <1>4, <2>2 DEF StoreGlobal, TInv, StoreInv
    <3>2. /\ mem'["humedadsuelo"] = mem["humedadsuelo"]
          /\ mem'["alarmariego"] = mem["alarmariego"]
      BY <1>4, <3>1 DEF StoreGlobal, TInv, TypeOK, MemTypeOK, Globals
    <3>3. QED
      BY <2>2, <3>1, <3>2
  <2>3. QED
    BY <1>4, <2>1, <2>2 DEF StoreGlobal
<1>5. CASE ToggleRegar
  <2>1. \A g \in {"humedadsuelo", "alarmariego"} : mem'[g] = mem[g]
    BY <1>5 DEF ToggleRegar, TInv, TypeOK, MemTypeOK, Globals
  <2>2. QED
    BY <1>5, <2>1 DEF ToggleRegar, timerVars
<1>6. QED
  BY <1>1, <1>2, <1>3, <1>4, <1>5 DEF Next, TimerTask, Request, Respond, vars,
     timerVars, TimerFires, ClearLogs, FormatMessage, PublishMessage, AppendLog,
     SetLevel, SendData, LoadGlobal, LogLength, CopyEntry, JsonReady, SendReply

\* Only the timer task stores anything but regar, and not while it tells.
LEMMA NothingStoredWhileTelling ==
  ASSUME TInv, [Next]_vars, Telling
  PROVE  \A g \in Globals \ {"regar"} : mem'[g] = mem[g]
<1>1. ASSUME NEW g \in Globals, StoreGlobal(g) PROVE FALSE
  BY <1>1 DEF StoreGlobal, Telling
<1>2. CASE ToggleRegar
  BY <1>2 DEF ToggleRegar, TInv, TypeOK, MemTypeOK
<1>3. QED
  BY <1>1, <1>2 DEF Next, TimerTask, Request, Respond, vars, TimerFires, LeerDht,
     LeerHumedadSuelo, ClearLogs, FormatMessage, PublishMessage, AppendLog,
     SetLevel, SendData, LoadGlobal, LogLength, CopyEntry, JsonReady, SendReply

LEMMA FreshStep == TInv /\ FreshInv /\ [Next]_vars => FreshInv'
<1> SUFFICES ASSUME TInv, FreshInv, [Next]_vars, Telling' PROVE FreshInv'
  BY DEF FreshInv
<1> USE TopicFacts DEF TInv, TopicInv
<1>1. CASE UNCHANGED timerVars
  BY <1>1, NothingStoredWhileTelling
  DEF timerVars, FreshInv, Telling, Sent, SentUpTo
<1>2. CASE ClearLogs
  <2>1. \A g \in Globals : ~Sent(g)'
    BY <1>2 DEF ClearLogs, Sent, SentUpTo
  <2>2. QED
    BY <1>2, <2>1 DEF ClearLogs, FreshInv
<1>3. CASE FormatMessage
  <2>1. \A g \in Globals : Sent(g)' <=> Sent(g)
    BY <1>3 DEF FormatMessage, Sent, SentUpTo
  <2>2. QED
    BY <1>3, <2>1 DEF FormatMessage, FreshInv, MessageFor, Telling
<1>4. CASE PublishMessage
  <2>1. topic \in 1..6 /\ tpc = "publish" /\ tpc' = "strncat" /\ UNCHANGED <<mem, topic>>
    BY <1>4 DEF PublishMessage
  <2>2. ASSUME NEW g \in Globals \ {"regar"}, Sent(g)' PROVE sent'[g] = mem'[g]
    <3>1. CASE g = Topics[topic]
      BY <1>4, <2>1, <3>1 DEF PublishMessage, FreshInv, Telling, TypeOK, TimerTypeOK
    <3>2. CASE g # Topics[topic]
      <4>1. Sent(g)
        BY <2>1, <2>2, <3>2 DEF Sent, SentUpTo
      <4>2. sent'[g] = sent[g]
        BY <1>4, <3>2 DEF PublishMessage, TypeOK, TimerTypeOK
      <4>3. QED
        BY <2>1, <4>1, <4>2 DEF FreshInv, Telling
    <3>3. QED
      BY <3>1, <3>2
  <2>3. QED
    BY <2>1, <2>2 DEF FreshInv
<1>5. CASE AppendLog
  <2>1. \A g \in Globals : Sent(g)' <=> Sent(g)
    BY <1>5 DEF AppendLog, Sent, SentUpTo, Telling
  <2>2. QED
    BY <1>5, <2>1 DEF AppendLog, FreshInv, Telling
<1>6. QED
  BY <1>1, <1>2, <1>3, <1>4, <1>5 DEF Next, TimerTask, Request, Respond, vars,
     timerVars, TimerFires, LeerDht, LeerHumedadSuelo, StoreGlobal, ToggleRegar,
     SetLevel, SendData, LoadGlobal, LogLength, CopyEntry, JsonReady, SendReply,
     Telling, TypeOK, StoreInv

\* The two properties of a report hold of what memory holds while it is told,
\* and what was sent stays as it is until the next report begins.
LEMMA ReportStep == TInv /\ ReportInv /\ [Next]_vars => ReportInv'
<1> SUFFICES ASSUME TInv, ReportInv, [Next]_vars PROVE ReportInv'
  OBVIOUS
<1>1. AirInv' /\ SoilInv' /\ FreshInv'
  BY AirStep, SoilStep, FreshStep DEF ReportInv
<1>2. CASE Telling'
  <2>1. tpc' \notin {"store_dht", "store_suelo"}
    BY <1>2 DEF Telling
  <2>2. {"humidity", "temperature", "humedadsuelo", "alarmariego"} \subseteq Globals \ {"regar"}
    BY DEF Globals
  <2>3. OneReadingPerReport'
    <3>1. SUFFICES ASSUME Sent("humidity")', Sent("temperature")'
                   PROVE  <<sent'["humidity"], sent'["temperature"]>> \in AirPairs'
      BY DEF OneReadingPerReport
    <3>2. QED
      BY <1>1, <1>2, <2>1, <2>2, <3>1 DEF FreshInv, AirInv
  <2>4. AlarmAgreesWithSoil'
    <3>1. SUFFICES ASSUME Sent("alarmariego")', Sent("humedadsuelo")'
                   PROVE  Agrees(sent'["humedadsuelo"], sent'["alarmariego"])
      BY DEF AlarmAgreesWithSoil, Agrees
    <3>2. QED
      BY <1>1, <1>2, <2>1, <2>2, <3>1 DEF FreshInv, SoilInv, Agrees
  <2>5. QED
    BY <1>1, <2>3, <2>4 DEF ReportInv
<1>3. CASE ~Telling'
  <2>1. CASE UNCHANGED sent /\ \A g \in Globals : Sent(g)' <=> Sent(g)
    <3>1. Sent("humidity")' <=> Sent("humidity")
      BY <2>1 DEF Globals
    <3>2. Sent("temperature")' <=> Sent("temperature")
      BY <2>1 DEF Globals
    <3>3. Sent("alarmariego")' <=> Sent("alarmariego")
      BY <2>1 DEF Globals
    <3>4. Sent("humedadsuelo")' <=> Sent("humedadsuelo")
      BY <2>1 DEF Globals
    <3>5. AirPairs' = AirPairs
      BY DEF AirPairs
    <3>6. QED
      BY <1>1, <2>1, <3>1, <3>2, <3>3, <3>4, <3>5
      DEF ReportInv, OneReadingPerReport, AlarmAgreesWithSoil
  <2>2. SentUpTo' = SentUpTo /\ UNCHANGED sent
    BY <1>3, TopicFacts DEF Telling, SentUpTo, TInv, TypeOK, TimerTypeOK, Next,
       TimerTask, Request, Respond, vars, timerVars, TimerFires, LeerDht,
       LeerHumedadSuelo, StoreGlobal, ClearLogs, FormatMessage, PublishMessage,
       AppendLog, ToggleRegar, SetLevel, SendData, LoadGlobal, LogLength,
       CopyEntry, JsonReady, SendReply
  <2>3. QED
    BY <2>1, <2>2 DEF Sent
<1>4. QED
  BY <1>2, <1>3

-----------------------------------------------------------------------------
(* Replies and the valve.                                                  *)

\* While the timer task is idle, what send_data has loaded and measured stays
\* true of the device: only the HTTP task itself could change it, and it is busy.
ReplyInv ==
  /\ quiet => tpc = "idle" /\ hpc \in {"load", "copy", "send"}
  /\ quiet => \A g \in Globals \ todo : snap[g] = mem[g]
  /\ quiet /\ hpc \in {"copy", "send"} => want = logged /\ ~nul
  /\ hpc = "send" => got = want

LEMMA ReplyStep == TInv /\ ReplyInv /\ [Next]_vars => ReplyInv'
<1> SUFFICES ASSUME TInv, ReplyInv, [Next]_vars PROVE ReplyInv'
  OBVIOUS
<1> USE DEF ReplyInv
<1>1. CASE TimerTask
  <2>1. ~quiet' /\ UNCHANGED <<hpc, got, want>>
    BY <1>1 DEF TimerTask, TimerFires, LeerDht, LeerHumedadSuelo, StoreGlobal,
       ClearLogs, FormatMessage, PublishMessage, AppendLog, httpVars
  <2>2. QED
    BY <2>1
<1>2. CASE ToggleRegar
  BY <1>2 DEF ToggleRegar
<1>3. CASE SetLevel
  BY <1>3 DEF SetLevel
<1>4. CASE SendData
  BY <1>4 DEF SendData, timerVars
<1>5. ASSUME NEW g \in Globals, LoadGlobal(g) PROVE ReplyInv'
  BY <1>5 DEF LoadGlobal, Loaded, timerVars, TInv, TypeOK, HttpTypeOK
<1>6. CASE LogLength
  BY <1>6 DEF LogLength, timerVars, TInv, CopyInv
<1>7. CASE CopyEntry
  BY <1>7 DEF CopyEntry, timerVars, TInv, TypeOK, HttpTypeOK
<1>8. CASE JsonReady
  BY <1>8 DEF JsonReady, timerVars
<1>9. CASE SendReply
  BY <1>9 DEF SendReply
<1>10. CASE UNCHANGED vars
  BY <1>10 DEF vars, timerVars, httpVars
<1>11. QED
  BY <1>1, <1>2, <1>3, <1>4, <1>5, <1>6, <1>7, <1>8, <1>9, <1>10
  DEF Next, Request, Respond

LEMMA ReplyExact == TInv /\ ReplyInv => QuietReplyIsExact
<1> SUFFICES ASSUME TInv, ReplyInv, hpc = "send", quiet
             PROVE  snap = mem /\ got = logged /\ ~nul
  BY DEF QuietReplyIsExact
<1>1. todo = {}
  BY DEF TInv, CopyInv
<1>2. \A g \in Globals : snap[g] = mem[g]
  BY <1>1 DEF ReplyInv
<1>3. snap = mem
  BY <1>2 DEF TInv, TypeOK, HttpTypeOK, MemTypeOK
<1>4. QED
  BY <1>3 DEF ReplyInv

\* The inductive invariant of the telemetry.
IInv == TInv /\ ReportInv /\ ReplyInv

LEMMA IInvInductive ==
  /\ Init => IInv
  /\ IInv /\ [Next]_vars => IInv'
<1>1. Init => ReplyInv
  BY DEF Init, ReplyInv, Zeroed, Globals
<1>2. Init => IInv
  BY <1>1, TypeInit, ReportInit DEF IInv
<1>3. TInv /\ [Next]_vars => TInv'
  BY MemTyped, TimerTyped, HttpTyped DEF TInv, TypeOK
<1>4. QED
  BY <1>2, <1>3, ReportStep, ReplyStep DEF IInv

\* One report never mixes two DHT11 readings, and its alarm never contradicts
\* its soil humidity, however the two tasks interleave.
THEOREM ReportsConsistent == Spec => [](OneReadingPerReport /\ AlarmAgreesWithSoil)
<1>1. IInv => OneReadingPerReport /\ AlarmAgreesWithSoil
  BY DEF IInv, ReportInv
<1>2. QED
  BY <1>1, IInvInductive, PTL DEF Spec

\* The alarm of a report is that of the soil humidity it reports.
THEOREM AlarmAgrees == Spec => []AlarmAgreesWithSoil
BY ReportsConsistent, PTL

\* A reply that no round overlapped is the device's state, with an uncut log.
THEOREM QuietRepliesExact == Spec => []QuietReplyIsExact
<1>1. IInv => QuietReplyIsExact
  BY ReplyExact DEF IInv
<1>2. QED
  BY <1>1, IInvInductive, PTL DEF Spec

-----------------------------------------------------------------------------
(* Telemetry implements Greenhouse: one step lemma per abstract action, and *)
(* one for the steps that the abstract specification does not see.         *)

AbsPhase == IF Telling THEN "tell" ELSE "sample"

absVars == <<AbsAir, AbsSoil, AbsAlarm, mem["regar"], AbsPhase, AbsTold, AbsReport>>

LEMMA RefineInit == Init => G!AInit
<1> SUFFICES ASSUME Init PROVE G!AInit
  OBVIOUS
<1>1. tpc = "idle" /\ ToldUpTo = 0 /\ ~Telling
  BY DEF Init, ToldUpTo, Telling
<1>2. AbsAir = [humidity |-> 0, temperature |-> 0]
  BY <1>1 DEF Init, AbsAir, Zeroed, Globals
<1>3. AbsSoil = suelo /\ AbsAlarm = AlarmaRiego(suelo, 0) /\ mem["regar"] = 0
  BY <1>1 DEF Init, AbsSoil, AbsAlarm, Zeroed, Globals
<1>4. AbsTold = {} /\ AbsReport = Zeroed
  BY <1>1 DEF Init, AbsTold, AbsReport
<1>5. QED
  BY <1>1, <1>2, <1>3, <1>4 DEF Init, G!AInit, G!SoilOf, G!AlarmAfter,
     G!Quantities, HumedadSuelo, AlarmaRiego, Zeroed, Globals

LEMMA RefineSampleAir == ASSUME IInv, LeerDht PROVE G!SampleAir \/ UNCHANGED absVars
<1> USE DEF LeerDht
<1>1. tpc = "leer_Dht" /\ ~Telling /\ ~Telling' /\ ToldUpTo' = ToldUpTo
  BY DEF Telling, ToldUpTo
<1>2. UNCHANGED <<mem["regar"], AbsSoil, AbsAlarm, AbsTold, AbsReport, AbsPhase>>
  BY <1>1 DEF AbsSoil, AbsAlarm, AbsTold, AbsReport, AbsPhase
<1>3. CASE dht11_data' = DhtError
  BY <1>1, <1>2, <1>3 DEF absVars, AbsAir, DhtError, StoresAfterDht
<1>4. ASSUME NEW r \in DhtReadings, dht11_data' = DhtOk(r) PROVE G!SampleAir
  <2>1. tpc' = "store_dht"
    BY <1>4 DEF DhtOk, StoresAfterDht
  <2>2. AbsAir' = [humidity |-> r.humidity, temperature |-> r.temperature]
    BY <1>4, <2>1 DEF DhtOk, AbsAir
  <2>3. QED
    BY <1>1, <1>2, <2>2 DEF G!SampleAir, AbsPhase
<1>5. QED
  BY <1>3, <1>4

LEMMA RefineSampleSoil == ASSUME IInv, LeerHumedadSuelo PROVE G!SampleSoil
<1> USE DEF LeerHumedadSuelo
<1>1. ~Telling /\ ~Telling' /\ ToldUpTo' = ToldUpTo
  BY DEF Telling, ToldUpTo
<1>2. UNCHANGED <<mem["regar"], AbsAir, AbsTold, AbsReport>>
  BY <1>1 DEF AbsAir, AbsTold, AbsReport
<1>3. AbsSoil' = suelo' /\ AbsAlarm' = AlarmaRiego(suelo', AbsAlarm)
  BY DEF AbsSoil, AbsAlarm
<1>4. QED
  BY <1>1, <1>2, <1>3
  DEF G!SampleSoil, G!SoilOf, G!AlarmAfter, HumedadSuelo, AlarmaRiego

\* The abstract sample already holds what is being stored.
LEMMA RefineStore ==
  ASSUME IInv, NEW g \in Globals, StoreGlobal(g)
  PROVE  UNCHANGED absVars
<1> USE DEF StoreGlobal, IInv, TInv, TypeOK
<1>1. ~Telling /\ ~Telling' /\ ToldUpTo' = ToldUpTo
  BY DEF Telling, ToldUpTo
<1>2. UNCHANGED <<AbsTold, AbsReport, AbsPhase>>
  BY <1>1 DEF AbsTold, AbsReport, AbsPhase
<1>3. mem' = [mem EXCEPT ![g] = ValueFor(g)] /\ g # "regar" /\ mem \in [Globals -> Int]
  BY DEF MemTypeOK, TimerTypeOK
<1>4. mem'["regar"] = mem["regar"]
  BY <1>3 DEF Globals
<1>5. CASE tpc = "store_dht"
  <2>1. g \in {"humidity", "temperature"} /\ ValueFor(g) = dht11_data[g]
    BY <1>5 DEF StoreInv, ValueFor
  <2>2. AbsAir' = AbsAir
    <3>1. CASE tpc' = "store_dht"
      BY <1>5, <3>1 DEF AbsAir
    <3>2. CASE tpc' # "store_dht"
      <4>1. \A h \in {"humidity", "temperature"} : mem'[h] = dht11_data[h]
        BY <1>3, <1>5, <2>1, <3>2 DEF ReportInv, AirInv, Globals
      <4>2. QED
        BY <1>5, <3>2, <4>1 DEF AbsAir
    <3>3. QED
      BY <3>1, <3>2
  <2>3. UNCHANGED <<AbsSoil, AbsAlarm>>
    BY <1>3, <1>5, <2>1 DEF AbsSoil, AbsAlarm, Globals
  <2>4. QED
    BY <1>2, <1>4, <2>2, <2>3 DEF absVars
<1>6. CASE tpc = "store_suelo"
  <2>1. g \in {"humedadsuelo", "alarmariego"} /\ suelo \in Int
    BY <1>6 DEF StoreInv, TimerTypeOK
  <2>2. AbsAir' = AbsAir
    BY <1>3, <1>6, <2>1 DEF AbsAir, Globals
  <2>3. g = "humedadsuelo" => /\ mem'["humedadsuelo"] = suelo
                              /\ mem'["alarmariego"] = mem["alarmariego"]
    BY <1>3 DEF ValueFor, Globals
  <2>4. g = "alarmariego" => /\ mem'["alarmariego"] = AlarmaRiego(suelo, mem["alarmariego"])
                             /\ mem'["humedadsuelo"] = mem["humedadsuelo"]
    BY <1>3 DEF ValueFor, Globals
  <2>5. AbsSoil' = AbsSoil
    BY <1>6, <2>1, <2>3, <2>4 DEF AbsSoil, ReportInv, SoilInv
  <2>6. AlarmaRiego(suelo, mem'["alarmariego"]) = AlarmaRiego(suelo, mem["alarmariego"])
    BY <2>1, <2>3, <2>4 DEF AlarmaRiego
  <2>7. tpc' # "store_suelo" => mem'["alarmariego"] = AlarmaRiego(suelo, mem'["alarmariego"])
    <3>1. "alarmariego" \in pend => suelo # 50
      BY <1>6 DEF StoreInv
    <3>2. CASE g = "alarmariego"
      BY <2>1, <2>4, <3>2 DEF AlarmaRiego
    <3>3. CASE g = "humedadsuelo"
      <4>1. tpc' # "store_suelo" => "alarmariego" \notin pend
        BY <1>6, <3>3
      <4>2. QED
        BY <1>6, <2>1, <2>3, <3>3, <4>1 DEF ReportInv, SoilInv, Agrees, AlarmaRiego
    <3>4. QED
      BY <2>1, <3>2, <3>3
  <2>8. AbsAlarm' = AbsAlarm
    BY <1>6, <2>6, <2>7 DEF AbsAlarm
  <2>9. QED
    BY <1>2, <1>4, <2>2, <2>5, <2>8 DEF absVars
<1>7. QED
  BY <1>5, <1>6

LEMMA RefineClear == ASSUME IInv, ClearLogs PROVE G!BeginReport
<1> USE DEF ClearLogs
<1>1. ~Telling /\ Telling' /\ ToldUpTo' = 0
  BY DEF Telling, ToldUpTo
<1>2. AbsTold' = {}
  BY <1>1 DEF AbsTold
<1>3. AbsReport' = [q \in G!Quantities |-> 0]
  BY DEF AbsReport, Zeroed, Globals, G!Quantities
<1>4. UNCHANGED <<mem["regar"], AbsAir, AbsSoil, AbsAlarm>>
  BY DEF AbsAir, AbsSoil, AbsAlarm
<1>5. QED
  BY <1>1, <1>2, <1>3, <1>4 DEF G!BeginReport

\* Formatting a sensor's message is telling it; the sixth message, the time,
\* is no quantity of Greenhouse.
LEMMA RefineFormat ==
  ASSUME IInv, FormatMessage
  PROVE  (\E q \in Globals : G!Tell(q)) \/ UNCHANGED absVars
<1> USE TopicFacts DEF FormatMessage
<1>1. topic \in 1..6 /\ tpc = "snprintf" /\ tpc' = "publish" /\ UNCHANGED <<mem, sent, topic>>
  BY DEF IInv, TInv, TopicInv
<1>2. Telling /\ Telling' /\ ToldUpTo = topic - 1 /\ ToldUpTo' = topic
  BY <1>1 DEF Telling, ToldUpTo
<1>3. UNCHANGED <<mem["regar"], AbsAir, AbsSoil, AbsAlarm, AbsPhase>>
  BY <1>1, <1>2 DEF AbsAir, AbsSoil, AbsAlarm, AbsPhase
<1>4. CASE topic = 6
  <2>1. Topics[topic] \notin Globals
    BY <1>4 DEF Globals
  <2>2. AbsTold' = AbsTold
    BY <1>1, <1>2, <2>1 DEF AbsTold
  <2>3. AbsReport' = AbsReport
    BY <1>1, <2>1 DEF AbsReport
  <2>4. QED
    BY <1>3, <2>2, <2>3 DEF absVars
<1>5. CASE topic # 6
  <2> DEFINE q == Topics[topic]
  <2>1. q \in Globals
    BY <1>1, <1>5 DEF Globals
  <2>2. \A i \in 1..6 : Topics[i] = q => i = topic
    BY <1>1
  <2>3. q \notin AbsTold
    BY <1>1, <1>2, <2>2 DEF AbsTold
  <2>4. AbsTold' = AbsTold \cup {q}
    BY <1>1, <1>2, <2>1 DEF AbsTold
  <2>5. message' = mem[q]
    BY <2>1 DEF MessageFor
  <2>6. AbsReport = sent /\ AbsReport' = [sent EXCEPT ![q] = mem[q]]
    BY <1>1, <2>1, <2>5 DEF AbsReport
  <2>7. G!Quantity(q) = mem[q]
    BY <1>1, <2>1 DEF G!Quantity, Globals, AbsAir, AbsSoil, AbsAlarm
  <2>8. G!Tell(q)
    BY <1>2, <1>3, <2>3, <2>4, <2>6, <2>7 DEF G!Tell
  <2>9. QED
    BY <2>1, <2>8
<1>6. QED
  BY <1>4, <1>5

\* Handing the message to the client is where memory catches up with what
\* has been told.
LEMMA RefinePublish == ASSUME IInv, PublishMessage PROVE UNCHANGED absVars
<1> USE DEF PublishMessage
<1>1. Telling /\ Telling' /\ ToldUpTo' = ToldUpTo
  BY DEF Telling, ToldUpTo
<1>2. UNCHANGED <<mem["regar"], AbsAir, AbsSoil, AbsAlarm, AbsPhase, AbsTold>>
  BY <1>1 DEF AbsAir, AbsSoil, AbsAlarm, AbsPhase, AbsTold
<1>3. AbsReport' = AbsReport
  BY DEF AbsReport
<1>4. QED
  BY <1>2, <1>3 DEF absVars

LEMMA RefineAppend == ASSUME IInv, AppendLog PROVE G!EndReport \/ UNCHANGED absVars
<1> USE TopicFacts DEF AppendLog
<1>1. topic \in 1..6 /\ tpc = "strncat" /\ UNCHANGED <<mem, sent>> /\ topic' = topic + 1
  BY DEF IInv, TInv, TopicInv
<1>2. Telling /\ ToldUpTo = topic /\ ToldUpTo' = topic
  BY <1>1 DEF Telling, ToldUpTo
<1>3. UNCHANGED <<mem["regar"], AbsAir, AbsSoil, AbsAlarm, AbsTold, AbsReport>>
  BY <1>1, <1>2 DEF AbsAir, AbsSoil, AbsAlarm, AbsTold, AbsReport
<1>4. CASE topic = 6
  <2>1. ~Telling'
    BY <1>4 DEF Telling
  <2>2. AbsTold = G!Quantities
    BY <1>2, <1>4 DEF AbsTold, G!Quantities, Globals
  <2>3. QED
    BY <1>2, <1>3, <2>1, <2>2 DEF G!EndReport
<1>5. CASE topic # 6
  BY <1>2, <1>3, <1>5 DEF absVars, AbsPhase, Telling
<1>6. QED
  BY <1>4, <1>5

LEMMA RefineToggle == ASSUME IInv, ToggleRegar PROVE G!FlipValve
<1> USE DEF ToggleRegar, timerVars
<1>1. mem'["regar"] = 1 - mem["regar"]
      /\ \A g \in Globals \ {"regar"} : mem'[g] = mem[g]
  BY DEF IInv, TInv, TypeOK, MemTypeOK, Globals
<1>2. UNCHANGED <<Telling, ToldUpTo>>
  BY DEF Telling, ToldUpTo
<1>3. UNCHANGED <<AbsAir, AbsSoil, AbsAlarm, AbsTold, AbsReport>>
  BY <1>1, <1>2 DEF AbsAir, AbsSoil, AbsAlarm, AbsTold, AbsReport, Globals
<1>4. QED
  BY <1>1, <1>2, <1>3 DEF G!FlipValve

\* The beginning of a round and every other step of the HTTP task change
\* nothing that Greenhouse sees.
LEMMA RefineUnseen ==
  ASSUME IInv, TimerFires \/ SetLevel \/ SendData \/ Respond \/ UNCHANGED vars
  PROVE  UNCHANGED absVars
<1>1. UNCHANGED <<mem, dht11_data, suelo, sent, message, topic>>
  BY DEF TimerFires, SetLevel, SendData, Respond, LoadGlobal, LogLength, CopyEntry,
     JsonReady, SendReply, timerVars, vars
<1>2. tpc' = tpc \/ (tpc = "idle" /\ tpc' = "leer_Dht")
  BY DEF TimerFires, SetLevel, SendData, Respond, LoadGlobal, LogLength, CopyEntry,
     JsonReady, SendReply, timerVars, vars
<1>3. UNCHANGED <<Telling, ToldUpTo>>
  BY <1>1, <1>2 DEF Telling, ToldUpTo
<1>4. QED
  BY <1>1, <1>2, <1>3
  DEF absVars, AbsAir, AbsSoil, AbsAlarm, AbsPhase, AbsTold, AbsReport

LEMMA RefineStep == IInv /\ [Next]_vars => [G!ANext]_(G!avars)
<1> SUFFICES ASSUME IInv, [Next]_vars PROVE G!ANext \/ UNCHANGED absVars
  BY DEF absVars, AbsPhase, G!avars
<1>1. CASE LeerDht
  BY <1>1, RefineSampleAir DEF G!ANext
<1>2. CASE LeerHumedadSuelo
  BY <1>2, RefineSampleSoil DEF G!ANext
<1>3. ASSUME NEW g \in Globals, StoreGlobal(g) PROVE UNCHANGED absVars
  BY <1>3, RefineStore
<1>4. CASE ClearLogs
  BY <1>4, RefineClear DEF G!ANext
<1>5. CASE FormatMessage
  <2>1. Globals = G!Quantities
    BY DEF Globals, G!Quantities
  <2>2. QED
    BY <1>5, <2>1, RefineFormat DEF G!ANext
<1>6. CASE PublishMessage
  BY <1>6, RefinePublish
<1>7. CASE AppendLog
  BY <1>7, RefineAppend DEF G!ANext
<1>8. CASE ToggleRegar
  BY <1>8, RefineToggle DEF G!ANext
<1>9. CASE TimerFires \/ SetLevel \/ SendData \/ Respond \/ UNCHANGED vars
  BY <1>9, RefineUnseen
<1>10. QED
  BY <1>1, <1>2, <1>3, <1>4, <1>5, <1>6, <1>7, <1>8, <1>9
  DEF Next, TimerTask, Request

\* The two unsynchronised tasks implement the atomic sampler: each report
\* tells one sampling of the air and one of the soil, in some order with the
\* valve, whatever the readings.
THEOREM Refinement == Spec => RefinesGreenhouse
<1>1. Init => G!AInit
  BY RefineInit
<1>2. IInv /\ [Next]_vars => [G!ANext]_(G!avars)
  BY RefineStep
<1>3. QED
  BY <1>1, <1>2, IInvInductive, PTL DEF Spec, RefinesGreenhouse, G!ASpec
=============================================================================
