--------------------------- MODULE Firmware_proofs ---------------------------
(***************************************************************************)
(* Proofs about the parts of main.c that keep to themselves: the clock,    *)
(* the text buffers, the functions that hold files and memory, the start   *)
(* and the MQTT session; each for every value of its constants.            *)
(***************************************************************************)
EXTENDS Clock, LogBuffer, WebFiles, Boot, MqttSession, Lists_proofs

-----------------------------------------------------------------------------
(* The clock: update_time_task sees a full hour at most once, whatever the *)
(* lengths of the second, the minute and the hour and however late its     *)
(* delays return.                                                          *)

\* An hour that was seen is not looked at again within its first second.
SeenInv ==
  /\ now \in 0..(OneHour - 1)
  /\ sleep \in Nat
  /\ seen \in {0, 1}
  /\ seen = 1 => now + sleep >= Second

LEMMA Lengths ==
  /\ Second \in Nat \ {0}
  /\ OneHour \in Nat \ {0}
  /\ WaitAfterHour \in Nat /\ WaitAfterHour >= Second
<1>1. Second \in Nat \ {0} /\ Minute \in Nat /\ Minute >= 2 /\ Hour \in Nat /\ Hour >= 2
  BY ClockAssumption
<1>2. Second * Minute \in Nat /\ Second * Minute >= Second
  BY <1>1
<1> DEFINE m == Second * Minute
<1>3. m * Hour \in Nat /\ m * Hour >= m
  <2> HIDE DEF m
  <2> QED BY <1>1, <1>2 DEF m
<1> QED BY <1>1, <1>2, <1>3 DEF OneHour, WaitAfterHour

LEMMA SeenInit == ClockInit => SeenInv
BY Lengths DEF ClockInit, SeenInv

LEMMA TickNow ==
  ASSUME NEW n \in Nat \ {0}, NEW t \in 0..(n - 1)
  PROVE  (t + 1) % n \in 0..(n - 1) /\ ((t + 1) % n = 0 \/ (t + 1) % n = t + 1)
<1>1. CASE t + 1 < n
  BY <1>1
<1>2. CASE t + 1 = n
  BY <1>2
<1> QED BY <1>1, <1>2

LEMMA SeenStep == SeenInv /\ [ClockNext]_clockVars => SeenInv'
<1> SUFFICES ASSUME SeenInv, [ClockNext]_clockVars PROVE SeenInv'
  OBVIOUS
<1>1. CASE SntpSets
  BY <1>1 DEF SntpSets, SeenInv
<1>2. CASE Tick
  <2>1. now' \in 0..(OneHour - 1) /\ (now' = 0 \/ now' = now + 1)
    BY <1>2, TickNow, Lengths DEF Tick, SeenInv
  <2> QED BY <1>2, <2>1, Lengths DEF Tick, SeenInv
<1>3. CASE WaitForYear
  BY <1>3, Lengths DEF WaitForYear, Delay, SeenInv
<1>4. CASE Poll
  <2>1. CASE TopOfHour
    <3>1. sleep' \in {WaitAfterHour, WaitAfterHour + 1} /\ seen' = seen + 1 /\ now' = now
      BY <1>4, <2>1 DEF Poll, Delay
    <3>2. seen = 0
      BY <1>4, <2>1, Lengths DEF Poll, TopOfHour, SeenInv
    <3>3. now \in Nat /\ now \in 0..(OneHour - 1)
      BY Lengths DEF SeenInv
    <3>4. sleep' \in Nat /\ sleep' >= Second
      <4> HIDE DEF WaitAfterHour
      <4> QED BY <3>1, Lengths
    <3>5. now' \in 0..(OneHour - 1) /\ seen' \in {0, 1}
      BY <3>1, <3>2, <3>3
    <3>6. now' + sleep' >= Second
      <4>1. ASSUME NEW t \in Nat, NEW d \in Nat, NEW k \in Nat, d >= k PROVE t + d >= k
        BY <4>1
      <4> QED BY <3>1, <3>3, <3>4, <4>1, Lengths
    <3> QED BY <3>4, <3>5, <3>6, Lengths DEF SeenInv
  <2>2. CASE ~TopOfHour
    BY <1>4, <2>2, Lengths DEF Poll, Delay, TopOfHour, SeenInv
  <2> QED BY <2>1, <2>2
<1>5. CASE UNCHANGED clockVars
  BY <1>5 DEF clockVars, SeenInv
<1> QED BY <1>1, <1>2, <1>3, <1>4, <1>5 DEF ClockNext

\* The wait of a minute keeps one full hour from being seen twice.
THEOREM HourSeenOnce == ClockSpec => []SeenOncePerHour
<1>1. SeenInv => SeenOncePerHour
  BY DEF SeenInv, SeenOncePerHour
<1> QED BY <1>1, SeenInit, SeenStep, PTL DEF ClockSpec

-----------------------------------------------------------------------------
(* The text buffers are large enough for every timestamp and every message *)
(* id: six entries of at most 76 characters stay below the 512 of          *)
(* mqtt_logs, and with the log the reply below its 1024.                   *)

LongestEntry == 76

SizeInv ==
  /\ entry \in 0..6
  /\ used \in 0..(LongestEntry * entry)
  /\ uncut = used

ReplyInv == reply \in 0..(JsonSize - 1)

\* An entry fits log_entry, and with five others mqtt_logs.
LEMMA EntryFits ==
  ASSUME NEW i \in 1..6, NEW t \in TimestampLengths, NEW m \in MsgIdLengths
  PROVE  /\ EntryLength(i, t, m) \in 0..LongestEntry
         /\ Fitted(EntryLength(i, t, m), EntrySize) = EntryLength(i, t, m)
<1>1. t \in 1..11 /\ m \in 1..11
  BY LengthAssumption
<1>2. NameLength[i] \in 5..12
  <2>1. i = 1 \/ i = 2 \/ i = 3 \/ i = 4 \/ i = 5 \/ i = 6
    OBVIOUS
  <2> QED BY <2>1 DEF NameLength
<1>3. EntryLength(i, t, m) \in 0..LongestEntry
  BY <1>1, <1>2 DEF EntryLength, LongestEntry
<1> QED BY <1>3 DEF Fitted, EntrySize, LongestEntry

\* An entry that fits is appended whole.
LEMMA AppendedWhole ==
  ASSUME NEW n \in Nat, NEW m \in Nat, n + m < LogsSize
  PROVE  Concatenated(n, m) = n + m
BY DEF Concatenated, LogsSize

LEMMA SizeInit == LogInit => SizeInv /\ ReplyInv
BY DEF LogInit, SizeInv, ReplyInv, LongestEntry, JsonSize

LEMMA SizeStep == SizeInv /\ [LogNext]_logVars => SizeInv'
<1> SUFFICES ASSUME SizeInv, [LogNext]_logVars PROVE SizeInv'
  OBVIOUS
<1>1. CASE BeginRound
  BY <1>1 DEF BeginRound, UsedAfterMemset, SizeInv, LongestEntry
<1>2. CASE AppendEntry
  <2>1. entry + 1 \in 1..6 /\ entry' = entry + 1
    BY <1>2 DEF AppendEntry, SizeInv
  <2>2. PICK t \in TimestampLengths, m \in MsgIdLengths :
          /\ used' = Concatenated(used, Fitted(EntryLength(entry + 1, t, m), EntrySize))
          /\ uncut' = uncut + EntryLength(entry + 1, t, m)
    BY <1>2 DEF AppendEntry
  <2> DEFINE n == EntryLength(entry + 1, t, m)
  <2>3. n \in 0..LongestEntry /\ Fitted(n, EntrySize) = n
    BY <2>1, EntryFits
  <2> HIDE DEF n
  <2>4. used \in Nat /\ n \in Nat /\ used + n \in 0..(LongestEntry * (entry + 1))
    BY <2>1, <2>3 DEF SizeInv, LongestEntry
  <2>5. used + n < LogsSize
    BY <2>1, <2>4 DEF LongestEntry, LogsSize
  <2>6. used' = used + n
    BY <2>2, <2>3, <2>4, <2>5, AppendedWhole DEF n
  <2>7. uncut' = used + n
    BY <2>2 DEF n, SizeInv
  <2> QED BY <2>1, <2>4, <2>6, <2>7 DEF SizeInv, LongestEntry
<1>3. CASE SendData
  BY <1>3 DEF SendData, SizeInv, LongestEntry
<1>4. CASE UNCHANGED logVars
  BY <1>4 DEF logVars, SizeInv
<1> QED BY <1>1, <1>2, <1>3, <1>4 DEF LogNext

LEMMA ReplyStep == SizeInv /\ ReplyInv /\ [LogNext]_logVars => ReplyInv'
<1> SUFFICES ASSUME SizeInv, ReplyInv, [LogNext]_logVars PROVE ReplyInv'
  OBVIOUS
<1>1. CASE SendData
  <2>1. used \in 0..456
    BY DEF SizeInv, LongestEntry
  <2> QED BY <1>1, <2>1 DEF SendData, ReplyLength, ReplyInv, JsonSize
<1>2. CASE UNCHANGED reply
  BY <1>2 DEF ReplyInv
<1> QED BY <1>1, <1>2 DEF LogNext, BeginRound, AppendEntry, logVars

\* No entry and no log is ever cut, whatever is printed into them.
THEOREM EntriesAreWhole == LogSpec => []NothingIsCut
<1>1. SizeInv => NothingIsCut
  BY DEF SizeInv, NothingIsCut
<1> QED BY <1>1, SizeInit, SizeStep, PTL DEF LogSpec

\* The reply of send_data fits json_buf at every moment of a round.
THEOREM RepliesFit == LogSpec => []ReplyFits
<1>1. ReplyInv => ReplyFits
  BY DEF ReplyInv, ReplyFits, JsonSize
<1>2. SizeInv /\ ReplyInv /\ [LogNext]_logVars => SizeInv' /\ ReplyInv'
  BY SizeStep, ReplyStep
<1> QED BY <1>1, <1>2, SizeInit, PTL DEF LogSpec

-----------------------------------------------------------------------------
(* The functions that read and write files give back what they acquire on  *)
(* each of their paths, whichever pages the partition holds.               *)

Readers == PageUris \cup {"read_password"}

\* What a job holds is told by where it is: each return gives back just that.
HeldAt(at) ==
  CASE at = "malloc"      -> {"file"}
    [] at = "fread"       -> {"file", "content"}
    [] at = "send"        -> {"content"}
    [] at = "cJSON_Parse" -> {"content"}
    [] at = "items"       -> {"content", "json"}
    [] at = "cJSON_Print" -> {"root"}
    [] at = "fopen_w"     -> {"root", "json_str"}
    [] at = "fprintf"     -> {"root", "json_str", "config.json"}
    [] OTHER              -> {}

\* A page that is being read or sent was found on the partition.
ReadInv ==
  /\ pc \in Pcs
  /\ pc = "fopen" => job \in Readers
  /\ pc \in {"malloc", "fread", "send"} => job \in Readers /\ FileOf \in stored
  /\ pc \in {"send", "cJSON_Parse", "items"} =>
       (job = "read_password" <=> pc # "send")
  /\ pc \in {"cJSON_CreateObject", "cJSON_Print", "fopen_w", "fprintf"} =>
       job = "save_config_to_file"

HeldInv == held = HeldAt(pc) /\ lost = {}

FilesInv == ReadInv /\ HeldInv

LEMMA FilesInvInit == FilesInit => FilesInv
BY DEF FilesInit, FilesInv, ReadInv, HeldInv, HeldAt, Pcs, Readers, PageUris

LEMMA FilesInvStep == FilesInv /\ [FilesNext]_filesVars => FilesInv'
<1> SUFFICES ASSUME FilesInv, [FilesNext]_filesVars PROVE FilesInv'
  OBVIOUS
<1> USE DEF FilesInv, ReadInv, Pcs, Readers, PageUris
<1>1. ASSUME NEW uri \in Jobs \ {"read_password"}, Serve(uri) PROVE FilesInv'
  <2>1. ReadInv'
    BY <1>1 DEF Serve, Jobs
  <2>2. HeldInv'
    BY <1>1 DEF Serve, HeldInv, HeldAt, Jobs
  <2> QED BY <2>1, <2>2
<1>2. CASE Fopen
  <2>1. ReadInv'
    BY <1>2 DEF Fopen, Reader, FileOf, PageOf
  <2>2. HeldInv'
    BY <1>2 DEF Fopen, HeldInv, HeldAt
  <2> QED BY <2>1, <2>2
<1>3. CASE FopenFails \/ MallocFails
  <2>1. ReadInv'
    BY <1>3 DEF FopenFails, MallocFails, Return
  <2>2. HeldInv'
    BY <1>3 DEF FopenFails, MallocFails, Return, HeldInv, HeldAt, HeldAfterFailedMalloc
  <2> QED BY <2>1, <2>2
<1>4. CASE Malloc
  <2>1. ReadInv'
    BY <1>4 DEF Malloc, Reader, FileOf, PageOf
  <2>2. HeldInv'
    BY <1>4 DEF Malloc, HeldInv, HeldAt
  <2> QED BY <2>1, <2>2
<1>5. CASE FreadAndClose
  <2>1. ReadInv'
    BY <1>5 DEF FreadAndClose, Reader, FileOf, PageOf
  <2>2. HeldInv'
    BY <1>5 DEF FreadAndClose, HeldInv, HeldAt
  <2> QED BY <2>1, <2>2
<1>6. CASE SendAndFree \/ CJSONParseFails \/ TakeItems
  <2>1. ReadInv'
    BY <1>6 DEF SendAndFree, CJSONParseFails, TakeItems, Return
  <2>2. HeldInv'
    BY <1>6 DEF SendAndFree, CJSONParseFails, TakeItems, Return, HeldInv, HeldAt
  <2> QED BY <2>1, <2>2
<1>7. CASE CJSONParse
  <2>1. ReadInv'
    BY <1>7 DEF CJSONParse
  <2>2. HeldInv'
    BY <1>7 DEF CJSONParse, HeldInv, HeldAt
  <2> QED BY <2>1, <2>2
<1>8. CASE SaveAcquires
  <2>1. ReadInv'
    BY <1>8 DEF SaveAcquires, Acquire
  <2>2. HeldInv'
    BY <1>8 DEF SaveAcquires, Acquire, HeldInv, HeldAt
  <2> QED BY <2>1, <2>2
<1>9. CASE SaveReturns
  <2>1. ReadInv'
    BY <1>9 DEF SaveReturns, Return
  <2>2. HeldInv'
    BY <1>9 DEF SaveReturns, Return, HeldInv, HeldAt, GivenBackAt
  <2> QED BY <2>1, <2>2
<1>10. CASE UNCHANGED filesVars
  BY <1>10 DEF filesVars, HeldInv, FileOf, PageOf
<1> QED
  BY <1>1, <1>2, <1>3, <1>4, <1>5, <1>6, <1>7, <1>8, <1>9, <1>10 DEF FilesNext, Work

\* No path of any of the functions keeps a file open or a block allocated.
THEOREM NothingIsLost == FilesSpec => []NothingLeaks
<1>1. FilesInv => NothingLeaks
  BY DEF FilesInv, HeldInv, NothingLeaks
<1> QED BY <1>1, FilesInvInit, FilesInvStep, PTL DEF FilesSpec

\* The job of a page ends with that page, or with 404.
LEMMA AnswerStep == FilesInv /\ [FilesNext]_filesVars => [Answered]_filesVars
<1> SUFFICES ASSUME FilesInv, FilesNext, job \in PageUris, job' = "none"
             PROVE  answer' = "404" \/ (answer' \in stored /\ answer' = PageOf(job))
  BY DEF Answered
<1> USE DEF PageUris
<1>1. CASE FopenFails \/ MallocFails
  BY <1>1 DEF FopenFails, MallocFails, Return, NotFound
<1>2. CASE SendAndFree
  BY <1>2 DEF SendAndFree, Return, AnswerOfPage, FilesInv, ReadInv, FileOf
<1>3. CASE CJSONParseFails \/ TakeItems \/ SaveReturns
  BY <1>3 DEF CJSONParseFails, TakeItems, SaveReturns, FilesInv, ReadInv
<1>4. ASSUME NEW uri \in Jobs \ {"read_password"}, Serve(uri) PROVE FALSE
  BY <1>4 DEF Serve, Jobs
<1>5. CASE Fopen \/ Malloc \/ FreadAndClose \/ CJSONParse \/ SaveAcquires
  BY <1>5 DEF Fopen, Malloc, FreadAndClose, CJSONParse, SaveAcquires, Acquire
<1> QED BY <1>1, <1>2, <1>3, <1>4, <1>5 DEF FilesNext, Work

\* Each request for a page is answered, with the page that fits the mode if
\* the partition has it.
THEOREM RequestsAreAnswered == FilesSpec => PagesAreAnswered
BY FilesInvInit, FilesInvStep, AnswerStep, PTL DEF FilesSpec, PagesAreAnswered

-----------------------------------------------------------------------------
(* What app_main has initialised by the time it comes to a call.           *)

\* The calls from which on the radio is up, and so on in their order.
FromRadio == {"start_ap", "wait_bits", "set_adc", "initialize_sntp", "mdns_init",
              "mqtt_app_start", "xTimerStart", "xTaskCreate",
              "xTaskCreatePinnedToCore", "done"}
FromAdc   == FromRadio \ {"start_ap", "wait_bits"}
FromSntp  == FromAdc \ {"set_adc"}
FromMdns  == FromSntp \ {"initialize_sntp"}

\* esp_netif_init and nvs_flash_init come after the partition was mounted, and
\* without NVS esp_wifi_init lets nothing go on; a station without the name of a
\* network does not go on either.
ReachedInv ==
  /\ bootPc # "pin_config" => "pins" \in up
  /\ bootPc \in {"spiffs_info", "nvs_flash_init", "test_ret", "check_ret2"} => "spiffs" \in up
  /\ bootPc \in {"wifi_init_softap", "wifi_init_sta"} => "netif" \in up
  /\ bootPc \in FromRadio => "wifi" \in up
  /\ bootPc = "start_ap" => wifiMode = "AP"
  /\ bootPc = "wait_bits" => wifiMode = "STA"
  /\ bootPc \in FromAdc => wifiMode \in {"AP", "STA"} /\ (wifiMode = "STA" => ssid)
  /\ bootPc \in FromSntp => "adc" \in up
  /\ bootPc \in FromMdns => "sntp" \in up

NeededInv ==
  /\ "nvs" \in up => "spiffs" \in up /\ "netif" \in up
  /\ "wifi" \in up => "nvs" \in up /\ "netif" \in up
  /\ "mdns" \in up => "wifi" \in up
  /\ "mqtt" \in up => "wifi" \in up
  /\ "timer" \in up => "pins" \in up /\ "adc" \in up
  /\ "clock" \in up => "sntp" \in up

ServerInv ==
  /\ round => "timer" \in up
  /\ server # "none" => bootPc = "done"
  /\ page # "none" => server # "none" /\ page = PageForMode

BootInv == BootTypeOK /\ ReachedInv /\ NeededInv /\ ServerInv

\* A device that starts again has nothing initialised yet.
LEMMA BootReset ==
  ASSUME bootPc = "pin_config", up = {}, wifiMode = "none", ssid = FALSE, ret = "ok",
         ret2 = "ok", server = "none", page = "none", round = FALSE, failed = {},
         nvs \in {"good", "full"}, fs \in {"good", "damaged", "formatted"}
  PROVE  BootInv
<1>1. BootTypeOK
  BY DEF BootTypeOK, BootPcs
<1>2. ReachedInv /\ NeededInv /\ ServerInv
  BY DEF ReachedInv, NeededInv, ServerInv, FromRadio, FromAdc, FromSntp, FromMdns
<1> QED BY <1>1, <1>2 DEF BootInv

LEMMA BootInvInit == BootInit => BootInv
BY BootReset DEF BootInit, Reset

LEMMA RestartKeeps ==
  ASSUME BootInv, Restart \/ PowerLoss
  PROVE  BootInv'
<1>1. nvs' \in {"good", "full"} /\ fs' \in {"good", "damaged", "formatted"}
  BY DEF BootInv, BootTypeOK, Restart, PowerLoss, flash
<1>2. /\ bootPc' = "pin_config" /\ up' = {} /\ wifiMode' = "none" /\ ssid' = FALSE
      /\ ret' = "ok" /\ ret2' = "ok" /\ server' = "none" /\ page' = "none"
      /\ round' = FALSE /\ failed' = {}
  BY DEF Restart, PowerLoss
<1>3. BootTypeOK'
  BY <1>1, <1>2 DEF BootTypeOK, BootPcs
<1>4. ReachedInv' /\ NeededInv' /\ ServerInv'
  BY <1>2 DEF ReachedInv, NeededInv, ServerInv, FromRadio, FromAdc, FromSntp, FromMdns
<1> QED BY <1>3, <1>4 DEF BootInv

LEMMA BootInvStep == BootInv /\ [BootNext]_bootVars => BootInv'
<1> SUFFICES ASSUME BootInv, [BootNext]_bootVars PROVE BootInv'
  OBVIOUS
<1> USE DEF flash
<1>0. BootTypeOK /\ ReachedInv /\ NeededInv /\ ServerInv
  BY DEF BootInv
<1>1. CASE PinConfig
  <2>1. BootTypeOK'
    BY <1>0, <1>1 DEF PinConfig, Step, BootTypeOK, BootPcs, Subsystems, Calls
  <2>2. ReachedInv'
    BY <1>0, <1>1 DEF PinConfig, Step, ReachedInv, FromRadio, FromAdc, FromSntp, FromMdns
  <2>3. NeededInv'
    BY <1>0, <1>1 DEF PinConfig, Step, ReachedInv, NeededInv, FromRadio, FromAdc, FromSntp, FromMdns
  <2>4. ServerInv'
    BY <1>0, <1>1 DEF PinConfig, Step, ServerInv, PageForMode
  <2> QED BY <2>1, <2>2, <2>3, <2>4 DEF BootInv
<1>2. CASE SpiffsRegister
  <2>1. BootTypeOK'
    BY <1>0, <1>2 DEF SpiffsRegister, Step, BootTypeOK, BootPcs, Subsystems, Calls
  <2>2. ReachedInv'
    BY <1>0, <1>2 DEF SpiffsRegister, Step, ReachedInv, FromRadio, FromAdc, FromSntp, FromMdns
  <2>3. NeededInv'
    BY <1>0, <1>2 DEF SpiffsRegister, Step, ReachedInv, NeededInv, FromRadio, FromAdc, FromSntp, FromMdns
  <2>4. ServerInv'
    BY <1>0, <1>2 DEF SpiffsRegister, Step, ServerInv, PageForMode
  <2> QED BY <2>1, <2>2, <2>3, <2>4 DEF BootInv
<1>3. CASE SpiffsFails
  <2>1. BootTypeOK'
    BY <1>0, <1>3 DEF SpiffsFails, BootTypeOK, BootPcs, Subsystems, Calls
  <2>2. ReachedInv'
    BY <1>0, <1>3 DEF SpiffsFails, ReachedInv, FromRadio, FromAdc, FromSntp, FromMdns
  <2>3. NeededInv'
    BY <1>0, <1>3 DEF SpiffsFails, ReachedInv, NeededInv, FromRadio, FromAdc, FromSntp, FromMdns
  <2>4. ServerInv'
    BY <1>0, <1>3 DEF SpiffsFails, ServerInv, PageForMode
  <2> QED BY <2>1, <2>2, <2>3, <2>4 DEF BootInv
<1>4. CASE SpiffsInfo
  <2>1. BootTypeOK'
    BY <1>0, <1>4 DEF SpiffsInfo, Step, BootTypeOK, BootPcs, Subsystems, Calls
  <2>2. ReachedInv'
    BY <1>0, <1>4 DEF SpiffsInfo, Step, ReachedInv, FromRadio, FromAdc, FromSntp, FromMdns
  <2>3. NeededInv'
    BY <1>0, <1>4 DEF SpiffsInfo, Step, ReachedInv, NeededInv, FromRadio, FromAdc, FromSntp, FromMdns
  <2>4. ServerInv'
    BY <1>0, <1>4 DEF SpiffsInfo, Step, ServerInv, PageForMode
  <2> QED BY <2>1, <2>2, <2>3, <2>4 DEF BootInv
<1>5. CASE NvsFlashInit
  <2>1. BootTypeOK'
    BY <1>0, <1>5 DEF NvsFlashInit, Step, BootTypeOK, BootPcs, Subsystems, Calls
  <2>2. ReachedInv'
    BY <1>0, <1>5 DEF NvsFlashInit, Step, ReachedInv, FromRadio, FromAdc, FromSntp, FromMdns
  <2>3. NeededInv'
    BY <1>0, <1>5 DEF NvsFlashInit, Step, ReachedInv, NeededInv, FromRadio, FromAdc, FromSntp, FromMdns
  <2>4. ServerInv'
    BY <1>0, <1>5 DEF NvsFlashInit, Step, ServerInv, PageForMode
  <2> QED BY <2>1, <2>2, <2>3, <2>4 DEF BootInv
<1>6. CASE TestRet
  <2>1. BootTypeOK'
    BY <1>0, <1>6 DEF TestRet, ram, BootTypeOK, BootPcs, Subsystems, Calls
  <2>2. ReachedInv'
    BY <1>0, <1>6 DEF TestRet, ram, ReachedInv, FromRadio, FromAdc, FromSntp, FromMdns
  <2>3. NeededInv'
    BY <1>0, <1>6 DEF TestRet, ram, ReachedInv, NeededInv, FromRadio, FromAdc, FromSntp, FromMdns
  <2>4. ServerInv'
    BY <1>0, <1>6 DEF TestRet, ram, ServerInv, PageForMode
  <2> QED BY <2>1, <2>2, <2>3, <2>4 DEF BootInv
<1>7. CASE CheckRet2
  <2>1. BootTypeOK'
    BY <1>0, <1>7 DEF CheckRet2, Step, BootTypeOK, BootPcs, Subsystems, Calls
  <2>2. ReachedInv'
    BY <1>0, <1>7 DEF CheckRet2, Step, ReachedInv, FromRadio, FromAdc, FromSntp, FromMdns
  <2>3. NeededInv'
    BY <1>0, <1>7 DEF CheckRet2, Step, ReachedInv, NeededInv, FromRadio, FromAdc, FromSntp, FromMdns
  <2>4. ServerInv'
    BY <1>0, <1>7 DEF CheckRet2, Step, ServerInv, PageForMode
  <2> QED BY <2>1, <2>2, <2>3, <2>4 DEF BootInv
<1>8. CASE ReadPassword
  <2>1. BootTypeOK'
    <3>1. failed' \subseteq Calls /\ ssid' \in BOOLEAN
      BY <1>0, <1>8 DEF ReadPassword, BootTypeOK, Calls
    <3>2. bootPc' = "iniciar_wifi" /\ up' = up
      BY <1>8 DEF ReadPassword, Step
    <3>3. UNCHANGED <<wifiMode, ret, ret2, server, page, round, nvs, fs>>
      BY <1>8 DEF ReadPassword
    <3> QED BY <1>0, <3>1, <3>2, <3>3 DEF BootTypeOK, BootPcs
  <2>2. ReachedInv'
    BY <1>0, <1>8 DEF ReadPassword, Step, ReachedInv, FromRadio, FromAdc, FromSntp, FromMdns
  <2>3. NeededInv'
    BY <1>0, <1>8 DEF ReadPassword, Step, ReachedInv, NeededInv, FromRadio, FromAdc, FromSntp, FromMdns
  <2>4. ServerInv'
    BY <1>0, <1>8 DEF ReadPassword, Step, ServerInv, PageForMode
  <2> QED BY <2>1, <2>2, <2>3, <2>4 DEF BootInv
<1>9. CASE IniciarWifi
  <2>1. BootTypeOK'
    <3>1. bootPc' \in {"wifi_init_softap", "wifi_init_sta"} /\ up' = up \cup {"netif"}
      BY <1>9 DEF IniciarWifi, Step
    <3>2. UNCHANGED <<wifiMode, ssid, ret, ret2, server, page, round, failed, nvs, fs>>
      BY <1>9 DEF IniciarWifi
    <3> QED BY <1>0, <3>1, <3>2 DEF BootTypeOK, BootPcs, Subsystems
  <2>2. ReachedInv'
    BY <1>0, <1>9 DEF IniciarWifi, Step, ReachedInv, FromRadio, FromAdc, FromSntp, FromMdns
  <2>3. NeededInv'
    BY <1>0, <1>9 DEF IniciarWifi, Step, ReachedInv, NeededInv, FromRadio, FromAdc, FromSntp, FromMdns
  <2>4. ServerInv'
    BY <1>0, <1>9 DEF IniciarWifi, Step, ServerInv, PageForMode
  <2> QED BY <2>1, <2>2, <2>3, <2>4 DEF BootInv
<1>10. CASE EspWifiInit
  <2>1. BootTypeOK'
    <3>1. bootPc' \in {"start_ap", "wait_bits"} /\ up' = up \cup {"wifi"} /\ wifiMode' \in {"AP", "STA"}
      BY <1>10 DEF EspWifiInit, Step
    <3>2. UNCHANGED <<ssid, ret, ret2, server, page, round, failed, nvs, fs>>
      BY <1>10 DEF EspWifiInit
    <3> QED BY <1>0, <3>1, <3>2 DEF BootTypeOK, BootPcs, Subsystems
  <2>2. ReachedInv'
    BY <1>0, <1>10 DEF EspWifiInit, Step, WifiInitOk, ReachedInv, FromRadio, FromAdc, FromSntp, FromMdns
  <2>3. NeededInv'
    BY <1>0, <1>10 DEF EspWifiInit, Step, WifiInitOk, ReachedInv, NeededInv, FromRadio, FromAdc, FromSntp, FromMdns
  <2>4. ServerInv'
    BY <1>0, <1>10 DEF EspWifiInit, Step, WifiInitOk, ServerInv, PageForMode
  <2> QED BY <2>1, <2>2, <2>3, <2>4 DEF BootInv
<1>11. CASE WaitBitsReturns
  <2>1. BootTypeOK'
    BY <1>0, <1>11 DEF WaitBitsReturns, Step, BootTypeOK, BootPcs, Subsystems, Calls
  <2>2. ReachedInv'
    BY <1>0, <1>11 DEF WaitBitsReturns, Step, ReachedInv, FromRadio, FromAdc, FromSntp, FromMdns
  <2>3. NeededInv'
    BY <1>0, <1>11 DEF WaitBitsReturns, Step, ReachedInv, NeededInv, FromRadio, FromAdc, FromSntp, FromMdns
  <2>4. ServerInv'
    BY <1>0, <1>11 DEF WaitBitsReturns, Step, ServerInv, PageForMode
  <2> QED BY <2>1, <2>2, <2>3, <2>4 DEF BootInv
<1>12. CASE InitialiseNext
  <2>1. BootTypeOK'
    <3>1. bootPc' \in BootPcs /\ up' \subseteq Subsystems
      <4>1. PICK r \in Rest : Step(r[1], r[2], r[3])
        BY <1>12 DEF InitialiseNext
      <4>2. r[2] \in BootPcs
        BY DEF Rest, BootPcs
      <4>3. r[3] \subseteq Subsystems
        BY DEF Rest, Subsystems
      <4> QED BY <1>0, <4>1, <4>2, <4>3 DEF Step, BootTypeOK
    <3>2. UNCHANGED <<wifiMode, ssid, ret, ret2, server, page, round, failed, nvs, fs>>
      BY <1>12 DEF InitialiseNext
    <3> QED BY <1>0, <3>1, <3>2 DEF BootTypeOK
  <2>2. ReachedInv'
    BY <1>0, <1>12 DEF InitialiseNext, Rest, Step, ReachedInv, FromRadio, FromAdc, FromSntp, FromMdns
  <2>3. NeededInv'
    BY <1>0, <1>12 DEF InitialiseNext, Rest, Step, ReachedInv, NeededInv, FromRadio, FromAdc, FromSntp, FromMdns
  <2>4. ServerInv'
    BY <1>0, <1>12 DEF InitialiseNext, Rest, Step, ServerInv, PageForMode
  <2> QED BY <2>1, <2>2, <2>3, <2>4 DEF BootInv
<1>13. CASE InitialiseFails
  <2>1. BootTypeOK'
    <3>1. PICK r \in Rest : /\ r[1] \in Ignored /\ Step(r[1], r[2], {})
                          /\ failed' = failed \cup {r[1]}
      BY <1>13 DEF InitialiseFails
    <3>2. r[2] \in BootPcs
      BY DEF Rest, BootPcs
    <3>3. bootPc' \in BootPcs /\ up' \subseteq Subsystems /\ failed' \subseteq Calls
      BY <1>0, <3>1, <3>2 DEF Step, BootTypeOK, Calls
    <3>4. UNCHANGED <<wifiMode, ssid, ret, ret2, server, page, round, nvs, fs>>
      BY <1>13 DEF InitialiseFails
    <3> QED BY <1>0, <3>3, <3>4 DEF BootTypeOK
  <2>2. ReachedInv'
    <3>1. /\ \/ bootPc = "mdns_init" /\ bootPc' = "mqtt_app_start"
             \/ bootPc = "mqtt_app_start" /\ bootPc' = "xTimerStart"
             \/ bootPc = "xTimerStart" /\ bootPc' = "xTaskCreate"
             \/ bootPc = "xTaskCreate" /\ bootPc' = "xTaskCreatePinnedToCore"
          /\ up' = up
      BY <1>13 DEF InitialiseFails, Rest, Ignored, Step
    <3>2. UNCHANGED <<wifiMode, ssid>>
      BY <1>13 DEF InitialiseFails
    <3> QED BY <1>0, <3>1, <3>2 DEF ReachedInv, FromRadio, FromAdc, FromSntp, FromMdns
  <2>3. NeededInv'
    BY <1>0, <1>13 DEF InitialiseFails, Rest, Step, ReachedInv, NeededInv, FromRadio, FromAdc, FromSntp, FromMdns
  <2>4. ServerInv'
    BY <1>0, <1>13 DEF InitialiseFails, Rest, Step, ServerInv, PageForMode
  <2> QED BY <2>1, <2>2, <2>3, <2>4 DEF BootInv
<1>14. CASE StartServerTask
  <2>1. BootTypeOK'
    BY <1>0, <1>14 DEF StartServerTask, Step, BootTypeOK, BootPcs, Subsystems, Calls
  <2>2. ReachedInv'
    BY <1>0, <1>14 DEF StartServerTask, Step, ReachedInv, FromRadio, FromAdc, FromSntp, FromMdns
  <2>3. NeededInv'
    BY <1>0, <1>14 DEF StartServerTask, Step, ReachedInv, NeededInv, FromRadio, FromAdc, FromSntp, FromMdns
  <2>4. ServerInv'
    BY <1>0, <1>14 DEF StartServerTask, Step, ServerInv, PageForMode
  <2> QED BY <2>1, <2>2, <2>3, <2>4 DEF BootInv
<1>15. CASE ServerTaskFails
  <2>1. BootTypeOK'
    BY <1>0, <1>15 DEF ServerTaskFails, Step, BootTypeOK, BootPcs, Subsystems, Calls
  <2>2. ReachedInv'
    BY <1>0, <1>15 DEF ServerTaskFails, Step, ReachedInv, FromRadio, FromAdc, FromSntp, FromMdns
  <2>3. NeededInv'
    BY <1>0, <1>15 DEF ServerTaskFails, Step, ReachedInv, NeededInv, FromRadio, FromAdc, FromSntp, FromMdns
  <2>4. ServerInv'
    BY <1>0, <1>15 DEF ServerTaskFails, Step, ServerInv, PageForMode
  <2> QED BY <2>1, <2>2, <2>3, <2>4 DEF BootInv
<1>16. CASE HttpdStart
  <2>1. BootTypeOK'
    BY <1>0, <1>16 DEF HttpdStart, PageForMode, BootTypeOK, BootPcs, Subsystems, Calls
  <2>2. ReachedInv'
    BY <1>0, <1>16 DEF HttpdStart, PageForMode, ReachedInv, FromRadio, FromAdc, FromSntp, FromMdns
  <2>3. NeededInv'
    BY <1>0, <1>16 DEF HttpdStart, PageForMode, ReachedInv, NeededInv, FromRadio, FromAdc, FromSntp, FromMdns
  <2>4. ServerInv'
    BY <1>0, <1>16 DEF HttpdStart, PageForMode, ServerInv
  <2> QED BY <2>1, <2>2, <2>3, <2>4 DEF BootInv
<1>17. CASE TimerCallback
  <2>1. BootTypeOK'
    BY <1>0, <1>17 DEF TimerCallback, BootTypeOK, BootPcs, Subsystems, Calls
  <2>2. ReachedInv'
    BY <1>0, <1>17 DEF TimerCallback, ReachedInv, FromRadio, FromAdc, FromSntp, FromMdns
  <2>3. NeededInv'
    BY <1>0, <1>17 DEF TimerCallback, ReachedInv, NeededInv, FromRadio, FromAdc, FromSntp, FromMdns
  <2>4. ServerInv'
    BY <1>0, <1>17 DEF TimerCallback, ServerInv, PageForMode
  <2> QED BY <2>1, <2>2, <2>3, <2>4 DEF BootInv
<1>18. CASE UNCHANGED bootVars
  <2>1. BootTypeOK'
    BY <1>0, <1>18 DEF bootVars, ram, BootTypeOK, BootPcs, Subsystems, Calls
  <2>2. ReachedInv'
    BY <1>0, <1>18 DEF bootVars, ram, ReachedInv, FromRadio, FromAdc, FromSntp, FromMdns
  <2>3. NeededInv'
    BY <1>0, <1>18 DEF bootVars, ram, ReachedInv, NeededInv, FromRadio, FromAdc, FromSntp, FromMdns
  <2>4. ServerInv'
    BY <1>0, <1>18 DEF bootVars, ram, ServerInv, PageForMode
  <2> QED BY <2>1, <2>2, <2>3, <2>4 DEF BootInv
<1>19. CASE Restart \/ PowerLoss
  BY <1>19, RestartKeeps
<1> QED
  BY <1>1, <1>2, <1>3, <1>4, <1>5, <1>6, <1>7, <1>8, <1>9, <1>10, <1>11, <1>12, <1>13, <1>14, <1>15, <1>16, <1>17, <1>18, <1>19
  DEF BootNext, AppMain, HttpServerTask, CheckRet2Aborts, EspWifiInitAborts, NoMemory,
      HttpdStartFails, TaskReturns

LEMMA BootInvIsSound == BootInv => StartIsSound
<1> SUFFICES ASSUME BootInv PROVE StartIsSound
  OBVIOUS
<1>0. BootTypeOK /\ ReachedInv /\ NeededInv /\ ServerInv
  BY DEF BootInv
<1>1. ASSUME NEW s \in up PROVE Needs(s) \subseteq up
  BY <1>0, <1>1 DEF NeededInv, Needs
<1>2. round => {"pins", "adc"} \subseteq up
  BY <1>0 DEF NeededInv, ServerInv
<1>3. server # "none" => {"spiffs", "nvs", "netif", "wifi"} \subseteq up
  BY <1>0 DEF NeededInv, ServerInv, ReachedInv, FromRadio
<1>4. page = "root_handler" => ssid
  BY <1>0 DEF ServerInv, PageForMode, ReachedInv, FromAdc, FromRadio
<1> QED BY <1>0, <1>1, <1>2, <1>3, <1>4 DEF StartIsSound

\* Whichever calls fail while the device starts, and whenever the power goes:
\* nothing runs on what was not initialised, no server without its partition,
\* and no page of measurements on a device that knows no network.
THEOREM StartsSound == BootSpec => []StartIsSound
BY BootInvInit, BootInvStep, BootInvIsSound, PTL DEF BootSpec

-----------------------------------------------------------------------------
(* The MQTT session implements the lossy channel: what may still be heard  *)
(* are the values on the way to the broker.                                *)

LEMMA ReportPackets ==
  /\ Subscribe \notin Reports /\ Greeting \notin Reports
  /\ \A i \in 1..MaxReports : Value(i) \in Reports /\ Value(i).n = i
  /\ Packets \ Reports \subseteq {Subscribe, Greeting}
<1>1. Subscribe.kind # "report" /\ Greeting.kind # "report"
  BY DEF Subscribe, Greeting
<1>2. \A p \in Reports : p.kind = "report"
  BY DEF Reports, Value
<1>3. \A i \in 1..MaxReports : Value(i) \in Reports /\ Value(i).n = i
  BY DEF Reports, Value
<1> QED BY <1>1, <1>2, <1>3 DEF Packets

\* The numbers of the values in a list of packets.
Numbers(list) ==
  LET values == Keep(list, Reports)
  IN  [i \in DOMAIN values |-> values[i].n]

LEMMA NumbersAppend ==
  ASSUME NEW list \in Seq(Packets), NEW p \in Packets
  PROVE  /\ Append(list, p) \in Seq(Packets)
         /\ p \notin Reports => Numbers(Append(list, p)) = Numbers(list)
         /\ p \in Reports => Numbers(Append(list, p)) = Append(Numbers(list), p.n)
<1> DEFINE values == Keep(list, Reports)
           longer == Append(values, p)
<1>1. Keep(Append(list, p), Reports) = IF p \in Reports THEN longer ELSE values
  BY KeepAppend
<1>2. values \in Seq(Packets)
  BY KeepRange
<1> HIDE DEF values
<1>3. /\ DOMAIN longer = 1..(Len(values) + 1) /\ DOMAIN values = 1..Len(values)
      /\ Len(values) \in Nat
      /\ longer[Len(values) + 1] = p /\ \A i \in 1..Len(values) : longer[i] = values[i]
  BY <1>2
<1> HIDE DEF longer
<1> DEFINE old == [i \in DOMAIN values |-> values[i].n]
           new == [i \in DOMAIN longer |-> longer[i].n]
<1>4. new = Append(old, p.n)
  <2>1. Len(old) = Len(values) /\ DOMAIN old = 1..Len(values)
    BY <1>3
  <2>2. Append(old, p.n) = [i \in 1..(Len(values) + 1) |->
                              IF i = Len(values) + 1 THEN p.n ELSE old[i]]
    BY <1>3, <2>1
  <2> QED BY <1>3, <2>2
<1>5. Append(list, p) \in Seq(Packets)
  OBVIOUS
<1> QED BY <1>1, <1>4, <1>5 DEF Numbers, values

LEMMA NumbersTail ==
  ASSUME NEW list \in Seq(Packets), list # <<>>
  PROVE  /\ Tail(list) \in Seq(Packets) /\ Head(list) \in Packets
         /\ Head(list) \notin Reports => Numbers(Tail(list)) = Numbers(list)
         /\ Head(list) \in Reports =>
              /\ Numbers(list) # <<>>
              /\ Head(list).n = Head(Numbers(list))
              /\ Numbers(Tail(list)) = Tail(Numbers(list))
<1> DEFINE p == Head(list)
           values == Keep(Tail(list), Reports)
           longer == <<p>> \o values
<1>1. Tail(list) \in Seq(Packets) /\ p \in Packets
  OBVIOUS
<1>2. Keep(list, Reports) = IF p \in Reports THEN longer ELSE values
  BY KeepHead
<1>3. values \in Seq(Packets)
  BY <1>1, KeepRange
<1> HIDE DEF values
<1>4. /\ DOMAIN longer = 1..(Len(values) + 1) /\ DOMAIN values = 1..Len(values)
      /\ Len(values) \in Nat
      /\ longer[1] = p /\ \A i \in 1..Len(values) : longer[i + 1] = values[i]
  BY <1>1, <1>3
<1> HIDE DEF longer
<1> DEFINE short == [i \in DOMAIN values |-> values[i].n]
           long  == [i \in DOMAIN longer |-> longer[i].n]
<1>5. long # <<>> /\ p.n = Head(long) /\ short = Tail(long)
  <2>1. long \in Seq({longer[i].n : i \in DOMAIN longer}) /\ Len(long) = Len(values) + 1
    BY <1>4
  <2>2. long # <<>> /\ Head(long) = long[1] /\ long[1] = p.n
    BY <1>4, <2>1
  <2>3. Tail(long) = [i \in 1..Len(values) |-> long[i + 1]]
    BY <1>4, <2>1, <2>2
  <2>4. \A i \in 1..Len(values) : long[i + 1] = values[i].n
    BY <1>4
  <2> QED BY <1>4, <2>2, <2>3, <2>4
<1> QED BY <1>1, <1>2, <1>5 DEF Numbers, values

WayInv == toBroker \in Seq(Packets) /\ reports \in Nat

LEMMA WayInit == MqttInit => WayInv /\ C!CInit
<1> SUFFICES ASSUME MqttInit PROVE WayInv /\ C!CInit
  OBVIOUS
<1>1. toBroker = <<>> /\ reports = 0 /\ heard = <<>>
  BY DEF MqttInit
<1>2. Keep(toBroker, Reports) = <<>>
  BY <1>1, KeepEmpty
<1>3. OnWay = <<>>
  BY <1>2 DEF OnWay
<1> QED BY <1>1, <1>3 DEF WayInv, C!CInit

\* What is written is appended, or lost with a dead connection.
LEMMA Written ==
  ASSUME WayInv, NEW p \in Packets, Write(p)
  PROVE  /\ toBroker' \in Seq(Packets)
         /\ p \notin Reports => OnWay' = OnWay
         /\ p \in Reports => OnWay' \in {OnWay, Append(OnWay, p.n)}
<1>1. OnWay = Numbers(toBroker) /\ OnWay' = Numbers(toBroker')
  BY DEF OnWay, Numbers
<1>2. CASE link = "up"
  <2>1. toBroker' = Append(toBroker, p)
    BY <1>2 DEF Write
  <2> QED BY <1>1, <2>1, NumbersAppend DEF WayInv
<1>3. CASE link # "up"
  <2>1. toBroker' = toBroker
    BY <1>3 DEF Write
  <2> QED BY <1>1, <2>1 DEF WayInv
<1> QED BY <1>2, <1>3

LEMMA WayStep ==
  WayInv /\ [MqttNext]_mqttVars => WayInv' /\ [C!CNext]_(C!cvars)
<1> SUFFICES ASSUME WayInv, [MqttNext]_mqttVars
             PROVE  WayInv' /\ (C!CNext \/ UNCHANGED <<reports, OnWay, heard>>)
  BY DEF C!cvars
<1>1. OnWay = Numbers(toBroker) /\ OnWay' = Numbers(toBroker')
  BY DEF OnWay, Numbers
<1>2. CASE UNCHANGED <<toBroker, reports, heard>>
  BY <1>1, <1>2 DEF WayInv
<1>3. CASE HandleConnected \/ HandleSubscribed
  <2>1. UNCHANGED <<reports, heard>>
    BY <1>3 DEF HandleConnected, HandleSubscribed
  <2>2. Write(Subscribe) \/ Write(Greeting) \/ toBroker' = toBroker
    BY <1>3 DEF HandleConnected, HandleSubscribed, OnConnected
  <2>3. Subscribe \in Packets \ Reports /\ Greeting \in Packets \ Reports
    BY ReportPackets DEF Packets
  <2>4. toBroker' \in Seq(Packets) /\ OnWay' = OnWay
    BY <1>1, <2>2, <2>3, Written DEF WayInv
  <2> QED BY <2>1, <2>4 DEF WayInv
<1>4. CASE Publish
  <2>1. reports' = reports + 1 /\ reports' \in 1..MaxReports /\ heard' = heard
    BY <1>4, ReportsAssumption DEF Publish, WayInv
  <2>2. Write(Value(reports')) \/ toBroker' = toBroker
    BY <1>4 DEF Publish, PublishQos0
  <2>3. Value(reports') \in Reports /\ Value(reports') \in Packets /\ Value(reports').n = reports + 1
    BY <2>1, ReportPackets DEF Packets
  <2>4. toBroker' \in Seq(Packets) /\ OnWay' \in {OnWay, Append(OnWay, reports + 1)}
    BY <1>1, <2>2, <2>3, Written DEF WayInv
  <2>5. C!Report
    BY <2>1, <2>4 DEF C!Report
  <2> QED BY <2>1, <2>4, <2>5 DEF WayInv, C!CNext
<1>5. CASE LinkDies
  <2>1. toBroker' = <<>> /\ UNCHANGED <<reports, heard>>
    BY <1>5 DEF LinkDies
  <2>2. OnWay' = <<>>
    BY <2>1, KeepEmpty DEF OnWay
  <2> QED BY <2>1, <2>2 DEF WayInv, C!CNext, C!LoseAll
<1>6. CASE BrokerGrants
  <2>1. /\ toBroker # <<>> /\ Head(toBroker) \notin Reports /\ toBroker' = Tail(toBroker)
        /\ UNCHANGED <<reports, heard>>
    BY <1>6, ReportPackets DEF BrokerGrants
  <2>2. toBroker' \in Seq(Packets) /\ OnWay' = OnWay
    BY <1>1, <2>1, NumbersTail DEF WayInv
  <2> QED BY <2>1, <2>2 DEF WayInv
<1>7. CASE BrokerPassesOn
  <2>1. toBroker # <<>> /\ Head(toBroker) # Subscribe /\ toBroker' = Tail(toBroker)
        /\ reports' = reports
    BY <1>7 DEF BrokerPassesOn
  <2>2. toBroker' \in Seq(Packets) /\ Head(toBroker) \in Packets
    BY <2>1, NumbersTail DEF WayInv
  <2>3. CASE Head(toBroker) = Greeting
    <3>1. heard' = heard /\ Head(toBroker) \notin Reports
      BY <1>7, <2>3, ReportPackets DEF BrokerPassesOn
    <3>2. OnWay' = OnWay
      BY <1>1, <2>1, <3>1, NumbersTail DEF WayInv
    <3> QED BY <2>1, <2>2, <3>1, <3>2 DEF WayInv
  <2>4. CASE Head(toBroker) # Greeting
    <3>1. Head(toBroker) \in Reports /\ heard' = Append(heard, Head(toBroker).n)
      BY <1>7, <2>1, <2>2, <2>4, ReportPackets DEF BrokerPassesOn
    <3>2. OnWay # <<>> /\ Head(toBroker).n = Head(OnWay) /\ OnWay' = Tail(OnWay)
      BY <1>1, <2>1, <3>1, NumbersTail DEF WayInv
    <3>3. C!Hear
      BY <2>1, <3>1, <3>2 DEF C!Hear
    <3> QED BY <2>1, <2>2, <3>3 DEF WayInv, C!CNext
  <2> QED BY <2>3, <2>4
<1>8. CASE MqttAppStart \/ HandleOther \/ Connects \/ ClientReceives \/ NoticesLoss \/ Commands
  <2>1. UNCHANGED <<toBroker, reports, heard>>
    BY <1>8 DEF MqttAppStart, HandleOther, Connects, ClientReceives, NoticesLoss, Commands
  <2> QED BY <1>2, <2>1
<1>9. CASE UNCHANGED mqttVars
  BY <1>2, <1>9 DEF mqttVars
<1> QED
  BY <1>3, <1>4, <1>5, <1>6, <1>7, <1>8, <1>9 DEF MqttNext, Client, Handler, Broker

\* However often the connection dies, each report is heard at most once and in
\* the order of the reports, for any number of them.
THEOREM ReportsInOrder == MqttSpec => RefinesLossyChannel
<1>1. MqttSpec => C!CSpec
  BY WayInit, WayStep, PTL DEF MqttSpec, C!CSpec
<1> QED BY <1>1 DEF RefinesLossyChannel
=============================================================================
