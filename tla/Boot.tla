-------------------------------- MODULE Boot --------------------------------
(***************************************************************************)
(* From reset to running: app_main and the initialisers it calls, in their *)
(* order, with the failures it ignores and those that restart the device;  *)
(* then http_server_task, which runs on its own.                           *)
(* Flash outlives a restart: the NVS pages and the SPIFFS partition.       *)
(***************************************************************************)
EXTENDS FiniteSets

VARIABLES
  bootPc,   \* the call app_main is at
  up,       \* what has been initialised since reset
  wifiMode, \* the mode of the WiFi driver
  ssid,     \* TRUE if global_ssid holds a name
  ret,      \* the local ret of init_spiffs
  ret2,     \* its local ret2
  server,   \* where http_server_task is
  page,     \* the handler registered for "/"
  round,    \* TRUE while timer_callback runs
  failed,   \* history: the calls that failed since reset without a restart
  nvs,      \* the NVS partition: good, or without a free page
  fs        \* the SPIFFS partition: good, damaged, or formatted and empty

ram      == <<up, wifiMode, ssid, ret, ret2, server, page, round, failed>>
flash    == <<nvs, fs>>
bootVars == <<bootPc, ram, flash>>

Subsystems == {"pins", "spiffs", "nvs", "netif", "wifi", "adc", "sntp",
               "mdns", "mqtt", "timer", "clock"}

Reset ==
  /\ bootPc = "pin_config"
  /\ up = {}
  /\ wifiMode = "none"
  /\ ssid = FALSE
  /\ ret = "ok"
  /\ ret2 = "ok"
  /\ server = "none"
  /\ page = "none"
  /\ round = FALSE
  /\ failed = {}

BootInit == Reset /\ nvs = "good" /\ fs = "good"

\* abort(), as ESP_ERROR_CHECK and assert do it and FreeRTOS answers a task that
\* returns.
Restart ==
  /\ bootPc' = "pin_config"
  /\ up' = {}
  /\ wifiMode' = "none"
  /\ ssid' = FALSE
  /\ ret' = "ok"
  /\ ret2' = "ok"
  /\ server' = "none"
  /\ page' = "none"
  /\ round' = FALSE
  /\ failed' = {}
  /\ UNCHANGED flash

\* Losing power while flash is written can leave either partition unusable.
PowerLoss ==
  /\ bootPc' = "pin_config"
  /\ up' = {}
  /\ wifiMode' = "none"
  /\ ssid' = FALSE
  /\ ret' = "ok"
  /\ ret2' = "ok"
  /\ server' = "none"
  /\ page' = "none"
  /\ round' = FALSE
  /\ failed' = {}
  /\ nvs' \in {nvs, "full"}
  /\ fs' \in {fs, "damaged"}

-----------------------------------------------------------------------------
(* app_main.                                                               *)

Step(from, to, s) ==
  /\ bootPc = from
  /\ bootPc' = to
  /\ up' = up \cup s

PinConfig ==
  /\ Step("pin_config", "spiffs_register", {"pins"})
  /\ UNCHANGED <<wifiMode, ssid, ret, ret2, server, page, round, failed, flash>>

\* format_if_mount_failed: a partition that does not mount loses its files.
SpiffsRegister ==
  /\ Step("spiffs_register", "spiffs_info", {"spiffs"})
  /\ fs' = IF fs = "damaged" THEN "formatted" ELSE fs
  /\ UNCHANGED <<wifiMode, ssid, ret, ret2, server, page, round, failed, nvs>>

\* esp_vfs_spiffs_register or esp_spiffs_info fails: init_spiffs returns
\* before nvs_flash_init and esp_netif_init, and app_main goes on.
SpiffsFails ==
  /\ bootPc \in {"spiffs_register", "spiffs_info"}
  /\ bootPc' = "read_password"
  /\ ret' = "fail"
  /\ failed' = failed \cup {"init_spiffs"}
  /\ UNCHANGED <<up, wifiMode, ssid, ret2, server, page, round, flash>>

SpiffsInfo ==
  /\ Step("spiffs_info", "nvs_flash_init", {})
  /\ ret' = "ok"
  /\ UNCHANGED <<wifiMode, ssid, ret2, server, page, round, failed, flash>>

NvsFlashInit ==
  /\ Step("nvs_flash_init", "test_ret", {})
  /\ ret2' = IF nvs = "full" THEN "no_free_pages" ELSE "ok"
  /\ UNCHANGED <<wifiMode, ssid, ret, server, page, round, failed, flash>>

\* The test looks at ret, which still holds the result of esp_spiffs_info.
TestedResult == ret

TestRet ==
  /\ bootPc = "test_ret"
  /\ nvs' = IF TestedResult = "no_free_pages" THEN "good" ELSE nvs
  /\ bootPc' = "check_ret2"
  /\ UNCHANGED <<ram, fs>>

CheckRet2 ==
  /\ ret2 = "ok"
  /\ Step("check_ret2", "read_password", {"nvs", "netif"})
  /\ UNCHANGED <<wifiMode, ssid, ret, ret2, server, page, round, failed, flash>>

CheckRet2Aborts ==
  /\ bootPc = "check_ret2"
  /\ ret2 # "ok"
  /\ Restart

\* Without the file, or without memory for its text or its items, read_password
\* fails, which is ignored: global_ssid keeps its zeros.
ReadPassword ==
  /\ Step("read_password", "iniciar_wifi", {})
  /\ ssid' \in {FALSE, "spiffs" \in up /\ fs = "good"}
  /\ failed' = IF ssid' THEN failed ELSE failed \cup {"read_password"}
  /\ UNCHANGED <<wifiMode, ret, ret2, server, page, round, flash>>

\* CONFIGURAR is the pin; both starts call esp_netif_init themselves.
IniciarWifi ==
  /\ \/ Step("iniciar_wifi", "wifi_init_softap", {"netif"})
     \/ Step("iniciar_wifi", "wifi_init_sta", {"netif"})
  /\ UNCHANGED <<wifiMode, ssid, ret, ret2, server, page, round, failed, flash>>

\* Mutant: the result of esp_wifi_init is not checked.
WifiInitUnchecked == TRUE

\* esp_wifi_init, under ESP_ERROR_CHECK, refuses to start without NVS.
WifiInitOk == "nvs" \in up

EspWifiInit ==
  /\ WifiInitOk
  /\ \/ /\ Step("wifi_init_softap", "start_ap", {"wifi"})
        /\ wifiMode' = "AP"
     \/ /\ Step("wifi_init_sta", "wait_bits", {"wifi"})
        /\ wifiMode' = "STA"
  /\ UNCHANGED <<ssid, ret, ret2, server, page, round, failed, flash>>

EspWifiInitAborts ==
  /\ bootPc \in {"wifi_init_softap", "wifi_init_sta"}
  /\ ~WifiInitOk
  /\ Restart

\* xEventGroupWaitBits returns once the station has connected or given up,
\* which needs an SSID (module Wifi).
WaitBitsReturns ==
  /\ ssid
  /\ Step("wait_bits", "set_adc", {})
  /\ UNCHANGED <<wifiMode, ssid, ret, ret2, server, page, round, failed, flash>>

\* The calls that follow, and what is up once they have succeeded.
Rest == {<<"start_ap", "set_adc", {}>>,
         <<"set_adc", "initialize_sntp", {"adc"}>>,
         <<"initialize_sntp", "mdns_init", {"sntp"}>>,
         <<"mdns_init", "mqtt_app_start", {"mdns"}>>,
         <<"mqtt_app_start", "xTimerStart", {"mqtt"}>>,
         <<"xTimerStart", "xTaskCreate", {"timer"}>>,
         <<"xTaskCreate", "xTaskCreatePinnedToCore", {"clock"}>>}

InitialiseNext ==
  /\ \E r \in Rest : Step(r[1], r[2], r[3])
  /\ UNCHANGED <<wifiMode, ssid, ret, ret2, server, page, round, failed, flash>>

\* Those whose result nobody looks at: of mdns_init, of esp_mqtt_client_init,
\* whose NULL makes every later call of the client an error, of xTimerStart and
\* of the task that reads the clock.
Ignored == {"mdns_init", "mqtt_app_start", "xTimerStart", "xTaskCreate"}

InitialiseFails ==
  /\ \E r \in Rest :
       /\ r[1] \in Ignored
       /\ Step(r[1], r[2], {})
       /\ failed' = failed \cup {r[1]}
  /\ UNCHANGED <<wifiMode, ssid, ret, ret2, server, page, round, flash>>

StartServerTask ==
  /\ Step("xTaskCreatePinnedToCore", "done", {})
  /\ server' = "starting"
  /\ UNCHANGED <<wifiMode, ssid, ret, ret2, page, round, failed, flash>>

\* There is no memory for the task: app_main ends and no server will ever start.
ServerTaskFails ==
  /\ Step("xTaskCreatePinnedToCore", "done", {})
  /\ failed' = failed \cup {"xTaskCreatePinnedToCore"}
  /\ UNCHANGED <<wifiMode, ssid, ret, ret2, server, page, round, flash>>

\* There is no memory for a call under ESP_ERROR_CHECK, or for the event group
\* or the timer, whose NULL xEventGroupWaitBits and xTimerStart assert against.
NoMemory ==
  /\ \/ bootPc = "check_ret2" /\ ret2 = "ok"
     \/ bootPc \in {"wifi_init_softap", "wifi_init_sta"} /\ WifiInitOk
     \/ bootPc \in {"start_ap", "xTimerStart"}
  /\ Restart

AppMain ==
  \/ PinConfig \/ SpiffsRegister \/ SpiffsFails \/ SpiffsInfo
  \/ NvsFlashInit \/ TestRet
  \/ CheckRet2 \/ CheckRet2Aborts
  \/ ReadPassword \/ IniciarWifi \/ EspWifiInit \/ EspWifiInitAborts \/ WaitBitsReturns
  \/ InitialiseNext \/ InitialiseFails \/ StartServerTask \/ ServerTaskFails \/ NoMemory

-----------------------------------------------------------------------------
(* http_server_task.                                                       *)

PageForMode == IF wifiMode = "STA" THEN "root_handler" ELSE "root_config"

\* The result of httpd_register_uri_handler is ignored.
HttpdStart ==
  /\ server = "starting"
  /\ server' = "listening"
  /\ \/ page' = PageForMode /\ UNCHANGED failed
     \/ failed' = failed \cup {"httpd_register_uri_handler"} /\ UNCHANGED page
  /\ UNCHANGED <<bootPc, up, wifiMode, ssid, ret, ret2, round, flash>>

\* Mutant: the task ends quietly and the device stays up without a server.
TaskEndsQuietly ==
  /\ server' = "ended"
  /\ UNCHANGED <<bootPc, up, wifiMode, ssid, ret, ret2, page, round, failed, flash>>

\* httpd_start fails and the function returns, which FreeRTOS aborts.
TaskReturns == Restart

HttpdStartFails ==
  /\ server = "starting"
  /\ TaskReturns

\* The timer service task runs timer_callback beside app_main (Telemetry).
TimerCallback ==
  /\ "timer" \in up
  /\ round' = ~round
  /\ UNCHANGED <<bootPc, up, wifiMode, ssid, ret, ret2, server, page, failed, flash>>

HttpServerTask == HttpdStart \/ HttpdStartFails

BootNext == AppMain \/ HttpServerTask \/ TimerCallback \/ PowerLoss

BootSpec == BootInit /\ [][BootNext]_bootVars

\* app_main's task and http_server_task are scheduled; power need not fail.
BootFairSpec == BootSpec /\ WF_bootVars(AppMain) /\ WF_bootVars(HttpServerTask)

-----------------------------------------------------------------------------
(* Properties.                                                             *)

BootPcs == {"pin_config", "spiffs_register", "spiffs_info", "nvs_flash_init",
        "test_ret", "check_ret2", "read_password", "iniciar_wifi",
        "wifi_init_softap", "wifi_init_sta", "start_ap", "wait_bits",
        "set_adc", "initialize_sntp", "mdns_init", "mqtt_app_start",
        "xTimerStart", "xTaskCreate", "xTaskCreatePinnedToCore", "done"}

Calls == Ignored \cup {"init_spiffs", "read_password", "xTaskCreatePinnedToCore",
                      "httpd_register_uri_handler"}

BootTypeOK ==
  /\ bootPc \in BootPcs
  /\ up \subseteq Subsystems
  /\ wifiMode \in {"none", "AP", "STA"}
  /\ ssid \in BOOLEAN
  /\ ret \in {"ok", "fail"}
  /\ ret2 \in {"ok", "no_free_pages"}
  /\ server \in {"none", "starting", "listening"}
  /\ round \in BOOLEAN
  /\ page \in {"none", "root_handler", "root_config"}
  /\ nvs \in {"good", "full"}
  /\ fs \in {"good", "damaged", "formatted"}
  /\ failed \subseteq Calls

\* What each subsystem uses from its first step on: the timer samples the
\* ADC and the DHT11 pin, all network parts sit on esp_netif.
Needs(s) ==
  CASE s = "wifi"  -> {"nvs", "netif"}
    [] s = "mdns"  -> {"netif", "wifi"}
    [] s = "mqtt"  -> {"netif", "wifi"}
    [] s = "timer" -> {"pins", "adc"}
    [] s = "clock" -> {"sntp"}
    [] OTHER       -> {}

\* app_main ignores the failure of init_spiffs, which then leaves NVS and
\* esp_netif out, of read_password and of six more calls.  Still nothing runs on
\* what was not initialised, no server runs without the partition its pages are
\* on, and no page of measurements is served without the name of a network.
StartIsSound ==
  /\ BootTypeOK
  /\ \A s \in up : Needs(s) \subseteq up
  /\ round => {"pins", "adc"} \subseteq up
  /\ server # "none" => {"spiffs", "nvs", "netif", "wifi"} \subseteq up
  /\ page = "root_handler" => ssid

\* What disturbs a start from outside of the code: a partition that does not
\* mount, a loss of power, and a call that restarts the device for want of memory
\* or of a socket, which as a step is a loss of power; the two aborts that follow
\* from what the code did before are not.
Fault == SpiffsFails \/ (PowerLoss /\ ~CheckRet2Aborts /\ ~EspWifiInitAborts)

\* A device that is no longer disturbed ends up serving its pages, but for three
\* ends: pages of NVS without room restart it for ever; without credentials it
\* waits for ever for a network; without the task it has no server.
EveryStartSettles ==
  <>[][~Fault]_bootVars =>
    \/ <>[](server = "listening")
    \/ <>[](nvs = "full")
    \/ <>[](bootPc = "wait_bits" /\ "read_password" \in failed)
    \/ <>[](bootPc = "done" /\ "xTaskCreatePinnedToCore" \in failed)

\* ESP_ERROR_CHECK(ret2): by then NVS has been initialised, pages without
\* room having been erased just before.
Ret2IsOk == bootPc = "check_ret2" => ret2 = "ok"
=============================================================================
