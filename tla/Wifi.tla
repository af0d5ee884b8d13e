-------------------------------- MODULE Wifi --------------------------------
(***************************************************************************)
(* iniciar_wifi of main.c: app_main's task brings the radio up as an open  *)
(* access point or as a station, as the CONFIGURAR pin says, and as a      *)
(* station it blocks until event_handler has set a bit of                  *)
(* s_wifi_event_group.  event_handler runs in the task of the default      *)
(* event loop, one event of its queue at a time.  The driver and lwIP,     *)
(* which post the events, are external: the link and the DHCP client are   *)
(* modelled as far as event_handler can tell.                              *)
(***************************************************************************)
EXTENDS Naturals, Sequences

CONSTANT EXAMPLE_ESP_MAXIMUM_RETRY

ASSUME RetryAssumption == EXAMPLE_ESP_MAXIMUM_RETRY \in Nat

VARIABLES
  configurar,   \* the level of the CONFIGURAR pin is 1
  usable,       \* read_password has put an SSID in global_ssid
  main,         \* where app_main's task is
  mode,         \* the mode of the radio
  s_retry_num,
  bits,         \* the bits set in s_wifi_event_group
  queue,        \* the events posted and not yet dispatched
  link,         \* the station: "off", "idle", "connecting" or "up"
  dhcp,         \* its DHCP client: "off", "asking" or "granted"
  attempts      \* history: esp_wifi_connect calls since the last IP address

radioVars == <<link, dhcp, queue>>
vars == <<configurar, usable, main, mode, s_retry_num, bits, radioVars, attempts>>

Init ==
  /\ configurar \in BOOLEAN
  /\ usable \in BOOLEAN
  /\ main = "iniciar_wifi"
  /\ mode = "NULL"
  /\ s_retry_num = 0
  /\ bits = {}
  /\ queue = <<>>
  /\ link = "off"
  /\ dhcp = "off"
  /\ attempts = 0

-----------------------------------------------------------------------------
(* app_main's task.                                                        *)

\* Nothing after esp_wifi_start waits: wifi_event_handler only logs.
WifiInitSoftap ==
  /\ main = "iniciar_wifi"
  /\ ~configurar
  /\ mode' = "AP"
  /\ main' = "access_point"
  /\ UNCHANGED <<configurar, usable, s_retry_num, bits, radioVars, attempts>>

\* esp_wifi_start posts WIFI_EVENT_STA_START.
WifiInitSta ==
  /\ main = "iniciar_wifi"
  /\ configurar
  /\ mode' = "STA"
  /\ link' = "idle"
  /\ queue' = Append(queue, "STA_START")
  /\ main' = "xEventGroupWaitBits"
  /\ UNCHANGED <<configurar, usable, s_retry_num, bits, dhcp, attempts>>

\* The bits are not cleared on exit, and CONNECTED is looked at first.
WaitBitsReturns ==
  /\ main = "xEventGroupWaitBits"
  /\ bits # {}
  /\ main' = IF "CONNECTED" \in bits THEN "connected" ELSE "failed"
  /\ UNCHANGED <<configurar, usable, mode, s_retry_num, bits, radioVars, attempts>>

MainTask == WifiInitSoftap \/ WifiInitSta \/ WaitBitsReturns

-----------------------------------------------------------------------------
(* The event loop's task: the default handlers of esp_netif, which start   *)
(* and stop the DHCP client, and event_handler.  Only this task uses       *)
(* s_retry_num, so one event is one step.                                  *)

Dispatched(e) ==
  /\ queue # <<>>
  /\ Head(queue) = e
  /\ queue' = Tail(queue)
  /\ UNCHANGED <<configurar, usable, main, mode>>

\* esp_wifi_connect is refused without an SSID and while the link is in use;
\* its result is ignored.
EspWifiConnect ==
  /\ link' = IF usable /\ link = "idle" THEN "connecting" ELSE link
  /\ attempts' = attempts + 1

\* Mutants: one retry too many; one too few.
RetryOnceMore == s_retry_num <= EXAMPLE_ESP_MAXIMUM_RETRY
RetryOnceLess == s_retry_num + 1 < EXAMPLE_ESP_MAXIMUM_RETRY

RetriesLeft == s_retry_num < EXAMPLE_ESP_MAXIMUM_RETRY

OnStaStart ==
  /\ Dispatched("STA_START")
  /\ EspWifiConnect
  /\ UNCHANGED <<s_retry_num, bits, dhcp>>

\* Mutant: the first branch of event_handler takes this event too.
OnStaConnectedConnects ==
  /\ Dispatched("STA_CONNECTED")
  /\ dhcp' = "asking"
  /\ EspWifiConnect
  /\ UNCHANGED <<s_retry_num, bits>>

\* event_handler has no branch for this event.
OnStaConnected ==
  /\ Dispatched("STA_CONNECTED")
  /\ dhcp' = "asking"
  /\ UNCHANGED <<s_retry_num, bits, link, attempts>>

OnStaDisconnectedRetry ==
  /\ Dispatched("STA_DISCONNECTED")
  /\ RetriesLeft
  /\ dhcp' = "off"
  /\ EspWifiConnect
  /\ s_retry_num' = s_retry_num + 1
  /\ UNCHANGED bits

\* Mutant: the retries run out silently.
BitOfGivingUpMissing == {}

BitOfGivingUp == {"FAIL"}

OnStaDisconnectedGiveUp ==
  /\ Dispatched("STA_DISCONNECTED")
  /\ ~RetriesLeft
  /\ dhcp' = "off"
  /\ bits' = bits \cup BitOfGivingUp
  /\ UNCHANGED <<s_retry_num, link, attempts>>

OnStaGotIp ==
  /\ Dispatched("STA_GOT_IP")
  /\ s_retry_num' = 0
  /\ bits' = bits \cup {"CONNECTED"}
  /\ attempts' = 0
  /\ UNCHANGED <<link, dhcp>>

EventLoop ==
  \/ OnStaStart
  \/ OnStaConnected
  \/ OnStaDisconnectedRetry
  \/ OnStaDisconnectedGiveUp
  \/ OnStaGotIp

-----------------------------------------------------------------------------
(* The driver and lwIP, external.                                          *)

Post(e) ==
  /\ queue' = Append(queue, e)
  /\ UNCHANGED <<configurar, usable, main, mode, s_retry_num, bits, attempts>>

AttemptFails ==
  /\ link = "connecting"
  /\ link' = "idle"
  /\ Post("STA_DISCONNECTED")
  /\ UNCHANGED dhcp

AttemptSucceeds ==
  /\ link = "connecting"
  /\ link' = "up"
  /\ Post("STA_CONNECTED")
  /\ UNCHANGED dhcp

LinkLost ==
  /\ link = "up"
  /\ link' = "idle"
  /\ Post("STA_DISCONNECTED")
  /\ UNCHANGED dhcp

\* The answer of the DHCP server reaches lwIP ...
LeaseArrives ==
  /\ link = "up"
  /\ dhcp = "asking"
  /\ dhcp' = "granted"
  /\ UNCHANGED <<configurar, usable, main, mode, s_retry_num, bits, link, queue, attempts>>

\* ... whose task posts the event, by then perhaps behind a disconnection.
LeasePosted ==
  /\ dhcp = "granted"
  /\ dhcp' = "off"
  /\ Post("STA_GOT_IP")
  /\ UNCHANGED link

Radio ==
  \/ AttemptFails
  \/ AttemptSucceeds
  \/ LinkLost
  \/ LeaseArrives
  \/ LeasePosted

Next == MainTask \/ EventLoop \/ Radio

Spec == Init /\ [][Next]_vars

\* The tasks are scheduled, the driver ends every attempt one way or the
\* other, and a DHCP server answers a station that stays associated.
Fairness ==
  /\ WF_vars(MainTask)
  /\ WF_vars(EventLoop)
  /\ WF_vars(AttemptFails \/ AttemptSucceeds)
  /\ WF_vars(LeaseArrives)
  /\ WF_vars(LeasePosted)

FairSpec == Spec /\ Fairness

-----------------------------------------------------------------------------
(* Properties.                                                             *)

Events == {"STA_START", "STA_CONNECTED", "STA_DISCONNECTED", "STA_GOT_IP"}

\* Type invariant; it bounds the retry counter and the event queue.
TypeOK ==
  /\ configurar \in BOOLEAN /\ usable \in BOOLEAN
  /\ main \in {"iniciar_wifi", "access_point", "xEventGroupWaitBits",
               "connected", "failed"}
  /\ mode \in {"NULL", "AP", "STA"}
  /\ s_retry_num \in 0..EXAMPLE_ESP_MAXIMUM_RETRY
  /\ bits \subseteq {"CONNECTED", "FAIL"}
  /\ queue \in Seq(Events) /\ Len(queue) <= 3
  /\ link \in {"off", "idle", "connecting", "up"}
  /\ dhcp \in {"off", "asking", "granted"}
  /\ attempts \in Nat

\* Help of ESP_MAXIMUM_RETRY: an access point that is not there is not asked
\* for without end.  Without an IP address in between, esp_wifi_connect is
\* called once and retried at most the configured number of times.
AttemptsAreBounded == attempts <= EXAMPLE_ESP_MAXIMUM_RETRY + 1

\* The events after which event_handler still has to act for the station.
Owed == {i \in DOMAIN queue : queue[i] \in {"STA_START", "STA_DISCONNECTED"}}

\* A station that could connect is never idle with nothing pending unless the
\* retries ran out and the FAIL bit says so.
IdleMeansGaveUp ==
  usable /\ link = "idle" /\ Owed = {} => "FAIL" \in bits

\* Every call of esp_wifi_connect that can start an attempt finds the station
\* idle: no retry is lost by asking while an attempt or a link is alive,
\* however late the events are dispatched.
NoAttemptIsRefused ==
  [][attempts' > attempts => link = "idle"]_vars

\* The handler gives up only after as many attempts as configured.
GivesUpAfterAllRetries ==
  [][Dispatched("STA_DISCONNECTED") /\ attempts' = attempts
       => attempts >= EXAMPLE_ESP_MAXIMUM_RETRY]_vars

\* With an SSID, app_main always leaves iniciar_wifi.
IniciarWifiReturns ==
  usable => <>(main \in {"access_point", "connected", "failed"})

\* wifi_init_sta says that it goes over to AP when it cannot connect.
FallsBackToAp ==
  [](main = "failed" => <>(mode = "AP"))
=============================================================================
