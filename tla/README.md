# A verification of the MQTT greenhouse firmware

`src/main/main.c` is the firmware of an ESP32 that measures the air (DHT11) and
the soil (ADC) of a greenhouse, publishes the measurements over MQTT, serves a
web page that shows them and switches the watering, and takes its WiFi
credentials from a form. The repository carries the mDNS component it is built
with, `managed_components/espressif__mdns`. This directory holds TLA+ models of
both, the TLC configurations that check them and TLAPS proofs about them.

Line numbers below are those of `src/main/main.c` unless a file is named;
`mdns.c` is `src/managed_components/espressif__mdns/mdns.c`, and `mdns.h` the
header in its `include/`.

## 1. Inventory

### The firmware

The program runs on two cores under FreeRTOS (`sdkconfig`: tick 100 Hz, timer
task at priority 1, event queue of 32). Seven tasks run code of `main.c`:
`app_main`, the timer service task (`timer_callback` every 2 s), the HTTP server
task (all handlers, one request at a time), the default event loop
(`event_handler`, `wifi_event_handler`), the MQTT client's task
(`mqtt_event_handler`), `update_time_task`, and `http_server_task`, which starts
the server and then only sleeps. **They share plain global
variables; `main.c` contains no lock.**

| Component | State | Operations | Interacts through | Hard part | What makes it correct |
|---|---|---|---|---|---|
| Telemetry (193–250, 917–933) | `humidity`, `temperature`, `humedadsuelo`, `alarmariego`, `regar`, `mqtt_logs`, the locals of a round | `leer_Dht`, `leerHumedadSuelo`, `publish_sensor_state` | globals shared with the HTTP task; `esp_mqtt_client_publish` | stores and loads with no lock; a failed DHT11 reading; the dead point at 50 | a report tells one reading, and an alarm that agrees with its soil humidity |
| Device handlers (290–309, 884–896) | `regar`, the GPIO level, the reply being built | `send_data`, `toggle_regar_handler` | the same globals | `%s` of `mqtt_logs` measures, then copies, while the timer task clears it | a reply is exact when no round overlaps it; a valve position that lasts is reported |
| WiFi start (447–587, 897–910) | `s_retry_num`, `s_wifi_event_group`, the driver's link, the event queue | `iniciar_wifi`, `wifi_init_sta`, `wifi_init_softap`, `event_handler` | event loop, event group, driver calls | events dispatched late; retries; `app_main` waits with no timeout | bounded retries, none lost, none given up early; `app_main` gets on |
| Credentials (391–446, 794–883, `data/redconfig.html`, `data/config2.json`) | files of the SPIFFS partition, `global_ssid`, `global_password`, the handler's buffers | `config_handler`, `save_config_to_file`, `read_password` | the file system, across restarts | a url-encoded body received in pieces; `strtok` over an uninitialised buffer; power loss | what is typed is what is saved, what is saved is used and not lost |
| Start-up (313–361, 911–916, 1014–1057) | order of initialisation, NVS, the mounted partition | `app_main`, `init_spiffs`, `pin_config`, `set_adc` | everything | ignored failures, of the task of the server too; `ESP_ERROR_CHECK` aborts; a wrong variable tested at 351 | nothing runs on what was not initialised; every start settles |
| MQTT session (119–183) | connection, subscription | `mqtt_app_start`, `mqtt_event_handler` | esp-mqtt client, telemetry | reconnects; QoS 0 loses messages | reports are heard in order and at most once; a connection that lasts works |
| Web server and files (391–446, 588–764, 794–842, 934–1012) | handler table, heap, open files | `http_server_task`, the page handlers and readers | the mode chosen by WiFi start, SPIFFS | error paths must give everything back; at most five files | every request is answered, with the page that fits; nothing leaks |
| Clock (184–192, 251–289) | wall clock | `initialize_sntp`, `update_time_task` | none | polls that come late | a full hour is seen at most once |
| Text buffers (99–100, 194–195, 301) | bytes of `log_entry`, `mqtt_logs`, `json_buf` | `snprintf`, `strncat` | telemetry, `send_data` | fixed sizes | no entry and no reply is cut |
| Web page (`data/app.js`, `data/index.html`) | what the page shows | a poll a second, the toggle button | `/data`, `/regar` | replies out of order; a toggle that is repeated | the page settles on the device's state |

### The mDNS component

`main.c` calls only `mdns_init` and `mdns_hostname_set`; the models cover the
whole interface of the component, as a library. Client tasks post actions to a
queue of 16; one service task executes them, as it does the packets that the
network posts; a periodic timer (every 100 ms, in the task of `esp_timer`) posts
the packets that are due and the searches that are to be asked again or ended.
A mutex is held by the service task while it executes and by the timer callback
while it looks; **clients read the lists without it.** `sdkconfig` puts the
service task, the timer task and `app_main` on CPU 0, the timer task with the
highest priority.

| Component | State | Operations | Interacts through | Hard part | What makes it correct |
|---|---|---|---|---|---|
| Transmit queue | `tx_queue_head`, the `queued` marks, the clock in 32 bits | `_mdns_schedule_tx_packet`, `_mdns_scheduler_run`, `ACTION_TX_HANDLE`, `_mdns_clear_pcb_tx_queue_head` | action queue, timer, responders | a posted action names a packet that may be gone, its memory used again | each packet is sent once, when due, or cleared |
| Responders | per interface and protocol: `state`, `probe_services`, `probe_ip`, `probe_running`, the packets scheduled | `_mdns_init_pcb_probe`, `_mdns_restart_all_pcbs`, `_mdns_tx_handle_packet`, collisions, duplicates, `_mdns_remove_scheduled_service_packets` | services, transmit queue, events of the interfaces | restarts, disputes and removals in the middle of probing and announcing | a name is told only after three probes; what is removed is mentioned no more; it comes to rest |
| Services | the list, the text items and subtypes of each | `mdns_service_add`, `_remove`, `_port_set`, `_txt_*`, `_subtype_*`, `_instance_name_set` | action queue | looked up by address when called, changed when executed | once nothing waits, the list is as the calls made it; all memory has one owner |
| Host names | own name, delegated hosts, the name each service keeps, a binary semaphore | `mdns_hostname_set`, `mdns_delegate_hostname_*`, collisions of the name | action queue, services, transmit queue | the task renames the host by itself while calls wait | every service has a host that is answered for; calls return |
| Searches | `search_once`, state, results and semaphore of each | `mdns_query*`, `_mdns_search_run`, `_mdns_search_*` of the parser | action queue, timer, parser | the timer and the parser may both end a search that its client frees | ended once; no more results than asked for, none twice; the client gets its answer |
| Start and stop | task, timer, queue, mutex, all lists | `mdns_init`, `mdns_free`, `_mdns_service_task_start`, `_stop` | everything above | `esp_timer_stop` does not wait; a full queue; actions that are never executed and name what a list holds | nothing is used once destroyed; everything is freed once |

## 2. Modules

| Module | What it is |
|---|---|
| `Greenhouse` | abstract specification of the telemetry: an atomic sampler |
| `Telemetry`, `MCTelemetry`, `Telemetry_proofs` | the timer task and the HTTP task over the shared globals, one step per load and store |
| `Wifi` | `iniciar_wifi`, `event_handler`, the event queue and the driver |
| `FormBody` | the encoding and the parsing of the form, as operators |
| `Provisioning`, `MCProvisioning` | `config_handler`, `save_config_to_file`, `read_password`, power loss |
| `Network_proofs` | proofs about `Wifi` and `Provisioning` |
| `Boot` | `app_main` and the initialisers, from reset to running |
| `LossyChannel` | abstract specification of the reports: heard in order, at most once, perhaps not |
| `MqttSession` | `mqtt_app_start`, `mqtt_event_handler`, the client and a connection that dies |
| `WebFiles` | what the functions that use files hold, and what they answer |
| `Clock` | `update_time_task` |
| `LogBuffer` | the sizes of the text buffers |
| `Dashboard` | `app.js` against the two device handlers |
| `MCFirmware`, `Firmware_proofs` | the six parts above that share no state, in one run; proofs about all of them but `Dashboard` |
| `Lists`, `Lists_proofs` | `Keep`, a sequence without the elements that are dropped, and `Total`, how many things some owners have together, both written so that they can be proved about, and what is proved of them |
| `MdnsTxQueue`, `MdnsPcb` | the transmit queue and the responders |
| `MCResponder`, `MdnsResponder_proofs` | the instances of queue and responders, and proofs about both |
| `MdnsServices`, `MdnsHosts`, `MCRecords`, `MdnsRecords_proofs` | the services and the host names, their instances, and proofs about both |
| `MdnsSearch`, `MCSearch`, `MdnsSearch_proofs` | the searches |
| `MdnsLifecycle`, `MCLifecycle`, `MdnsLifecycle_proofs` | starting and stopping |

An `MC` module extends the components it runs, whose constants are those of the
configuration; where a component runs with other constants as well, that is a
named `INSTANCE` with variables of its own. The properties the proofs are about
are those of the components, so that a run and a theorem say the same.

### Telemetry

`mem` is the shared globals; `tpc` and `hpc` are the program counters of the two
tasks; `pend` and `todo` are the globals the timer task has still to store and
`send_data` still to load. The timer task's actions follow the code in order:
`TimerFires`, `LeerDht`, `StoreGlobal` (humidity, temperature),
`LeerHumedadSuelo`, `StoreGlobal` (soil, alarm), `ClearLogs` (the `memset`), and
then for each of the six topics `FormatMessage`, `PublishMessage`, `AppendLog`.
Adjacent stores, and the loads of one argument list, may happen in any order:
the compiler is free to order them, and without a lock the other core can see
any of the orders. The HTTP task's actions are `ToggleRegar` and `SetLevel`, and
`SendData`, `LoadGlobal`, `LogLength`, `CopyEntry`, `JsonReady`, `SendReply`.
`LogLength` and `CopyEntry` are what `%s` does: take the length, then copy that
many characters of whatever is there by then.

`mqtt_logs` is a count of entries (`logged`), not bytes: entries differ in their
text only, and their sizes are in `LogBuffer`. The wall clock is left out of the
report and of the reply. `sent` is what the round has handed to
`esp_mqtt_client_publish`; whether the broker gets it is in `MqttSession`.
`quiet` is a history variable: no timer round has been active since the request
began.

`Greenhouse` says what this is for: air and soil are each sampled at once, a
report tells the values of one sampling, the valve flips at any time. The
refinement maps a sample to the moment it is read (so the stores are invisible)
and a telling to the moment it is formatted.

### Wifi

`main` is where `app_main`'s task is; `queue` holds posted events that the event
loop has not dispatched; `link` and `dhcp` are the driver and the DHCP client as
far as `event_handler` can tell. One event is one step, since only the event
loop uses `s_retry_num`. There is an action per branch of `event_handler`
(`OnStaStart`, `OnStaDisconnectedRetry`, `OnStaDisconnectedGiveUp`,
`OnStaGotIp`) and one for the event that falls through (`OnStaConnected`). The
environment's actions are the ends of an attempt, the loss of a link, and the
DHCP answer, which is split from its event so that an address can be announced
after the link is lost. `usable` says that there is an SSID: without one
`esp_wifi_connect` is refused and no event follows. `attempts` is a history
variable, the calls of `esp_wifi_connect` since the last address. The access
point is an end state: `wifi_event_handler` only logs.

### FormBody and Provisioning

A cell of the receive buffer is a key word, a delimiter, a character of a value
as it is posted (`Chars`) or NUL. The form of `redconfig.html` names no
`enctype`, so a browser posts it url-encoded: `Escape` says what it posts for a
character that it must not post as it is (`+` for a space, `%40` for `@`), and
`Body` is the form so encoded. The code never decodes it.
`FormBody` gives what one call of `httpd_req_recv` leaves in the buffer
(`Received`), what `strtok` finds in it (`Tokens`) and leaves behind
(`AfterStrtok`), and what the loop makes of the tokens (`Parsed`); `Copied` is
the `strncpy`. Nothing ends the text at the end of `buf`: when all of it has been
received, `strtok` reads on over the stack behind it up to the first NUL
(`StackSize` bounds where that can be, `TextLength` is where it stops), and
writes its own NULs there.

`Provisioning` adds the contents of the uninitialised buffer and of the stack
behind it (`Junk`, one byte repeated in each, which is no delimiter), delivery
in pieces of any length, the truncating `fopen`, the unchecked `fprintf`, a
panic where `strncpy` would read from NULL, and the loss of power between any
two steps. Only `files` survives a restart. `ReadPassword` may fail whatever the
file holds, since the memory for its text and its items may be short
(405–436), and so may the save before it opens the file (`SaveFails`) or after
it has truncated it (`SaveRunsOut`). The partition is taken to mount;
what `format_if_mount_failed` (331) does if it does not is in `Boot`.

### Boot

`bootPc` is the call `app_main` is at; each call is an action, with another for
its failure. The failures that `app_main` ignores are those of `init_spiffs`
(`SpiffsFails`), `read_password`, `mdns_init`, `esp_mqtt_client_init` (179,
whose NULL makes every later call of the client return an error), `xTimerStart`
(1048) and the task that reads the clock (`Ignored`, `InitialiseFails`), and that
of the task of the server (`ServerTaskFails`); in that task the registration of
the handlers (`HttpdStart`). `failed` is a history variable, the failures since
the last reset. What restarts the device, with `nvs` and `fs` as they are, is
`ESP_ERROR_CHECK` (`CheckRet2Aborts`, `EspWifiInitAborts`, and `NoMemory` for
every other reason such a call has to fail), an assertion of FreeRTOS against the
NULL of an event group or of a timer (`NoMemory` as well), and
`http_server_task`, which returns if `httpd_start` fails. `set_adc` can only
fail on arguments that are constants of the code, and has no action for it.
`ret` and `ret2` are the two results that `init_spiffs` keeps, of which it tests
the wrong one. How long the station takes to connect is in `Wifi`; here
`iniciar_wifi` returns if there is a name to connect to. What a missing client
does to the reports is not carried over to `MqttSession`, which has one.

### MqttSession and LossyChannel

`toBroker` and `toClient` are the two directions of a connection, `event` the
event the client is about to hand to `mqtt_event_handler`, `sub` the broker's
memory of the subscription, which dies with the connection (the client keeps no
session). A value published without a connection is dropped (QoS 0). The abstract
`LossyChannel` is what a listener gets; everything a dead connection still holds
is lost at once. A broker that refuses a subscription is not modelled.

### WebFiles, Clock, LogBuffer, Dashboard

`WebFiles`: `held` is the set of files and blocks the running job owns, `lost`
those whose pointer is gone; each `fopen`, `malloc` and cJSON call may fail, and
the partition may lack any of the pages. `Clock`: time runs in fractions of a
second and a `vTaskDelay` may be a fraction late. `LogBuffer`: only lengths; the
timestamp and the message id take any length a 32-bit number has. `Dashboard`:
each request has a connection of its own, so the order of requests and answers
is free, and a browser may repeat a GET whose connection broke.

### MdnsTxQueue

A packet is an address; after it is freed the address is used again, while an
action that names it may still wait. `SchedulerRun` is one call of
`_mdns_scheduler_run`: the first packet that is not marked is posted if it is
due, by the signed difference of 32-bit times (`IsDue`, modulo `W`).
`ExecuteTxHandle` accepts an action only for the head of the queue and only if it
is marked; `ExecuteOther` stands for every action that schedules, restarts or
clears packets.

### MdnsPcb

One action here is one action of the service task, which executes them one at a
time. A packet is what it asks for, whose addresses it includes and what it
answers. `InitProbe` is `_mdns_init_pcb_probe` with the two cases of a pcb that
is probing and one that is not; `After` is the sequence of states of
`_mdns_tx_handle_packet`; `TxHandle` sends the packet at the head for that pcb
and schedules the next; `RemoveServices` is
`_mdns_remove_scheduled_service_packets`, for the one service of a removal or
for all of them, which the code removes one after the other in one action.
`asked` and `told` are histories: the probes sent for a
name since it was last claimed, and what neighbours have been told. A dispute
takes the answer of a lost name, of a service or of the host, as the cases of
the collision code: renaming, and restarting what is restarted there.

### MdnsServices and MdnsHosts

A call is one step: look up, copy, post; its failure with a full queue gives the
copies back. `blocks` counts what is allocated, `item` is what an address holds,
`wanted` is what the accepted calls, in their order, ask for. Execution is one
action per case of `_mdns_execute_action`, with every `free` of it.
`mdns_service_add` waits by polling the list, at most two seconds. A removal
drops an address from the list with `Keep`.

`MdnsHosts` can stand beside `MdnsServices` in one module: its specification is
`HostsSpec`, and what both have is named for hosts there (`hostServices`,
`hostActions`, `hostPc`, `hostBlocks`, `hostCalls`). In it each service is the name of its host. `sema` is the binary
semaphore given when a host name has been set; `Mangle` is the service task
renaming the host after a dispute; `scheduled` is the set of delegated hosts
whose address a packet in the transmit queue still holds. `Lookup` is
`mdns_lookup_selfhosted_service` and `mdns_lookup_delegated_service`.

### MdnsSearch

A search is an address, allocated and freed by its client. `SearchRun` is the
part of the timer callback for one search, `Receive` and `Parse` a packet with
one record and what the parser does with it, `Finished` the end, by the parser
(`_mdns_search_finish_done`) or by the action that the timer posted. A `max` and
a number of results are kept modulo `Byte`, the clock modulo `W`.

### MdnsLifecycle

Every step of `mdns_init`, of `_mdns_service_task_start` with its failures, and
of `mdns_free` with `_mdns_service_task_stop`, is an action of `owner`; `task`
is the service task between receiving, locking and executing; `callback` is
which half of `_mdns_timer_cb` comes next. `heap` says of every object whether
it is live, free, or was freed twice. `Carriers` are the actions that are drained
with an object: what one of them carries is freed, what two carry is freed
twice. Of these actions some give the object, which has no other owner (adding a
service, a host or a search, a packet received), and some only name what a list
holds (`Names`: `TX_HANDLE`, `SEARCH_SEND`); `named` is a history variable, what
the latter have named when they were drained.

What the service task executes is kept as far as it lists, allocates and frees.
`Reschedules` stands for all that an action can do to the transmit queue: it
frees any packets there, be they marked and named by an action that waits or not
(`_mdns_clear_pcb_tx_queue_head`, mdns.c:1581, called when a pcb begins to probe,
2235, is a duplicate, 2885, or is disabled, 4071; and the removal of services),
and schedules any others, at addresses just freed perhaps. So a `TX_HANDLE` may
name a packet that has been freed, or a new packet at its address. `Send` is
`TX_HANDLE`: it skips a packet that is not at the head or not marked; a packet
that is sent is freed, scheduled again (a probe or an announcement, 4757), or
followed by another one. `MdnsTxQueue` and `MdnsPcb` say which of these happens
when.

### Modes

Some properties hold only for clients or settings that behave; each such
assumption is a named constant, so that both sides can be run (section 5):

| Constant | Module | What it assumes when TRUE (or as said) |
|---|---|---|
| `Careful` | `MdnsServices` | nobody names a service whose removal waits |
| `Prompt` | `MdnsServices` | an add is answered within two seconds |
| `Adders` | `MdnsServices` | the clients that add; one in the runs |
| `Separate` | `MdnsHosts` | the host name is not set to a delegated one |
| `Disputed` | `MdnsHosts` | (when FALSE) no other host disputes the name |
| `Settled` | `MdnsHosts` | no service is added while a host name is being changed |
| `Setters` | `MdnsHosts` | the clients that set the host name; one in the runs |
| `Clean` | `MdnsSearch` | packets are authoritative and well formed |
| `Patient` | `MdnsSearch` | an asynchronous search is deleted after its results were fetched |
| `Reserve` | `MdnsLifecycle` | free slots of the action queue when `mdns_free` is called |
| `Prompt` | `MdnsLifecycle` | owner and timer task share a core, and the timer task has priority |
| `Calm` | `MdnsLifecycle` | no callback waits for the mutex when the timer is stopped |
| `Settled` | `MdnsLifecycle` | what was added has been executed when `mdns_free` is called |
| `StartFails` | `MdnsLifecycle` | memory may be short at any step of the start |

## 3. Runs

Parts that share no variable run in one configuration: a variable (`part` in
`MCFirmware`, `scenario` in the other `MC` modules) is chosen in the initial
state and never changes, and says which part steps; the others, which have variables of
their own, stay in their initial states. What holds of a part in such a run is what holds of it alone,
and a counterexample is one of that part. Safety of a part that does not run
is safety of its initial state. Fairness is stated for the part that runs.

| Run | What it shows | Instances |
|---|---|---|
| `telemetry` | types; a report holds one reading and an alarm that fits its soil; a reply that no round overlaps is exact; `Telemetry` implements `Greenhouse` | two readings, samples of 49, 50 and 51 |
| `telemetry_live` | a valve position that lasts is reported for ever, and nothing else is in the end | one reading, two samples |
| `wifi` | attempts are bounded; no retry is refused, none forgotten, none given up early; with an SSID `app_main` leaves `iniciar_wifi` | the configured five retries |
| `provisioning_save` | a form that arrives whole in a cleared buffer is taken as it was posted, and as it was typed if none of its characters is escaped; a request ends, whatever is left on the stack, is lost or panics | a buffer of 9 cells with one more behind it, a name of 1 character and a password of 2; fields of up to one character, plain or escaped as one cell or as three, or the word `red` |
| `firmware` | clock: an hour is seen at most once. Buffers: nothing is cut. Pages: answered as the mode says, nothing leaks. Start: nothing runs uninitialised, whatever fails; every start settles, but for three ends that are named. MQTT: implements `LossyChannel`; a lasting connection is subscribed and its reports heard. Page: settles on the valve | seconds of 4 fractions, minutes of 5 seconds, hours of 3 minutes; every subset of five pages; 4 reports; 2 connections, 2 presses, 3 toggles served |
| `mdns_responder` | transmit queue: what is marked is posted and in order, nothing freed is linked, nothing goes out early, everything leaves. Responders: three probes before a name is told; a duplicate has one that stands in; nothing mentions a removed service; it comes to rest | three addresses, two pcbs, a queue of 2, a clock modulo 16; two services on one interface, 7 calls; one service on two interfaces, 6 calls |
| `mdns_records` | every service has one owner, and no action reaches one that is gone (`ItemsAreOwned`); once nothing waits, services are as the calls in their order made them, none twice (`ListIsAsCalled`); every service has a host, the lookups find all (`ServicesHaveHosts`); calls return, that for the host name once it is set, and no string is lost (`CallsReturn`) | two clients, a queue of 2, three addresses and 5 calls; two keys and values, two instance names and 4 calls; host names with a queue of 3, and disputed with one of 4, 4 calls |
| `mdns_search` | the end of a search is executed once and on a listed one (`SearchesEndOnce`); results are no more than asked for, none twice, their memory kept (`OneKeepsResults`); a client that waits returns, not before its time is over unless it has enough (`QueriesReturnInTime`) | two clients at the same time; one with records of four kinds from two hosts on two interfaces, malformed ones too |
| `mdns_lifecycle` | `mdns_free` destroys nothing in use; everything is freed, once (`EachIsFreedOnce`), and nowhere is anything freed twice that no drained action named (`OnlyNamedTwice`); it returns | one object of each kind and two packets, a queue of 4 with room for two, no callback at work when the timer is stopped; one packet, a callback at work, and the start failing at any step; a full queue of 2 |
| `telemetry_json`, `provisioning_used`, `mdns_hostsetters` | violations: disagreements 1, 2 and 3 of section 5 | as above |

**Bounds.** `Telemetry`, `Wifi`, `Boot`, `WebFiles`, `LogBuffer`, `Clock` and
`Provisioning` have no counter that needs capping: `Telemetry` has always six
topics a round, `Wifi` the value of `sdkconfig`; its event queue never holds more
than three events, which is an invariant, not a cap. Two readings are enough for
a report to mix two, and samples below, at and above the threshold take every
branch of `leerHumedadSuelo`. In `Provisioning` the sizes are scaled down so that
fields that are empty, fit, and are too long, a value that is a key word, a form
that leaves room in the buffer and one that fills it to the last cell, pieces cut
anywhere, and leftovers that join the last value, from `buf` or from behind it,
all occur.
Caps, each a constant named in its module: `MaxReports`; `MaxOpen` (what a
browser allows), `MaxPresses` and `MaxServed`; `Horizon` and `MaxReceived` of the
transmit queue and of the searches; `MaxCalls` and `MaxAnswers` of the
responders; `MaxCalls` of the services and of the host names. Seven calls reach a
service added, probed, renamed, disputed and removed while another one is
announced; five calls with a queue of two reach an add that is refused, an add
that waits, a change behind a removal and a full queue; four calls of
host names reach a delegated host that is removed while the host is renamed. One
object of each kind is enough in `MdnsLifecycle` because addresses are used again;
the second packet is the announcement that follows one sent, or stays listed
while the other is cleared.

**Deadlock** is checked where the system never stops (telemetry, provisioning).
The other configurations say `CHECK_DEADLOCK FALSE`: a device that is an access
point or has given up, a start that waits for a network that never comes, and a
component whose clients have made all the calls of the bound, really have
nothing more to do.

**Fairness.** `Telemetry`: the timer task and the HTTP task are scheduled once
they can run (both block only on calls that return), and the auto-reload timer
fires again. No request is owed by anybody. `Wifi`: `app_main`'s task and the
event loop are scheduled; the driver ends each attempt; a DHCP server answers a
station that *stays* associated (weak fairness: a link that is lost first is
owed nothing). The loss of a link is never forced. `Provisioning`: `app_main`
and the HTTP task are scheduled, and `httpd_req_recv` ends by its own timeout;
users and power losses are not fair. `Boot`: its two tasks are scheduled.
`MqttSession`: the start, the client and the broker; not the connection. `Dashboard`:
the page polls; a request is served; an answer arrives in the end, strongly,
since a connection may break and the browser ask again. mDNS: time passes, the
timer callback runs, the service task executes what is in its queue, and a
client whose condition has come true goes on. `MdnsLifecycle`: strong fairness
of `mdns_free` and of the takers of the mutex, which are disabled again and again
by the callback but never for longer than one, since each is shorter than the
period of 100 ms. No packet, event or call is owed.

Each property of a passing run has a mutant in `PROJECT.json`: a plausible
slip in the code (a status not checked, one retry too many, a packet that stays
linked when it is sent, or is sent without a look at its mark) under which the
run finds the property violated. The mutated operator stands before the definition it mutates
and is commented `Mutant`.

## 4. Proofs

All by TLAPS, for every value of the constants, under the named assumptions of
the modules, which TLC evaluates in the runs: a good DHT11 reading is two bytes
(`DhtAssumption`), a raw sample has twelve bits (`AdcAssumption`), the numbers
of retries and of reports are natural numbers (`RetryAssumption`,
`ReportsAssumption`), buffers have room and what is posted for a character holds
no delimiter (`FormAssumption`, `FormsAssumption`),
timestamps and message ids print as 32-bit numbers (`LengthAssumption`), there
are at least two seconds in a minute and two minutes in an hour
(`ClockAssumption`); of the mDNS modules, that sizes and bounds are natural
numbers, mode constants Booleans, the clients that add or set among the clients,
that "none" is no object, that the addresses of services, the keys of their
texts and the host names are finite sets, and that objects of different kinds differ
(`QueueAssumption`, `PcbAssumption`, `ServicesAssumption`, `HostsAssumption`,
`SearchAssumption`, and three of `MdnsLifecycle`). A theorem that needs more has
it as a hypothesis, a named formula over the mode constants of section 2; what
happens without it is in section 5, for nearly all of them.

*Telemetry.* None of the invariants is inductive alone. `TInv` adds to `TypeOK`
where stores may be pending, where the round is in its list of topics, and that
`send_data` never copies more than it measured. `ReportInv` says what the
properties leave unsaid between the steps: the globals hold one reading except
while `leer_Dht` stores it, they agree with the alarm except while
`leerHumedadSuelo` stores it, nothing is stored while a report is told, and what
has been sent is what the globals still hold. `ReplyInv` ties the loaded values
to the globals while no round runs. Their conjunction is `IInv`; from it follow
`TypeCorrect`, `ReportsConsistent`, `AlarmAgrees` and `QuietRepliesExact`.
`Refinement` proves that initial states map to initial states and each step,
under `IInv`, to a step of `Greenhouse` or a stutter, one lemma per action.

*Wifi.* `LinkInv` lists, for each state of the link, the shapes the event queue
can have; this is what shows that a retry finds the station idle. `RetryInv`
ties `attempts` to `s_retry_num`. From `WInv` follow `TypeCorrect`,
`RetriesBounded`, `NeverIdleForNothing`, and the action properties
`AttemptsAreTaken` and `NoEarlyGivingUp`.

*Provisioning.* `FormKeptAsPosted` has two halves. What `strtok` and the loop
make of a form that is whole, in a buffer that was cleared:
`Tokens` and `Parsed` are functions defined step by step, which exist by
`StepByStep` of `Lists_proofs`, and a run of characters is one token
(`RunIsToken`), so the tokens are the two keys and the two values, whatever
their lengths (`PlainTokens`, `PlainParsed`). And that no later piece can look
like a whole form: `FormInv` says that, unless nothing of the body has been
received, `=` is not second in the buffer, since `strtok` put a NUL over it, and
in the rest of the body every `=` follows the second key, so no piece brings
`red` and `=` to the start of the buffer. `PlainFormKept` follows from it, since
a value without a character to escape is posted as it is (`EncodedIs`).

*LogBuffer.* `SizeInv`: after n entries the log has at most 76 n bytes and
nothing has been cut; hence `EntriesAreWhole`, and `RepliesFit` for the reply
that quotes it.

*WebFiles.* `HeldInv` says what each line of each function owns (`HeldAt`) and
that nothing is lost; with it `NothingIsLost` and, by a lemma on the answer of
each exit, `RequestsAreAnswered`.

*Clock.* `SeenInv`: once an hour is seen, the sleep that is left reaches past
its first second, the only time it could be seen again; hence `HourSeenOnce`.

*Boot.* `BootInv` says what is initialised by the time `app_main` comes to each
of its calls (`ReachedInv`), and what each initialised thing rests on
(`NeededInv`), also when earlier failures were ignored, that a station goes on only
with the name of a network, and that a server runs only when `app_main` is done
(`ServerInv`); hence `StartsSound`. What the code relies on without saying so is that
`esp_wifi_init` aborts without NVS.

*MqttSession.* `ReportsInOrder`: each step is one of `LossyChannel` or a
stutter, where what may still be heard is `OnWay`, the reports among the packets
to the broker. The lemmas on `Keep` of `Lists_proofs` say what a packet that is
written, read or lost does to `OnWay`.

*MdnsTxQueue.* `QInv` is enough for `NoneIsLost`: the list links each packet
that is not freed, once. `PacketsHandled` needs to know more, under `NoWrap`
(the clock does not wrap around while it is observed): `OInv` adds that the
list is sorted by the time packets are due, that the first k are exactly those
marked, and due, and that their actions are posted in their order; actions left
by packets that were cleared may lie in between. With it also `NothingEarly`.

*MdnsPcb.* The invariants the run checks are not inductive: that a pcb has one
probe says nothing of what its packets were before. `Form` says what a pcb is in
each of its states: one that probes has its probe, for just the names it probes
for, and nothing else; the packets of the others are answers; one that announces
has an announcement among them, not only answers that another responder may
make unnecessary; one that is not ready has nothing. `Within` says that all it
refers to are services there are. Both together are `Sound`; one lemma for each
operation of a pcb shows that it stays so, and `PcbInv`, that all pcbs are
`Sound` and one set aside has another in use, is proved from them for every
action (`PcbsAreSound`, `RemovedServicesAreNotMentioned`). The hypothesis is
`Apart`: every interface has one protocol, or there is one pcb. Otherwise a
packet received by one protocol starts the probing of the other while it is off
(`Mdns_pcblate`). `EveryNameIsProbed` adds `Count`: three probes have been
counted for a name, or it is still probed for and as many as the state says; so
no operation may drop a name that is probed for. It needs `OwnNames`: every
service is added with an instance name of its own. Otherwise setting the default
name drops what is being probed for (section 5).

*MdnsServices.* `ServicesInv`: an address is listed once, or waits once to be
added, or is free; and what any waiting action names will still be listed when
its turn comes. Hence `ItemsOwned` under `Careful`. `CallsInv` adds `AsCalled`:
for every service there is a function that says what the waiting actions make
of it one after the other, and its last value is what the accepted calls want.
Hence `CallsInOrder`. `ListInv` says what an add that waits may count on,
namely that nothing in the list is like it and that there is room; hence
`ListAsCalled`, under `OneAdds`: one client adds, waits for it, and services are
not given another instance name (two services could be given the same).
`StringsAreKept` says that no string is lost or freed twice (`NothingLeaks`),
with `ServicesInv`: what an action changes is a service that is there, so that
its copies become the service's and what they replace is freed
(`EffectStrings`, operation by operation). Its hypothesis excludes the one step
that does lose a string, removing a text item from a service without any.

*MdnsHosts.* `HostsInv`: the host of a service that waits to be added is ours
until then, and a host name that waits to be set is not delegated and will not
be; hence `ServicesKeepHosts` under `Calm` (no dispute, the modes as in the run,
and delegated hosts have addresses). `SetInv` ties the semaphore, the actions
and the client that waits; hence `NameIsSet`, when one client sets the name.
`HostNamesAreKept`, that no name or address is lost (`HostsLeakNothing`), needs
nothing of `HostsInv`, only the types of the records: it holds in all modes, with
disputes too, as long as no call that delegates addresses is refused for want of
room; that refusal frees the name alone.
Both sums are sizes of sets, each owner paired with the numbers of its things:
the lemmas on `Total` say how they change with one owner, with the first or the
last of a queue, and with some that have nothing any more.

*MdnsSearch.* `EndInv`: the end of a search is posted once, as long as it is
listed; a listed search does not have enough yet; what waits to be added is new;
and what was fetched is in the list no more, nor waits to be added. Hence `SearchesEnd` under
`Clean` and `Patient`. `ResultInv` counts the results and the texts of each
search; hence `ResultsKept`, if maxima fit a byte (`CanCount`) and none searches
for texts. There packets have to be `Clean` too, which the run does without: an
unclean packet may end a search twice, and what is freed may then be counted.
`ClockInv` relates the time of each search to the clock: it started when it was
made, and ends before the last time that is observed. Hence
`SearchesNotCutShort`, the safety half of `QueriesReturnInTime`, if the clock
does not wrap around meanwhile (`NoWrap`); when it does, a search is cut short
(section 5).

*MdnsLifecycle.* `StoppedBeforeDestroyed` is proved under `Assumed`: `Prompt`
and `Reserve` of at least 2, for any objects and queue and a start that may
fail at any step. `RoomInv` keeps the
slots for the two actions that `mdns_free` posts, so the task is always told to
stop and never deleted where it stands; `PhaseInv` says what exists in each
phase of start and stop; `Prompt` is needed in the two steps that delete
the mutex. `FreedOnceEach` is proved under `Quiet`, which adds that no callback
is at work when the timer is stopped, that what was added has been executed, and
that the start does not fail. `Owned` says that what is in a list, or is given by
one action that waits or is at hand, is allocated and is only there, except for
what `named` holds; `NoneLost`, that what is allocated is so owned. `Owned` alone
is inductive (`OwnInv`), whatever the modes: hence `NamedOnlyTwice`, that a
full queue, callbacks at work, cleared packets and starts that fail lead to
nothing freed twice but what a drained `TX_HANDLE` or `SEARCH_SEND` named.
`FreedOnceEach` adds that there are no such: `QueueInv`,
that behind the action that stops the task there are only packets that were
received; `ListsInv`, that until the services are cleared the action that clears
them is in front of it; and that none of the steps that lose something (`Loses`)
is taken. Without the modes of `Quiet` its property is false (section 5).

*Only model-checked.*

- Liveness, which is out of the prover's reach: `ValveIsReported`,
  `IniciarWifiReturns`, `RequestsEnd`, `EveryStartSettles`, `PageSettles`,
  `LastingConnectionWorks`, `PcbsSettle`, `StoppingEnds`, and what
  `PacketsGoOutOnTime`, `CallsReturn` and `QueriesReturnInTime` say of returning
  and leaving.
- `OneKeepsResults`: with packets that are not `Clean` what it says is false
  beyond the bounds of the run, where no address is used for a search again
  while an end posted twice waits. `ResultsKept` is what holds without bounds.
- The responders with two protocols on one interface, and with services that
  are named after the default instance (`LastingServiceIsTold` and
  `ListIsOfProbing` are false there, section 5).
- What the recursive definitions of a library compute for every input, as its
  folds: that needs induction with an operator. Where a proof needs induction
  up to a bound, it is by the least counterexample (`Least` in `Lists_proofs`:
  so for `Keep`, for functions defined step by step and for the order of the
  transmit queue); where it needs a sum, that is the size of a set (`Total`).

## 5. Disagreements found

With a run that shows the violation:

1. `telemetry_json`: `send_data` can send a document cut in the middle. A
   `memset` of `mqtt_logs` between the length and the copy of `%s` leaves a NUL
   in `json_buf`, and the reply is sent up to `strlen`. The page's parser then
   rejects it.
2. `provisioning_used`: the form writes `config.json`; the start reads
   `config2.json`.
3. `mdns_hostsetters`: two clients set the host name; the service task gives its
   binary semaphore twice before the first client takes it, one give is lost and
   the second client waits for ever (mdns.c:5624).

With a configuration of its own, to be run by hand
(`tlc -config X.cfg Module`); each ends in the violation named:

| Configuration | Module | Property | What happens |
|---|---|---|---|
| `Wifi_ap` | `Wifi` | `FallsBackToAp` | After the last retry the log says that the device goes over to access point mode (581); nothing changes the mode. |
| `Provisioning_received` | `MCProvisioning` | `SavedIsReceived` | What the browser escapes is saved as `+` and `%40`, never decoded (860–872). An empty field takes the next key as its value, leftovers of the stack join the last value, a cut between two pieces loses or mixes fields (864). |
| `Boot_nvs` | `Boot` | `Ret2IsOk` | `init_spiffs` tests `ret` for what `nvs_flash_init` left in `ret2` (350–355): full NVS pages are never erased, and each start aborts. |
| `Clock_hour` | `Clock` | `HourIsSeen` | The test asks for second 0 too (280); late polls pass from second 59 to second 1 and miss the hour. |
| `Mdns_txwrap` | `MdnsTxQueue` | `QueuedIsHandled` | The queue is ordered by the times as they are (mdns.c:1549), what is due by a signed difference: a packet due after the wrap goes in front of one that is posted, which then stays marked and is never sent. |
| `Mdns_pcbtold` | `MdnsPcb` | `LastingServiceIsTold` | Adding a service clears the announcement of services that have just been probed (mdns.c:2235); they are never announced. |
| `Mdns_pcblate` | `MdnsPcb` | `ListIsOfProbing` | A packet starts the probing of a pcb that is off; disabling it keeps its list, and the next probing appends that list behind memory made for the new services only (mdns.c:2196). |
| `Mdns_servicegone` | `MdnsServices` | `NamesLiveService` | With `Careful` FALSE: an action posted behind a removal is executed on the address of the removed service (mdns.c:4960). |
| `Mdns_hostgone` | `MdnsHosts` | `ScheduledHostIsLive` | Removing a delegated host leaves scheduled answers that point to it (mdns.c:3106). |
| `Mdns_searchtwice` | `MdnsSearch` | `EndIsOfListed` | With `Clean` FALSE: a search filled by a packet that is not authoritative is finished by the parser after the timer has posted its end, which is then executed on freed memory (mdns.c:4019). |
| `Mdns_lifelate` | `MdnsLifecycle` | `FreedOnce` | With `Calm` FALSE: a callback posts a packet behind the action that stops the task; the packet is freed with the action and with the list (mdns.c:4893). With `Reserve` 0 the same happens to what a `TX_HANDLE` or `SEARCH_SEND` names that waits when the task is deleted. |

With a property that its module states, seen when the constants of a run are
changed as said:

- `Provisioning.AnyFormIsKept`, as an invariant of `Provisioning_save`: a form
  with a space or an `@` that arrives whole is saved escaped, so the device would
  ask for a network, or give a password, that nobody typed (860–872).
  `Provisioning.SavedIsKept`, as a property of it: `fopen` truncates what was
  saved before (825); power lost before `fprintf`, or a partition that is full,
  leaves nothing.
- `Boot.EveryStartSettles` with any of its last three ends left out: NVS pages
  without room restart the device for ever; without credentials, the file gone
  with a partition that was formatted (330) or no memory to read it, the station
  waits for ever; and a device without memory for `http_server_task` measures and
  publishes but has no server (1053).
- `Telemetry.SoilIsPercentage` (samples of 4095): the soil humidity reaches 102
  and is shown with `%` (919).
- `Telemetry.LedLitWhileWatering`: `LED_ON` is 0, the LED is driven with
  `regar`, 1 while watering (887).
- `Dashboard.ErrorMeansNotToggled`: `/regar` answers `ON` or `OFF`, which the
  page parses as JSON: it reports an error after every success (app.js:42).
- `MdnsPcb`, `RemovedHostIsNotMentioned`: a probe that includes the addresses
  keeps the host name of a removed service (mdns.c:2018). `ToldIsProbed` with
  one service in `WithInstance`: setting the default instance name while another
  service is probed drops that one from the probe, and it is told without one
  (mdns.c:2464). `DisableSendsBye`: disabling sends no goodbye (mdns.c:4066).
- `MdnsServices`, `FailedIsNotAdded` with `Prompt` FALSE: an add that timed out
  is executed later (mdns.c:5825). `WithinMaxServices` and `NoTwins` with two
  `Adders`: what waits in the queue is not counted (mdns.c:5780).
  `NothingLeaks` with `TXT_DEL`: removing a key of a service without text items
  loses the copy of the key (mdns.c:5009).
- `MdnsHosts`, `ServiceHostIsOurs` with `Disputed`: a service added during a
  dispute keeps the old name (mdns.c:5839). `HostsLeakNothing` with a full queue:
  the address list of a delegated host is lost (mdns.c:5669).
- `MdnsSearch`, `ListIsLive` with `Patient` FALSE: an asynchronous search may be
  deleted while its end is posted (mdns.c:6355). `ResultsWithinMax` with `Byte`
  2: a maximum of 256 becomes 0, no limit (mdns.c:4280). `NothingLeaks` with
  searches for TXT: texts of a record that is not kept are freed in part or not
  at all (mdns.c:4605). `NotCutShort` with `Start` 14: a search started shortly
  before the clock wraps is over at once (mdns.c:5211).
- `MdnsLifecycle`, `NothingLeaks` with `Reserve` 0 or `Settled` FALSE: services
  are freed only by an action (mdns.c:6308), and a host whose action is executed
  after the list was emptied stays for the next start (mdns.c:5564); with
  `StartFails`: packets received during a start that fails are deleted with the
  queue and never freed (mdns.c:5545). `DestroyedIsUnused` with a full queue, or
  `Prompt` FALSE: the task, or a callback, goes on with what was destroyed.

Read in the code and not run: `mdns_service_add_for_host` without a host name
refuses a NULL that `mdns.h`:251 allows; clients of the services walk the list
without the mutex (mdns.c:395) while the service task changes it.

## 6. Not modelled

- *mDNS services:* other hosts' services (`mdns_service_*_for_host` with a name)
  are in `MdnsHosts` as far as their host is concerned; removing subtypes one by
  one is left out, since their lists are handled as text items are.
- *mDNS parser:* decoding names from bytes, encoding packets and comparing the
  record data of a dispute are pure functions of bytes from the network; the
  models take every outcome. What a received record does to the responders, the
  names and the searches is modelled there.
- *mDNS over lwIP* (`mdns_networking_lwip.c`): joining groups and handing packets
  to the queue through the TCP/IP task. `MdnsPcb` takes a pcb that is ready as
  given, `MdnsLifecycle` packets that arrive while the pcbs are open.
- *mDNS sources outside this firmware:* the console, the socket backend, the
  example and the tests are not part of the image.
- Memory always suffices in the mDNS models (except where `StartFails` says
  otherwise): each allocation that fails makes its call return an error.
- `data/Anterior` (earlier pages that nothing serves), the unused helpers of
  `main.c`, `build/` and `sdkconfig` (generated), and the server side (Node,
  MySQL, Grafana), which the repository's `README.md` describes and does not
  contain.

## 7. Plan

1. `Boot` with `Wifi` and `Provisioning`: from reset to the first report.
2. Renaming after a dispute (`_mdns_mangle_name`) and the comparison of records,
   against a reference definition over bounded names.
3. `mdns_networking_lwip.c`: the main pcb and the groups joined.
