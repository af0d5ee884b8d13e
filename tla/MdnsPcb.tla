------------------------------ MODULE MdnsPcb --------------------------------
(***************************************************************************)
(* The responder of the mDNS component (mdns.c): each pcb, an interface    *)
(* with one IP protocol, probes for the names of the host and its services *)
(* three times, announces them three times and then runs; it starts over   *)
(* when a name is added, changed or disputed.  Every action here is one    *)
(* action of the service task, which executes them one at a time.  Which   *)
(* packet of a pcb is next is left open (the times are in MdnsTxQueue);    *)
(* memory always suffices.                                                 *)
(***************************************************************************)
EXTENDS Naturals, Sequences, SequencesExt, Lists

CONSTANTS
  Services,     \* the services clients add, all of different types
  WithInstance, \* those added with an instance name of their own
  Pcbs,
  Duplicates,   \* TRUE: the pcbs are of two interfaces that may share a subnet,
                \* FALSE: they are the protocols of one interface
  MaxCalls,     \* bound: the calls, events and packets that restart something
  MaxAnswers    \* bound: the packets scheduled for one pcb

VARIABLES
  hostname,  \* TRUE once the host has a name
  instance,  \* TRUE once there is a default instance name
  own,       \* the services with an instance name of their own
  services,  \* _mdns_server->services
  pcb,       \* what is kept for each pcb, and its packets in the tx queue
  asked,     \* history: probes sent for each name since it was last claimed
  told,      \* history: the names told on each pcb and not taken back
  calls      \* the calls, events and packets so far

pcbVars == <<hostname, instance, own, services, pcb, asked, told, calls>>

Host  == "host"
Names == Services \cup {Host}

ASSUME PcbAssumption ==
  /\ Host \notin Services
  /\ WithInstance \subseteq Services
  /\ Duplicates \in BOOLEAN
  /\ {MaxCalls, MaxAnswers} \subseteq Nat

Off == [state |-> "OFF", ready |-> FALSE, probing |-> {}, probeIp |-> FALSE,
        running |-> FALSE, queue |-> <<>>]

NoneAsked == [n \in Names |-> 0]

PcbInit ==
  /\ hostname = FALSE
  /\ instance = FALSE
  /\ own = {}
  /\ services = {}
  /\ pcb = [p \in Pcbs |-> Off]
  /\ asked = [p \in Pcbs |-> NoneAsked]
  /\ told = [p \in Pcbs |-> {}]
  /\ calls = 0

Probing(P)    == P.state \in {"DUP", "INIT", "PROBE_1", "PROBE_2", "PROBE_3"}
Announcing(P) == P.state \in {"ANNOUNCE_1", "ANNOUNCE_2", "ANNOUNCE_3"}

ServicesOf(ns) == ns \ {Host}

-----------------------------------------------------------------------------
(* Packets.  A question about a host keeps the host name of the service it *)
(* is asked for.                                                           *)

Packet(asks, hosts, answers, servers, distributed) ==
  [asks |-> asks, hosts |-> hosts, answers |-> answers, servers |-> servers,
   distributed |-> distributed]

HostIf(ip) == IF ip THEN {Host} ELSE {}

ProbePacket(ss, ip) ==
  Packet(ss \cup HostIf(ip), IF ip THEN ss ELSE {}, {}, ss \cup HostIf(ip), FALSE)

AnnouncePacket(ss, ip) == Packet({}, {}, ss, HostIf(ip), FALSE)

\* The announcement of a service has the addresses of its host.
AnnounceFromProbe(q) ==
  Packet({}, {}, q.servers \cup HostIf(q.servers # {}), {}, FALSE)

IsEmptyPacket(q) == q.asks = {} /\ q.hosts = {} /\ q.answers = {} /\ q.servers = {}

\* What a packet tells the neighbours: a probe only asks.
Tells(q) == IF q.asks = {} THEN q.answers \cup q.servers ELSE {}

\* The new packet after the first k packets of the pcb.
Put(q, new, k) == InsertAt(q, IF k < Len(q) THEN k + 1 ELSE Len(q) + 1, new)

-----------------------------------------------------------------------------
(* One pcb.                                                                *)

\* _mdns_init_pcb_probe_new_service, the queue cleared.
ProbeNewServices(P, ss, ip) ==
  LET all == IF Probing(P) THEN ss \cup P.probing ELSE ss
      i   == P.probeIp \/ ip
  IN  [P EXCEPT !.state = "PROBE_1", !.probing = all, !.probeIp = i,
                !.running = TRUE, !.queue = <<ProbePacket(all, i)>>]

InitProbe(P, ss, ip) ==
  IF hostname' THEN ProbeNewServices(P, ss, ip)
               ELSE [P EXCEPT !.state = "RUNNING", !.queue = <<>>]

\* _mdns_announce_pcb.
AnnouncePcb(P, ss, ip, k) ==
  IF ~P.ready THEN P
  ELSE IF Probing(P) THEN InitProbe(P, ss, ip)
  ELSE IF Announcing(P) /\ P.queue # <<>>
  THEN [P EXCEPT !.queue[1].answers = @ \cup ss \cup HostIf(ip),
                 !.state = "ANNOUNCE_1"]
  ELSE IF P.state = "RUNNING" /\ hostname'
  THEN [P EXCEPT !.state = "ANNOUNCE_1",
                 !.queue = Put(@, AnnouncePacket(ss, ip), k)]
  ELSE P

\* _mdns_remove_scheduled_service_packets.
Without(q, ss, gone) ==
  [q EXCEPT !.asks = @ \ gone, !.answers = @ \ ss, !.servers = @ \ ss]

WithoutEmpty(qs) == Keep(qs, {q \in Range(qs) : ~IsEmptyPacket(q)})

\* Mutant: what is probed for is left as it is.
RemoveAnswersOnly(P, ss) ==
  [P EXCEPT !.queue = WithoutEmpty([i \in DOMAIN @ |-> Without(@[i], ss, {})])]

\* Several services are removed one after the other, in one action.
RemoveServices(P, ss) ==
  LET gone  == IF P.ready /\ Probing(P) /\ P.queue # <<>>
               THEN P.probing \cap ss ELSE {}
      ends  == gone # {} /\ P.probing = gone /\ ~P.probeIp
      emptied(q) == q.answers # {} /\ q.answers \subseteq ss
      stops == \/ ends
               \/ /\ P.ready /\ Announcing(P)
                  /\ \E i \in DOMAIN P.queue : emptied(P.queue[i])
  IN  [P EXCEPT
        !.probing = @ \ gone,
        !.running = @ /\ ~ends,
        !.state   = IF stops THEN "RUNNING" ELSE @,
        !.queue   = WithoutEmpty([i \in DOMAIN @ |-> Without(@[i], ss, gone)])]

\* mdns_pcb_deinit_local, the packets of the pcb cleared.
Deinit(P) == Off

-----------------------------------------------------------------------------
(* All pcbs.                                                               *)

\* _mdns_probe_all_pcbs; clear: what was probed for so far is dropped.
ProbeAll(ss, ip, clear) ==
  [p \in Pcbs |->
    IF pcb[p].ready
    THEN InitProbe(IF clear THEN [pcb[p] EXCEPT !.probing = {}, !.running = FALSE]
                            ELSE pcb[p], ss, ip)
    ELSE pcb[p]]

NoInstance == services \ own

RestartAll ==
  [p \in Pcbs |->
    IF pcb[p].ready
    THEN InitProbe([pcb[p] EXCEPT !.probing = {}, !.running = FALSE], services, TRUE)
    ELSE [pcb[p] EXCEPT !.queue = <<>>]]

RestartNoInstance ==
  IF NoInstance = {} THEN pcb ELSE ProbeAll(NoInstance, FALSE, TRUE)

\* The pcbs a goodbye is sent on, and what is told after it.
SendBye(ss, ip) ==
  [p \in Pcbs |-> IF hostname /\ pcb[p].ready /\ pcb[p].state = "RUNNING"
                  THEN told[p] \ (ss \cup HostIf(ip)) ELSE told[p]]

SendByeNoInstance(ip) == IF NoInstance = {} THEN told ELSE SendBye(NoInstance, ip)

\* The names have to be probed for again before they are told.
Claim(ns) ==
  asked' = [p \in Pcbs |-> [n \in Names |-> IF n \in ns THEN 0 ELSE asked[p][n]]]

Call == calls < MaxCalls /\ calls' = calls + 1

-----------------------------------------------------------------------------
(* The actions of clients (_mdns_execute_action).                          *)

HostnameSet ==
  /\ Call
  /\ hostname' = TRUE
  /\ told' = SendByeNoInstance(TRUE)
  /\ pcb' = RestartAll
  /\ Claim(Names)
  /\ UNCHANGED <<instance, own, services>>

InstanceSet ==
  /\ Call
  /\ instance' = TRUE
  /\ told' = SendByeNoInstance(FALSE)
  /\ UNCHANGED <<hostname, own, services>>
  /\ pcb' = RestartNoInstance
  /\ Claim(NoInstance)

ServiceAdd(s) ==
  /\ s \notin services
  /\ Call
  /\ services' = services \cup {s}
  /\ own' = IF s \in WithInstance THEN own \cup {s} ELSE own \ {s}
  /\ UNCHANGED <<hostname, instance, told>>
  /\ pcb' = ProbeAll({s}, FALSE, FALSE)
  /\ Claim({s})

ServiceInstanceSet(s) ==
  /\ s \in services
  /\ Call
  /\ own' = own \cup {s}
  /\ told' = IF s \in own THEN SendBye({s}, FALSE) ELSE told
  /\ UNCHANGED <<hostname, instance, services>>
  /\ pcb' = ProbeAll({s}, FALSE, FALSE)
  /\ Claim({s})

\* A new port (with the addresses), new or fewer text items.
ServiceUpdate(s) ==
  /\ s \in services
  /\ Call
  /\ UNCHANGED <<hostname, instance, own, services, asked, told>>
  /\ \E ip \in BOOLEAN, k \in 0..MaxAnswers :
       pcb' = [p \in Pcbs |-> AnnouncePcb(pcb[p], {s}, ip, k)]

ServiceDel(s) ==
  /\ s \in services
  /\ Call
  /\ services' = services \ {s}
  /\ told' = SendBye({s}, FALSE)
  /\ pcb' = [p \in Pcbs |-> RemoveServices(pcb[p], {s})]
  /\ UNCHANGED <<hostname, instance, own, asked>>

ServicesClear ==
  /\ services # {}
  /\ Call
  /\ told' = SendBye(services, FALSE)
  /\ pcb' = [p \in Pcbs |-> RemoveServices(pcb[p], services)]
  /\ services' = {}
  /\ UNCHANGED <<hostname, instance, own, asked>>

-----------------------------------------------------------------------------
(* The events of the network interfaces (perform_event_action).            *)

\* _mdns_enable_pcb: the socket may not come up.
Enabled(P) == InitProbe([P EXCEPT !.ready = TRUE,
                         !.state = IF P.ready THEN P.state ELSE "OFF"],
                        services, TRUE)

Enable(p) ==
  /\ Call
  /\ UNCHANGED <<hostname, instance, own, services, told>>
  /\ \/ pcb' = [pcb EXCEPT ![p] = Enabled(@)]
     \/ ~pcb[p].ready /\ UNCHANGED pcb
  /\ asked' = [asked EXCEPT ![p] = NoneAsked]

Others(p) == IF Duplicates THEN Pcbs \ {p} ELSE {}

\* What a pcb has after it is disabled: one that is not ready keeps its list.
Disabled(P) == IF P.ready THEN Deinit(P) ELSE [P EXCEPT !.state = "OFF"]

StandsIn(o, p) == o \in Others(p) /\ pcb[p].ready /\ pcb[o].state = "DUP"

\* The socket of a duplicate that takes over may not come up either.
TakesOver(o, p, up) ==
  IF ~StandsIn(o, p) THEN pcb[o]
  ELSE IF up THEN Enabled([pcb[o] EXCEPT !.state = "OFF"])
  ELSE [pcb[o] EXCEPT !.state = "OFF"]

\* _mdns_disable_pcb.
Disable(p) ==
  /\ pcb[p].state # "OFF"
  /\ Call
  /\ UNCHANGED <<hostname, instance, own, services, asked, told>>
  /\ \E up \in BOOLEAN :
       pcb' = [o \in Pcbs |-> IF o = p THEN Disabled(pcb[p]) ELSE TakesOver(o, p, up)]

AnnounceEvent(p) ==
  /\ Call
  /\ UNCHANGED <<hostname, instance, own, services, asked, told>>
  /\ \E k \in 0..MaxAnswers : pcb' = [pcb EXCEPT ![p] = AnnouncePcb(@, {}, TRUE, k)]

-----------------------------------------------------------------------------
(* Packets received on p (mdns_parse_packet).                              *)

\* A packet is received while any protocol of its interface is ready.
Received(p) == \E o \in Pcbs \ Others(p) : pcb[o].ready

Reprobe(p, ss, ip) == [pcb EXCEPT ![p] = InitProbe(@, ss, ip)]

\* Another host has a better claim to the name of s: while it is probed for,
\* the name that it is made of is changed and probed for again.
LosesService(p, s) ==
  /\ s \in services /\ hostname /\ Received(p)
  /\ Call
  /\ UNCHANGED <<hostname, instance, own, services>>
  /\ \/ /\ pcb[p].running /\ s \in own
        /\ pcb' = ProbeAll({s}, FALSE, FALSE)
        /\ Claim({s})
        /\ UNCHANGED told
     \/ /\ pcb[p].running /\ s \notin own /\ instance
        /\ pcb' = RestartNoInstance
        /\ Claim(NoInstance)
        /\ UNCHANGED told
     \/ /\ pcb[p].running /\ s \notin own /\ ~instance
        /\ pcb' = RestartAll
        /\ Claim(Names)
        /\ UNCHANGED told
     \/ /\ ~pcb[p].running
        /\ pcb' = Reprobe(p, {s}, FALSE)
        /\ told' = [told EXCEPT ![p] = @ \ {s}]
        /\ UNCHANGED asked

\* The same for the name of the host.
LosesHost(p) ==
  /\ hostname /\ Received(p)
  /\ Call
  /\ UNCHANGED <<hostname, instance, own, services, told>>
  /\ \/ pcb[p].running  /\ pcb' = RestartAll           /\ Claim(Names)
     \/ ~pcb[p].running /\ pcb' = Reprobe(p, {}, TRUE) /\ UNCHANGED asked

TxtDiffers(p, s) ==
  /\ s \in services /\ hostname /\ Received(p) /\ ~pcb[p].running
  /\ Call
  /\ UNCHANGED <<hostname, instance, own, services, asked, told>>
  /\ pcb' = Reprobe(p, {s}, TRUE)

\* The address of this host on another of its interfaces (_mdns_dup_interface).
IsDuplicate(p) ==
  /\ hostname /\ Received(p)
  /\ Call
  /\ UNCHANGED <<hostname, instance, own, services, asked, told>>
  /\ \E o \in Others(p), k \in 0..MaxAnswers :
       /\ pcb[o].ready
       /\ pcb' = [pcb EXCEPT
            ![p] = [IF @.ready THEN Deinit(@) ELSE @ EXCEPT !.state = "DUP"],
            ![o] = AnnouncePcb(@, {}, TRUE, k)]

\* Questions are answered now, or later when others may answer too.
Asked(p) ==
  /\ hostname /\ Received(p)
  /\ Announcing(pcb[p]) \/ pcb[p].state = "RUNNING"
  /\ Call
  /\ UNCHANGED <<hostname, instance, own, services, asked>>
  /\ \E n \in services \cup {Host} :
       \/ told' = [told EXCEPT ![p] = @ \cup {n}] /\ UNCHANGED pcb
       \/ /\ Len(pcb[p].queue) < MaxAnswers
          /\ \E k \in 0..MaxAnswers :
               pcb' = [pcb EXCEPT ![p].queue =
                        Put(@, Packet({}, {}, {n}, {}, TRUE), k)]
          /\ UNCHANGED told

Withdrawn(q, n) == IF q.distributed THEN [q EXCEPT !.answers = @ \ {n}] ELSE q

\* Another responder has answered for all: the answer is withdrawn.
IsAnswered(p) ==
  /\ \E i \in DOMAIN pcb[p].queue : pcb[p].queue[i].distributed
  /\ UNCHANGED <<hostname, instance, own, services, asked, told, calls>>
  /\ \E n \in Names :
       pcb' = [pcb EXCEPT ![p].queue = [i \in DOMAIN @ |-> Withdrawn(@[i], n)]]

-----------------------------------------------------------------------------
(* _mdns_tx_handle_packet.                                                 *)

Steps(probe, announce) ==
  [PROBE_1 |-> probe, PROBE_2 |-> "PROBE_3", PROBE_3 |-> "ANNOUNCE_1",
   ANNOUNCE_1 |-> "ANNOUNCE_2", ANNOUNCE_2 |-> announce,
   ANNOUNCE_3 |-> "RUNNING"]

\* Mutants: one probe less; the announcements start again.
AfterTwoProbes == Steps("PROBE_3", "ANNOUNCE_3")
AfterAgain == Steps("PROBE_2", "ANNOUNCE_1")

After == Steps("PROBE_2", "ANNOUNCE_3")

EndProbe(P) == [P EXCEPT !.running = FALSE, !.probeIp = FALSE, !.probing = {}]

Handled(P, k) ==
  LET q    == Head(P.queue)
      rest == [P EXCEPT !.queue = Tail(@)]
      next == [rest EXCEPT !.state = After[P.state]]
  IN  CASE P.state \in {"PROBE_1", "PROBE_2", "ANNOUNCE_1", "ANNOUNCE_2"} ->
             [next EXCEPT !.queue = Put(@, q, k)]
        [] P.state = "PROBE_3" ->
             [EndProbe(next) EXCEPT !.queue = Put(@, AnnounceFromProbe(q), k)]
        [] P.state = "ANNOUNCE_3" -> next
        [] OTHER -> rest

TxHandle(p) ==
  LET q == Head(pcb[p].queue)
  IN  /\ pcb[p].queue # <<>>
      /\ \E k \in 0..MaxAnswers : pcb' = [pcb EXCEPT ![p] = Handled(@, k)]
      /\ IF pcb[p].ready
         THEN /\ told' = [told EXCEPT ![p] = @ \cup Tells(q)]
              /\ asked' = [asked EXCEPT ![p] =
                   [n \in Names |-> IF n \in q.asks /\ @[n] < 3 THEN @[n] + 1 ELSE @[n]]]
         ELSE UNCHANGED <<told, asked>>
      /\ UNCHANGED <<hostname, instance, own, services, calls>>

ClientAction ==
  \/ HostnameSet \/ InstanceSet \/ ServicesClear
  \/ \E s \in Services : \/ ServiceAdd(s) \/ ServiceInstanceSet(s)
                         \/ ServiceUpdate(s) \/ ServiceDel(s)

SystemEvent == \E p \in Pcbs : Enable(p) \/ Disable(p) \/ AnnounceEvent(p)

Receives ==
  \E p \in Pcbs :
    \/ \E s \in Services : LosesService(p, s) \/ TxtDiffers(p, s)
    \/ LosesHost(p) \/ IsDuplicate(p) \/ Asked(p) \/ IsAnswered(p)

Transmits == \E p \in Pcbs : TxHandle(p)

PcbNext == ClientAction \/ SystemEvent \/ Receives \/ Transmits

PcbSpec == PcbInit /\ [][PcbNext]_pcbVars

\* What is scheduled is handled (PacketsLeave of MdnsTxQueue).
PcbFairSpec == PcbSpec /\ \A p \in Pcbs : WF_pcbVars(TxHandle(p))

-----------------------------------------------------------------------------
(* Properties.                                                             *)

States == DOMAIN After \cup {"OFF", "DUP", "RUNNING"}

PacketType ==
  [asks : SUBSET Names, hosts : SUBSET Services, answers : SUBSET Names,
   servers : SUBSET Names, distributed : BOOLEAN]

PcbType ==
  [state : States, ready : BOOLEAN, probing : SUBSET Services,
   probeIp : BOOLEAN, running : BOOLEAN, queue : Seq(PacketType)]

PcbTypeOK ==
  /\ hostname \in BOOLEAN /\ instance \in BOOLEAN
  /\ own \subseteq Services /\ services \subseteq Services
  /\ pcb \in [Pcbs -> PcbType]
  /\ asked \in [Pcbs -> [Names -> 0..3]]
  /\ told \in [Pcbs -> SUBSET Names]
  /\ calls \in 0..MaxCalls

\* A pcb that probes has one packet, its probe, and it asks for just the names
\* the pcb probes for: the packet handled next is never an answer or an old
\* announcement that would be taken for the probe.
ProbesForItsNames ==
  \A p \in Pcbs : pcb[p].running =>
    /\ Len(pcb[p].queue) = 1
    /\ pcb[p].queue[1].asks = pcb[p].probing \cup HostIf(pcb[p].probeIp)

\* A pcb in the middle of its announcements has a packet that will move it on.
AnnouncingHasPacket ==
  \A p \in Pcbs : Announcing(pcb[p]) => pcb[p].queue # <<>>

\* A name is told only after three probes for it on that pcb.
ToldIsProbed ==
  \A p \in Pcbs : \A n \in UNION {Tells(q) : q \in Range(pcb[p].queue)} :
    pcb[p].ready /\ hostname => asked[p][n] = 3

\* A pcb is only set aside as a duplicate while the other one is in use.
DuplicateHasStandIn ==
  \A p \in Pcbs : pcb[p].state = "DUP" => \E o \in Others(p) : pcb[o].ready

\* All of these: a name is told after three probes for it, by a pcb that has a
\* packet to go on with; one set aside as a duplicate has another in use.
NamesAreProbed ==
  /\ PcbTypeOK /\ ProbesForItsNames /\ AnnouncingHasPacket
  /\ ToldIsProbed /\ DuplicateHasStandIn

\* Only a pcb that probes has a list of services: the list another one would
\* have is copied into room made for the new services only.
ListIsOfProbing == \A p \in Pcbs : pcb[p].probing # {} => Probing(pcb[p])

Mentioned(P) ==
  P.probing \cup UNION {ServicesOf(q.asks \cup q.answers \cup q.servers) :
                          q \in Range(P.queue)}

\* No list or packet refers to a service that has been removed and freed, and
\* services are listed only while they are probed for.
RemovedIsNotMentioned ==
  ListIsOfProbing /\ \A p \in Pcbs : Mentioned(pcb[p]) \subseteq services

\* The host names of removed services are not referred to either.
RemovedHostIsNotMentioned ==
  \A p \in Pcbs, i \in 1..MaxAnswers :
    i \in DOMAIN pcb[p].queue => pcb[p].queue[i].hosts \subseteq services

\* When nothing restarts it any more, a pcb comes to rest.
AtRest == {"OFF", "DUP", "RUNNING"}

PcbsComeToRest == <>[](\A p \in DOMAIN pcb : pcb[p].state \in AtRest)

\* A service that lasts, on a pcb that stays up, is told there.
LastingServiceIsTold ==
  \A p \in Pcbs, s \in Services :
    <>[](s \in services /\ pcb[p].ready /\ hostname) => <>(s \in told[p])

\* An interface that is disabled takes back what it has told.
DisableSendsBye == \A p \in Pcbs : pcb[p].state = "OFF" => told[p] = {}
=============================================================================
