---------------------------- MODULE MdnsTxQueue ------------------------------
(***************************************************************************)
(* The transmit queue of the mDNS component (mdns.c): packets ordered by   *)
(* the time they are due, the timer callback that posts the first of them  *)
(* that is due to the action queue, and the service task that executes the *)
(* actions.  A packet is an address, used again after the packet is freed: *)
(* a posted action may outlive the packet it was posted for.               *)
(***************************************************************************)
EXTENDS Naturals, Sequences, SequencesExt, Lists

CONSTANTS
  Packets,    \* the addresses of the packets
  Senders,    \* the pcbs, the interface and protocol pairs that send them
  Delays,     \* the delays packets are scheduled with
  W,          \* the clock and the times it gives are unsigned, modulo W
  Start,      \* the clock when the observation starts
  Horizon,    \* bound: nothing is scheduled beyond Start + Horizon
  QueueLen,   \* MDNS_ACTION_QUEUE_LEN
  MaxReceived \* bound: the other actions posted, packets received or calls

VARIABLES
  elapsed,  \* the time since the start of the observation
  queue,    \* tx_queue_head and its successors
  packet,   \* what each address holds: a packet, or NoPacket
  actions,  \* action_queue
  received  \* the other actions posted so far

vars == <<elapsed, queue, packet, actions, received>>

NoPacket == [free |-> TRUE]

\* Any action that may schedule or clear packets.
Other == "other"

ASSUME QueueAssumption ==
  /\ Other \notin Packets
  /\ Delays \subseteq Nat
  /\ W \in Nat \ {0}
  /\ {Start, Horizon, QueueLen, MaxReceived} \subseteq Nat

Init ==
  /\ elapsed = 0
  /\ queue = <<>>
  /\ packet = [p \in Packets |-> NoPacket]
  /\ actions = <<>>
  /\ received = 0

now == (Start + elapsed) % W

\* The time is signed: up to half the range ago is due.
IsDue(p) == (packet[p].sendAt + W - now) % W >= W \div 2

-----------------------------------------------------------------------------
(* The queue.                                                              *)

\* _mdns_schedule_tx_packet passes the packets that are not due later.
NotLater(q, contents, at) ==
  CHOOSE k \in 0..Len(q) :
    /\ \A i \in 1..k : contents[q[i]].sendAt <= at
    /\ k < Len(q) => contents[q[k + 1]].sendAt > at

Schedule(p, pcb, d, q, contents) ==
  LET at == (now + d) % W
      k  == NotLater(q, contents, at)
  IN  /\ elapsed + d < Horizon
      /\ queue' = InsertAt(q, k + 1, p)
      /\ packet' = [contents EXCEPT ![p] =
           [free |-> FALSE, pcb |-> pcb, sendAt |-> at, queued |-> FALSE]]

\* The packet of any handler that answers, probes, announces or asks.
ScheduleNew(pcb, q, contents) ==
  \E p \in Packets, d \in Delays :
    contents[p] = NoPacket /\ Schedule(p, pcb, d, q, contents)

NotOf(pcb) == {p \in Range(queue) : packet[p].pcb # pcb}

\* Mutant: a packet at the head is freed but stays linked.
WithoutPcbAfterHead(pcb) ==
  IF queue = <<>> THEN queue
  ELSE <<Head(queue)>> \o Keep(Tail(queue), NotOf(pcb))

\* _mdns_clear_pcb_tx_queue_head: what it leaves linked, and what it frees.
WithoutPcb(pcb) == Keep(queue, NotOf(pcb))

FreedPcb(pcb) ==
  [p \in Packets |-> IF packet[p] # NoPacket /\ packet[p].pcb = pcb
                     THEN NoPacket ELSE packet[p]]

ClearPcb(pcb) ==
  /\ queue' = WithoutPcb(pcb)
  /\ packet' = FreedPcb(pcb)

\* _mdns_init_pcb_probe: the memory it frees may be that of its new packet.
Restart(pcb) == ScheduleNew(pcb, WithoutPcb(pcb), FreedPcb(pcb))

\* _mdns_tx_handle_packet sends the packet, then frees it or, for a probe or
\* an announcement, schedules it again.
TxHandlePacket(p, q) ==
  \/ /\ queue' = q
     /\ packet' = [packet EXCEPT ![p] = NoPacket]
  \/ \E d \in Delays \ {0} : Schedule(p, packet[p].pcb, d, q, packet)

-----------------------------------------------------------------------------
(* The timer task, every 100 ms.                                           *)

FirstUnqueued ==
  {queue[i] : i \in {j \in DOMAIN queue :
                       /\ ~packet[queue[j]].queued
                       /\ \A k \in 1..(j - 1) : packet[queue[k]].queued
                       /\ IsDue(queue[j])}}

\* With the action queue full the packet stays unqueued for the next period.
SchedulerRun ==
  \E p \in FirstUnqueued :
    /\ Len(actions) < QueueLen
    /\ packet' = [packet EXCEPT ![p].queued = TRUE]
    /\ actions' = Append(actions, p)
    /\ UNCHANGED <<elapsed, queue, received>>

Tick ==
  /\ elapsed < Horizon
  /\ elapsed' = elapsed + 1
  /\ UNCHANGED <<queue, packet, actions, received>>

\* A packet from the network, a call or a system event.
Receive ==
  /\ received < MaxReceived
  /\ Len(actions) < QueueLen
  /\ received' = received + 1
  /\ actions' = Append(actions, Other)
  /\ UNCHANGED <<elapsed, queue, packet>>

-----------------------------------------------------------------------------
(* The service task: one action at a time, under the service lock.         *)

ExecuteOther ==
  /\ Head(actions) = Other
  /\ \/ \E pcb \in Senders : \/ ScheduleNew(pcb, queue, packet)
                            \/ ClearPcb(pcb)
                            \/ Restart(pcb)
     \/ UNCHANGED <<queue, packet>>

\* Mutant: the flag is not checked.
AcceptsAny(p) == queue # <<>> /\ p = Head(queue)

Accepts(p) == queue # <<>> /\ p = Head(queue) /\ packet[p].queued

ExecuteTxHandle ==
  LET p == Head(actions)
  IN  /\ p # Other
      /\ IF Accepts(p) THEN TxHandlePacket(p, Tail(queue))
                       ELSE UNCHANGED <<queue, packet>>

Execute ==
  /\ actions # <<>>
  /\ actions' = Tail(actions)
  /\ ExecuteOther \/ ExecuteTxHandle
  /\ UNCHANGED <<elapsed, received>>

Next == Tick \/ SchedulerRun \/ Receive \/ Execute

Spec == Init /\ [][Next]_vars

\* Time passes, and the timer and the service task run.
FairSpec == Spec /\ WF_vars(Tick) /\ WF_vars(SchedulerRun) /\ WF_vars(Execute)

-----------------------------------------------------------------------------
(* Properties.                                                             *)

Contents ==
  [free : {FALSE}, pcb : Senders, sendAt : 0..(W - 1), queued : BOOLEAN]

TypeOK ==
  /\ elapsed \in 0..Horizon
  /\ queue \in Seq(Packets)
  /\ packet \in [Packets -> Contents \cup {NoPacket}]
  /\ actions \in Seq(Packets \cup {Other}) /\ Len(actions) <= QueueLen
  /\ received \in 0..MaxReceived

\* The list and the memory agree: what is in the queue is there once and is
\* not freed, and what is not in it has been freed.
QueueOwnsPackets ==
  /\ IsInjective(queue)
  /\ \A p \in Packets : p \in Range(queue) <=> packet[p] # NoPacket

\* The clock does not wrap around while it is observed, nor is anything
\* scheduled half its range ahead.
NoWrap == Start + Horizon <= W /\ 2 * Horizon <= W

\* A packet marked as queued has its action in the action queue, and the
\* actions come in the order of the packets: each finds its packet at the
\* head.  Packets scheduled or cleared in between do not change this.
QueuedAt == {i \in DOMAIN queue : packet[queue[i]].queued}

QueuedIsHandled ==
  \E at \in [QueuedAt -> DOMAIN actions] :
    /\ \A i \in QueuedAt : actions[at[i]] = queue[i]
    /\ \A i, j \in QueuedAt : i < j => at[i] < at[j]

\* All of these: each packet marked as queued has its action posted, in the
\* order of the packets, and none is freed while it is linked.
PacketsAreHandled == TypeOK /\ QueueOwnsPackets /\ QueuedIsHandled

\* Nothing is sent before it is due, not even by the action of an earlier
\* packet at the same address.
HandlesAccepted == actions # <<>> /\ Head(actions) \in Packets
                   /\ queue # <<>> /\ actions' = Tail(actions)
                   /\ (queue' # queue \/ packet' # packet)

SendsWhatIsDue == HandlesAccepted => IsDue(Head(queue))

NothingIsSentEarly == [][SendsWhatIsDue]_vars

\* Every packet leaves the queue: it is sent, or cleared with its pcb.
PacketsLeave ==
  \A p \in Packets : p \in Range(queue) ~> p \notin Range(queue)
=============================================================================
