-------------------------- MODULE MdnsResponder_proofs -------------------------
(***************************************************************************)
(* The responder of the mDNS component.                                    *)
(*                                                                         *)
(* Its transmit queue, for any packets, delays and sizes of its queues:    *)
(* the list and the memory always agree; and as long as the clock does not *)
(* wrap around, every packet marked as queued has its action, and nothing  *)
(* is sent before it is due.                                               *)
(*                                                                         *)
(* Its pcbs, for any services and any interfaces of which each has one     *)
(* protocol: no list or packet refers to a removed service; and when every *)
(* service has an instance name of its own, a name is told only after      *)
(* three probes for it.                                                    *)
(***************************************************************************)
EXTENDS MdnsTxQueue, MdnsPcb, Lists_proofs

\* r is q with p put in after its first k elements.
IsInserted(q, k, p, r) ==
  /\ Len(r) = Len(q) + 1
  /\ r[k + 1] = p
  /\ \A i \in 1..k : r[i] = q[i]
  /\ \A i \in (k + 2)..(Len(q) + 1) : r[i] = q[i - 1]

\* What InsertAt gives.
LEMMA Inserted ==
  ASSUME NEW S, NEW q \in Seq(S), NEW p \in S, NEW k \in 0..Len(q)
  PROVE  InsertAt(q, k + 1, p) \in Seq(S) /\ IsInserted(q, k, p, InsertAt(q, k + 1, p))
<1> DEFINE a == SubSeq(q, 1, k)
           b == SubSeq(q, k + 1, Len(q))
           ap == a \o <<p>>
<1>0. (k + 1) - 1 = k /\ Len(q) \in Nat
  OBVIOUS
<1>1. a \in Seq(S) /\ Len(a) = k /\ \A i \in 1..k : a[i] = q[i]
  OBVIOUS
<1>2. b \in Seq(S) /\ Len(b) = Len(q) - k /\ \A i \in 1..(Len(q) - k) : b[i] = q[k + i]
  OBVIOUS
<1>3. InsertAt(q, k + 1, p) = ap \o b
  BY <1>0, Zenon DEF InsertAt
<1>4. ap \in Seq(S) /\ Len(ap) = k + 1 /\ ap[k + 1] = p /\ \A i \in 1..k : ap[i] = q[i]
  <2> HIDE DEF a
  <2> QED BY <1>0, <1>1
<1> HIDE DEF ap, b
<1> DEFINE whole == ap \o b
<1>5. /\ whole \in Seq(S) /\ Len(whole) = Len(q) + 1
      /\ \A i \in 1..(k + 1) : whole[i] = ap[i]
      /\ \A i \in (k + 2)..(Len(q) + 1) : whole[i] = b[i - (k + 1)]
  BY <1>0, <1>2, <1>4, ConcatProperties
<1> DEFINE r == InsertAt(q, k + 1, p)
<1>8. r = whole
  BY <1>3
<1> HIDE DEF r, whole
<1>6. ASSUME NEW i \in (k + 2)..(Len(q) + 1) PROVE r[i] = q[i - 1]
  <2>1. i - (k + 1) \in 1..(Len(q) - k) /\ k + (i - (k + 1)) = i - 1
    BY <1>0
  <2>2. b[i - (k + 1)] = q[i - 1]
    BY <1>2, <2>1
  <2> QED BY <1>5, <1>8, <2>2
<1>7. r[k + 1] = p /\ \A i \in 1..k : r[i] = q[i]
  BY <1>0, <1>4, <1>5, <1>8
<1>9. r \in Seq(S) /\ IsInserted(q, k, p, r)
  BY <1>5, <1>6, <1>7, <1>8 DEF IsInserted
<1> QED BY <1>9 DEF r

-----------------------------------------------------------------------------
(* THE TRANSMIT QUEUE.                                                     *)

LEMMA Constants ==
  /\ Other \notin Packets
  /\ Delays \subseteq Nat
  /\ W \in Nat \ {0}
  /\ Start \in Nat /\ Horizon \in Nat /\ QueueLen \in Nat /\ MaxReceived \in Nat
BY QueueAssumption

Memory == [Packets -> Contents \cup {NoPacket}]

LEMMA Fields ==
  \A x \in Contents : /\ x.pcb \in Senders /\ x.sendAt \in 0..(W - 1) /\ x.queued \in BOOLEAN
                       /\ x # NoPacket
<1> SUFFICES ASSUME NEW x \in Contents
             PROVE  /\ x.pcb \in Senders /\ x.sendAt \in 0..(W - 1) /\ x.queued \in BOOLEAN
                    /\ x # NoPacket
  OBVIOUS
<1>1. x.free = FALSE /\ x.pcb \in Senders /\ x.sendAt \in 0..(W - 1) /\ x.queued \in BOOLEAN
  BY DEF Contents
<1>2. NoPacket.free = TRUE
  BY DEF NoPacket
<1> QED BY <1>1, <1>2

\* A list of packets that are not freed, each there once.
Linked(q, c) ==
  /\ q \in Seq(Packets)
  /\ IsInjective(q)
  /\ \A i \in DOMAIN q : c[q[i]] # NoPacket

-----------------------------------------------------------------------------
(* Where a packet is put into the queue.                                   *)

LEMMA NotLaterIs ==
  ASSUME NEW q \in Seq(Packets), NEW c \in Memory, Linked(q, c), NEW at \in Nat
  PROVE  LET k == NotLater(q, c, at)
         IN  /\ k \in 0..Len(q)
             /\ \A i \in 1..k : c[q[i]].sendAt <= at
             /\ k < Len(q) => c[q[k + 1]].sendAt > at
<1> DEFINE Good(k) ==
      /\ \A i \in 1..k : c[q[i]].sendAt <= at
      /\ k < Len(q) => c[q[k + 1]].sendAt > at
    Later == {i \in 1..Len(q) : c[q[i]].sendAt > at}
<1>1. \A i \in 1..Len(q) : c[q[i]].sendAt \in Nat
  <2> SUFFICES ASSUME NEW i \in 1..Len(q) PROVE c[q[i]].sendAt \in Nat
    OBVIOUS
  <2>1. q[i] \in Packets /\ i \in DOMAIN q
    OBVIOUS
  <2>2. c[q[i]] \in Contents
    BY <2>1 DEF Memory, Linked
  <2> QED BY <2>2, Constants, Fields
<1>2. \E k \in 0..Len(q) : Good(k)
  <2>1. CASE Later = {}
    <3>1. \A i \in 1..Len(q) : c[q[i]].sendAt <= at
      BY <1>1, <2>1
    <3>2. Good(Len(q)) /\ Len(q) \in 0..Len(q)
      BY <3>1
    <3> QED BY <3>2
  <2>2. CASE Later # {}
    <3>1. Later \in SUBSET Nat
      OBVIOUS
    <3>2. PICK n \in Later : \A m \in Later : n <= m
      BY <2>2, <3>1, Least
    <3>3. n - 1 \in 0..Len(q) /\ (n - 1) + 1 = n /\ c[q[n]].sendAt > at
      BY <3>2
    <3>4. \A i \in 1..(n - 1) : c[q[i]].sendAt <= at
      BY <1>1, <3>2, <3>3
    <3> QED BY <3>3, <3>4
  <2> QED BY <2>1, <2>2
<1>3. NotLater(q, c, at) = CHOOSE k \in 0..Len(q) : Good(k)
  BY DEF NotLater
<1>4. NotLater(q, c, at) \in 0..Len(q) /\ Good(NotLater(q, c, at))
  <2> HIDE DEF Good
  <2> QED BY <1>2, <1>3
<1> QED BY <1>4

LEMMA InsertedLinked ==
  ASSUME NEW q \in Seq(Packets), IsInjective(q), NEW p \in Packets, p \notin Range(q),
         NEW k \in 0..Len(q)
  PROVE  LET r == InsertAt(q, k + 1, p)
         IN  r \in Seq(Packets) /\ IsInjective(r) /\ Range(r) = Range(q) \cup {p}
<1> DEFINE r == InsertAt(q, k + 1, p)
           n == Len(q)
<1>1. /\ r \in Seq(Packets) /\ Len(r) = n + 1 /\ r[k + 1] = p
      /\ \A i \in 1..k : r[i] = q[i]
      /\ \A i \in (k + 2)..(n + 1) : r[i] = q[i - 1]
  <2>1. r \in Seq(Packets) /\ IsInserted(q, k, p, r)
    BY Inserted
  <2> QED BY <2>1 DEF IsInserted
<1> HIDE DEF r
<1>2. n \in Nat /\ DOMAIN q = 1..n /\ DOMAIN r = 1..(n + 1)
  BY <1>1
<1>3. \A i \in 1..n : q[i] # p
  BY <1>2 DEF Range
<1>4. \A i \in 1..(n + 1) : i # k + 1 => r[i] # p
  BY <1>1, <1>2, <1>3
<1>5. \A i, j \in 1..n : q[i] = q[j] => i = j
  BY <1>2 DEF IsInjective
<1>6. IsInjective(r)
  <2> SUFFICES ASSUME NEW i \in 1..(n + 1), NEW j \in 1..(n + 1), r[i] = r[j]
               PROVE  i = j
    BY <1>2 DEF IsInjective
  <2>1. CASE i = k + 1 \/ j = k + 1
    BY <2>1, <1>1, <1>4
  <2>2. CASE i # k + 1 /\ j # k + 1
    BY <2>2, <1>1, <1>2, <1>5
  <2> QED BY <2>1, <2>2
<1>7. Range(r) \subseteq Range(q) \cup {p}
  <2> SUFFICES ASSUME NEW i \in 1..(n + 1), r[i] # p PROVE \E j \in 1..n : q[j] = r[i]
    BY <1>2 DEF Range
  <2>1. CASE i <= k
    BY <2>1, <1>1, <1>2
  <2>2. CASE i > k
    <3>1. i # k + 1
      BY <1>1
    <3>2. i \in (k + 2)..(n + 1) /\ i - 1 \in 1..n
      BY <2>2, <3>1, <1>1, <1>2
    <3> QED BY <3>2, <1>1
  <2> QED BY <2>1, <2>2, <1>1
<1>8. p \in Range(r)
  BY <1>1, <1>2 DEF Range
<1>9. Range(q) \subseteq Range(r)
  <2> SUFFICES ASSUME NEW i \in 1..n PROVE \E j \in 1..(n + 1) : r[j] = q[i]
    BY <1>2 DEF Range
  <2>1. CASE i <= k
    BY <2>1, <1>1, <1>2
  <2>2. CASE i > k
    <3>1. i + 1 \in (k + 2)..(n + 1) /\ i + 1 \in 1..(n + 1) /\ (i + 1) - 1 = i
      BY <2>2, <1>2
    <3> QED BY <3>1, <1>1
  <2> QED BY <2>1, <2>2
<1> QED BY <1>1, <1>6, <1>7, <1>8, <1>9 DEF r


LEMMA TailLinked ==
  ASSUME NEW q \in Seq(Packets), IsInjective(q), q # <<>>
  PROVE  /\ Tail(q) \in Seq(Packets) /\ IsInjective(Tail(q))
         /\ Head(q) \in Packets
         /\ Range(Tail(q)) = Range(q) \ {Head(q)}
<1> DEFINE n == Len(q)
           r == Tail(q)
<1>1. /\ n \in Nat /\ n >= 1 /\ DOMAIN q = 1..n /\ Head(q) = q[1] /\ Head(q) \in Packets
      /\ r \in Seq(Packets) /\ DOMAIN r = 1..(n - 1) /\ \A i \in 1..(n - 1) : r[i] = q[i + 1]
  OBVIOUS
<1> HIDE DEF r
<1>2. \A i, j \in 1..n : q[i] = q[j] => i = j
  BY <1>1 DEF IsInjective
<1>3. IsInjective(r)
  BY <1>1, <1>2 DEF IsInjective
<1>4. Range(r) \subseteq Range(q) \ {Head(q)}
  <2> SUFFICES ASSUME NEW i \in 1..(n - 1)
               PROVE  r[i] \in Range(q) /\ r[i] # Head(q)
    BY <1>1 DEF Range
  <2>1. r[i] = q[i + 1] /\ i + 1 \in 1..n /\ i + 1 # 1
    BY <1>1
  <2> QED BY <1>1, <1>2, <2>1 DEF Range
<1>5. Range(q) \ {Head(q)} \subseteq Range(r)
  <2> SUFFICES ASSUME NEW i \in 1..n, q[i] # Head(q)
               PROVE  q[i] \in Range(r)
    BY <1>1 DEF Range
  <2>1. i - 1 \in 1..(n - 1) /\ (i - 1) + 1 = i
    BY <1>1
  <2>2. i - 1 \in DOMAIN r /\ r[i - 1] = q[i]
    BY <1>1, <2>1
  <2> QED BY <2>2 DEF Range
<1> QED BY <1>1, <1>3, <1>4, <1>5 DEF r

-----------------------------------------------------------------------------
(* The list and the memory.                                                *)

Owns(q, c) ==
  /\ q \in Seq(Packets) /\ c \in Memory
  /\ IsInjective(q)
  /\ \A p \in Packets : p \in Range(q) <=> c[p] # NoPacket

\* What may be in the queue besides p, which is about to be put there.
OwnsOthers(q, c, p) ==
  /\ q \in Seq(Packets) /\ c \in Memory
  /\ IsInjective(q)
  /\ p \notin Range(q)
  /\ \A o \in Packets \ {p} : o \in Range(q) <=> c[o] # NoPacket

LEMMA OwnsLinked == \A q, c : Owns(q, c) => Linked(q, c)
BY RangeOfSeq DEF Owns, Linked, Range

LEMMA OwnsOthersLinked ==
  ASSUME NEW q, NEW c, NEW p, OwnsOthers(q, c, p)
  PROVE  Linked(q, c)
<1> SUFFICES ASSUME NEW i \in DOMAIN q PROVE c[q[i]] # NoPacket
  BY DEF OwnsOthers, Linked
<1>1. q[i] \in Packets /\ q[i] \in Range(q)
  BY DEF OwnsOthers, Range
<1> QED BY <1>1 DEF OwnsOthers

LEMMA NewContents ==
  ASSUME NEW sender \in Senders, NEW at \in 0..(W - 1)
  PROVE  [free |-> FALSE, pcb |-> sender, sendAt |-> at, queued |-> FALSE] \in Contents
BY DEF Contents

LEMMA ScheduleOwns ==
  ASSUME elapsed \in Nat, NEW q, NEW c, NEW p \in Packets, NEW sender \in Senders, NEW d \in Nat,
         OwnsOthers(q, c, p), Schedule(p, sender, d, q, c)
  PROVE  Owns(queue', packet')
<1> DEFINE at == (now + d) % W
           k == NotLater(q, c, at)
           new == [free |-> FALSE, pcb |-> sender, sendAt |-> at, queued |-> FALSE]
<1>1. at \in 0..(W - 1) /\ at \in Nat
  <2>1. now \in Nat
    BY Constants DEF now
  <2> QED BY <2>1, Constants
<1>2. q \in Seq(Packets) /\ c \in Memory /\ IsInjective(q) /\ p \notin Range(q) /\ Linked(q, c)
  BY OwnsOthersLinked DEF OwnsOthers
<1>3. queue' = InsertAt(q, k + 1, p) /\ packet' = [c EXCEPT ![p] = new]
  BY DEF Schedule
<1>4. new \in Contents /\ new # NoPacket
  BY <1>1, NewContents, Fields
<1> HIDE DEF at, new
<1>5. k \in 0..Len(q)
  BY <1>1, <1>2, NotLaterIs
<1> HIDE DEF k
<1>6. queue' \in Seq(Packets) /\ IsInjective(queue') /\ Range(queue') = Range(q) \cup {p}
  BY <1>2, <1>3, <1>5, InsertedLinked
<1>7. packet' \in Memory /\ packet'[p] = new /\ \A o \in Packets \ {p} : packet'[o] = c[o]
  BY <1>2, <1>3, <1>4 DEF Memory
<1>8. \A o \in Packets : o \in Range(queue') <=> packet'[o] # NoPacket
  BY <1>4, <1>6, <1>7 DEF OwnsOthers
<1> QED BY <1>6, <1>7, <1>8 DEF Owns

LEMMA NewOwns ==
  ASSUME elapsed \in Nat, NEW q, NEW c, Owns(q, c), NEW sender \in Senders,
         ScheduleNew(sender, q, c)
  PROVE  Owns(queue', packet')
<1>1. PICK p \in Packets, d \in Delays : c[p] = NoPacket /\ Schedule(p, sender, d, q, c)
  BY DEF ScheduleNew
<1>2. OwnsOthers(q, c, p) /\ d \in Nat
  BY <1>1, Constants DEF Owns, OwnsOthers
<1> QED BY <1>1, <1>2, ScheduleOwns

LEMMA ClearOwns ==
  ASSUME Owns(queue, packet), NEW sender \in Senders
  PROVE  Owns(WithoutPcb(sender), FreedPcb(sender))
<1> DEFINE r == WithoutPcb(sender)
           c == FreedPcb(sender)
<1>1. /\ r \in Seq(Packets) /\ IsInjective(r)
      /\ Range(r) = Range(queue) \cap NotOf(sender)
  BY KeepRange DEF WithoutPcb, Owns
<1>2. c \in Memory
  BY DEF FreedPcb, Owns, Memory
<1>3. \A p \in Packets : p \in Range(r) <=> p \in Range(queue) /\ packet[p].pcb # sender
  BY <1>1 DEF NotOf
<1>4. \A p \in Packets : c[p] # NoPacket <=> packet[p] # NoPacket /\ packet[p].pcb # sender
  BY DEF FreedPcb
<1> QED BY <1>1, <1>2, <1>3, <1>4 DEF Owns

QInv ==
  /\ elapsed \in 0..Horizon
  /\ Owns(queue, packet)
  /\ actions \in Seq(Packets \cup {Other}) /\ Len(actions) <= QueueLen
  /\ received \in 0..MaxReceived

LEMMA QInvIs == QInv <=> TypeOK /\ QueueOwnsPackets
BY DEF QInv, Owns, Memory, TypeOK, QueueOwnsPackets

LEMMA QInit == Init => QInv
<1> SUFFICES ASSUME Init PROVE QInv
  OBVIOUS
<1>1. elapsed \in 0..Horizon /\ received \in 0..MaxReceived
  BY Constants DEF Init
<1>2. actions \in Seq(Packets \cup {Other}) /\ Len(actions) <= QueueLen
  BY Constants, EmptySeq DEF Init
<1>3. queue \in Seq(Packets) /\ packet \in Memory /\ IsInjective(queue)
  BY DEF Init, Memory, IsInjective
<1>4. \A p \in Packets : p \notin Range(queue) /\ packet[p] = NoPacket
  BY DEF Init, Range
<1> QED BY <1>1, <1>2, <1>3, <1>4 DEF QInv, Owns

\* The action of an accepted packet sends it, or schedules it again.
LEMMA HandleOwns ==
  ASSUME elapsed \in Nat, Owns(queue, packet), NEW p \in Packets, Accepts(p),
         TxHandlePacket(p, Tail(queue))
  PROVE  Owns(queue', packet')
<1>1. queue # <<>> /\ p = Head(queue)
  BY DEF Accepts
<1> DEFINE q == Tail(queue)
<1>2. q \in Seq(Packets) /\ IsInjective(q) /\ Range(q) = Range(queue) \ {p} /\ p \in Range(queue)
  <2>1. queue \in Seq(Packets) /\ IsInjective(queue)
    BY DEF Owns
  <2>2. Head(queue) \in Range(queue)
    BY <1>1, <2>1 DEF Range
  <2> QED BY <1>1, <2>1, <2>2, TailLinked
<1> HIDE DEF q
<1>3. CASE queue' = q /\ packet' = [packet EXCEPT ![p] = NoPacket]
  BY <1>2, <1>3 DEF Owns, Memory
<1>4. CASE \E d \in Delays \ {0} : Schedule(p, packet[p].pcb, d, q, packet)
  <2>1. PICK d \in Delays \ {0} : Schedule(p, packet[p].pcb, d, q, packet)
    BY <1>4
  <2>2. packet[p] \in Contents
    BY <1>2 DEF Owns, Memory
  <2>3. packet[p].pcb \in Senders /\ d \in Nat
    BY <2>2, Fields, Constants
  <2>4. OwnsOthers(q, packet, p)
    BY <1>2 DEF Owns, OwnsOthers
  <2> QED BY <2>1, <2>3, <2>4, ScheduleOwns
<1> QED BY <1>3, <1>4 DEF TxHandlePacket, q

LEMMA QStep == QInv /\ [Next]_vars => QInv'
<1> SUFFICES ASSUME QInv, [Next]_vars PROVE QInv'
  OBVIOUS
<1>0. elapsed \in Nat /\ received \in Nat
  BY Constants DEF QInv
<1>1. CASE Tick
  BY <1>1, Constants DEF Tick, QInv
<1>2. CASE SchedulerRun
  <2>1. PICK p \in FirstUnqueued :
          /\ Len(actions) < QueueLen
          /\ packet' = [packet EXCEPT ![p].queued = TRUE]
          /\ actions' = Append(actions, p)
          /\ UNCHANGED <<elapsed, queue, received>>
    BY <1>2 DEF SchedulerRun
  <2>2. p \in Range(queue) /\ p \in Packets
    BY <2>1 DEF FirstUnqueued, Range, QInv, Owns
  <2>3. packet[p] \in Contents
    BY <2>2 DEF QInv, Owns, Memory
  <2>4. [packet[p] EXCEPT !.queued = TRUE] \in Contents
    BY <2>3 DEF Contents
  <2>5. packet' = [packet EXCEPT ![p] = [packet[p] EXCEPT !.queued = TRUE]]
    BY <2>1
  <2>6. packet'[p] \in Contents /\ packet'[p] # NoPacket /\ packet[p] # NoPacket
    BY <2>2, <2>3, <2>4, <2>5, Fields DEF QInv, Owns, Memory
  <2>7. packet' \in Memory /\ \A o \in Packets \ {p} : packet'[o] = packet[o]
    BY <2>2, <2>4, <2>5 DEF QInv, Owns, Memory
  <2>8. Owns(queue', packet')
    BY <2>1, <2>6, <2>7 DEF QInv, Owns
  <2>9. actions' \in Seq(Packets \cup {Other}) /\ Len(actions') <= QueueLen
    BY <2>1, <2>2, Constants DEF QInv
  <2> QED BY <2>1, <2>8, <2>9 DEF QInv
<1>3. CASE Receive
  BY <1>3, Constants DEF Receive, QInv
<1>4. CASE Execute
  <2>1. actions' \in Seq(Packets \cup {Other}) /\ Len(actions') <= QueueLen
    BY <1>4, Constants DEF Execute, QInv
  <2> SUFFICES Owns(queue', packet')
    BY <1>4, <2>1 DEF Execute, QInv
  <2>2. Owns(queue, packet)
    BY DEF QInv
  <2>3. CASE UNCHANGED <<queue, packet>>
    BY <2>2, <2>3 DEF Owns
  <2>4. CASE \E sender \in Senders : ScheduleNew(sender, queue, packet)
    BY <1>0, <2>2, <2>4, NewOwns
  <2>5. CASE \E sender \in Senders : ClearPcb(sender)
    BY <2>2, <2>5, ClearOwns DEF ClearPcb
  <2>6. CASE \E sender \in Senders : Restart(sender)
    BY <1>0, <2>2, <2>6, ClearOwns, NewOwns DEF Restart
  <2>7. CASE ExecuteTxHandle
    <3> DEFINE p == Head(actions)
    <3>1. CASE Accepts(p)
      <4>1. p \in Packets
        BY <1>4, <2>7 DEF ExecuteTxHandle, QInv, Execute
      <4> QED BY <1>0, <2>2, <2>7, <3>1, <4>1, HandleOwns DEF ExecuteTxHandle
    <3>2. CASE ~Accepts(p)
      BY <2>3, <2>7, <3>2 DEF ExecuteTxHandle
    <3> QED BY <3>1, <3>2
  <2> QED BY <1>4, <2>3, <2>4, <2>5, <2>6, <2>7 DEF Execute, ExecuteOther
<1>5. CASE UNCHANGED vars
  BY <1>5 DEF vars, QInv
<1> QED BY <1>1, <1>2, <1>3, <1>4, <1>5 DEF Next

\* Whatever the clock does, the list links each packet once and only packets
\* that are not freed, and no packet that is not freed is lost.
THEOREM NoneIsLost == Spec => [](TypeOK /\ QueueOwnsPackets)
<1>1. Spec => []QInv
  BY QInit, QStep, PTL DEF Spec
<1> QED BY <1>1, QInvIs, PTL


-----------------------------------------------------------------------------
(* The order of the queue, as long as the clock does not wrap around: it is *)
(* sorted by the time packets are due; those marked as queued are due and   *)
(* come first, and their actions are posted in their order.                 *)

Sorted(q, c) == \A i, j \in 1..Len(q) : i <= j => c[q[i]].sendAt <= c[q[j]].sendAt

Past(q, c) ==
  \A i \in 1..Len(q) :
    /\ Start <= c[q[i]].sendAt /\ c[q[i]].sendAt < Start + Horizon
    /\ c[q[i]].queued => c[q[i]].sendAt < Start + elapsed

Covers(q, c, acts, k, at) ==
  /\ k \in 0..Len(q)
  /\ at \in [1..k -> 1..Len(acts)]
  /\ \A i \in 1..Len(q) : c[q[i]].queued <=> i <= k
  /\ \A i \in 1..k : acts[at[i]] = q[i]
  /\ \A i, j \in 1..k : i < j => at[i] < at[j]

InOrder(q, c, acts, k, at) == Sorted(q, c) /\ Past(q, c) /\ Covers(q, c, acts, k, at)

LEMMA LinkedContents ==
  ASSUME NEW q, NEW c \in Memory, Linked(q, c), NEW i \in 1..Len(q)
  PROVE  /\ q[i] \in Packets /\ c[q[i]] \in Contents
         /\ c[q[i]].sendAt \in Nat /\ c[q[i]].sendAt < W /\ c[q[i]].queued \in BOOLEAN
<1>1. q[i] \in Packets /\ i \in DOMAIN q
  BY DEF Linked
<1>2. c[q[i]] \in Contents
  BY <1>1 DEF Linked, Memory
<1>3. c[q[i]].sendAt \in 0..(W - 1) /\ c[q[i]].queued \in BOOLEAN
  BY <1>2, Fields
<1> QED BY <1>1, <1>2, <1>3, Constants

LEMMA Times ==
  ASSUME NoWrap, elapsed \in Nat, NEW d \in Nat, elapsed + d < Horizon
  PROVE  now = Start + elapsed /\ (now + d) % W = Start + elapsed + d
<1>1. Start + elapsed + d < W /\ Start + elapsed < W
  BY Constants DEF NoWrap
<1> QED BY <1>1, Constants DEF now

LEMMA ScheduleInOrder ==
  ASSUME NoWrap, elapsed \in Nat, NEW q, NEW c, NEW p \in Packets, NEW sender \in Senders,
         NEW d \in Nat, OwnsOthers(q, c, p), Schedule(p, sender, d, q, c),
         NEW acts, NEW k, NEW at, InOrder(q, c, acts, k, at)
  PROVE  InOrder(queue', packet', acts, k, at)
<1> DEFINE due == (now + d) % W
           n == NotLater(q, c, due)
           new == [free |-> FALSE, pcb |-> sender, sendAt |-> due, queued |-> FALSE]
<1>1. due = Start + elapsed + d /\ due \in Nat
  BY Times, Constants DEF Schedule
<1>2. q \in Seq(Packets) /\ c \in Memory /\ p \notin Range(q) /\ Linked(q, c)
  BY OwnsOthersLinked DEF OwnsOthers
<1>3. queue' = InsertAt(q, n + 1, p) /\ packet' = [c EXCEPT ![p] = new]
  BY DEF Schedule
<1>4. new.sendAt = due /\ new.queued = FALSE
  OBVIOUS
<1> HIDE DEF due, new
<1>5. /\ n \in 0..Len(q)
      /\ \A i \in 1..n : c[q[i]].sendAt <= due
      /\ n < Len(q) => c[q[n + 1]].sendAt > due
  BY <1>1, <1>2, NotLaterIs
<1> HIDE DEF n
<1>6. /\ queue' \in Seq(Packets) /\ Len(queue') = Len(q) + 1 /\ queue'[n + 1] = p
      /\ \A i \in 1..n : queue'[i] = q[i]
      /\ \A i \in (n + 2)..(Len(q) + 1) : queue'[i] = q[i - 1]
  <2>1. queue' \in Seq(Packets) /\ IsInserted(q, n, p, queue')
    BY <1>2, <1>3, <1>5, Inserted
  <2> QED BY <2>1 DEF IsInserted
<1>7. Len(q) \in Nat /\ n \in Nat
  BY <1>2, <1>5
<1>8. \A i \in 1..Len(q) : q[i] \in Packets /\ q[i] # p
                            /\ c[q[i]].sendAt \in Nat /\ c[q[i]].queued \in BOOLEAN
  BY <1>2, LinkedContents DEF Range
<1>9. packet'[p] = new /\ \A o \in Packets \ {p} : packet'[o] = c[o]
  BY <1>2, <1>3 DEF Memory
\* What is behind the new packet is due later than it.
<1>10. \A i \in 1..Len(q) : i > n => c[q[i]].sendAt > due
  <2> SUFFICES ASSUME NEW i \in 1..Len(q), i > n PROVE c[q[i]].sendAt > due
    OBVIOUS
  <2>1. n < Len(q) /\ n + 1 \in 1..Len(q) /\ n + 1 <= i
    BY <1>7
  <2>2. c[q[n + 1]].sendAt <= c[q[i]].sendAt
    BY <2>1 DEF InOrder, Sorted
  <2> QED BY <1>1, <1>5, <1>8, <2>1, <2>2
<1>11. k <= n
  <2>1. k \in 0..Len(q) /\ \A i \in 1..k : c[q[i]].queued /\ c[q[i]].sendAt < Start + elapsed
    <3>1. k \in 0..Len(q) /\ \A i \in 1..k : i \in 1..Len(q) /\ c[q[i]].queued
      BY <1>7 DEF InOrder, Covers
    <3> QED BY <3>1 DEF InOrder, Past
  <2> SUFFICES ASSUME k > n PROVE FALSE
    BY <1>7, <2>1
  <2>2. k \in 1..k /\ k \in 1..Len(q)
    BY <1>7, <2>1
  <2>3. c[q[k]].sendAt < Start + elapsed /\ c[q[k]].sendAt > due
    BY <1>10, <2>1, <2>2
  <2> QED BY <1>1, <1>8, <2>2, <2>3, Constants
\* The time of each place of the new queue.
<1> DEFINE r == queue'
           m == packet'
<1>12. /\ \A i \in 1..n : m[r[i]] = c[q[i]]
       /\ m[r[n + 1]] = new
       /\ \A i \in (n + 2)..(Len(q) + 1) : i - 1 \in 1..Len(q) /\ m[r[i]] = c[q[i - 1]]
  <2>1. \A i \in 1..n : i \in 1..Len(q)
    BY <1>5, <1>7
  <2>2. \A i \in (n + 2)..(Len(q) + 1) : i - 1 \in 1..Len(q)
    BY <1>5, <1>7
  <2> QED BY <1>6, <1>8, <1>9, <2>1, <2>2
<1>13. Len(r) = Len(q) + 1
  BY <1>6
<1> HIDE DEF r, m
<1>14. Sorted(r, m)
  <2> SUFFICES ASSUME NEW i \in 1..(Len(q) + 1), NEW j \in 1..(Len(q) + 1), i <= j
               PROVE  m[r[i]].sendAt <= m[r[j]].sendAt
    BY <1>13 DEF Sorted
  <2>1. CASE i <= n
    <3>1. m[r[i]] = c[q[i]] /\ i \in 1..Len(q) /\ c[q[i]].sendAt <= due
      BY <1>5, <1>7, <1>12, <2>1
    <3>2. CASE j <= n
      BY <1>5, <1>7, <1>12, <3>1, <3>2 DEF InOrder, Sorted
    <3>3. CASE j = n + 1
      BY <1>4, <1>12, <3>1, <3>3
    <3>4. CASE j > n + 1
      <4>1. m[r[j]] = c[q[j - 1]] /\ j - 1 \in 1..Len(q) /\ j - 1 > n
        BY <1>7, <1>12, <3>4
      <4> QED BY <1>1, <1>8, <1>10, <3>1, <4>1
    <3> QED BY <1>7, <3>2, <3>3, <3>4
  <2>2. CASE i = n + 1
    <3>1. CASE j = n + 1
      BY <1>1, <1>4, <1>12, <2>2, <3>1
    <3>2. CASE j > n + 1
      <4>1. m[r[j]] = c[q[j - 1]] /\ j - 1 \in 1..Len(q) /\ j - 1 > n
        BY <1>7, <1>12, <3>2
      <4> QED BY <1>1, <1>4, <1>8, <1>10, <1>12, <2>2, <4>1
    <3> QED BY <1>7, <2>2, <3>1, <3>2
  <2>3. CASE i > n + 1
    <3>1. /\ m[r[i]] = c[q[i - 1]] /\ i - 1 \in 1..Len(q)
          /\ m[r[j]] = c[q[j - 1]] /\ j - 1 \in 1..Len(q) /\ i - 1 <= j - 1
      BY <1>7, <1>12, <2>3
    <3> QED BY <3>1 DEF InOrder, Sorted
  <2> QED BY <1>7, <2>1, <2>2, <2>3
<1>15. ASSUME NEW i \in 1..(Len(q) + 1)
       PROVE  m[r[i]].queued <=> i <= k
  <2>0. k \in Nat /\ \A h \in 1..Len(q) : c[q[h]].queued <=> h <= k
    BY <1>7 DEF InOrder, Covers
  <2>1. CASE i <= n
    <3>1. m[r[i]] = c[q[i]] /\ i \in 1..Len(q)
      BY <1>5, <1>7, <1>12, <2>1
    <3> QED BY <2>0, <3>1
  <2>2. CASE i = n + 1
    BY <1>4, <1>7, <1>11, <1>12, <2>0, <2>2
  <2>3. CASE i > n + 1
    <3>1. m[r[i]] = c[q[i - 1]] /\ i - 1 \in 1..Len(q) /\ ~ (i - 1 <= k) /\ ~ (i <= k)
      BY <1>7, <1>11, <1>12, <2>0, <2>3
    <3> QED BY <2>0, <3>1
  <2> QED BY <1>7, <2>1, <2>2, <2>3
<1>16. \A i \in 1..k : i \in 1..Len(q) /\ i <= n /\ i \in 1..n /\ r[i] = q[i] /\ m[r[i]] = c[q[i]]
  BY <1>6, <1>7, <1>11, <1>12 DEF InOrder, Covers, r
<1>17. Past(r, m)
  <2> SUFFICES ASSUME NEW i \in 1..(Len(q) + 1)
               PROVE  /\ Start <= m[r[i]].sendAt /\ m[r[i]].sendAt < Start + Horizon
                      /\ m[r[i]].queued => m[r[i]].sendAt < Start + elapsed
    BY <1>13 DEF Past
  <2>1. ASSUME m[r[i]].queued
        PROVE  m[r[i]].sendAt < Start + elapsed
    <3>1. i \in 1..k
      BY <1>15, <1>7, <2>1 DEF InOrder, Covers
    <3>2. m[r[i]] = c[q[i]] /\ i \in 1..Len(q) /\ c[q[i]].queued
      BY <1>16, <2>1, <3>1
    <3> QED BY <3>2 DEF InOrder, Past
  <2>2. m[r[i]] = new \/ \E j \in 1..Len(q) : m[r[i]] = c[q[j]]
    <3>1. CASE i <= n
      BY <1>5, <1>7, <1>12, <3>1
    <3>2. CASE i = n + 1
      BY <1>12, <3>2
    <3>3. CASE i > n + 1
      BY <1>7, <1>12, <3>3
    <3> QED BY <1>7, <3>1, <3>2, <3>3
  <2>3. Start <= due /\ due < Start + Horizon
    BY <1>1, Constants DEF Schedule
  <2>4. Start <= m[r[i]].sendAt /\ m[r[i]].sendAt < Start + Horizon
    BY <1>4, <2>2, <2>3 DEF InOrder, Past
  <2> QED BY <2>1, <2>4
<1>18. Covers(r, m, acts, k, at)
  <2>1. k \in 0..Len(r)
    BY <1>7, <1>13 DEF InOrder, Covers
  <2>2. \A i \in 1..k : acts[at[i]] = r[i]
    BY <1>16 DEF InOrder, Covers
  <2> QED BY <1>13, <1>15, <2>1, <2>2 DEF InOrder, Covers
<1> QED BY <1>14, <1>17, <1>18 DEF InOrder, r, m


\* The order depends on what is in the queue only.
LEMMA SameInOrder ==
  ASSUME NEW q, NEW c, NEW m, \A i \in 1..Len(q) : m[q[i]] = c[q[i]],
         NEW acts, NEW k, NEW at, InOrder(q, c, acts, k, at)
  PROVE  InOrder(q, m, acts, k, at)
<1>1. Sorted(q, m) /\ Past(q, m)
  BY DEF InOrder, Sorted, Past
<1>2. Covers(q, m, acts, k, at)
  BY DEF InOrder, Covers
<1> QED BY <1>1, <1>2 DEF InOrder

\* What is taken out of the queue leaves the rest in order.
LEMMA KeepInOrder ==
  ASSUME NEW q, NEW c \in Memory, Linked(q, c), NEW nodes,
         NEW acts, NEW k, NEW at, InOrder(q, c, acts, k, at)
  PROVE  \E k2, at2 : InOrder(Keep(q, nodes), c, acts, k2, at2)
<1> DEFINE r == Keep(q, nodes)
           n == Len(q)
           l == Len(r)
<1>1. q \in Seq(Packets) /\ r \in Seq(Packets)
  BY KeepPicks DEF Linked
<1>2. PICK w : Picked(q, nodes, n, r, w)
  BY KeepPicks DEF Linked
<1> HIDE DEF r
<1>3. n \in Nat /\ l \in Nat
  BY <1>1
<1>4. /\ \A i \in 1..l : w[i] \in 1..n /\ w[i] \in Nat /\ r[i] = q[w[i]]
      /\ \A i, j \in 1..l : i < j => w[i] < w[j]
      /\ \A i, j \in 1..l : i <= j => w[i] <= w[j]
  <2>1. \A i \in 1..l : w[i] \in 1..n /\ r[i] = q[w[i]]
    BY <1>2 DEF Picked
  <2>2. \A i, j \in 1..l : i < j => w[i] < w[j]
    BY <1>2 DEF Picked
  <2>3. ASSUME NEW i \in 1..l, NEW j \in 1..l, i <= j PROVE w[i] <= w[j]
    <3>1. CASE i = j
      BY <2>1, <1>3, <3>1
    <3>2. CASE i < j
      BY <2>1, <2>2, <1>3, <3>2
    <3> QED BY <1>3, <2>3, <3>1, <3>2
  <2> QED BY <1>3, <2>1, <2>2, <2>3
<1> DEFINE Behind == {i \in 1..l : w[i] > k}
<1>5. k \in 0..n /\ \A i \in 1..n : c[q[i]].queued <=> i <= k
  BY DEF InOrder, Covers
<1>6. \E b \in 0..l : \A i \in 1..l : w[i] <= k <=> i <= b
  <2>1. CASE Behind = {}
    <3>1. \A i \in 1..l : w[i] <= k /\ i <= l
      BY <1>3, <1>4, <1>5, <2>1
    <3>2. l \in 0..l
      BY <1>3
    <3> QED BY <3>1, <3>2
  <2>2. CASE Behind # {}
    <3>1. Behind \in SUBSET Nat
      BY <1>3
    <3>2. PICK b \in Behind : \A i \in Behind : b <= i
      BY <2>2, <3>1, Least
    <3>3. b - 1 \in 0..l /\ b \in 1..l /\ w[b] > k
      BY <1>3, <3>2
    <3>4. \A i \in 1..l : i < b => w[i] <= k
      BY <1>3, <1>4, <1>5, <3>2
    <3>5. ASSUME NEW i \in 1..l, i >= b PROVE ~ (w[i] <= k)
      <4>1. w[b] <= w[i]
        BY <1>4, <3>3, <3>5
      <4> QED BY <1>3, <1>4, <1>5, <3>3, <4>1
    <3>6. \A i \in 1..l : w[i] <= k <=> i <= b - 1
      BY <1>3, <3>3, <3>4, <3>5
    <3> QED BY <3>3, <3>6
  <2> QED BY <2>1, <2>2
<1>7. PICK b \in 0..l : \A i \in 1..l : w[i] <= k <=> i <= b
  BY <1>6
<1> DEFINE v == [i \in 1..b |-> at[w[i]]]
<1>8. Sorted(r, c)
  <2> SUFFICES ASSUME NEW i \in 1..l, NEW j \in 1..l, i <= j
               PROVE  c[r[i]].sendAt <= c[r[j]].sendAt
    BY DEF Sorted
  <2>1. w[i] \in 1..n /\ w[j] \in 1..n /\ w[i] <= w[j] /\ r[i] = q[w[i]] /\ r[j] = q[w[j]]
    BY <1>4
  <2> QED BY <2>1 DEF InOrder, Sorted
<1>9. Past(r, c)
  BY <1>4 DEF InOrder, Past
<1>10. \A i \in 1..b : i \in 1..l /\ w[i] \in 1..k
  BY <1>3, <1>4, <1>5, <1>7
<1>11. Covers(r, c, acts, b, v)
  <2>1. v \in [1..b -> 1..Len(acts)]
    BY <1>10 DEF InOrder, Covers
  <2>2. \A i \in 1..l : c[r[i]].queued <=> i <= b
    BY <1>4, <1>5, <1>7
  <2>3. \A i \in 1..b : acts[v[i]] = r[i]
    BY <1>4, <1>10 DEF InOrder, Covers
  <2>4. \A i, j \in 1..b : i < j => v[i] < v[j]
    BY <1>4, <1>10 DEF InOrder, Covers
  <2> HIDE DEF v
  <2> QED BY <2>1, <2>2, <2>3, <2>4 DEF Covers
<1> QED BY <1>8, <1>9, <1>11 DEF InOrder, r

\* An action that is not that of the first packet goes, or both go.
LEMMA TailInOrder ==
  ASSUME NEW T, NEW acts \in Seq(T), acts # <<>>, NEW q \in Seq(Packets), NEW c,
         NEW k, NEW at, InOrder(q, c, acts, k, at)
  PROVE  /\ (k >= 1 => Head(acts) # q[1]) => \E at2 : InOrder(q, c, Tail(acts), k, at2)
         /\ q # <<>> /\ k >= 1 => \E at2 : InOrder(Tail(q), c, Tail(acts), k - 1, at2)
<1> DEFINE n == Len(acts)
           rest == Tail(acts)
           l == Len(q)
<1>1. /\ n \in Nat /\ n >= 1 /\ Len(rest) = n - 1 /\ Head(acts) = acts[1]
      /\ \A i \in 1..(n - 1) : rest[i] = acts[i + 1]
  OBVIOUS
<1> HIDE DEF rest
<1>2. l \in Nat
  OBVIOUS
<1>3. /\ k \in 0..l /\ k \in Nat
      /\ \A i \in 1..k : at[i] \in 1..n /\ at[i] \in Nat /\ acts[at[i]] = q[i]
      /\ \A i, j \in 1..k : i < j => at[i] < at[j]
  <2>1. k \in 0..l /\ at \in [1..k -> 1..n]
    BY DEF InOrder, Covers
  <2>2. \A i \in 1..k : acts[at[i]] = q[i]
    BY DEF InOrder, Covers
  <2>3. \A i, j \in 1..k : i < j => at[i] < at[j]
    BY DEF InOrder, Covers
  <2> QED BY <1>1, <1>2, <2>1, <2>2, <2>3
<1>4. ASSUME k >= 1 => Head(acts) # q[1]
      PROVE  \E at2 : InOrder(q, c, rest, k, at2)
  <2> DEFINE v == [i \in 1..k |-> at[i] - 1]
  <2>1. ASSUME NEW i \in 1..k PROVE at[i] - 1 \in 1..(n - 1) /\ (at[i] - 1) + 1 = at[i]
    <3>1. 1 \in 1..k /\ at[1] # 1
      BY <1>1, <1>3, <1>4
    <3>2. i = 1 \/ 1 < i
      BY <1>3
    <3>3. at[i] # 1
      BY <1>1, <1>3, <3>1, <3>2
    <3> QED BY <1>1, <1>3, <3>3
  <2>2. v \in [1..k -> 1..Len(rest)]
    BY <1>1, <2>1
  <2>3. \A i \in 1..k : rest[v[i]] = q[i]
    BY <1>1, <1>3, <2>1
  <2>4. \A i, j \in 1..k : i < j => v[i] < v[j]
    BY <1>3, <2>1
  <2> HIDE DEF v
  <2>5. Covers(q, c, rest, k, v)
    BY <1>3, <2>2, <2>3, <2>4 DEF InOrder, Covers
  <2> QED BY <2>5 DEF InOrder
<1>5. ASSUME q # <<>>, k >= 1
      PROVE  \E at2 : InOrder(Tail(q), c, rest, k - 1, at2)
  <2> DEFINE v == [i \in 1..(k - 1) |-> at[i + 1] - 1]
             r == Tail(q)
  <2>1. l >= 1 /\ Len(r) = l - 1 /\ \A i \in 1..(l - 1) : r[i] = q[i + 1] /\ i + 1 \in 1..l
    BY <1>2, <1>5
  <2> HIDE DEF r
  <2>2. ASSUME NEW i \in 1..(k - 1)
        PROVE  /\ i + 1 \in 1..k /\ at[i + 1] - 1 \in 1..(n - 1)
               /\ (at[i + 1] - 1) + 1 = at[i + 1] /\ r[i] = q[i + 1]
    <3>1. 1 \in 1..k /\ i + 1 \in 1..k /\ 1 < i + 1 /\ i \in 1..(l - 1)
      BY <1>2, <1>3
    <3>2. at[1] < at[i + 1]
      BY <1>3, <3>1
    <3> QED BY <1>1, <1>3, <2>1, <3>1, <3>2
  <2>3. v \in [1..(k - 1) -> 1..Len(rest)]
    BY <1>1, <2>2
  <2>4. \A i \in 1..(k - 1) : rest[v[i]] = r[i]
    <3> SUFFICES ASSUME NEW i \in 1..(k - 1) PROVE rest[at[i + 1] - 1] = r[i]
      OBVIOUS
    <3>1. acts[at[i + 1]] = q[i + 1]
      BY <1>3, <2>2
    <3>2. rest[at[i + 1] - 1] = acts[(at[i + 1] - 1) + 1]
      BY <1>1, <2>2
    <3> QED BY <2>2, <3>1, <3>2
  <2>5. \A i, j \in 1..(k - 1) : i < j => v[i] < v[j]
    <3> SUFFICES ASSUME NEW i \in 1..(k - 1), NEW j \in 1..(k - 1), i < j PROVE v[i] < v[j]
      OBVIOUS
    <3>1. i + 1 \in 1..k /\ j + 1 \in 1..k /\ i + 1 < j + 1
      BY <1>3, <2>2
    <3>2. at[i + 1] < at[j + 1] /\ at[i + 1] \in Nat /\ at[j + 1] \in Nat
      BY <1>3, <3>1
    <3> QED BY <3>2
  <2> HIDE DEF v
  <2>6. \A i \in 1..Len(r) : c[r[i]].queued <=> i <= k - 1
    <3> SUFFICES ASSUME NEW i \in 1..Len(r) PROVE c[r[i]].queued <=> i <= k - 1
      OBVIOUS
    <3>1. i \in Nat /\ i + 1 \in 1..l /\ r[i] = q[i + 1]
      BY <1>2, <2>1
    <3>2. c[q[i + 1]].queued <=> i + 1 <= k
      BY <3>1 DEF InOrder, Covers
    <3>3. i + 1 <= k <=> i <= k - 1
      BY <1>3, <3>1
    <3> QED BY <3>1, <3>2, <3>3
  <2>7. k - 1 \in 0..Len(r)
    BY <1>2, <1>3, <1>5, <2>1
  <2>8. Covers(r, c, rest, k - 1, v)
    BY <2>3, <2>4, <2>5, <2>6, <2>7 DEF Covers
  <2>9. Sorted(r, c)
    <3> SUFFICES ASSUME NEW i \in 1..Len(r), NEW j \in 1..Len(r), i <= j
                 PROVE  c[r[i]].sendAt <= c[r[j]].sendAt
      BY DEF Sorted
    <3>1. /\ i + 1 \in 1..l /\ j + 1 \in 1..l /\ i + 1 <= j + 1
          /\ r[i] = q[i + 1] /\ r[j] = q[j + 1]
      BY <1>2, <2>1
    <3> QED BY <3>1 DEF InOrder, Sorted
  <2>10. Past(r, c)
    BY <1>2, <2>1 DEF InOrder, Past
  <2> QED BY <2>8, <2>9, <2>10 DEF InOrder, r
<1> QED BY <1>4, <1>5 DEF rest


\* What a time within the observation says of IsDue.
LEMMA DueIsPast ==
  ASSUME NoWrap, elapsed \in 0..Horizon, NEW p, NEW s \in Nat, packet[p].sendAt = s,
         Start <= s, s < Start + Horizon
  PROVE  IsDue(p) <=> s < Start + elapsed
<1>1. Start + elapsed <= W /\ 2 * Horizon <= W /\ s < W
  BY Constants DEF NoWrap
<1> DEFINE n == Start + elapsed
<1>0. /\ Start \in Nat /\ Horizon \in Nat /\ W \in Nat /\ W >= 1
      /\ elapsed \in Nat /\ elapsed <= Horizon
  BY Constants
<1>2. n \in Nat /\ n <= W /\ n - Start <= Horizon
  BY <1>0, <1>1
<1>3. now = IF n = W THEN 0 ELSE n
  BY <1>1, <1>2, Constants DEF now
<1>4. IsDue(p) <=> (s + W - now) % W >= W \div 2
  BY DEF IsDue
<1> HIDE DEF n
<1>5. CASE s >= n
  <2>1. n # W /\ now = n /\ s - n \in Nat /\ s - n < W /\ s - n < Horizon
    BY <1>1, <1>2, <1>3, <1>5, Constants DEF n
  <2>2. s + W - now = (s - n) + W
    BY <1>2, <2>1, Constants
  <2>3. ((s - n) + W) % W = s - n
    BY <2>1, Constants
  <2>4. Horizon <= W \div 2
    BY <1>1, Constants
  <2>5. ~ (s - n >= W \div 2)
    BY <2>1, <2>4, Constants
  <2> QED BY <1>2, <1>4, <1>5, <2>2, <2>3, <2>5 DEF n
<1>6. CASE s < n
  <2> DEFINE x == s + W - n
  <2>1. x \in Nat /\ x < W /\ n - s <= Horizon /\ x >= W - Horizon
    BY <1>1, <1>2, <1>6, Constants DEF n
  <2>2. (s + W - now) % W = x
    <3>1. CASE n = W
      <4>1. s + W - now = s + W /\ x = s
        BY <1>3, <3>1, Constants
      <4> HIDE DEF x
      <4>2. (s + W) % W = s
        BY <1>1, Constants
      <4> QED BY <4>1, <4>2
    <3>2. CASE n # W
      <4>1. s + W - now = x
        BY <1>3, <3>2
      <4> HIDE DEF x
      <4>2. x % W = x
        BY <2>1, Constants
      <4> QED BY <4>1, <4>2
    <3> QED BY <3>1, <3>2
  <2>3. W - Horizon >= W \div 2
    BY <1>1, Constants
  <2> HIDE DEF x
  <2>4. x >= W \div 2
    BY <2>1, <2>3, Constants
  <2> QED BY <1>4, <1>6, <2>2, <2>4 DEF n
<1> QED BY <1>2, <1>5, <1>6 DEF n

Ordered(q, c, acts) == \E k, at : InOrder(q, c, acts, k, at)

OInv == QInv /\ Ordered(queue, packet, actions)

LEMMA OInit == Init => OInv
<1> SUFFICES ASSUME Init PROVE Ordered(queue, packet, actions)
  BY QInit DEF OInv
<1>1. InOrder(queue, packet, actions, 0, <<>>)
  BY DEF Init, InOrder, Sorted, Past, Covers
<1> QED BY <1>1 DEF Ordered

LEMMA SchedulerInOrder ==
  ASSUME NoWrap, OInv, SchedulerRun
  PROVE  Ordered(queue', packet', actions')
<1>1. PICK p \in FirstUnqueued :
        /\ packet' = [packet EXCEPT ![p].queued = TRUE]
        /\ actions' = Append(actions, p)
        /\ UNCHANGED <<elapsed, queue>>
  BY DEF SchedulerRun
<1>2. PICK k, at : InOrder(queue, packet, actions, k, at)
  BY DEF OInv, Ordered
<1>3. PICK j \in 1..Len(queue) :
        /\ p = queue[j] /\ ~packet[queue[j]].queued
        /\ \A h \in 1..(j - 1) : packet[queue[h]].queued
        /\ IsDue(queue[j])
  BY <1>1 DEF FirstUnqueued, OInv, QInv, Owns
<1> DEFINE n == Len(queue)
           l == Len(actions)
<1>4. /\ n \in Nat /\ l \in Nat /\ Linked(queue, packet) /\ packet \in Memory
      /\ elapsed \in 0..Horizon
  BY OwnsLinked DEF OInv, QInv, Owns
<1>5. k \in 0..n /\ \A i \in 1..n : packet[queue[i]].queued <=> i <= k
  BY <1>2 DEF InOrder, Covers
<1>6. j = k + 1
  <2>1. ~ (j <= k)
    BY <1>3, <1>5
  <2>2. k + 1 < j => FALSE
    <3> SUFFICES ASSUME k + 1 < j PROVE FALSE
      OBVIOUS
    <3>1. k + 1 \in 1..(j - 1) /\ k + 1 \in 1..n /\ ~ (k + 1 <= k)
      BY <1>4, <1>5
    <3> QED BY <1>3, <1>5, <3>1
  <2> QED BY <1>4, <1>5, <2>1, <2>2
<1>7. packet[p] \in Contents /\ p \in Packets /\ packet[p].sendAt \in Nat
  BY <1>3, <1>4, LinkedContents
<1>8. packet[p].sendAt < Start + elapsed
  <2>1. Start <= packet[p].sendAt /\ packet[p].sendAt < Start + Horizon
    BY <1>2, <1>3 DEF InOrder, Past
  <2> QED BY <1>3, <1>4, <1>7, <2>1, DueIsPast
\* Only the mark of the packet changes.
<1>9. packet'[p].queued /\ packet'[p].sendAt = packet[p].sendAt
  BY <1>1, <1>4, <1>7 DEF Memory, Contents
<1>10. \A i \in 1..n : queue[i] = p <=> i = j
  BY <1>3, <1>4 DEF Linked, IsInjective
<1>11. \A i \in 1..n : i # j => packet'[queue[i]] = packet[queue[i]]
  BY <1>1, <1>4, <1>10 DEF Linked, Memory
<1>12. \A i \in 1..n : packet'[queue[i]].sendAt = packet[queue[i]].sendAt
  BY <1>3, <1>9, <1>11
<1>13. \A i \in 1..n : packet'[queue[i]].queued <=> i <= k + 1
  BY <1>3, <1>4, <1>5, <1>6, <1>9, <1>11
<1>14. Sorted(queue, packet')
  BY <1>2, <1>12 DEF InOrder, Sorted
<1>15. Past(queue, packet')
  <2>1. \A i \in 1..n : packet'[queue[i]].queued => packet[queue[i]].sendAt < Start + elapsed
    BY <1>2, <1>3, <1>8, <1>11 DEF InOrder, Past
  <2>2. elapsed' = elapsed
    BY <1>1
  <2> QED BY <1>2, <1>12, <2>1 DEF InOrder, Past
<1> DEFINE v == [i \in 1..(k + 1) |-> IF i <= k THEN at[i] ELSE l + 1]
<1>16. /\ Len(actions') = l + 1 /\ actions'[l + 1] = p
       /\ \A i \in 1..l : actions'[i] = actions[i]
  <2>1. actions \in Seq(Packets \cup {Other})
    BY DEF OInv, QInv
  <2> QED BY <1>1, <1>7, <2>1
<1>17. \A i \in 1..k : at[i] \in 1..l /\ v[i] = at[i] /\ actions[at[i]] = queue[i]
  BY <1>2, <1>5 DEF InOrder, Covers
<1>18. v[k + 1] = l + 1 /\ v \in [1..(k + 1) -> 1..(l + 1)]
  <2>1. ASSUME NEW i \in 1..(k + 1)
        PROVE  v[i] \in 1..(l + 1) /\ (i = k + 1 => v[i] = l + 1)
    <3>1. CASE i \in 1..k
      <4> HIDE DEF v
      <4>1. v[i] = at[i] /\ at[i] \in 1..l
        BY <1>17, <3>1
      <4>2. i # k + 1
        BY <1>5, <3>1
      <4> QED BY <1>4, <4>1, <4>2
    <3>2. CASE i \notin 1..k
      <4>1. i = k + 1 /\ ~ (i <= k)
        BY <1>5, <3>2
      <4>2. v[i] = l + 1
        BY <4>1
      <4> HIDE DEF v
      <4> QED BY <1>4, <4>2
    <3> QED BY <3>1, <3>2
  <2>2. v = [i \in 1..(k + 1) |-> v[i]] /\ k + 1 \in 1..(k + 1)
    BY <1>5
  <2> HIDE DEF v
  <2> QED BY <2>1, <2>2
<1> HIDE DEF v
<1>19. \A i \in 1..(k + 1) : actions'[v[i]] = queue[i]
  BY <1>3, <1>5, <1>6, <1>16, <1>17, <1>18
<1>20. \A i, h \in 1..(k + 1) : i < h => v[i] < v[h]
  <2> SUFFICES ASSUME NEW i \in 1..(k + 1), NEW h \in 1..(k + 1), i < h PROVE v[i] < v[h]
    OBVIOUS
  <2>1. i \in 1..k
    BY <1>5
  <2>2. CASE h = k + 1
    BY <1>4, <1>17, <1>18, <2>1, <2>2
  <2>3. CASE h \in 1..k
    BY <1>2, <1>17, <2>1, <2>3 DEF InOrder, Covers
  <2> QED BY <1>5, <2>2, <2>3
<1>21. k + 1 \in 0..n
  BY <1>3, <1>4, <1>5, <1>6
<1>22. Covers(queue, packet', actions', k + 1, v)
  BY <1>13, <1>16, <1>18, <1>19, <1>20, <1>21 DEF Covers
<1>23. InOrder(queue', packet', actions', k + 1, v)
  BY <1>1, <1>14, <1>15, <1>22 DEF InOrder
<1> QED BY <1>23 DEF Ordered


LEMMA NewInOrder ==
  ASSUME NoWrap, elapsed \in Nat, NEW q, NEW c, Owns(q, c), NEW sender \in Senders,
         ScheduleNew(sender, q, c), NEW acts, Ordered(q, c, acts)
  PROVE  Ordered(queue', packet', acts)
<1>1. PICK p \in Packets, d \in Delays : c[p] = NoPacket /\ Schedule(p, sender, d, q, c)
  BY DEF ScheduleNew
<1>2. OwnsOthers(q, c, p) /\ d \in Nat
  BY <1>1, Constants DEF Owns, OwnsOthers
<1>3. PICK k, at : InOrder(q, c, acts, k, at)
  BY DEF Ordered
<1>4. InOrder(queue', packet', acts, k, at)
  BY <1>1, <1>2, <1>3, ScheduleInOrder
<1> QED BY <1>4 DEF Ordered

LEMMA ClearInOrder ==
  ASSUME Owns(queue, packet), NEW sender \in Senders, NEW acts, Ordered(queue, packet, acts)
  PROVE  Ordered(WithoutPcb(sender), FreedPcb(sender), acts)
<1> DEFINE r == WithoutPcb(sender)
<1>1. PICK k, at : InOrder(queue, packet, acts, k, at)
  BY DEF Ordered
<1>2. packet \in Memory /\ Linked(queue, packet) /\ queue \in Seq(Packets)
  BY OwnsLinked DEF Owns
<1>3. PICK k2, at2 : InOrder(r, packet, acts, k2, at2)
  BY <1>1, <1>2, KeepInOrder DEF WithoutPcb
<1>4. r \in Seq(Packets) /\ Range(r) = Range(queue) \cap NotOf(sender)
  BY <1>2, KeepRange DEF WithoutPcb
<1> HIDE DEF r
<1>5. ASSUME NEW i \in 1..Len(r)
      PROVE  FreedPcb(sender)[r[i]] = packet[r[i]]
  <2>1. r[i] \in Packets /\ r[i] \in NotOf(sender)
    BY <1>4 DEF Range
  <2>2. packet[r[i]].pcb # sender
    BY <2>1 DEF NotOf
  <2> QED BY <2>1, <2>2 DEF FreedPcb
<1>6. InOrder(r, FreedPcb(sender), acts, k2, at2)
  BY <1>3, <1>5, SameInOrder
<1> QED BY <1>6 DEF Ordered, r

LEMMA HandleInOrder ==
  ASSUME NoWrap, OInv, NEW p \in Packets, actions # <<>>, p = Head(actions), Accepts(p),
         TxHandlePacket(p, Tail(queue))
  PROVE  Ordered(queue', packet', Tail(actions))
<1> DEFINE q == Tail(queue)
           acts == Tail(actions)
<1>0. elapsed \in Nat /\ Owns(queue, packet) /\ actions \in Seq(Packets \cup {Other})
  BY Constants DEF OInv, QInv
<1>1. queue # <<>> /\ p = Head(queue) /\ packet[p].queued
  BY DEF Accepts
<1>2. /\ q \in Seq(Packets) /\ IsInjective(q) /\ Range(q) = Range(queue) \ {p}
      /\ queue \in Seq(Packets) /\ p = queue[1] /\ 1 \in 1..Len(queue)
  <2>1. queue \in Seq(Packets) /\ IsInjective(queue)
    BY <1>0 DEF Owns
  <2>2. Head(queue) = queue[1] /\ 1 \in 1..Len(queue)
    BY <1>1, <2>1
  <2> QED BY <1>1, <2>1, <2>2, TailLinked
<1>3. PICK k, at : InOrder(queue, packet, actions, k, at)
  BY DEF OInv, Ordered
<1>4. k >= 1
  BY <1>1, <1>2, <1>3 DEF InOrder, Covers
<1>5. PICK at2 : InOrder(q, packet, acts, k - 1, at2)
  BY <1>0, <1>1, <1>2, <1>3, <1>4, TailInOrder
<1> HIDE DEF q, acts
<1>6. CASE queue' = q /\ packet' = [packet EXCEPT ![p] = NoPacket]
  <2>1. ASSUME NEW i \in 1..Len(q) PROVE packet'[q[i]] = packet[q[i]]
    <3>1. q[i] \in Range(q) /\ q[i] \in Packets
      BY <1>2 DEF Range
    <3>2. q[i] # p
      BY <1>2, <3>1
    <3> QED BY <1>0, <1>6, <3>1, <3>2 DEF Owns, Memory
  <2>2. InOrder(q, packet', acts, k - 1, at2)
    BY <1>5, <2>1, SameInOrder
  <2> QED BY <1>6, <2>2 DEF Ordered, acts
<1>7. CASE \E d \in Delays \ {0} : Schedule(p, packet[p].pcb, d, q, packet)
  <2>1. PICK d \in Delays \ {0} : Schedule(p, packet[p].pcb, d, q, packet)
    BY <1>7
  <2>2. packet[p] # NoPacket
    BY <1>0, <1>2 DEF Owns, Range
  <2>3. packet[p] \in Contents
    BY <1>0, <2>2 DEF Owns, Memory
  <2>4. packet[p].pcb \in Senders /\ d \in Nat
    BY <2>3, Fields, Constants
  <2>5. OwnsOthers(q, packet, p)
    BY <1>0, <1>2 DEF Owns, OwnsOthers
  <2>6. InOrder(queue', packet', acts, k - 1, at2)
    BY <1>0, <1>5, <2>1, <2>4, <2>5, ScheduleInOrder
  <2> QED BY <2>6 DEF Ordered, acts
<1> QED BY <1>6, <1>7 DEF TxHandlePacket, q

\* An action that does not handle the first packet goes.
LEMMA PopInOrder ==
  ASSUME OInv, actions # <<>>,
         Head(actions) = Other \/ ~Accepts(Head(actions))
  PROVE  Ordered(queue, packet, Tail(actions))
<1>1. PICK k, at : InOrder(queue, packet, actions, k, at)
  BY DEF OInv, Ordered
<1>2. queue \in Seq(Packets) /\ actions \in Seq(Packets \cup {Other})
  BY DEF OInv, QInv, Owns
<1>3. k >= 1 => Head(actions) # queue[1]
  <2> SUFFICES ASSUME k >= 1 PROVE Head(actions) # queue[1]
    OBVIOUS
  <2>1. k \in 0..Len(queue) /\ Len(queue) \in Nat
    BY <1>1, <1>2 DEF InOrder, Covers
  <2>2. 1 \in 1..Len(queue)
    BY <2>1
  <2>3. packet[queue[1]].queued
    BY <1>1, <2>1, <2>2 DEF InOrder, Covers
  <2>4. queue[1] \in Packets /\ queue # <<>> /\ Head(queue) = queue[1]
    BY <1>2, <2>2
  <2> QED BY <2>3, <2>4, Constants DEF Accepts
<1>4. \E at2 : InOrder(queue, packet, Tail(actions), k, at2)
  BY <1>1, <1>2, <1>3, TailInOrder
<1> QED BY <1>4 DEF Ordered

LEMMA ExecuteInOrder ==
  ASSUME NoWrap, OInv, Execute
  PROVE  Ordered(queue', packet', actions')
<1>0. /\ elapsed \in Nat /\ Owns(queue, packet)
      /\ actions \in Seq(Packets \cup {Other}) /\ actions # <<>>
      /\ actions' = Tail(actions)
  BY Constants DEF OInv, QInv, Execute
<1>1. CASE ExecuteOther
  <2>1. Ordered(queue, packet, actions')
    BY <1>0, <1>1, PopInOrder DEF ExecuteOther
  <2>2. CASE UNCHANGED <<queue, packet>>
    BY <2>1, <2>2
  <2>3. CASE \E sender \in Senders : ScheduleNew(sender, queue, packet)
    BY <1>0, <2>1, <2>3, NewInOrder
  <2>4. CASE \E sender \in Senders : ClearPcb(sender)
    BY <1>0, <2>1, <2>4, ClearInOrder DEF ClearPcb
  <2>5. CASE \E sender \in Senders : Restart(sender)
    <3>1. PICK sender \in Senders : Restart(sender)
      BY <2>5
    <3>2. Ordered(WithoutPcb(sender), FreedPcb(sender), actions') /\ Owns(WithoutPcb(sender), FreedPcb(sender))
      BY <1>0, <2>1, ClearInOrder, ClearOwns
    <3> QED BY <1>0, <3>1, <3>2, NewInOrder DEF Restart
  <2> QED BY <1>1, <2>2, <2>3, <2>4, <2>5 DEF ExecuteOther
<1>2. CASE ExecuteTxHandle
  <2> DEFINE p == Head(actions)
  <2>1. p \in Packets
    BY <1>0, <1>2 DEF ExecuteTxHandle
  <2>2. CASE Accepts(p)
    BY <1>0, <1>2, <2>1, <2>2, HandleInOrder DEF ExecuteTxHandle
  <2>3. CASE ~Accepts(p)
    BY <1>0, <1>2, <2>3, PopInOrder DEF ExecuteTxHandle
  <2> QED BY <2>2, <2>3
<1> QED BY <1>1, <1>2 DEF Execute

\* When time does not go back what is in order stays so.
LEMMA LaterInOrder ==
  ASSUME QInv, QInv', elapsed' >= elapsed, Ordered(queue', packet', actions')
  PROVE  Ordered(queue, packet, actions)'
<1>1. PICK k, at : InOrder(queue', packet', actions', k, at)
  BY DEF Ordered
<1>2. elapsed \in Nat /\ elapsed' \in Nat /\ Start \in Nat
  BY Constants DEF QInv
<1>3. /\ Linked(queue', packet') /\ packet' \in Memory
      /\ Past(queue', packet') /\ Sorted(queue', packet')
      /\ Covers(queue', packet', actions', k, at)
  BY <1>1, OwnsLinked DEF QInv, Owns, InOrder
<1>4. ASSUME NEW i \in 1..Len(queue')
      PROVE  /\ Start <= packet'[queue'[i]].sendAt /\ packet'[queue'[i]].sendAt < Start + Horizon
             /\ packet'[queue'[i]].queued => packet'[queue'[i]].sendAt < Start + elapsed'
  <2>1. packet'[queue'[i]].sendAt \in Nat
    BY <1>3, LinkedContents
  <2>2. /\ Start <= packet'[queue'[i]].sendAt /\ packet'[queue'[i]].sendAt < Start + Horizon
        /\ packet'[queue'[i]].queued => packet'[queue'[i]].sendAt < Start + elapsed
    BY <1>3 DEF Past
  <2> QED BY <1>2, <2>1, <2>2
<1>5. Past(queue, packet)'
  BY <1>4 DEF Past
<1>6. InOrder(queue, packet, actions, k, at)'
  BY <1>3, <1>5 DEF InOrder, Sorted, Covers
<1> QED BY <1>6 DEF Ordered

\* An action that is posted comes after the others.
LEMMA AppendInOrder ==
  ASSUME NEW T, NEW acts \in Seq(T), NEW x \in T, NEW q, NEW c, Ordered(q, c, acts)
  PROVE  Ordered(q, c, Append(acts, x))
<1>1. PICK k, at : InOrder(q, c, acts, k, at)
  BY DEF Ordered
<1> DEFINE longer == Append(acts, x)
<1>2. Len(longer) = Len(acts) + 1 /\ Len(acts) \in Nat /\ \A i \in 1..Len(acts) : longer[i] = acts[i]
  OBVIOUS
<1> HIDE DEF longer
<1>3. /\ k \in 0..Len(q) /\ at \in [1..k -> 1..Len(acts)]
      /\ \A i \in 1..k : acts[at[i]] = q[i]
  BY <1>1 DEF InOrder, Covers
<1>4. at \in [1..k -> 1..Len(longer)] /\ \A i \in 1..k : longer[at[i]] = q[i]
  <2>1. 1..Len(acts) \subseteq 1..Len(longer)
    BY <1>2
  <2>2. \A i \in 1..k : at[i] \in 1..Len(acts)
    BY <1>3
  <2>3. at \in [1..k -> 1..Len(longer)]
    BY <1>3, <2>1, <2>2
  <2>4. \A i \in 1..k : longer[at[i]] = q[i]
    BY <1>2, <1>3, <2>2
  <2> QED BY <2>3, <2>4
<1>5. Covers(q, c, longer, k, at)
  BY <1>1, <1>3, <1>4 DEF InOrder, Covers
<1> QED BY <1>1, <1>5 DEF InOrder, Ordered, longer

LEMMA OStep == NoWrap /\ OInv /\ [Next]_vars => OInv'
<1> SUFFICES ASSUME NoWrap, OInv, [Next]_vars PROVE OInv'
  OBVIOUS
<1>1. QInv /\ QInv' /\ elapsed \in Nat
  BY QStep, Constants DEF OInv, QInv
<1> SUFFICES ASSUME TRUE PROVE elapsed' >= elapsed /\ Ordered(queue', packet', actions')
  BY <1>1, LaterInOrder DEF OInv
<1>2. CASE Tick
  <2>1. elapsed' >= elapsed
    BY <1>1, <1>2 DEF Tick
  <2> QED BY <1>2, <2>1 DEF Tick, OInv
<1>3. CASE SchedulerRun
  <2>1. elapsed' >= elapsed
    BY <1>1, <1>3 DEF SchedulerRun
  <2> QED BY <1>3, <2>1, SchedulerInOrder
<1>4. CASE Receive
  <2>1. elapsed' >= elapsed
    BY <1>1, <1>4 DEF Receive
  <2>2. actions \in Seq(Packets \cup {Other}) /\ Other \in Packets \cup {Other}
    BY <1>1 DEF QInv
  <2>3. Ordered(queue, packet, Append(actions, Other))
    BY <2>2, AppendInOrder DEF OInv
  <2> QED BY <1>4, <2>1, <2>3 DEF Receive
<1>5. CASE Execute
  <2>1. elapsed' >= elapsed
    BY <1>1, <1>5 DEF Execute
  <2> QED BY <1>5, <2>1, ExecuteInOrder
<1>6. CASE UNCHANGED vars
  <2>1. elapsed' >= elapsed
    BY <1>1, <1>6 DEF vars
  <2> QED BY <1>6, <2>1 DEF vars, OInv
<1> QED BY <1>2, <1>3, <1>4, <1>5, <1>6 DEF Next

LEMMA OInvHandles == OInv => PacketsAreHandled
<1> SUFFICES ASSUME OInv PROVE QueuedIsHandled
  BY QInvIs DEF OInv, PacketsAreHandled
<1>1. PICK k, at : InOrder(queue, packet, actions, k, at)
  BY DEF OInv, Ordered
<1>2. /\ Len(queue) \in Nat /\ DOMAIN queue = 1..Len(queue)
      /\ Len(actions) \in Nat /\ DOMAIN actions = 1..Len(actions)
  BY DEF OInv, QInv, Owns
<1>3. k \in 0..Len(queue) /\ \A i \in 1..Len(queue) : packet[queue[i]].queued <=> i <= k
  BY <1>1 DEF InOrder, Covers
<1>4. QueuedAt = 1..k
  BY <1>2, <1>3 DEF QueuedAt
<1>5. at \in [QueuedAt -> DOMAIN actions]
  BY <1>1, <1>2, <1>4 DEF InOrder, Covers
<1>6. \A i \in QueuedAt : actions[at[i]] = queue[i]
  BY <1>1, <1>4 DEF InOrder, Covers
<1>7. \A i, j \in QueuedAt : i < j => at[i] < at[j]
  BY <1>1, <1>4 DEF InOrder, Covers
<1> QED BY <1>5, <1>6, <1>7 DEF QueuedIsHandled

\* As long as the clock does not wrap around: the packets marked as queued have
\* their actions posted, in the order of the queue.
THEOREM PacketsHandled == NoWrap => (Spec => []PacketsAreHandled)
<1> SUFFICES ASSUME NoWrap PROVE Spec => []PacketsAreHandled
  OBVIOUS
<1>1. OInv /\ [Next]_vars => OInv'
  BY OStep
<1> QED BY <1>1, OInit, OInvHandles, PTL DEF Spec

\* An action that does something handles the first packet, and that one is due.
LEMMA HandlesDue == NoWrap /\ OInv /\ [Next]_vars => SendsWhatIsDue
<1> SUFFICES ASSUME NoWrap, OInv, [Next]_vars, HandlesAccepted PROVE IsDue(Head(queue))
  BY DEF SendsWhatIsDue
<1> DEFINE p == Head(queue)
<1>1. /\ actions # <<>> /\ Head(actions) \in Packets /\ queue # <<>>
      /\ actions' = Tail(actions) /\ (queue' # queue \/ packet' # packet)
  BY DEF HandlesAccepted
<1>2. /\ actions \in Seq(Packets \cup {Other}) /\ Owns(queue, packet)
      /\ elapsed \in 0..Horizon
  BY DEF OInv, QInv
<1>3. Len(Tail(actions)) = Len(actions) - 1 /\ Len(actions) \in Nat
  BY <1>1, <1>2
<1>4. ~ SchedulerRun
  <2> SUFFICES ASSUME NEW x \in FirstUnqueued, actions' = Append(actions, x) PROVE FALSE
    BY DEF SchedulerRun
  <2>1. Len(Append(actions, x)) = Len(actions) + 1
    BY <1>2
  <2> QED BY <1>1, <1>3, <2>1
<1>5. Execute
  BY <1>1, <1>4 DEF Next, Tick, Receive, vars
<1>6. Head(actions) # Other
  BY <1>1, Constants
<1>7. Accepts(Head(actions))
  BY <1>1, <1>5, <1>6 DEF Execute, ExecuteOther, ExecuteTxHandle
<1>8. p = queue[1] /\ 1 \in 1..Len(queue) /\ packet[p].queued
  BY <1>1, <1>2, <1>7 DEF Accepts, Owns
<1>9. PICK k, at : InOrder(queue, packet, actions, k, at)
  BY DEF OInv, Ordered
<1>10. packet[p].sendAt \in Nat
  BY <1>2, <1>8, LinkedContents, OwnsLinked DEF Owns
<1>11. /\ Start <= packet[p].sendAt /\ packet[p].sendAt < Start + Horizon
       /\ packet[p].sendAt < Start + elapsed
  BY <1>8, <1>9 DEF InOrder, Past
<1> QED BY <1>2, <1>10, <1>11, DueIsPast

\* As long as the clock does not wrap around: nothing is sent before it is due,
\* not even by an action that was posted for an earlier packet at the address.
THEOREM NothingEarly == NoWrap => (Spec => NothingIsSentEarly)
<1> SUFFICES ASSUME NoWrap PROVE Spec => NothingIsSentEarly
  OBVIOUS
<1>1. OInv /\ [Next]_vars => OInv'
  BY OStep
<1>2. OInv /\ [Next]_vars => SendsWhatIsDue
  BY HandlesDue
<1> QED BY <1>1, <1>2, OInit, PTL DEF Spec, NothingIsSentEarly

-----------------------------------------------------------------------------
(* THE PCBS.                                                               *)

\* What Put leaves in the queue of a pcb.
LEMMA PutIs ==
  ASSUME NEW qs \in Seq(PacketType), NEW new \in PacketType, NEW k \in Nat
  PROVE  /\ Put(qs, new, k) \in Seq(PacketType)
         /\ Range(Put(qs, new, k)) = Range(qs) \cup {new}
         /\ Len(Put(qs, new, k)) = Len(qs) + 1
<1> DEFINE at == IF k < Len(qs) THEN k ELSE Len(qs)
           r == InsertAt(qs, at + 1, new)
           n == Len(qs)
<1>1. n \in Nat /\ DOMAIN qs = 1..n /\ at \in 0..n
  OBVIOUS
<1>2. Put(qs, new, k) = r
  BY <1>1 DEF Put
<1> HIDE DEF at, r
<1>3. /\ r \in Seq(PacketType) /\ Len(r) = n + 1 /\ r[at + 1] = new
      /\ \A i \in 1..at : r[i] = qs[i]
      /\ \A i \in (at + 2)..(n + 1) : r[i] = qs[i - 1]
  <2> HIDE DEF PacketType
  <2>1. at \in 0..Len(qs) /\ r = InsertAt(qs, at + 1, new)
    BY <1>1 DEF r
  <2>2. r \in Seq(PacketType) /\ IsInserted(qs, at, new, r)
    BY <2>1, Inserted
  <2> QED BY <2>2 DEF IsInserted
<1>4. DOMAIN r = 1..(n + 1)
  BY <1>1, <1>3
<1>5. ASSUME NEW x \in Range(r) PROVE x \in Range(qs) \cup {new}
  <2>1. PICK i \in 1..(n + 1) : x = r[i]
    BY <1>4 DEF Range
  <2>2. CASE i <= at
    <3>1. i \in 1..at /\ i \in 1..n
      BY <1>1, <2>1, <2>2
    <3>2. x = qs[i] /\ i \in DOMAIN qs
      BY <1>1, <1>3, <2>1, <3>1
    <3> QED BY <3>2 DEF Range
  <2>3. CASE i = at + 1
    BY <1>3, <2>1, <2>3
  <2>4. CASE i > at + 1
    <3>1. i \in (at + 2)..(n + 1) /\ i - 1 \in 1..n
      BY <1>1, <2>1, <2>4
    <3>2. x = qs[i - 1] /\ i - 1 \in DOMAIN qs
      BY <1>1, <1>3, <2>1, <3>1
    <3> QED BY <3>2 DEF Range
  <2> QED BY <1>1, <2>1, <2>2, <2>3, <2>4
<1>6. ASSUME NEW x \in Range(qs) PROVE x \in Range(r)
  <2>1. PICK i \in 1..n : x = qs[i]
    BY <1>1 DEF Range
  <2>2. CASE i <= at
    <3>1. i \in 1..at /\ i \in 1..(n + 1)
      BY <1>1, <2>1, <2>2
    <3>2. x = r[i] /\ i \in DOMAIN r
      BY <1>3, <1>4, <2>1, <3>1
    <3> QED BY <3>2 DEF Range
  <2>3. CASE i > at
    <3>1. i + 1 \in (at + 2)..(n + 1) /\ i + 1 \in 1..(n + 1) /\ (i + 1) - 1 = i
      BY <1>1, <2>1, <2>3
    <3>2. x = r[i + 1] /\ i + 1 \in DOMAIN r
      BY <1>3, <1>4, <2>1, <3>1
    <3> QED BY <3>2 DEF Range
  <2> QED BY <1>1, <2>1, <2>2, <2>3
<1>7. new \in Range(r)
  BY <1>1, <1>3, <1>4 DEF Range
<1> QED BY <1>2, <1>3, <1>5, <1>6, <1>7, Zenon

\* What a packet of each kind is.
LEMMA PacketFields ==
  ASSUME NEW q \in PacketType
  PROVE  /\ q.asks \subseteq Names /\ q.hosts \subseteq Services
         /\ q.answers \subseteq Names /\ q.servers \subseteq Names
         /\ q.distributed \in BOOLEAN
BY DEF PacketType

LEMMA PcbFields ==
  ASSUME NEW P \in PcbType
  PROVE  /\ P.state \in States /\ P.ready \in BOOLEAN
         /\ P.probing \subseteq Services /\ P.probeIp \in BOOLEAN
         /\ P.running \in BOOLEAN /\ P.queue \in Seq(PacketType)
<1> HIDE DEF PacketType, States
<1> QED BY DEF PcbType

\* The packets of a list, each changed in the same way.
LEMMA EachIs ==
  ASSUME NEW qs \in Seq(PacketType), NEW f \in [PacketType -> PacketType], NEW r,
         r = [i \in DOMAIN qs |-> f[qs[i]]]
  PROVE  /\ r \in Seq(PacketType) /\ Len(r) = Len(qs)
         /\ Range(r) = {f[q] : q \in Range(qs)}
<1> DEFINE n == Len(qs)
<1>1. n \in Nat /\ DOMAIN qs = 1..n /\ \A i \in 1..n : qs[i] \in PacketType
  OBVIOUS
<1>2. r \in [1..n -> PacketType] /\ DOMAIN r = 1..n
  BY <1>1
<1>3. r \in Seq(PacketType) /\ Len(r) = n
  BY <1>1, <1>2, SeqDef
<1>4. Range(r) = {f[q] : q \in Range(qs)}
  BY <1>1, <1>2 DEF Range
<1> QED BY <1>3, <1>4

-----------------------------------------------------------------------------
(* What is true of a pcb.                                                  *)

\* What the pcb probes for.
Aims(P) == P.probing \cup HostIf(P.probeIp)

\* A pcb that is not in use, or set aside as a duplicate, has nothing to do.
Unused(P) ==
  /\ P.state \in {"OFF", "DUP"} /\ ~P.ready /\ P.probing = {} /\ ~P.probeIp
  /\ ~P.running /\ P.queue = <<>>

IsProbe(q, P) ==
  /\ Aims(P) # {} /\ q.asks = Aims(P) /\ q.servers = Aims(P) /\ q.answers = {}
  /\ ~q.distributed
  /\ P.probeIp \/ q.hosts = {}

IsAnswer(q) ==
  /\ q.asks = {} /\ q.hosts = {} /\ q.servers \subseteq {Host}
  /\ q.distributed \/ q.answers # {} \/ q.servers = {Host}

Probes == {"PROBE_1", "PROBE_2", "PROBE_3"}

\* A pcb that probes has its probe and nothing else; the others have answers,
\* and one that announces has an announcement.
Form(P) ==
  /\ P \in PcbType
  /\ ~P.ready => Unused(P)
  /\ P.ready => P.state \notin {"OFF", "DUP"}
  /\ P.running <=> P.state \in Probes
  /\ P.running => \E q \in PacketType : P.queue = <<q>> /\ IsProbe(q, P)
  /\ ~P.running => Aims(P) = {} /\ \A q \in Range(P.queue) : IsAnswer(q)
  /\ Announcing(P) => \E q \in Range(P.queue) : ~q.distributed

\* The services of a pcb and its packets are among ss.
Within(P, ss) ==
  /\ P.probing \subseteq ss
  /\ \A q \in Range(P.queue) : q.asks \cup q.answers \cup q.servers \subseteq ss \cup {Host}

\* Without a host name, nothing is probed for.
Sound(P, ss, named) ==
  Form(P) /\ Within(P, ss) /\ (~named => P.state \in {"OFF", "RUNNING"})

\* R is what a sound pcb P becomes: sound, and as ready as before.
Kept(R, P, ss, named) ==
  Sound(R, ss, named) /\ R.ready = P.ready /\ (~P.ready => R.state = P.state)

-----------------------------------------------------------------------------
(* One pcb: what its operations keep.                                      *)

LEMMA Seq1 ==
  ASSUME NEW q \in PacketType
  PROVE  /\ <<q>> \in Seq(PacketType) /\ Range(<<q>>) = {q} /\ <<q>> # <<>>
         /\ Len(<<q>>) = 1 /\ Head(<<q>>) = q /\ Tail(<<q>>) = <<>> /\ <<q>>[1] = q
BY DEF Range

\* A list without elements.
LEMMA NoElements ==
  ASSUME NEW S, NEW q \in Seq(S), Range(q) = {}
  PROVE  q = <<>>
<1>1. Len(q) \in Nat /\ DOMAIN q = 1..Len(q)
  OBVIOUS
<1>2. ~(1 \in DOMAIN q)
  BY DEF Range
<1>3. Len(q) = 0
  BY <1>1, <1>2
<1> QED BY <1>3

LEMMA Seq0 == <<>> \in Seq(PacketType) /\ Range(<<>>) = {}
BY DEF Range

LEMMA NewPackets ==
  ASSUME NEW ss \in SUBSET Services, NEW ip \in BOOLEAN
  PROVE  ProbePacket(ss, ip) \in PacketType /\ AnnouncePacket(ss, ip) \in PacketType
BY DEF ProbePacket, AnnouncePacket, Packet, PacketType, HostIf, Names

\* R is P after it has started to probe for the services in all, and the host.
Starts(R, P, all, i) ==
  /\ R \in PcbType /\ R.state = "PROBE_1" /\ R.running /\ R.ready = P.ready
  /\ R.probing = all /\ R.probeIp = i /\ R.queue = <<ProbePacket(all, i)>>

\* The probing of a pcb starts, or starts again.
LEMMA InitProbeStarts ==
  ASSUME NEW P \in PcbType, NEW ss \in SUBSET Services, NEW ip \in BOOLEAN, hostname'
  PROVE  LET all == IF Probing(P) THEN ss \cup P.probing ELSE ss
         IN  Starts(InitProbe(P, ss, ip), P, all, P.probeIp \/ ip)
<1> DEFINE all == IF Probing(P) THEN ss \cup P.probing ELSE ss
           i == P.probeIp \/ ip
<1>1. /\ P.state \in States /\ P.ready \in BOOLEAN /\ P.probing \subseteq Services
      /\ P.probeIp \in BOOLEAN /\ P.queue \in Seq(PacketType)
  BY PcbFields
<1>2. all \in SUBSET Services /\ i \in BOOLEAN
  BY <1>1
<1>3. ProbePacket(all, i) \in PacketType
  BY <1>2, NewPackets
<1>4. <<ProbePacket(all, i)>> \in Seq(PacketType)
  BY <1>3, Seq1
<1>5. "PROBE_1" \in States
  BY DEF States, After, Steps
<1> DEFINE q == ProbePacket(all, i)
<1>6. InitProbe(P, ss, ip) =
        [P EXCEPT !.state = "PROBE_1", !.probing = all, !.probeIp = i,
                  !.running = TRUE, !.queue = <<q>>]
  BY DEF InitProbe, ProbeNewServices
<1> HIDE DEF all, i, q, PacketType, States
<1>7. Starts(InitProbe(P, ss, ip), P, all, i)
  BY <1>2, <1>4, <1>5, <1>6 DEF PcbType, q, Starts
<1> QED BY <1>7 DEF all, i

LEMMA InitProbeWaits ==
  ASSUME NEW P \in PcbType, NEW ss, NEW ip, ~hostname'
  PROVE  LET R == InitProbe(P, ss, ip)
         IN  /\ R \in PcbType /\ R.state = "RUNNING" /\ R.queue = <<>>
             /\ R.ready = P.ready /\ R.probing = P.probing /\ R.probeIp = P.probeIp
             /\ R.running = P.running
<1>1. "RUNNING" \in States /\ <<>> \in Seq(PacketType)
  BY DEF States
<1> QED BY <1>1 DEF InitProbe, PcbType

\* A pcb that starts to probe is sound, with its new probe.
LEMMA InitProbeSound ==
  ASSUME NEW P \in PcbType, P.ready, NEW ss \in SUBSET Services, NEW ip \in BOOLEAN,
         NEW svc \in SUBSET Services, ss \subseteq svc, P.probing \subseteq svc,
         hostname' \in BOOLEAN,
         hostname' => ss \cup HostIf(ip) # {},
         ~hostname' => Aims(P) = {} /\ ~P.running
  PROVE  Sound(InitProbe(P, ss, ip), svc, hostname') /\ InitProbe(P, ss, ip).ready
<1> DEFINE R == InitProbe(P, ss, ip)
<1>1. CASE hostname'
  <2> DEFINE all == IF Probing(P) THEN ss \cup P.probing ELSE ss
             i == P.probeIp \/ ip
             q == ProbePacket(all, i)
  <2>1. /\ R \in PcbType /\ R.state = "PROBE_1" /\ R.running /\ R.ready
        /\ R.probing = all /\ R.probeIp = i /\ R.queue = <<q>>
    <3>1. Starts(R, P, all, i)
      BY <1>1, InitProbeStarts
    <3> QED BY <3>1 DEF Starts
  <2>2. all \in SUBSET Services /\ all \subseteq svc /\ i \in BOOLEAN
    BY PcbFields
  <2>3. q \in PacketType
    BY <2>2, NewPackets
  <2>4. ss \subseteq all /\ (ip => i)
    OBVIOUS
  <2> HIDE DEF all, i, R
  <2>5. all \cup HostIf(i) # {}
    BY <1>1, <2>4 DEF HostIf
  <2>6. /\ q.asks = all \cup HostIf(i) /\ q.servers = all \cup HostIf(i) /\ q.answers = {}
        /\ q.distributed = FALSE /\ q.hosts = IF i THEN all ELSE {}
    BY DEF ProbePacket, Packet
  <2> HIDE DEF q
  <2>7. IsProbe(q, R)
    BY <2>1, <2>2, <2>5, <2>6 DEF IsProbe, Aims
  <2>8. Range(R.queue) = {q}
    BY <2>1, <2>3, Seq1
  <2>9. Form(R)
    BY <2>1, <2>3, <2>7 DEF Form, Announcing, Probes
  <2>10. Within(R, svc)
    BY <2>1, <2>2, <2>6, <2>8 DEF Within, HostIf
  <2> QED BY <1>1, <2>1, <2>9, <2>10 DEF Sound, R
<1>2. CASE ~hostname'
  <2>1. /\ R \in PcbType /\ R.state = "RUNNING" /\ R.queue = <<>> /\ R.ready
        /\ R.probing = P.probing /\ R.probeIp = P.probeIp /\ R.running = P.running
    BY <1>2, InitProbeWaits
  <2>2. Range(R.queue) = {}
    BY <2>1, Seq0
  <2> HIDE DEF R
  <2>3. Form(R)
    BY <1>2, <2>1, <2>2 DEF Form, Announcing, Probes, Aims
  <2>4. Within(R, svc)
    BY <2>1, <2>2 DEF Within
  <2> QED BY <2>1, <2>3, <2>4 DEF Sound, R
<1> QED BY <1>1, <1>2

\* A pcb that is not in use is sound.
LEMMA UnusedSound ==
  ASSUME NEW P \in PcbType, Unused(P), NEW svc, NEW named \in BOOLEAN,
         named \/ P.state = "OFF"
  PROVE  Sound(P, svc, named)
<1>1. /\ P.state \in {"OFF", "DUP"} /\ ~P.ready /\ P.probing = {} /\ ~P.probeIp /\ ~P.running
      /\ Range(P.queue) = {}
  BY Seq0 DEF Unused
<1>2. Form(P)
  BY <1>1 DEF Form, Aims, HostIf, Probes, Announcing
<1>3. Within(P, svc)
  BY <1>1 DEF Within
<1> QED BY <1>1, <1>2, <1>3 DEF Sound

\* More services may be there than the pcb and its packets refer to.
LEMMA SoundOfMore ==
  ASSUME NEW P, NEW svc, NEW more, svc \subseteq more, NEW named, Sound(P, svc, named)
  PROVE  Sound(P, more, named)
BY DEF Sound, Within

\* The first packet of a list replaced.
LEMMA HeadReplaced ==
  ASSUME NEW qs \in Seq(PacketType), qs # <<>>, NEW new \in PacketType
  PROVE  /\ [qs EXCEPT ![1] = new] \in Seq(PacketType)
         /\ Range([qs EXCEPT ![1] = new]) \subseteq Range(qs) \cup {new}
         /\ new \in Range([qs EXCEPT ![1] = new])
         /\ \A q \in Range(qs) : q = qs[1] \/ q \in Range([qs EXCEPT ![1] = new])
<1> DEFINE r == [qs EXCEPT ![1] = new]
           n == Len(qs)
<1>1. n \in Nat /\ DOMAIN qs = 1..n /\ 1 \in 1..n /\ \A i \in 1..n : qs[i] \in PacketType
  OBVIOUS
<1>2. DOMAIN r = 1..n /\ r[1] = new /\ \A i \in 1..n : i # 1 => r[i] = qs[i]
  BY <1>1
<1>3. r \in Seq(PacketType)
  OBVIOUS
<1> HIDE DEF r
<1>4. Range(r) \subseteq Range(qs) \cup {new}
  BY <1>1, <1>2 DEF Range
<1>5. new \in Range(r)
  BY <1>1, <1>2 DEF Range
<1>6. \A q \in Range(qs) : q = qs[1] \/ q \in Range(r)
  BY <1>1, <1>2 DEF Range
<1> QED BY <1>3, <1>4, <1>5, <1>6 DEF r

\* What a sound pcb is that does not probe: its packets are answers.
LEMMA AnswersSound ==
  ASSUME NEW P, P \in PcbType, P.ready, P.state \notin Probes \cup {"OFF", "DUP"}, ~P.running,
         Aims(P) = {}, NEW svc,
         \A q \in Range(P.queue) : IsAnswer(q) /\ q.answers \subseteq svc \cup {Host},
         Announcing(P) => \E q \in Range(P.queue) : ~q.distributed,
         NEW named, named \/ P.state = "RUNNING"
  PROVE  Sound(P, svc, named)
<1>1. P.probing = {}
  BY DEF Aims
<1>2. Form(P)
  BY DEF Form
<1>3. Within(P, svc)
  BY <1>1 DEF Within, IsAnswer
<1> QED BY <1>2, <1>3 DEF Sound

\* _mdns_announce_pcb probes again, adds to the announcement, or starts one.
LEMMA AnnouncePcbSound ==
  ASSUME NEW P, NEW svc \in SUBSET Services, hostname' \in BOOLEAN, Sound(P, svc, hostname'),
         NEW ss \in SUBSET svc, NEW ip \in BOOLEAN, ss \cup HostIf(ip) # {}, NEW k \in Nat
  PROVE  Kept(AnnouncePcb(P, ss, ip, k), P, svc, hostname')
<1> DEFINE R == AnnouncePcb(P, ss, ip, k)
<1>0. P \in PcbType /\ Form(P) /\ Within(P, svc) /\ ss \in SUBSET Services
  BY DEF Sound, Form
<1>t. /\ P.state \in States /\ P.ready \in BOOLEAN /\ P.probing \subseteq Services
      /\ P.probeIp \in BOOLEAN /\ P.running \in BOOLEAN /\ P.queue \in Seq(PacketType)
  BY <1>0, PcbFields
<1>1. CASE ~P.ready
  BY <1>1 DEF AnnouncePcb, Kept
<1>2. CASE P.ready /\ Probing(P)
  <2>1. hostname'
    BY <1>2 DEF Sound, Probing
  <2>2. R = InitProbe(P, ss, ip)
    BY <1>2 DEF AnnouncePcb
  <2>3. P.probing \subseteq svc
    BY <1>0 DEF Within
  <2> QED BY <1>0, <1>2, <2>1, <2>2, <2>3, InitProbeSound DEF Kept
<1>3. CASE P.ready /\ ~Probing(P) /\ Announcing(P) /\ P.queue # <<>>
  <2> DEFINE q == P.queue[1]
             new == [q EXCEPT !.answers = @ \cup ss \cup HostIf(ip)]
             qs == [P.queue EXCEPT ![1] = new]
  <2>1. q \in PacketType /\ q \in Range(P.queue)
    BY <1>3, <1>t DEF Range
  <2>2. ~P.running /\ Aims(P) = {} /\ IsAnswer(q)
    BY <1>0, <1>3, <2>1 DEF Form, Announcing, Probes
  <2>3. /\ new \in PacketType /\ IsAnswer(new) /\ new.distributed = q.distributed
        /\ new.answers \subseteq svc \cup {Host}
    <3>1. q.answers \subseteq svc \cup {Host}
      BY <1>0, <2>1 DEF Within
    <3>2. svc \cup {Host} \subseteq Names /\ HostIf(ip) \subseteq {Host}
      BY DEF Names, HostIf
    <3> HIDE DEF q
    <3>3. /\ new.asks = q.asks /\ new.hosts = q.hosts /\ new.servers = q.servers
          /\ new.distributed = q.distributed /\ new.answers = q.answers \cup ss \cup HostIf(ip)
          /\ new \in PacketType
      BY <2>1, <3>1, <3>2 DEF PacketType
    <3> HIDE DEF new
    <3> QED BY <2>2, <3>1, <3>2, <3>3 DEF IsAnswer
  <2> HIDE DEF new
  <2>4. /\ qs \in Seq(PacketType) /\ Range(qs) \subseteq Range(P.queue) \cup {new}
        /\ new \in Range(qs) /\ \A x \in Range(P.queue) : x = q \/ x \in Range(qs)
    BY <1>3, <1>t, <2>3, HeadReplaced
  <2>5. R = [P EXCEPT !.queue = qs, !.state = "ANNOUNCE_1"]
    BY <1>3 DEF AnnouncePcb, new
  <2>6. "ANNOUNCE_1" \in States
    BY DEF States, After, Steps
  <2> HIDE DEF qs, R, q
  <2>7. /\ R \in PcbType /\ R.state = "ANNOUNCE_1" /\ R.ready /\ R.queue = qs
        /\ R.probing = P.probing /\ R.probeIp = P.probeIp /\ R.running = P.running
    BY <1>0, <1>3, <2>4, <2>5, <2>6 DEF PcbType
  <2>8. Aims(R) = {} /\ ~R.running /\ R.state \notin Probes \cup {"OFF", "DUP"}
    BY <2>2, <2>7 DEF Aims, Probes
  <2>9. \A x \in Range(R.queue) : IsAnswer(x) /\ x.answers \subseteq svc \cup {Host}
    BY <1>0, <2>2, <2>3, <2>4, <2>7 DEF Form, Within
  <2>10. \E x \in Range(R.queue) : ~x.distributed
    BY <1>0, <1>3, <2>3, <2>4, <2>7 DEF Form
  <2>11. hostname'
    BY <1>3 DEF Sound, Announcing
  <2> QED BY <1>3, <2>7, <2>8, <2>9, <2>10, <2>11, AnswersSound DEF R, Kept
<1>4. CASE P.ready /\ P.state = "RUNNING" /\ hostname'
  <2> DEFINE new == AnnouncePacket(ss, ip)
             qs == Put(P.queue, new, k)
  <2>1. R = [P EXCEPT !.state = "ANNOUNCE_1", !.queue = qs]
    BY <1>4 DEF AnnouncePcb, Probing, Announcing
  <2>2. new \in PacketType
    BY <1>0, NewPackets
  <2>3. IsAnswer(new) /\ ~new.distributed /\ new.answers \subseteq svc \cup {Host}
    BY DEF AnnouncePacket, Packet, IsAnswer, HostIf
  <2> HIDE DEF new
  <2>4. qs \in Seq(PacketType) /\ Range(qs) = Range(P.queue) \cup {new}
    BY <1>t, <2>2, PutIs
  <2>5. ~P.running /\ Aims(P) = {} /\ \A x \in Range(P.queue) : IsAnswer(x)
    BY <1>0, <1>4 DEF Form, Probes
  <2>6. "ANNOUNCE_1" \in States
    BY DEF States, After, Steps
  <2> HIDE DEF qs, R
  <2>7. /\ R \in PcbType /\ R.state = "ANNOUNCE_1" /\ R.ready /\ R.queue = qs
        /\ R.probing = P.probing /\ R.probeIp = P.probeIp /\ R.running = P.running
    BY <1>0, <1>4, <2>1, <2>4, <2>6 DEF PcbType
  <2>8. Aims(R) = {} /\ ~R.running /\ R.state \notin Probes \cup {"OFF", "DUP"}
    BY <2>5, <2>7 DEF Aims, Probes
  <2>9. \A x \in Range(R.queue) : IsAnswer(x) /\ x.answers \subseteq svc \cup {Host}
    BY <1>0, <2>3, <2>4, <2>5, <2>7 DEF Within
  <2>10. \E x \in Range(R.queue) : ~x.distributed
    BY <2>3, <2>4, <2>7
  <2> QED BY <1>4, <2>7, <2>8, <2>9, <2>10, AnswersSound DEF R, Kept
<1>5. CASE /\ P.ready /\ ~Probing(P) /\ ~(Announcing(P) /\ P.queue # <<>>)
           /\ ~(P.state = "RUNNING" /\ hostname')
  <2>1. R = P
    BY <1>5, Zenon DEF AnnouncePcb
  <2> QED BY <2>1 DEF Kept
<1> QED BY <1>t, <1>1, <1>2, <1>3, <1>4, <1>5

\* r is q without what is removed.
IsWithout(r, q, ss, gone) ==
  /\ r \in PacketType
  /\ r.asks = q.asks \ gone /\ r.hosts = q.hosts
  /\ r.answers = q.answers \ ss /\ r.servers = q.servers \ ss
  /\ r.distributed = q.distributed

LEMMA WithoutIs ==
  ASSUME NEW q \in PacketType, NEW ss, NEW gone
  PROVE  IsWithout(Without(q, ss, gone), q, ss, gone)
BY DEF Without, PacketType, IsWithout

\* The packets of the queue without the services, those that are left empty freed.
Cleared(qs, ss, gone) == WithoutEmpty([i \in DOMAIN qs |-> Without(qs[i], ss, gone)])

LEMMA ClearedIs ==
  ASSUME NEW qs \in Seq(PacketType), NEW ss, NEW gone
  PROVE  /\ Cleared(qs, ss, gone) \in Seq(PacketType)
         /\ \A x : x \in Range(Cleared(qs, ss, gone)) <=>
              ~IsEmptyPacket(x) /\ \E q \in Range(qs) : x = Without(q, ss, gone)
<1> DEFINE f == [q \in PacketType |-> Without(q, ss, gone)]
           r == [i \in DOMAIN qs |-> f[qs[i]]]
           left == {x \in Range(r) : ~IsEmptyPacket(x)}
<1>1. f \in [PacketType -> PacketType]
  BY WithoutIs DEF IsWithout
<1>2. \A i \in DOMAIN qs : qs[i] \in PacketType
  OBVIOUS
<1>3. Range(qs) \subseteq PacketType
  BY <1>2 DEF Range
<1>4. r = [i \in DOMAIN qs |-> Without(qs[i], ss, gone)]
  BY <1>2
<1>5. \A q \in Range(qs) : f[q] = Without(q, ss, gone)
  BY <1>3
<1> HIDE DEF f, r
<1>6. r \in Seq(PacketType) /\ Range(r) = {f[q] : q \in Range(qs)}
  BY <1>1, EachIs DEF r
<1>7. Cleared(qs, ss, gone) = Keep(r, left)
  BY <1>4 DEF Cleared, WithoutEmpty
<1> HIDE DEF left
<1>8. Keep(r, left) \in Seq(PacketType) /\ Range(Keep(r, left)) = Range(r) \cap left
  BY <1>6, KeepRange
<1>9. \A x : x \in Range(Keep(r, left)) <=> x \in Range(r) /\ ~IsEmptyPacket(x)
  BY <1>8 DEF left
<1> QED BY <1>5, <1>6, <1>7, <1>8, <1>9

\* A queue of one packet.
LEMMA ClearedOne ==
  ASSUME NEW q \in PacketType, NEW ss, NEW gone
  PROVE  Cleared(<<q>>, ss, gone) =
           IF IsEmptyPacket(Without(q, ss, gone)) THEN <<>> ELSE <<Without(q, ss, gone)>>
<1> DEFINE x == Without(q, ss, gone)
           r == [i \in DOMAIN <<q>> |-> Without(<<q>>[i], ss, gone)]
           left == {y \in Range(r) : ~IsEmptyPacket(y)}
<1>1. x \in PacketType
  BY WithoutIs DEF IsWithout
<1>2. r = <<x>>
  OBVIOUS
<1>3. Cleared(<<q>>, ss, gone) = Keep(r, left)
  BY DEF Cleared, WithoutEmpty
<1>4. x \in left <=> ~IsEmptyPacket(x)
  <2> HIDE DEF x, r
  <2> QED BY <1>1, <1>2, Seq1
<1> HIDE DEF x, r, left
<1> DEFINE one == <<x>>
           k   == Keep(one, left)
<1>5. one \in Seq(PacketType) /\ Range(one) = {x} /\ Len(one) = 1
  BY <1>1, Seq1
<1> HIDE DEF one
<1>6. k \in Seq(PacketType) /\ Range(k) = {x} \cap left
  BY <1>5, KeepRange
<1>7. Len(k) <= 1
  BY <1>5, KeepShort
<1> HIDE DEF k
<1>8. k = IF x \in left THEN <<x>> ELSE <<>>
  <2> HIDE DEF PacketType
  <2>0. Len(k) \in Nat /\ DOMAIN k = 1..Len(k)
    BY <1>6
  <2>1. Len(k) = 0 \/ Len(k) = 1
    BY <1>7, <2>0
  <2>2. CASE Len(k) = 0
    BY <1>6, <2>0, <2>2 DEF Range
  <2>3. CASE Len(k) = 1
    <3>1. k = <<k[1]>> /\ k[1] \in Range(k)
      BY <1>6, <2>0, <2>3 DEF Range
    <3> QED BY <1>6, <3>1
  <2> QED BY <2>1, <2>2, <2>3
<1> QED BY <1>2, <1>3, <1>4, <1>8 DEF x, one, k

\* What the removal of the services in ss does to a pcb.
Gone(P, ss) == IF P.ready /\ Probing(P) /\ P.queue # <<>> THEN P.probing \cap ss ELSE {}

Ends(P, ss) == Gone(P, ss) # {} /\ P.probing = Gone(P, ss) /\ ~P.probeIp

Emptied(P, ss) == \E q \in Range(P.queue) : q.answers # {} /\ q.answers \subseteq ss

Stops(P, ss) == Ends(P, ss) \/ (P.ready /\ Announcing(P) /\ Emptied(P, ss))

Removed(R, P, ss) ==
  /\ R \in PcbType /\ R.ready = P.ready /\ R.probeIp = P.probeIp
  /\ R.probing = P.probing \ Gone(P, ss) /\ R.running = (P.running /\ ~Ends(P, ss))
  /\ R.state = IF Stops(P, ss) THEN "RUNNING" ELSE P.state
  /\ R.queue = Cleared(P.queue, ss, Gone(P, ss))

LEMMA RemoveServicesIs ==
  ASSUME NEW P \in PcbType, NEW ss
  PROVE  Removed(RemoveServices(P, ss), P, ss)
<1> DEFINE st  == IF Stops(P, ss) THEN "RUNNING" ELSE P.state
           run == P.running /\ ~Ends(P, ss)
           qs  == Cleared(P.queue, ss, Gone(P, ss))
           R   == [P EXCEPT !.probing = @ \ Gone(P, ss), !.running = run,
                            !.state = st, !.queue = qs]
<1>1. /\ P.state \in States /\ P.probing \subseteq Services /\ P.running \in BOOLEAN
      /\ P.queue \in Seq(PacketType)
  BY PcbFields
<1>2. (\E i \in DOMAIN P.queue : P.queue[i].answers # {} /\ P.queue[i].answers \subseteq ss)
        <=> Emptied(P, ss)
  BY DEF Range, Emptied
<1>3. RemoveServices(P, ss) = R
  BY <1>2, Zenon DEF RemoveServices, Cleared, Gone, Ends, Stops
<1>4. st \in States
  BY <1>1 DEF States
<1>5. qs \in Seq(PacketType)
  BY <1>1, ClearedIs
<1>6. run \in BOOLEAN /\ P.probing \ Gone(P, ss) \in SUBSET Services
  BY <1>1
<1>7. /\ R \in PcbType /\ R.ready = P.ready /\ R.probeIp = P.probeIp
      /\ R.probing = P.probing \ Gone(P, ss) /\ R.running = run
      /\ R.state = st /\ R.queue = qs
  <2> HIDE DEF st, run, qs
  <2> QED BY <1>4, <1>5, <1>6 DEF PcbType
<1> HIDE DEF R
<1> QED BY <1>3, <1>7 DEF Removed

\* The removal of services leaves a sound pcb, of the services that are left.
LEMMA RemoveServicesSound ==
  ASSUME NEW P, NEW svc \in SUBSET Services, NEW named \in BOOLEAN, Sound(P, svc, named),
         NEW ss \in SUBSET svc
  PROVE  Kept(RemoveServices(P, ss), P, svc \ ss, named)
<1> USE PcbAssumption
<1> DEFINE R    == RemoveServices(P, ss)
           gone == Gone(P, ss)
           ends == Ends(P, ss)
<1>0. P \in PcbType /\ Form(P) /\ Within(P, svc) /\ Host \notin ss
  BY DEF Sound, Form
<1>t. /\ P.state \in States /\ P.ready \in BOOLEAN /\ P.probing \subseteq Services
      /\ P.probeIp \in BOOLEAN /\ P.running \in BOOLEAN /\ P.queue \in Seq(PacketType)
  BY <1>0, PcbFields
<1>1. /\ R \in PcbType /\ R.ready = P.ready /\ R.probeIp = P.probeIp
      /\ R.probing = P.probing \ gone /\ R.running = (P.running /\ ~ends)
      /\ R.state = IF Stops(P, ss) THEN "RUNNING" ELSE P.state
      /\ R.queue = Cleared(P.queue, ss, gone)
  BY <1>0, RemoveServicesIs DEF Removed
<1> HIDE DEF R
<1>2. CASE ~P.ready
  <2>1. /\ P.state \in {"OFF", "DUP"} /\ P.probing = {} /\ P.queue = <<>>
        /\ ~P.probeIp /\ ~P.running
    BY <1>0, <1>2 DEF Form, Unused
  <2>2. gone = {} /\ ~ends /\ ~Stops(P, ss)
    BY <1>2 DEF Gone, Ends, Stops
  <2>3. R.queue = <<>>
    <3>1. \A x \in Range(R.queue) : \E q \in Range(P.queue) : TRUE
      BY <1>1, <1>t, ClearedIs
    <3>2. R.queue \in Seq(PacketType) /\ Range(R.queue) = {}
      BY <1>1, <2>1, <3>1, Seq0, PcbFields
    <3> QED BY <3>2, NoElements
  <2>4. /\ R.state = P.state /\ R.ready = FALSE /\ R.probing = {} /\ R.probeIp = FALSE
        /\ R.running = FALSE
    BY <1>1, <1>2, <1>t, <2>1, <2>2
  <2>5. Unused(R)
    BY <2>1, <2>3, <2>4 DEF Unused
  <2> QED BY <1>1, <1>2, <2>1, <2>4, <2>5, UnusedSound DEF Sound, R, Kept
<1>3. CASE P.ready /\ P.running
  <2>1. P.state \in Probes /\ Probing(P) /\ ~Announcing(P) /\ named
    BY <1>0, <1>3 DEF Form, Sound, Probes, Probing, Announcing
  <2>2. PICK q \in PacketType : P.queue = <<q>> /\ IsProbe(q, P)
    BY <1>0, <1>3 DEF Form
  <2> DEFINE x == Without(q, ss, gone)
  <2>3. gone = P.probing \cap ss
    BY <1>3, <2>1, <2>2 DEF Gone
  <2>4. /\ x \in PacketType /\ x.hosts = q.hosts /\ x.answers = {}
        /\ x.distributed = q.distributed
        /\ x.asks = q.asks \ gone /\ x.servers = q.servers \ ss
    <3>1. x.answers = q.answers \ ss /\ q.answers = {}
      BY <2>2, WithoutIs DEF IsProbe, IsWithout
    <3> QED BY <3>1, WithoutIs DEF IsWithout
  <2>5. /\ R.ready /\ R.queue = IF IsEmptyPacket(x) THEN <<>> ELSE <<x>>
    <3>1. Cleared(<<q>>, ss, gone) = IF IsEmptyPacket(x) THEN <<>> ELSE <<x>>
      BY ClearedOne, Zenon
    <3> QED BY <1>1, <1>3, <2>2, <3>1
  <2> HIDE DEF x
  <2>6. q.asks \ gone = Aims(P) \ ss /\ q.servers \ ss = Aims(P) \ ss
    BY <1>0, <2>2, <2>3 DEF IsProbe, Aims, HostIf
  <2>7. Aims(R) = Aims(P) \ ss
    BY <1>0, <1>1, <2>3 DEF Aims, HostIf
  <2>8. ends => /\ R.probing = {} /\ ~P.probeIp /\ Aims(R) = {} /\ R.state = "RUNNING" /\ ~R.running
    BY <1>1 DEF Aims, HostIf, Ends, Stops
  <2>9. ~ends => /\ Aims(R) # {} /\ R.state = P.state /\ R.running
    <3>1. ASSUME ~ends PROVE Aims(R) # {}
      <4>1. CASE P.probeIp
        BY <1>1, <4>1 DEF Aims, HostIf
      <4>2. CASE ~P.probeIp
        <5>1. P.probing # {}
          BY <2>2, <4>2 DEF IsProbe, Aims, HostIf
        <5>2. P.probing # gone
          BY <3>1, <4>2, <5>1 DEF Ends
        <5> QED BY <1>1, <2>3, <5>2 DEF Aims
      <4> QED BY <4>1, <4>2
    <3>2. ASSUME ~ends PROVE R.state = P.state /\ R.running
      BY <1>1, <1>3, <2>1, <3>2 DEF Stops
    <3> QED BY <3>1, <3>2
  <2>10. R.probing \subseteq svc \ ss /\ R.probeIp = P.probeIp
    BY <1>0, <1>1, <2>3 DEF Within
  <2> HIDE DEF ends, gone
  <2>11. CASE ends
    <3>1. IsEmptyPacket(x)
      BY <2>2, <2>4, <2>6, <2>7, <2>8, <2>11 DEF IsEmptyPacket, IsProbe
    <3>2. R.queue = <<>> /\ Range(R.queue) = {}
      BY <2>5, <3>1, Seq0
    <3> QED BY <1>1, <1>3, <2>1, <2>5, <2>8, <2>11, <3>2, AnswersSound DEF Announcing, Probes, R, Kept
  <2>12. CASE ~ends
    <3>1. x.asks = Aims(R) /\ x.servers = Aims(R) /\ Aims(R) # {}
      BY <2>4, <2>6, <2>7, <2>9, <2>12
    <3>2. IsProbe(x, R) /\ ~IsEmptyPacket(x)
      BY <2>2, <2>4, <2>10, <3>1 DEF IsProbe, IsEmptyPacket
    <3>3. R.queue = <<x>> /\ Range(R.queue) = {x}
      BY <2>4, <2>5, <3>2, Seq1
    <3>4. R.state \in Probes /\ R.running
      BY <2>1, <2>9, <2>12
    <3>5. Form(R)
      BY <1>1, <2>4, <2>5, <3>2, <3>3, <3>4 DEF Form, Announcing, Probes
    <3>6. Within(R, svc \ ss)
      BY <2>4, <2>10, <3>1, <3>3 DEF Within, Aims, HostIf
    <3> QED BY <1>3, <2>1, <2>5, <3>5, <3>6 DEF Sound, R, Kept
  <2> QED BY <2>11, <2>12
<1>4. CASE P.ready /\ ~P.running
  <2>1. P.state \notin Probes \cup {"OFF", "DUP"}
    BY <1>0, <1>4 DEF Form
  <2>2. ~Probing(P)
    BY <1>t, <2>1 DEF Probing, Probes, States, After, Steps
  <2>3. gone = {} /\ ~ends /\ (Stops(P, ss) <=> Announcing(P) /\ Emptied(P, ss))
    BY <1>4, <2>2 DEF Gone, Ends, Stops
  <2>4. /\ R.ready /\ ~R.running /\ R.probing = P.probing /\ R.probeIp = P.probeIp
        /\ R.state = (IF Announcing(P) /\ Emptied(P, ss) THEN "RUNNING" ELSE P.state)
        /\ \A x : x \in Range(R.queue) <=>
              ~IsEmptyPacket(x) /\ \E q \in Range(P.queue) : x = Without(q, ss, {})
    <3>1. R.queue = Cleared(P.queue, ss, {})
      BY <1>1, <2>3
    <3>2. \A x : x \in Range(R.queue) <=>
              ~IsEmptyPacket(x) /\ \E q \in Range(P.queue) : x = Without(q, ss, {})
      BY <1>t, <3>1, ClearedIs
    <3>3. R.probing = P.probing
      BY <1>1, <2>3
    <3> QED BY <1>1, <1>4, <2>3, <3>2, <3>3
  <2> HIDE DEF gone, ends
  <2>5. Aims(R) = {}
    BY <1>0, <1>4, <2>4 DEF Form, Aims
  <2>6. R.state \notin Probes \cup {"OFF", "DUP"} /\ (named \/ R.state = "RUNNING")
    BY <1>4, <2>1, <2>4 DEF Probes, Sound
  <2>7. Range(P.queue) \subseteq PacketType
    BY <1>t DEF Range
  <2>8. ASSUME NEW q \in Range(P.queue)
        PROVE  LET x == Without(q, ss, {})
               IN  /\ IsAnswer(q)
                   /\ x.asks = {} /\ x.hosts = {} /\ x.servers = q.servers
                   /\ x.answers = q.answers \ ss /\ x.distributed = q.distributed
                   /\ x.answers \subseteq (svc \ ss) \cup {Host}
    <3>1. IsAnswer(q) /\ q.answers \subseteq svc \cup {Host}
      BY <1>0, <1>4 DEF Form, Within
    <3> DEFINE x == Without(q, ss, {})
    <3>2. /\ x.asks = q.asks \ {} /\ x.hosts = q.hosts /\ x.servers = q.servers \ ss
          /\ x.answers = q.answers \ ss /\ x.distributed = q.distributed
      <4>1. IsWithout(x, q, ss, {})
        BY <2>7, WithoutIs
      <4> QED BY <4>1 DEF IsWithout
    <3> HIDE DEF x
    <3>3. q.servers \ ss = q.servers /\ q.asks \ {} = {} /\ q.hosts = {}
      BY <1>0, <3>1 DEF IsAnswer
    <3> QED BY <1>0, <3>1, <3>2, <3>3 DEF x
  <2>9. ASSUME NEW x \in Range(R.queue)
        PROVE  IsAnswer(x) /\ x.answers \subseteq (svc \ ss) \cup {Host}
    <3>1. PICK q \in Range(P.queue) : x = Without(q, ss, {}) /\ ~IsEmptyPacket(x)
      BY <2>4
    <3>2. /\ IsAnswer(q) /\ x.asks = {} /\ x.hosts = {} /\ x.servers = q.servers
          /\ x.distributed = q.distributed /\ x.answers \subseteq (svc \ ss) \cup {Host}
      BY <2>8, <3>1
    <3> QED BY <3>1, <3>2 DEF IsAnswer, IsEmptyPacket
  <2>10. ASSUME Announcing(R) PROVE \E x \in Range(R.queue) : ~x.distributed
    <3>1. Announcing(P) /\ ~Emptied(P, ss)
      BY <1>4, <2>4, <2>10 DEF Announcing
    <3>2. PICK q \in Range(P.queue) : ~q.distributed
      BY <1>0, <3>1 DEF Form
    <3> DEFINE x == Without(q, ss, {})
    <3>3. /\ IsAnswer(q) /\ x.servers = q.servers /\ x.answers = q.answers \ ss
          /\ x.distributed = q.distributed
      BY <2>8
    <3> HIDE DEF x
    <3>4. x.answers # {} \/ x.servers # {}
      BY <3>1, <3>2, <3>3 DEF IsAnswer, Emptied
    <3>5. x \in Range(R.queue)
      BY <2>4, <3>4 DEF x, IsEmptyPacket
    <3> QED BY <3>2, <3>3, <3>5
  <2> QED BY <1>1, <1>4, <2>4, <2>5, <2>6, <2>9, <2>10, AnswersSound DEF R, Kept
<1> QED BY <1>t, <1>2, <1>3, <1>4

\* A pcb out of use, or set aside.
LEMMA OffSound ==
  ASSUME NEW st \in {"OFF", "DUP"}
  PROVE  [Off EXCEPT !.state = st] \in PcbType /\ Unused([Off EXCEPT !.state = st])
<1> DEFINE P == [Off EXCEPT !.state = st]
<1>1. st \in States /\ "OFF" \in States /\ {} \in SUBSET Services
  BY DEF States
<1>2. Off \in PcbType /\ Unused(Off)
  BY <1>1, Seq0 DEF Off, PcbType, Unused
<1>3. P \in PcbType
  BY <1>1, <1>2 DEF PcbType
<1>4. /\ P.state = st /\ P.ready = Off.ready /\ P.probing = Off.probing
      /\ P.probeIp = Off.probeIp /\ P.running = Off.running /\ P.queue = Off.queue
  BY <1>2 DEF PcbType
<1>5. Unused(P)
  BY <1>2, <1>4 DEF Unused
<1> QED BY <1>3, <1>5

LEMMA AfterIs ==
  /\ After["PROBE_1"] = "PROBE_2" /\ After["PROBE_2"] = "PROBE_3"
  /\ After["PROBE_3"] = "ANNOUNCE_1" /\ After["ANNOUNCE_1"] = "ANNOUNCE_2"
  /\ After["ANNOUNCE_2"] = "ANNOUNCE_3" /\ After["ANNOUNCE_3"] = "RUNNING"
BY DEF After, Steps

\* A probe or an announcement is scheduled again as the only packet.
LEMMA PutAlone ==
  ASSUME NEW q \in PacketType, NEW k \in Nat
  PROVE  Put(<<>>, q, k) = <<q>>
<1> DEFINE r == Put(<<>>, q, k)
<1>1. r \in Seq(PacketType) /\ Range(r) = {q} /\ Len(r) = 1
  <2>1. /\ r \in Seq(PacketType) /\ Range(r) = Range(<<>>) \cup {q}
        /\ Len(r) = Len(<<>>) + 1
    BY Seq0, PutIs, Zenon
  <2> QED BY <2>1, Seq0
<1> HIDE DEF r
<1>2. r[1] \in Range(r) /\ r = <<r[1]>>
  <2> HIDE DEF PacketType
  <2> QED BY <1>1 DEF Range
<1> QED BY <1>1, <1>2 DEF r

\* A list is its first element and the rest.
LEMMA HeadTail ==
  ASSUME NEW qs \in Seq(PacketType), qs # <<>>
  PROVE  /\ Head(qs) \in PacketType /\ Tail(qs) \in Seq(PacketType)
         /\ Range(qs) = Range(Tail(qs)) \cup {Head(qs)}
<1> HIDE DEF PacketType
<1> DEFINE n == Len(qs)
           t == Tail(qs)
<1>1. /\ n \in Nat /\ n >= 1 /\ DOMAIN qs = 1..n /\ Head(qs) = qs[1]
      /\ t \in Seq(PacketType) /\ DOMAIN t = 1..(n - 1)
      /\ \A i \in 1..(n - 1) : t[i] = qs[i + 1]
  OBVIOUS
<1> HIDE DEF t
<1>2. Head(qs) \in Range(qs) /\ Head(qs) \in PacketType
  BY <1>1 DEF Range
<1>3. Range(t) \subseteq Range(qs)
  <2> SUFFICES ASSUME NEW i \in 1..(n - 1) PROVE t[i] \in Range(qs)
    BY <1>1 DEF Range
  <2>1. i + 1 \in 1..n
    BY <1>1
  <2> QED BY <1>1, <2>1 DEF Range
<1>4. ASSUME NEW i \in 1..n PROVE qs[i] = Head(qs) \/ qs[i] \in Range(t)
  <2>1. CASE i = 1
    BY <1>1, <2>1
  <2>2. CASE i # 1
    <3>1. i - 1 \in 1..(n - 1) /\ (i - 1) + 1 = i
      BY <1>1, <2>2
    <3> QED BY <1>1, <3>1 DEF Range
  <2> QED BY <2>1, <2>2
<1>5. Range(qs) \subseteq Range(t) \cup {Head(qs)}
  BY <1>1, <1>4 DEF Range
<1> QED BY <1>1, <1>2, <1>3, <1>5 DEF t

\* Handling the first packet of a sound pcb leaves it sound.
LEMMA HandledSound ==
  ASSUME NEW P, NEW svc \in SUBSET Services, NEW named, Sound(P, svc, named),
         P.queue # <<>>, NEW k \in Nat
  PROVE  Kept(Handled(P, k), P, svc, named)
<1> DEFINE R == Handled(P, k)
           q == Head(P.queue)
           rest == Tail(P.queue)
<1>0. P \in PcbType /\ Form(P) /\ Within(P, svc)
  BY DEF Sound, Form
<1>t. /\ P.state \in States /\ P.ready \in BOOLEAN /\ P.probing \subseteq Services
      /\ P.probeIp \in BOOLEAN /\ P.running \in BOOLEAN /\ P.queue \in Seq(PacketType)
  BY <1>0, PcbFields
<1>1. P.ready /\ P.state \notin {"OFF", "DUP"}
  BY <1>0, <1>t DEF Form, Unused
<1>2. q \in PacketType /\ rest \in Seq(PacketType) /\ Range(P.queue) = Range(rest) \cup {q}
  BY <1>t, HeadTail
<1>3. CASE P.state \in {"PROBE_1", "PROBE_2"}
  <2>1. P.running
    BY <1>0, <1>3 DEF Form, Probes
  <2>2. P.queue = <<q>> /\ IsProbe(q, P) /\ rest = <<>>
    BY <1>0, <2>1, Seq1 DEF Form
  <2>3. Put(rest, q, k) = <<q>>
    BY <1>2, <2>2, PutAlone
  <2>4. R = [P EXCEPT !.queue = <<q>>, !.state = After[P.state]]
    BY <1>0, <1>3, <2>3 DEF Handled, PcbType
  <2>5. After[P.state] \in {"PROBE_2", "PROBE_3"} /\ {"PROBE_2", "PROBE_3"} \subseteq States
    BY <1>3, AfterIs DEF States, After, Steps
  <2>6. <<q>> \in Seq(PacketType)
    BY <1>2, Seq1
  <2> HIDE DEF R, q, rest
  <2>7. /\ R \in PcbType /\ R.state \in {"PROBE_2", "PROBE_3"} /\ R.queue = P.queue
        /\ R.ready = P.ready /\ R.probing = P.probing /\ R.probeIp = P.probeIp
        /\ R.running = P.running
    BY <1>0, <2>2, <2>4, <2>5, <2>6 DEF PcbType
  <2>8. IsProbe(q, R)
    BY <2>2, <2>7 DEF IsProbe, Aims
  <2>9. Form(R)
    BY <1>1, <1>2, <2>1, <2>2, <2>7, <2>8 DEF Form, Probes, Announcing
  <2>10. Within(R, svc)
    BY <1>0, <2>7 DEF Within
  <2>11. named
    BY <1>3 DEF Sound
  <2> QED BY <1>1, <2>7, <2>9, <2>10, <2>11 DEF Sound, R, Kept
<1>4. CASE P.state = "PROBE_3"
  <2> DEFINE new == AnnounceFromProbe(q)
  <2>1. P.running
    BY <1>0, <1>4 DEF Form, Probes
  <2>2. P.queue = <<q>> /\ IsProbe(q, P) /\ rest = <<>>
    BY <1>0, <2>1, Seq1 DEF Form
  <2>3. q.servers \subseteq svc \cup {Host} /\ q.servers # {} /\ svc \cup {Host} \subseteq Names
    BY <1>0, <1>2, <2>2 DEF Within, IsProbe, Names
  <2>4. /\ new.asks = {} /\ new.hosts = {} /\ new.servers = {} /\ new.distributed = FALSE
        /\ new.answers = q.servers \cup {Host}
        /\ new \in PacketType
    <3> HIDE DEF q
    <3>1. HostIf(q.servers # {}) = {Host}
      BY <2>3 DEF HostIf
    <3>2. q.servers \cup {Host} \in SUBSET Names
      BY <2>3 DEF Names
    <3> QED BY <3>1, <3>2 DEF AnnounceFromProbe, Packet, PacketType
  <2> HIDE DEF new
  <2>5. Put(rest, new, k) = <<new>>
    BY <2>2, <2>4, PutAlone
  <2>6. R = [P EXCEPT !.queue = <<new>>, !.state = "ANNOUNCE_1", !.running = FALSE,
                      !.probeIp = FALSE, !.probing = {}]
    BY <1>0, <1>4, <2>5, AfterIs DEF Handled, PcbType, EndProbe, new
  <2>7. "ANNOUNCE_1" \in States /\ {} \in SUBSET Services /\ <<new>> \in Seq(PacketType)
        /\ Range(<<new>>) = {new}
    BY <2>4, Seq1 DEF States, After, Steps
  <2> HIDE DEF R, q, rest
  <2>8. /\ R \in PcbType /\ R.state = "ANNOUNCE_1" /\ R.queue = <<new>>
        /\ R.ready = P.ready /\ R.probing = {} /\ ~R.probeIp /\ ~R.running
    BY <1>0, <2>6, <2>7 DEF PcbType
  <2>9. Aims(R) = {}
    BY <2>8 DEF Aims, HostIf
  <2>10. IsAnswer(new) /\ new.answers \subseteq svc \cup {Host}
    BY <2>3, <2>4 DEF IsAnswer
  <2>11. named
    BY <1>4 DEF Sound
  <2> QED BY <1>1, <2>4, <2>7, <2>8, <2>9, <2>10, <2>11, AnswersSound DEF R, Probes, Kept
<1>5. CASE P.state \in {"ANNOUNCE_1", "ANNOUNCE_2", "ANNOUNCE_3", "RUNNING"}
  <2> DEFINE again == P.state \in {"ANNOUNCE_1", "ANNOUNCE_2"}
             qs == IF again THEN Put(rest, q, k) ELSE rest
             st == IF P.state = "RUNNING" THEN "RUNNING" ELSE After[P.state]
  <2>1. ~P.running /\ Aims(P) = {} /\ \A x \in Range(P.queue) : IsAnswer(x)
    BY <1>0, <1>5 DEF Form, Probes
  <2>2. /\ qs \in Seq(PacketType) /\ Range(qs) \subseteq Range(P.queue)
        /\ again => Range(qs) = Range(P.queue)
    BY <1>2, PutIs
  <2>3. /\ st \in {"ANNOUNCE_2", "ANNOUNCE_3", "RUNNING"}
        /\ st \in {"ANNOUNCE_2", "ANNOUNCE_3"} => again
    BY <1>5, AfterIs
  <2>4. {"ANNOUNCE_2", "ANNOUNCE_3", "RUNNING"} \subseteq States
    BY DEF States, After, Steps
  <2>5. R = [P EXCEPT !.queue = qs, !.state = st]
    BY <1>0, <1>5 DEF Handled, PcbType
  <2> HIDE DEF R, q, rest, qs, st, again
  <2>6. /\ R \in PcbType /\ R.state = st /\ R.queue = qs /\ R.ready = P.ready
        /\ R.probing = P.probing /\ R.probeIp = P.probeIp /\ R.running = P.running
    BY <1>0, <2>2, <2>3, <2>4, <2>5 DEF PcbType
  <2>7. Aims(R) = {}
    BY <2>1, <2>6 DEF Aims
  <2>8. \A x \in Range(R.queue) : IsAnswer(x) /\ x.answers \subseteq svc \cup {Host}
    BY <1>0, <2>1, <2>2, <2>6 DEF Within
  <2>9. Announcing(R) => \E x \in Range(R.queue) : ~x.distributed
    BY <1>0, <2>2, <2>3, <2>6 DEF Form, Announcing, again
  <2>10. named \/ R.state = "RUNNING"
    BY <1>5, <2>6 DEF Sound, st
  <2> QED BY <1>1, <2>1, <2>3, <2>6, <2>7, <2>8, <2>9, <2>10, AnswersSound DEF R, Probes, Kept
<1> QED BY <1>t, <1>1, <1>3, <1>4, <1>5 DEF States, After, Steps

\* An answer is scheduled.
LEMMA AnswerSound ==
  ASSUME NEW P, NEW svc \in SUBSET Services, Sound(P, svc, TRUE), P.ready,
         Announcing(P) \/ P.state = "RUNNING",
         NEW n \in svc \cup {Host}, NEW k \in Nat
  PROVE  Kept([P EXCEPT !.queue = Put(@, Packet({}, {}, {n}, {}, TRUE), k)], P, svc, TRUE)
<1> DEFINE new == Packet({}, {}, {n}, {}, TRUE)
           qs == Put(P.queue, new, k)
           R == [P EXCEPT !.queue = qs]
<1>0. P \in PcbType /\ Form(P) /\ Within(P, svc) /\ P.queue \in Seq(PacketType)
  BY PcbFields DEF Sound, Form
<1>1. new \in PacketType /\ IsAnswer(new) /\ new.answers = {n}
  BY DEF Packet, PacketType, Names, IsAnswer
<1> HIDE DEF new
<1>2. qs \in Seq(PacketType) /\ Range(qs) = Range(P.queue) \cup {new}
  BY <1>0, <1>1, PutIs
<1>3. P.state \notin Probes \cup {"OFF", "DUP"}
  BY DEF Announcing, Probes
<1>4. ~P.running /\ Aims(P) = {} /\ \A x \in Range(P.queue) : IsAnswer(x)
  BY <1>0, <1>3 DEF Form
<1> HIDE DEF qs, R
<1>5. /\ R \in PcbType /\ R.state = P.state /\ R.ready = P.ready /\ R.queue = qs
      /\ R.probing = P.probing /\ R.probeIp = P.probeIp /\ R.running = P.running
  BY <1>0, <1>2 DEF PcbType, R
<1>6. Aims(R) = {}
  BY <1>4, <1>5 DEF Aims
<1>7. \A x \in Range(R.queue) : IsAnswer(x) /\ x.answers \subseteq svc \cup {Host}
  BY <1>0, <1>1, <1>2, <1>4, <1>5 DEF Within
<1>8. Announcing(R) => \E x \in Range(R.queue) : ~x.distributed
  BY <1>0, <1>2, <1>5 DEF Form, Announcing
<1>9. Sound(R, svc, TRUE)
  BY <1>3, <1>4, <1>5, <1>6, <1>7, <1>8, AnswersSound
<1>10. R = [P EXCEPT !.queue = Put(@, Packet({}, {}, {n}, {}, TRUE), k)]
  BY DEF R, qs, new
<1>11. Kept(R, P, svc, TRUE)
  BY <1>5, <1>9 DEF Kept
<1> QED BY <1>10, <1>11

\* Answers that others have given are withdrawn.
LEMMA WithdrawnSound ==
  ASSUME NEW P, NEW svc \in SUBSET Services, NEW named, Sound(P, svc, named), NEW n,
         \E i \in DOMAIN P.queue : P.queue[i].distributed
  PROVE  Kept([P EXCEPT !.queue = [i \in DOMAIN @ |-> Withdrawn(@[i], n)]], P, svc, named)
<1> DEFINE f == [q \in PacketType |-> Withdrawn(q, n)]
           qs == [i \in DOMAIN P.queue |-> Withdrawn(P.queue[i], n)]
           R == [P EXCEPT !.queue = qs]
<1>0. P \in PcbType /\ Form(P) /\ Within(P, svc) /\ P.queue \in Seq(PacketType)
  BY PcbFields DEF Sound, Form
<1>1. ASSUME NEW q \in PacketType
      PROVE  /\ f[q] \in PacketType /\ f[q].asks = q.asks /\ f[q].hosts = q.hosts
             /\ f[q].servers = q.servers /\ f[q].distributed = q.distributed
             /\ f[q].answers \subseteq q.answers
             /\ ~q.distributed => f[q].answers = q.answers
  BY DEF PacketType, Withdrawn
<1>2. f \in [PacketType -> PacketType]
  BY <1>1
<1>3. qs = [i \in DOMAIN P.queue |-> f[P.queue[i]]]
  <2>1. \A i \in DOMAIN P.queue : P.queue[i] \in PacketType
    BY <1>0
  <2> QED BY <2>1
<1>4. Range(P.queue) \subseteq PacketType
  BY <1>0 DEF Range
<1> HIDE DEF f, qs
<1>5. qs \in Seq(PacketType) /\ Range(qs) = {f[q] : q \in Range(P.queue)}
  BY <1>0, <1>2, <1>3, EachIs
<1>6. PICK d \in Range(P.queue) : d.distributed
  BY DEF Range
<1>7. ~P.running
  <2> SUFFICES ASSUME P.running PROVE FALSE
    OBVIOUS
  <2>1. PICK q \in PacketType : P.queue = <<q>> /\ IsProbe(q, P)
    BY <1>0 DEF Form
  <2>2. d = q
    BY <1>6, <2>1, Seq1
  <2> QED BY <1>6, <2>1, <2>2 DEF IsProbe
<1>8. P.ready
  BY <1>0, <1>6, Seq0 DEF Form, Unused
<1>9. Aims(P) = {} /\ \A x \in Range(P.queue) : IsAnswer(x)
  BY <1>0, <1>7 DEF Form
<1>10. /\ R \in PcbType /\ R.state = P.state /\ R.ready = P.ready /\ R.queue = qs
       /\ R.probing = P.probing /\ R.probeIp = P.probeIp /\ R.running = P.running
  BY <1>0, <1>5 DEF PcbType
<1> HIDE DEF R
<1>11. P.state \notin Probes \cup {"OFF", "DUP"}
  BY <1>0, <1>7, <1>8 DEF Form
<1>12. Aims(R) = {}
  BY <1>9, <1>10 DEF Aims
<1>13. ASSUME NEW x \in Range(R.queue)
       PROVE  IsAnswer(x) /\ x.answers \subseteq svc \cup {Host}
  <2>1. PICK q \in Range(P.queue) : x = f[q]
    BY <1>5, <1>10
  <2>2. IsAnswer(q) /\ q.answers \subseteq svc \cup {Host} /\ q \in PacketType
    BY <1>0, <1>4, <1>9 DEF Within
  <2> QED BY <1>1, <2>1, <2>2 DEF IsAnswer
<1>14. ASSUME Announcing(R) PROVE \E x \in Range(R.queue) : ~x.distributed
  <2>1. PICK q \in Range(P.queue) : ~q.distributed
    BY <1>0, <1>10, <1>14 DEF Form, Announcing
  <2>2. f[q] \in Range(R.queue) /\ ~f[q].distributed
    BY <1>1, <1>4, <1>5, <1>10, <2>1
  <2> QED BY <2>2
<1>15. named \/ R.state = "RUNNING"
  BY <1>10, <1>11 DEF Sound
<1>16. Sound(R, svc, named)
  BY <1>7, <1>8, <1>10, <1>11, <1>12, <1>13, <1>14, <1>15, AnswersSound
<1>17. Kept(R, P, svc, named)
  BY <1>10, <1>16 DEF Kept
<1> QED BY <1>17 DEF R, qs

\* A pcb whose names are claimed, or that is started over.
LEMMA ProbedSound ==
  ASSUME NEW P, NEW svc \in SUBSET Services, hostname' \in BOOLEAN, Sound(P, svc, hostname'),
         NEW ss \in SUBSET svc, NEW ip \in BOOLEAN, ss \cup HostIf(ip) # {}, NEW clear \in BOOLEAN
  PROVE  Kept(IF P.ready
              THEN InitProbe(IF clear THEN [P EXCEPT !.probing = {}, !.running = FALSE] ELSE P,
                             ss, ip)
              ELSE P, P, svc, hostname')
<1> DEFINE Q == IF clear THEN [P EXCEPT !.probing = {}, !.running = FALSE] ELSE P
<1>0. P \in PcbType /\ Form(P) /\ Within(P, svc) /\ ss \in SUBSET Services
  BY DEF Sound, Form
<1>1. /\ Q \in PcbType /\ Q.ready = P.ready /\ Q.probing \subseteq P.probing
      /\ Q.probeIp = P.probeIp /\ (Q.running => P.running)
  <2>1. {} \in SUBSET Services
    OBVIOUS
  <2> HIDE DEF PacketType, States
  <2> QED BY <1>0, <2>1 DEF PcbType
<1> HIDE DEF Q
<1>2. CASE P.ready
  <2>1. Q.probing \subseteq svc
    BY <1>0, <1>1 DEF Within
  <2>2. ASSUME ~hostname' PROVE Aims(Q) = {} /\ ~Q.running
    <3>1. ~P.running /\ Aims(P) = {}
      BY <1>0, <2>2 DEF Sound, Form, Probes
    <3> QED BY <1>1, <3>1 DEF Aims
  <2>3. Sound(InitProbe(Q, ss, ip), svc, hostname') /\ InitProbe(Q, ss, ip).ready
    BY <1>0, <1>1, <1>2, <2>1, <2>2, InitProbeSound
  <2> QED BY <1>2, <2>3 DEF Kept, Q
<1>3. CASE ~P.ready
  BY <1>3 DEF Kept
<1> QED BY <1>2, <1>3, PcbFields, <1>0

LEMMA RestartedSound ==
  ASSUME NEW P, NEW svc \in SUBSET Services, NEW named \in BOOLEAN, Sound(P, svc, named),
         hostname' = TRUE
  PROVE  Kept(IF P.ready
              THEN InitProbe([P EXCEPT !.probing = {}, !.running = FALSE], svc, TRUE)
              ELSE [P EXCEPT !.queue = <<>>], P, svc, hostname')
<1> DEFINE Q == [P EXCEPT !.probing = {}, !.running = FALSE]
           R == [P EXCEPT !.queue = <<>>]
<1>0. P \in PcbType /\ Form(P)
  BY DEF Sound, Form
<1>1. CASE P.ready
  <2>1. {} \in SUBSET Services /\ svc \cup HostIf(TRUE) # {}
    BY DEF HostIf
  <2>2. Q \in PcbType /\ Q.ready = P.ready /\ Q.probing = {}
    <3> HIDE DEF PacketType, States
    <3> QED BY <1>0, <2>1 DEF PcbType
  <2> HIDE DEF Q
  <2>3. Sound(InitProbe(Q, svc, TRUE), svc, hostname') /\ InitProbe(Q, svc, TRUE).ready
    BY <1>1, <2>1, <2>2, InitProbeSound
  <2> QED BY <1>1, <2>3 DEF Kept, Q
<1>2. CASE ~P.ready
  <2>1. /\ R \in PcbType /\ R.ready = P.ready /\ R.state = P.state /\ R.queue = <<>>
        /\ R.probing = P.probing /\ R.probeIp = P.probeIp /\ R.running = P.running
    BY <1>0, Seq0 DEF PcbType
  <2> HIDE DEF R
  <2>2. Unused(R)
    BY <1>0, <1>2, <2>1 DEF Unused, Form
  <2>3. Sound(R, svc, hostname')
    BY <2>1, <2>2, UnusedSound
  <2> QED BY <1>2, <2>1, <2>3 DEF Kept, R
<1> QED BY <1>0, <1>1, <1>2, PcbFields

\* An interface that comes up.
LEMMA EnabledSound ==
  ASSUME NEW P, services \in SUBSET Services, hostname' \in BOOLEAN,
         Sound(P, services, hostname')
  PROVE  Sound(Enabled(P), services, hostname') /\ Enabled(P).ready
<1> DEFINE Q == [P EXCEPT !.ready = TRUE, !.state = IF P.ready THEN P.state ELSE "OFF"]
<1>0. P \in PcbType /\ Form(P) /\ Within(P, services)
  BY DEF Sound, Form
<1>1. /\ Q \in PcbType /\ Q.ready /\ Q.probing = P.probing /\ Q.probeIp = P.probeIp
      /\ Q.running = P.running
  <2>1. "OFF" \in States
    BY DEF States
  <2> HIDE DEF PacketType, States
  <2> QED BY <1>0, <2>1 DEF PcbType
<1>2. services \cup HostIf(TRUE) # {}
  BY DEF HostIf
<1>3. Enabled(P) = InitProbe(Q, services, TRUE)
  BY DEF Enabled
<1> HIDE DEF Q
<1>4. Q.probing \subseteq services
  BY <1>0, <1>1 DEF Within
<1>5. ASSUME ~hostname' PROVE Aims(Q) = {} /\ ~Q.running
  <2>1. ~P.running /\ Aims(P) = {}
    BY <1>0, <1>5 DEF Sound, Form, Probes
  <2> QED BY <1>1, <2>1 DEF Aims
<1> QED BY <1>1, <1>2, <1>3, <1>4, <1>5, InitProbeSound

\* A duplicate is taken out of that role.
LEMMA LetOff ==
  ASSUME NEW P, NEW svc, NEW named \in BOOLEAN, Sound(P, svc, named), ~P.ready
  PROVE  Sound([P EXCEPT !.state = "OFF"], svc, named) /\ [P EXCEPT !.state = "OFF"].state = "OFF"
<1> DEFINE R == [P EXCEPT !.state = "OFF"]
<1>0. P \in PcbType /\ Unused(P)
  BY DEF Sound, Form
<1>1. "OFF" \in States
  BY DEF States
<1>2. /\ R \in PcbType /\ R.ready = P.ready /\ R.state = "OFF" /\ R.queue = P.queue
      /\ R.probing = P.probing /\ R.probeIp = P.probeIp /\ R.running = P.running
  BY <1>0, <1>1 DEF PcbType
<1> HIDE DEF R
<1>3. Unused(R)
  BY <1>0, <1>2 DEF Unused
<1>4. Sound(R, svc, named)
  BY <1>2, <1>3, UnusedSound
<1> QED BY <1>2, <1>4 DEF R

-----------------------------------------------------------------------------
(* All pcbs.                                                               *)

\* Each pcb is an interface of its own, or there is but one.
Apart == \A p \in Pcbs : Pcbs \ Others(p) = {p}

AllSound == \A p \in Pcbs : Sound(pcb[p], services, hostname)

PcbInv == PcbTypeOK /\ AllSound /\ DuplicateHasStandIn

LEMMA PcbInitInv == PcbInit => PcbInv
<1> SUFFICES ASSUME PcbInit PROVE PcbInv
  OBVIOUS
<1> USE PcbAssumption
<1>1. Off \in PcbType /\ Unused(Off) /\ Off.state = "OFF"
  <2>1. "OFF" \in States /\ {} \in SUBSET Services
    BY DEF States
  <2> QED BY <2>1, Seq0 DEF Off, PcbType, Unused
<1>2. \A p \in Pcbs : pcb[p] = Off
  BY DEF PcbInit
<1>3. PcbTypeOK
  <2>1. pcb \in [Pcbs -> PcbType] /\ told \in [Pcbs -> SUBSET Names]
    BY <1>1 DEF PcbInit
  <2>2. asked \in [Pcbs -> [Names -> 0..3]]
    BY DEF PcbInit, NoneAsked
  <2>3. calls \in 0..MaxCalls
    BY DEF PcbInit
  <2> QED BY <2>1, <2>2, <2>3 DEF PcbInit, PcbTypeOK
<1>4. AllSound
  BY <1>1, <1>2, UnusedSound DEF PcbInit, AllSound
<1>5. DuplicateHasStandIn
  BY <1>1, <1>2 DEF DuplicateHasStandIn
<1> QED BY <1>3, <1>4, <1>5 DEF PcbInv

\* A step after which each pcb is as sound and as ready as before.
LEMMA AllKept ==
  ASSUME PcbInv, \A p \in Pcbs : Kept(pcb'[p], pcb[p], services', hostname')
  PROVE  AllSound' /\ DuplicateHasStandIn'
<1>1. AllSound'
  BY DEF AllSound, Kept
<1>2. ASSUME NEW p \in Pcbs
      PROVE  /\ pcb'[p].ready <=> pcb[p].ready
             /\ pcb'[p].state = "DUP" => pcb[p].state = "DUP"
  <2>1. Kept(pcb'[p], pcb[p], services', hostname')
    OBVIOUS
  <2> QED BY <2>1 DEF Kept, Sound, Form
<1>3. DuplicateHasStandIn'
  <2> SUFFICES ASSUME NEW p \in Pcbs, pcb'[p].state = "DUP"
               PROVE  \E o \in Others(p) : pcb'[o].ready
    BY DEF DuplicateHasStandIn
  <2>1. PICK o \in Others(p) : pcb[o].ready
    BY <1>2 DEF PcbInv, DuplicateHasStandIn
  <2>2. o \in Pcbs
    BY <2>1 DEF Others
  <2> QED BY <1>2, <2>1, <2>2
<1> QED BY <1>1, <1>3

LEMMA KeptSame ==
  ASSUME NEW P, NEW svc, NEW named, Sound(P, svc, named)
  PROVE  Kept(P, P, svc, named)
BY DEF Kept

\* What is kept beside the pcbs.
RestTyped ==
  /\ hostname \in BOOLEAN /\ instance \in BOOLEAN
  /\ own \subseteq Services /\ services \subseteq Services
  /\ asked \in [Pcbs -> [Names -> 0..3]]
  /\ told \in [Pcbs -> SUBSET Names]
  /\ calls \in 0..MaxCalls

ByPcb == [p \in Pcbs |-> pcb[p]]

LEMMA SendByeTyped ==
  ASSUME RestTyped, NEW ss, NEW ip
  PROVE  SendBye(ss, ip) \in [Pcbs -> SUBSET Names]
         /\ SendByeNoInstance(ip) \in [Pcbs -> SUBSET Names]
<1>1. \A x : SendBye(x, ip) \in [Pcbs -> SUBSET Names]
  BY DEF RestTyped, SendBye
<1> QED BY <1>1 DEF SendByeNoInstance, RestTyped

LEMMA ClaimTyped ==
  ASSUME RestTyped, NEW ns, Claim(ns)
  PROVE  asked' \in [Pcbs -> [Names -> 0..3]]
BY DEF RestTyped, Claim

LEMMA CallTyped ==
  ASSUME RestTyped, Call
  PROVE  calls' \in 0..MaxCalls
BY PcbAssumption DEF RestTyped, Call

\* The types of what is kept beside the pcbs are kept by every step, and pcb
\* stays a function of the pcbs.
\* A step changes pcb as a function of the pcbs, and keeps the types of the rest.
LEMMA RestStep ==
  ASSUME PcbTypeOK, PcbNext
  PROVE  RestTyped' /\ pcb' = ByPcb'
<1>0. RestTyped /\ pcb \in [Pcbs -> PcbType] /\ pcb = ByPcb
  BY DEF PcbTypeOK, RestTyped, ByPcb
<1> USE DEF RestTyped
<1> HIDE DEF PcbType, Names
<1>1. ASSUME HostnameSet PROVE RestTyped' /\ pcb' = ByPcb'
  BY <1>0, <1>1, SendByeTyped, ClaimTyped, CallTyped DEF HostnameSet, RestartAll, ByPcb
<1>2. ASSUME InstanceSet PROVE RestTyped' /\ pcb' = ByPcb'
  BY <1>0, <1>2, SendByeTyped, ClaimTyped, CallTyped
     DEF InstanceSet, RestartNoInstance, ProbeAll, ByPcb
<1>3. ASSUME ServicesClear PROVE RestTyped' /\ pcb' = ByPcb'
  BY <1>0, <1>3, SendByeTyped, CallTyped DEF ServicesClear, ByPcb
<1>4. ASSUME NEW s \in Services, ServiceAdd(s) PROVE RestTyped' /\ pcb' = ByPcb'
  BY <1>0, <1>4, ClaimTyped, CallTyped DEF ServiceAdd, ProbeAll, ByPcb
<1>5. ASSUME NEW s \in Services, ServiceInstanceSet(s) PROVE RestTyped' /\ pcb' = ByPcb'
  BY <1>0, <1>5, SendByeTyped, ClaimTyped, CallTyped DEF ServiceInstanceSet, ProbeAll, ByPcb
<1>6. ASSUME NEW s \in Services, ServiceUpdate(s) PROVE RestTyped' /\ pcb' = ByPcb'
  BY <1>0, <1>6, CallTyped DEF ServiceUpdate, ByPcb
<1>7. ASSUME NEW s \in Services, ServiceDel(s) PROVE RestTyped' /\ pcb' = ByPcb'
  BY <1>0, <1>7, SendByeTyped, CallTyped DEF ServiceDel, ByPcb
<1>8. ASSUME NEW p \in Pcbs, Enable(p) PROVE RestTyped' /\ pcb' = ByPcb'
  <2>1. NoneAsked \in [Names -> 0..3]
    BY DEF NoneAsked
  <2>2. asked' \in [Pcbs -> [Names -> 0..3]]
    BY <1>0, <1>8, <2>1 DEF Enable
  <2>3. pcb' = ByPcb'
    BY <1>0, <1>8 DEF Enable, ByPcb
  <2> QED BY <1>0, <1>8, <2>2, <2>3, CallTyped DEF Enable
<1>9. ASSUME NEW p \in Pcbs, Disable(p) PROVE RestTyped' /\ pcb' = ByPcb'
  BY <1>0, <1>9, CallTyped DEF Disable, ByPcb
<1>10. ASSUME NEW p \in Pcbs, AnnounceEvent(p) PROVE RestTyped' /\ pcb' = ByPcb'
  BY <1>0, <1>10, CallTyped DEF AnnounceEvent, ByPcb
<1>11. ASSUME NEW p \in Pcbs, NEW s \in Services, LosesService(p, s)
       PROVE  RestTyped' /\ pcb' = ByPcb'
  <2>1. pcb' = ByPcb'
    BY <1>0, <1>11 DEF LosesService, ProbeAll, RestartNoInstance, RestartAll, Reprobe, ByPcb
  <2>2. told' \in [Pcbs -> SUBSET Names]
    BY <1>0, <1>11 DEF LosesService
  <2>3. asked' \in [Pcbs -> [Names -> 0..3]]
    BY <1>0, <1>11, ClaimTyped DEF LosesService
  <2> QED BY <1>0, <1>11, <2>1, <2>2, <2>3, CallTyped DEF LosesService
<1>12. ASSUME NEW p \in Pcbs, NEW s \in Services, TxtDiffers(p, s)
       PROVE  RestTyped' /\ pcb' = ByPcb'
  BY <1>0, <1>12, CallTyped DEF TxtDiffers, Reprobe, ByPcb
<1>13. ASSUME NEW p \in Pcbs, LosesHost(p) PROVE RestTyped' /\ pcb' = ByPcb'
  <2>1. pcb' = ByPcb'
    BY <1>0, <1>13 DEF LosesHost, RestartAll, Reprobe, ByPcb
  <2>2. asked' \in [Pcbs -> [Names -> 0..3]]
    BY <1>0, <1>13, ClaimTyped DEF LosesHost
  <2> QED BY <1>0, <1>13, <2>1, <2>2, CallTyped DEF LosesHost
<1>14. ASSUME NEW p \in Pcbs, IsDuplicate(p) PROVE RestTyped' /\ pcb' = ByPcb'
  BY <1>0, <1>14, CallTyped DEF IsDuplicate, ByPcb
<1>15. ASSUME NEW p \in Pcbs, Asked(p) PROVE RestTyped' /\ pcb' = ByPcb'
  <2>1. pcb' = ByPcb'
    BY <1>0, <1>15 DEF Asked, ByPcb
  <2>2. services \cup {Host} \subseteq Names
    BY <1>0 DEF Names
  <2>3. told' \in [Pcbs -> SUBSET Names]
    <3>1. PICK n \in services \cup {Host} :
            told' = [told EXCEPT ![p] = @ \cup {n}] \/ told' = told
      BY <1>15 DEF Asked
    <3>2. told[p] \cup {n} \in SUBSET Names
      BY <1>0, <2>2
    <3> QED BY <1>0, <3>1, <3>2
  <2> QED BY <1>0, <1>15, <2>1, <2>3, CallTyped DEF Asked
<1>16. ASSUME NEW p \in Pcbs, IsAnswered(p) PROVE RestTyped' /\ pcb' = ByPcb'
  BY <1>0, <1>16 DEF IsAnswered, ByPcb
<1>17. ASSUME NEW p \in Pcbs, TxHandle(p) PROVE RestTyped' /\ pcb' = ByPcb'
  <2>1. pcb' = ByPcb'
    BY <1>0, <1>17 DEF TxHandle, ByPcb
  <2>2. Tells(Head(pcb[p].queue)) \subseteq Names
    <3>1. pcb[p].queue \in Seq(PacketType) /\ pcb[p].queue # <<>>
      BY <1>0, <1>17, PcbFields DEF TxHandle
    <3>2. Head(pcb[p].queue) \in PacketType
      BY <3>1, HeadTail
    <3> QED BY <3>2, PacketFields DEF Tells
  <2>3. told' \in [Pcbs -> SUBSET Names]
    BY <1>0, <1>17, <2>2 DEF TxHandle
  <2>4. asked' \in [Pcbs -> [Names -> 0..3]]
    <3> DEFINE q == Head(pcb[p].queue)
               more == [n \in Names |-> IF n \in q.asks /\ asked[p][n] < 3
                                         THEN asked[p][n] + 1 ELSE asked[p][n]]
    <3>1. asked' = [asked EXCEPT ![p] = more] \/ asked' = asked
      BY <1>17 DEF TxHandle
    <3>2. more \in [Names -> 0..3]
      BY <1>0
    <3> HIDE DEF more
    <3> QED BY <1>0, <3>1, <3>2
  <2> QED BY <1>0, <1>17, <2>1, <2>3, <2>4 DEF TxHandle
<1> QED BY <1>1, <1>2, <1>3, <1>4, <1>5, <1>6, <1>7, <1>8, <1>9, <1>10, <1>11, <1>12, <1>13,
           <1>14, <1>15, <1>16, <1>17
        DEF PcbNext, ClientAction, SystemEvent, Receives, Transmits

\* What every proof of a step starts from.
LEMMA InvFacts ==
  ASSUME PcbInv
  PROVE  /\ RestTyped /\ pcb \in [Pcbs -> PcbType]
         /\ services \in SUBSET Services /\ hostname \in BOOLEAN
         /\ \A p \in Pcbs : Sound(pcb[p], services, hostname)
         /\ \A p \in Pcbs : Kept(pcb[p], pcb[p], services, hostname)
<1>1. \A p \in Pcbs : Sound(pcb[p], services, hostname)
  BY DEF PcbInv, AllSound
<1> QED BY <1>1, KeptSame DEF PcbInv, PcbTypeOK, RestTyped

\* With a name, a pcb is as sound as without.
LEMMA SoundNamed ==
  ASSUME NEW P, NEW svc, NEW named \in BOOLEAN, Sound(P, svc, named)
  PROVE  Sound(P, svc, TRUE)
BY DEF Sound

\* A pcb that receives is ready.
LEMMA ReceivedReady ==
  ASSUME Apart, NEW p \in Pcbs, Received(p)
  PROVE  pcb[p].ready
BY DEF Apart, Received

\* _mdns_probe_all_pcbs, for some names.
LEMMA ProbeAllKept ==
  ASSUME PcbInv, hostname' = hostname, NEW svc \in SUBSET Services, services \subseteq svc,
         NEW ss \in SUBSET svc, NEW ip \in BOOLEAN, ss \cup HostIf(ip) # {},
         NEW clear \in BOOLEAN, NEW p \in Pcbs
  PROVE  Kept(ProbeAll(ss, ip, clear)[p], pcb[p], svc, hostname')
<1>1. Sound(pcb[p], svc, hostname') /\ hostname' \in BOOLEAN
  BY InvFacts, SoundOfMore
<1>2. Kept(IF pcb[p].ready
           THEN InitProbe(IF clear THEN [pcb[p] EXCEPT !.probing = {}, !.running = FALSE]
                                   ELSE pcb[p], ss, ip)
           ELSE pcb[p], pcb[p], svc, hostname')
  BY <1>1, ProbedSound
<1> QED BY <1>2 DEF ProbeAll

\* All names are probed for again on all pcbs.
LEMMA RestartAllKept ==
  ASSUME PcbInv, hostname' = TRUE, NEW p \in Pcbs
  PROVE  Kept(RestartAll[p], pcb[p], services, hostname')
<1>1. Sound(pcb[p], services, hostname) /\ hostname \in BOOLEAN /\ services \in SUBSET Services
  BY InvFacts
<1>2. Kept(IF pcb[p].ready
           THEN InitProbe([pcb[p] EXCEPT !.probing = {}, !.running = FALSE], services, TRUE)
           ELSE [pcb[p] EXCEPT !.queue = <<>>], pcb[p], services, hostname')
  BY <1>1, RestartedSound
<1> QED BY <1>2 DEF RestartAll

\* The same for the services named after the default instance.
LEMMA RestartNoInstanceKept ==
  ASSUME PcbInv, hostname' = hostname, NEW p \in Pcbs
  PROVE  Kept(RestartNoInstance[p], pcb[p], services, hostname')
<1>1. CASE NoInstance = {}
  BY <1>1, InvFacts DEF RestartNoInstance
<1>2. CASE NoInstance # {}
  <2>1. NoInstance \in SUBSET services /\ services \in SUBSET Services
    BY InvFacts DEF NoInstance
  <2>2. NoInstance \cup HostIf(FALSE) # {}
    BY <1>2
  <2>3. Kept(ProbeAll(NoInstance, FALSE, TRUE)[p], pcb[p], services, hostname')
    BY <2>1, <2>2, ProbeAllKept
  <2> QED BY <1>2, <2>3 DEF RestartNoInstance
<1> QED BY <1>1, <1>2

\* A pcb that is ready probes for one more service, or for the host.
LEMMA ReprobeKept ==
  ASSUME PcbInv, hostname' = hostname, NEW o \in Pcbs, pcb[o].ready,
         NEW ss \in SUBSET services, NEW ip \in BOOLEAN, ss \cup HostIf(ip) # {},
         NEW p \in Pcbs
  PROVE  Kept(Reprobe(o, ss, ip)[p], pcb[p], services, hostname')
<1>1. CASE p # o
  BY <1>1, InvFacts DEF Reprobe
<1>2. CASE p = o
  <2>1. /\ pcb[o] \in PcbType /\ hostname' \in BOOLEAN /\ services \in SUBSET Services
        /\ Sound(pcb[o], services, hostname')
    BY InvFacts
  <2>2. Kept(IF pcb[o].ready
             THEN InitProbe(IF FALSE THEN [pcb[o] EXCEPT !.probing = {}, !.running = FALSE]
                                     ELSE pcb[o], ss, ip)
             ELSE pcb[o], pcb[o], services, hostname')
    BY <2>1, ProbedSound
  <2>3. Reprobe(o, ss, ip)[p] = InitProbe(pcb[o], ss, ip)
    BY <1>2, InvFacts DEF Reprobe
  <2> QED BY <1>2, <2>2, <2>3
<1> QED BY <1>1, <1>2

\* _mdns_announce_pcb on a pcb.
LEMMA AnnouncePcbKept ==
  ASSUME PcbInv, hostname' = hostname, NEW ss \in SUBSET services, NEW ip \in BOOLEAN,
         ss \cup HostIf(ip) # {}, NEW k \in Nat, NEW p \in Pcbs
  PROVE  Kept(AnnouncePcb(pcb[p], ss, ip, k), pcb[p], services, hostname')
<1>1. /\ hostname' \in BOOLEAN /\ services \in SUBSET Services
      /\ Sound(pcb[p], services, hostname')
  BY InvFacts
<1> QED BY <1>1, AnnouncePcbSound

LEMMA BoundIsNat == \A k \in 0..MaxAnswers : k \in Nat
BY PcbAssumption

-----------------------------------------------------------------------------
(* Every step keeps the invariant.                                         *)

LEMMA ClientSound ==
  ASSUME PcbInv, ClientAction
  PROVE  \A p \in Pcbs : Kept(pcb'[p], pcb[p], services', hostname')
<1> SUFFICES ASSUME NEW p \in Pcbs PROVE Kept(pcb'[p], pcb[p], services', hostname')
  OBVIOUS
<1>1. CASE HostnameSet
  BY <1>1, RestartAllKept DEF HostnameSet
<1>2. CASE InstanceSet
  BY <1>2, RestartNoInstanceKept DEF InstanceSet
<1>3. CASE ServicesClear
  <2>1. Kept(RemoveServices(pcb[p], services), pcb[p], services \ services, hostname)
    BY InvFacts, RemoveServicesSound
  <2> QED BY <1>3, <2>1 DEF ServicesClear
<1>4. ASSUME NEW s \in Services, ServiceAdd(s) PROVE Kept(pcb'[p], pcb[p], services', hostname')
  <2>1. services' \in SUBSET Services /\ services \subseteq services' /\ {s} \in SUBSET services'
    BY <1>4, InvFacts DEF ServiceAdd
  <2>2. {s} \cup HostIf(FALSE) # {} /\ hostname' = hostname /\ pcb' = ProbeAll({s}, FALSE, FALSE)
    BY <1>4 DEF ServiceAdd
  <2> QED BY <2>1, <2>2, ProbeAllKept
<1>5. ASSUME NEW s \in Services, ServiceInstanceSet(s)
      PROVE  Kept(pcb'[p], pcb[p], services', hostname')
  <2>1. services' = services /\ services \in SUBSET Services /\ {s} \in SUBSET services
    BY <1>5, InvFacts DEF ServiceInstanceSet
  <2>2. {s} \cup HostIf(FALSE) # {} /\ hostname' = hostname /\ pcb' = ProbeAll({s}, FALSE, FALSE)
    BY <1>5 DEF ServiceInstanceSet
  <2>3. Kept(ProbeAll({s}, FALSE, FALSE)[p], pcb[p], services, hostname')
    BY <2>1, <2>2, ProbeAllKept
  <2> QED BY <2>1, <2>2, <2>3
<1>6. ASSUME NEW s \in Services, ServiceUpdate(s) PROVE Kept(pcb'[p], pcb[p], services', hostname')
  <2>1. PICK ip \in BOOLEAN, k \in 0..MaxAnswers :
          pcb' = [o \in Pcbs |-> AnnouncePcb(pcb[o], {s}, ip, k)]
    BY <1>6 DEF ServiceUpdate
  <2>2. services' = services /\ hostname' = hostname /\ {s} \in SUBSET services
    BY <1>6 DEF ServiceUpdate
  <2>3. {s} \cup HostIf(ip) # {} /\ k \in Nat
    BY BoundIsNat
  <2>4. Kept(AnnouncePcb(pcb[p], {s}, ip, k), pcb[p], services, hostname')
    BY <2>2, <2>3, AnnouncePcbKept
  <2> QED BY <2>1, <2>2, <2>4
<1>7. ASSUME NEW s \in Services, ServiceDel(s) PROVE Kept(pcb'[p], pcb[p], services', hostname')
  <2>1. {s} \in SUBSET services
    BY <1>7 DEF ServiceDel
  <2>2. Kept(RemoveServices(pcb[p], {s}), pcb[p], services \ {s}, hostname)
    BY <2>1, InvFacts, RemoveServicesSound
  <2> QED BY <1>7, <2>2 DEF ServiceDel
<1> QED BY <1>1, <1>2, <1>3, <1>4, <1>5, <1>6, <1>7 DEF ClientAction

LEMMA ReceivesSound ==
  ASSUME PcbInv, Apart, Receives, \A p \in Pcbs : ~IsDuplicate(p)
  PROVE  \A p \in Pcbs : Kept(pcb'[p], pcb[p], services', hostname')
<1> SUFFICES ASSUME NEW p \in Pcbs PROVE Kept(pcb'[p], pcb[p], services', hostname')
  OBVIOUS
<1>1. ASSUME NEW o \in Pcbs, NEW s \in Services, LosesService(o, s)
      PROVE  Kept(pcb'[p], pcb[p], services', hostname')
  <2>1. /\ services' = services /\ hostname' = hostname /\ hostname
        /\ {s} \in SUBSET services /\ {s} # {} /\ Received(o)
    BY <1>1 DEF LosesService
  <2>2. pcb[o].ready
    BY <2>1, ReceivedReady
  <2>3. services \in SUBSET Services /\ {s} \cup HostIf(FALSE) # {}
    BY InvFacts
  <2>4. \/ pcb' = ProbeAll({s}, FALSE, FALSE) \/ pcb' = RestartNoInstance
        \/ pcb' = RestartAll \/ pcb' = Reprobe(o, {s}, FALSE)
    BY <1>1 DEF LosesService
  <2>5. Kept(ProbeAll({s}, FALSE, FALSE)[p], pcb[p], services, hostname')
    BY <2>1, <2>3, ProbeAllKept
  <2>6. Kept(RestartNoInstance[p], pcb[p], services, hostname')
    BY <2>1, RestartNoInstanceKept
  <2>7. Kept(RestartAll[p], pcb[p], services, hostname')
    BY <2>1, InvFacts, RestartAllKept
  <2>8. Kept(Reprobe(o, {s}, FALSE)[p], pcb[p], services, hostname')
    BY <2>1, <2>2, <2>3, ReprobeKept
  <2> QED BY <2>1, <2>4, <2>5, <2>6, <2>7, <2>8
<1>2. ASSUME NEW o \in Pcbs, NEW s \in Services, TxtDiffers(o, s)
      PROVE  Kept(pcb'[p], pcb[p], services', hostname')
  <2>1. /\ services' = services /\ hostname' = hostname /\ {s} \in SUBSET services
        /\ Received(o) /\ pcb' = Reprobe(o, {s}, TRUE)
    BY <1>2 DEF TxtDiffers
  <2>2. pcb[o].ready /\ {s} \cup HostIf(TRUE) # {}
    BY <2>1, ReceivedReady
  <2>3. Kept(Reprobe(o, {s}, TRUE)[p], pcb[p], services, hostname')
    BY <2>1, <2>2, ReprobeKept
  <2> QED BY <2>1, <2>3
<1>3. ASSUME NEW o \in Pcbs, LosesHost(o) PROVE Kept(pcb'[p], pcb[p], services', hostname')
  <2>1. /\ services' = services /\ hostname' = hostname /\ hostname
        /\ Received(o) /\ (pcb' = Reprobe(o, {}, TRUE) \/ pcb' = RestartAll)
    BY <1>3 DEF LosesHost
  <2>2. pcb[o].ready /\ {} \cup HostIf(TRUE) # {} /\ {} \in SUBSET services
    BY <2>1, ReceivedReady DEF HostIf
  <2>3. Kept(Reprobe(o, {}, TRUE)[p], pcb[p], services, hostname')
    BY <2>1, <2>2, ReprobeKept
  <2>4. Kept(RestartAll[p], pcb[p], services, hostname')
    BY <2>1, InvFacts, RestartAllKept
  <2> QED BY <2>1, <2>3, <2>4
<1>4. ASSUME NEW o \in Pcbs, Asked(o) PROVE Kept(pcb'[p], pcb[p], services', hostname')
  <2>1. /\ services' = services /\ hostname' = hostname /\ hostname /\ Received(o)
        /\ Announcing(pcb[o]) \/ pcb[o].state = "RUNNING"
    BY <1>4 DEF Asked
  <2>2. hostname' = TRUE /\ pcb[o].ready
    BY <2>1, InvFacts, ReceivedReady
  <2>3. CASE pcb' = pcb
    BY <2>1, <2>3, InvFacts
  <2>4. ASSUME NEW n \in services \cup {Host}, NEW k \in 0..MaxAnswers,
               pcb' = [pcb EXCEPT ![o].queue = Put(@, Packet({}, {}, {n}, {}, TRUE), k)]
        PROVE  Kept(pcb'[p], pcb[p], services', hostname')
    <3>1. CASE p # o
      BY <2>1, <2>4, <3>1, InvFacts
    <3>2. CASE p = o
      <4>1. Sound(pcb[o], services, TRUE) /\ services \in SUBSET Services /\ k \in Nat
        BY InvFacts, SoundNamed, BoundIsNat
      <4>2. Kept([pcb[o] EXCEPT !.queue = Put(@, Packet({}, {}, {n}, {}, TRUE), k)],
                 pcb[o], services, TRUE)
        BY <2>1, <2>2, <4>1, AnswerSound
      <4>3. pcb'[p] = [pcb[o] EXCEPT !.queue = Put(@, Packet({}, {}, {n}, {}, TRUE), k)]
        BY <2>4, <3>2, InvFacts
      <4> QED BY <2>1, <2>2, <3>2, <4>2, <4>3
    <3> QED BY <3>1, <3>2
  <2> QED BY <1>4, <2>3, <2>4 DEF Asked
<1>5. ASSUME NEW o \in Pcbs, IsAnswered(o) PROVE Kept(pcb'[p], pcb[p], services', hostname')
  <2>1. PICK n \in Names :
          pcb' = [pcb EXCEPT ![o].queue = [i \in DOMAIN @ |-> Withdrawn(@[i], n)]]
    BY <1>5 DEF IsAnswered
  <2>2. /\ services' = services /\ hostname' = hostname
        /\ \E i \in DOMAIN pcb[o].queue : pcb[o].queue[i].distributed
    BY <1>5 DEF IsAnswered
  <2>3. CASE p # o
    BY <2>1, <2>2, <2>3, InvFacts
  <2>4. CASE p = o
    <3>1. Sound(pcb[o], services, hostname) /\ services \in SUBSET Services
      BY InvFacts
    <3>2. Kept([pcb[o] EXCEPT !.queue = [i \in DOMAIN @ |-> Withdrawn(@[i], n)]],
               pcb[o], services, hostname)
      BY <2>2, <3>1, WithdrawnSound
    <3>3. pcb'[p] = [pcb[o] EXCEPT !.queue = [i \in DOMAIN @ |-> Withdrawn(@[i], n)]]
      BY <2>1, <2>4, InvFacts
    <3> QED BY <2>2, <2>4, <3>2, <3>3
  <2> QED BY <2>3, <2>4
<1> QED BY <1>1, <1>2, <1>3, <1>4, <1>5 DEF Receives

\* An interface comes up.
LEMMA EnableSound ==
  ASSUME PcbInv, NEW p \in Pcbs, Enable(p)
  PROVE  AllSound' /\ DuplicateHasStandIn'
<1>0. services' = services /\ hostname' = hostname
  BY DEF Enable
<1>1. CASE pcb' = pcb
  BY <1>0, <1>1, InvFacts, AllKept
<1>2. CASE pcb' = [pcb EXCEPT ![p] = Enabled(@)]
  <2>1. pcb'[p] = Enabled(pcb[p]) /\ \A x \in Pcbs \ {p} : pcb'[x] = pcb[x]
    BY <1>2, InvFacts
  <2>2. Sound(pcb'[p], services', hostname') /\ pcb'[p].ready
    BY <1>0, <2>1, InvFacts, EnabledSound
  <2>3. AllSound'
    BY <1>0, <2>1, <2>2, InvFacts DEF AllSound
  <2>4. ASSUME NEW x \in Pcbs, pcb'[x].state = "DUP" PROVE \E o \in Others(x) : pcb'[o].ready
    <3>1. x # p
      BY <2>2, <2>4 DEF Sound, Form
    <3>2. PICK o \in Others(x) : pcb[o].ready
      BY <2>1, <2>4, <3>1 DEF PcbInv, DuplicateHasStandIn
    <3> QED BY <2>1, <2>2, <3>2 DEF Others
  <2> QED BY <2>3, <2>4 DEF DuplicateHasStandIn
<1> QED BY <1>1, <1>2 DEF Enable

\* An interface goes down, and what was set aside for it takes over.
LEMMA DisableSound ==
  ASSUME PcbInv, Apart, NEW p \in Pcbs, Disable(p)
  PROVE  AllSound' /\ DuplicateHasStandIn'
<1>0. services' = services /\ hostname' = hostname
  BY DEF Disable
<1>1. PICK up \in BOOLEAN :
        pcb' = [o \in Pcbs |-> IF o = p THEN Disabled(pcb[p]) ELSE TakesOver(o, p, up)]
  BY DEF Disable
<1>2. pcb'[p] = Disabled(pcb[p]) /\ \A o \in Pcbs \ {p} : pcb'[o] = TakesOver(o, p, up)
  BY <1>1
<1>3. /\ services \in SUBSET Services /\ hostname \in BOOLEAN
      /\ \A o \in Pcbs : Sound(pcb[o], services, hostname)
  BY InvFacts
<1>4. Sound(pcb'[p], services', hostname') /\ pcb'[p].state = "OFF"
  <2>1. CASE pcb[p].ready
    <3>1. [Off EXCEPT !.state = "OFF"] = Off
      BY DEF Off
    <3>2. Off \in PcbType /\ Unused(Off)
      BY <3>1, OffSound
    <3>3. Off.state = "OFF" /\ pcb'[p] = Off
      BY <1>2, <2>1 DEF Off, Disabled, Deinit
    <3> QED BY <1>0, <1>3, <3>2, <3>3, UnusedSound
  <2>2. CASE ~pcb[p].ready
    <3>1. pcb'[p] = [pcb[p] EXCEPT !.state = "OFF"]
      BY <1>2, <2>2 DEF Disabled
    <3>2. Sound([pcb[p] EXCEPT !.state = "OFF"], services, hostname)
          /\ [pcb[p] EXCEPT !.state = "OFF"].state = "OFF"
      BY <1>3, <2>2, LetOff
    <3> QED BY <1>0, <3>1, <3>2
  <2> QED BY <2>1, <2>2
<1>5. ASSUME NEW o \in Pcbs \ {p}
      PROVE  /\ Sound(pcb'[o], services', hostname')
             /\ StandsIn(o, p) => pcb'[o].state # "DUP"
             /\ ~StandsIn(o, p) => pcb'[o] = pcb[o]
  <2>1. CASE ~StandsIn(o, p)
    BY <1>0, <1>2, <1>3, <2>1 DEF TakesOver
  <2>2. CASE StandsIn(o, p)
    <3> DEFINE Q == [pcb[o] EXCEPT !.state = "OFF"]
    <3>1. Sound(pcb[o], services, hostname) /\ ~pcb[o].ready
      BY <1>3, <2>2 DEF StandsIn, Sound, Form
    <3>2. Sound(Q, services, hostname) /\ Q.state = "OFF"
      BY <1>3, <3>1, LetOff
    <3> HIDE DEF Q
    <3>3. Sound(Enabled(Q), services, hostname) /\ Enabled(Q).ready
      BY <1>0, <1>3, <3>2, EnabledSound
    <3>4. Enabled(Q).state # "DUP"
      BY <3>3 DEF Sound, Form
    <3>5. pcb'[o] = Q \/ pcb'[o] = Enabled(Q)
      BY <1>2, <2>2 DEF TakesOver, Q
    <3> QED BY <1>0, <2>2, <3>2, <3>3, <3>4, <3>5
  <2> QED BY <2>1, <2>2
<1>6. AllSound'
  BY <1>4, <1>5 DEF AllSound
<1>7. ASSUME NEW x \in Pcbs, pcb'[x].state = "DUP" PROVE \E o \in Others(x) : pcb'[o].ready
  <2>1. x # p /\ ~StandsIn(x, p) /\ pcb[x].state = "DUP"
    BY <1>4, <1>5, <1>7
  <2>2. x \in Others(p)
    BY <2>1 DEF Apart
  <2>3. ~pcb[p].ready
    BY <2>1, <2>2 DEF StandsIn
  <2>4. PICK o \in Others(x) : pcb[o].ready
    BY <2>1 DEF PcbInv, DuplicateHasStandIn
  <2>5. o \in Pcbs \ {p} /\ ~StandsIn(o, p)
    BY <2>3, <2>4 DEF Others, StandsIn
  <2> QED BY <1>5, <2>4, <2>5
<1> QED BY <1>6, <1>7 DEF DuplicateHasStandIn

\* One of two interfaces is set aside.
LEMMA IsDuplicateSound ==
  ASSUME PcbInv, Apart, NEW p \in Pcbs, IsDuplicate(p)
  PROVE  AllSound' /\ DuplicateHasStandIn'
<1>0. services' = services /\ hostname' = hostname /\ hostname /\ pcb[p].ready
  BY ReceivedReady DEF IsDuplicate
<1> DEFINE D == [Off EXCEPT !.state = "DUP"]
<1>1. PICK o \in Others(p), k \in 0..MaxAnswers :
        /\ pcb[o].ready
        /\ pcb' = [pcb EXCEPT
             ![p] = [IF @.ready THEN Deinit(@) ELSE @ EXCEPT !.state = "DUP"],
             ![o] = AnnouncePcb(@, {}, TRUE, k)]
  BY DEF IsDuplicate
<1>2. o \in Pcbs /\ o # p /\ k \in Nat
  BY BoundIsNat DEF Others
<1>3. /\ pcb'[p] = D /\ pcb'[o] = AnnouncePcb(pcb[o], {}, TRUE, k)
      /\ \A x \in Pcbs \ {p, o} : pcb'[x] = pcb[x]
  BY <1>0, <1>1, <1>2, InvFacts DEF Deinit
<1> HIDE DEF D
<1>4. Sound(pcb'[p], services', hostname')
  <2>1. D \in PcbType /\ Unused(D)
    BY OffSound DEF D
  <2>2. hostname' = TRUE
    BY <1>0, InvFacts
  <2> QED BY <1>3, <2>1, <2>2, UnusedSound
<1>5. Kept(pcb'[o], pcb[o], services', hostname')
  <2>1. {} \in SUBSET services /\ {} \cup HostIf(TRUE) # {}
    BY DEF HostIf
  <2>2. Kept(AnnouncePcb(pcb[o], {}, TRUE, k), pcb[o], services, hostname')
    BY <1>0, <1>2, <2>1, AnnouncePcbKept
  <2> QED BY <1>0, <1>3, <2>2
<1>6. Sound(pcb'[o], services', hostname') /\ pcb'[o].ready
  BY <1>1, <1>5 DEF Kept
<1>7. AllSound'
  BY <1>0, <1>3, <1>4, <1>6, InvFacts DEF AllSound
<1>8. ASSUME NEW x \in Pcbs, pcb'[x].state = "DUP" PROVE \E y \in Others(x) : pcb'[y].ready
  <2>1. CASE x = p
    BY <1>1, <1>6, <2>1
  <2>2. CASE x # p
    <3>1. x # o
      BY <1>6, <1>8 DEF Sound, Form
    <3>2. o \in Others(x)
      BY <1>1, <1>2, <3>1 DEF Others
    <3> QED BY <1>6, <3>2
  <2> QED BY <2>1, <2>2
<1> QED BY <1>7, <1>8 DEF DuplicateHasStandIn

\* The host is announced, or a packet is handled.
LEMMA OneKept ==
  ASSUME PcbInv, services' = services, hostname' = hostname, NEW p \in Pcbs,
         \A x \in Pcbs \ {p} : pcb'[x] = pcb[x],
         Kept(pcb'[p], pcb[p], services', hostname')
  PROVE  AllSound' /\ DuplicateHasStandIn'
<1>1. \A x \in Pcbs : Kept(pcb'[x], pcb[x], services', hostname')
  BY InvFacts
<1> QED BY <1>1, AllKept

LEMMA AnnounceEventSound ==
  ASSUME PcbInv, NEW p \in Pcbs, AnnounceEvent(p)
  PROVE  AllSound' /\ DuplicateHasStandIn'
<1>0. services' = services /\ hostname' = hostname
  BY DEF AnnounceEvent
<1>1. PICK k \in 0..MaxAnswers : pcb' = [pcb EXCEPT ![p] = AnnouncePcb(@, {}, TRUE, k)]
  BY DEF AnnounceEvent
<1>2. pcb'[p] = AnnouncePcb(pcb[p], {}, TRUE, k) /\ \A x \in Pcbs \ {p} : pcb'[x] = pcb[x]
  BY <1>1, InvFacts
<1>3. {} \in SUBSET services /\ {} \cup HostIf(TRUE) # {} /\ k \in Nat
  BY BoundIsNat DEF HostIf
<1>4. Kept(AnnouncePcb(pcb[p], {}, TRUE, k), pcb[p], services, hostname')
  BY <1>0, <1>3, AnnouncePcbKept
<1> QED BY <1>0, <1>2, <1>4, OneKept

LEMMA TxHandleSound ==
  ASSUME PcbInv, NEW p \in Pcbs, TxHandle(p)
  PROVE  AllSound' /\ DuplicateHasStandIn'
<1>0. services' = services /\ hostname' = hostname /\ pcb[p].queue # <<>>
  BY DEF TxHandle
<1>1. PICK k \in 0..MaxAnswers : pcb' = [pcb EXCEPT ![p] = Handled(@, k)]
  BY DEF TxHandle
<1>2. pcb'[p] = Handled(pcb[p], k) /\ \A x \in Pcbs \ {p} : pcb'[x] = pcb[x]
  BY <1>1, InvFacts
<1>3. Kept(Handled(pcb[p], k), pcb[p], services, hostname)
  BY <1>0, InvFacts, BoundIsNat, HandledSound
<1> QED BY <1>0, <1>2, <1>3, OneKept

\* The invariant of the pcbs is inductive.
LEMMA PcbStepInv ==
  ASSUME PcbInv, Apart, [PcbNext]_pcbVars
  PROVE  PcbInv'
<1>1. CASE UNCHANGED pcbVars
  BY <1>1 DEF PcbInv, pcbVars, PcbTypeOK, AllSound, DuplicateHasStandIn
<1>2. CASE PcbNext
  <2>1. AllSound' /\ DuplicateHasStandIn'
    <3>1. CASE ClientAction
      BY <3>1, ClientSound, AllKept
    <3>2. CASE SystemEvent
      BY <3>2, EnableSound, DisableSound, AnnounceEventSound DEF SystemEvent
    <3>3. CASE Receives
      <4>1. CASE \E p \in Pcbs : IsDuplicate(p)
        BY <4>1, IsDuplicateSound
      <4>2. CASE \A p \in Pcbs : ~IsDuplicate(p)
        BY <3>3, <4>2, ReceivesSound, AllKept
      <4> QED BY <4>1, <4>2
    <3>4. CASE Transmits
      BY <3>4, TxHandleSound DEF Transmits
    <3> QED BY <1>2, <3>1, <3>2, <3>3, <3>4 DEF PcbNext
  <2>2. RestTyped' /\ pcb' = ByPcb'
    BY <1>2, RestStep DEF PcbInv
  <2>3. pcb' \in [Pcbs -> PcbType]
    <3>1. pcb' = [p \in Pcbs |-> pcb'[p]]
      BY <2>2 DEF ByPcb
    <3>2. \A p \in Pcbs : pcb'[p] \in PcbType
      BY <2>1 DEF AllSound, Sound, Form
    <3> QED BY <3>1, <3>2
  <2>4. PcbTypeOK'
    BY <2>2, <2>3 DEF PcbTypeOK, RestTyped
  <2> QED BY <2>1, <2>4 DEF PcbInv
<1> QED BY <1>1, <1>2

\* What is sound is named, and refers to services there are.
LEMMA PcbInvSays == PcbInv => RemovedIsNotMentioned
<1> SUFFICES ASSUME PcbInv, NEW p \in Pcbs
             PROVE  /\ pcb[p].probing # {} => Probing(pcb[p])
                    /\ Mentioned(pcb[p]) \subseteq services
  BY DEF RemovedIsNotMentioned, ListIsOfProbing
<1>1. Form(pcb[p]) /\ Within(pcb[p], services)
  BY InvFacts DEF Sound
<1>2. pcb[p].probing # {} => Probing(pcb[p])
  BY <1>1 DEF Form, Aims, Probing, Probes
<1>3. Mentioned(pcb[p]) \subseteq services
  BY <1>1 DEF Within, Mentioned, ServicesOf
<1> QED BY <1>2, <1>3

(* THEOREM: every pcb is sound at all times: one that probes has its probe *)
(* as its only packet, for just the names it probes for; one that announces*)
(* has an announcement; one that is not ready has nothing; and what is set *)
(* aside as a duplicate has another pcb in use.                            *)
THEOREM PcbsAreSound == Apart => (PcbSpec => []PcbInv)
<1> SUFFICES ASSUME Apart PROVE PcbSpec => []PcbInv
  OBVIOUS
<1>1. PcbInv /\ [PcbNext]_pcbVars => PcbInv'
  BY PcbStepInv
<1> QED BY <1>1, PcbInitInv, PTL DEF PcbSpec

(* THEOREM: no list of a pcb and no packet of it refers to a service that  *)
(* _mdns_remove_scheduled_service_packets was called for and that is freed.*)
THEOREM RemovedServicesAreNotMentioned == Apart => (PcbSpec => []RemovedIsNotMentioned)
<1> SUFFICES ASSUME Apart PROVE PcbSpec => []RemovedIsNotMentioned
  OBVIOUS
<1> QED BY PcbsAreSound, PcbInvSays, PTL

-----------------------------------------------------------------------------
(* Three probes for every name.                                            *)

\* a, the probes sent for each name, is three or the name is probed for; and a
\* pcb that has sent its first or its second probe has sent it for all of them.
Count(P, a, ss) ==
  /\ \A n \in ss \cup {Host} : a[n] = 3 \/ n \in Aims(P)
  /\ P.state = "PROBE_2" => \A n \in Aims(P) : a[n] >= 1
  /\ P.state = "PROBE_3" => \A n \in Aims(P) : a[n] >= 2

OwnInv == services \subseteq own

\* What every name needs once the host has one.
ClaimInv ==
  hostname => \A p \in Pcbs : pcb[p].ready => Count(pcb[p], asked[p], services)

\* R starts to probe for the names in ns.
Claims(R, ns) == R.state = "PROBE_1" /\ ns \subseteq Aims(R)

LEMMA InitProbeClaims ==
  ASSUME NEW P \in PcbType, NEW ss \in SUBSET Services, NEW ip \in BOOLEAN, hostname'
  PROVE  /\ Claims(InitProbe(P, ss, ip), ss \cup HostIf(ip))
         /\ P.probing = {} \/ Probing(P) => Aims(P) \subseteq Aims(InitProbe(P, ss, ip))
<1> DEFINE all == IF Probing(P) THEN ss \cup P.probing ELSE ss
           i == P.probeIp \/ ip
           R == InitProbe(P, ss, ip)
<1>1. Starts(R, P, all, i)
  BY InitProbeStarts
<1>2. ss \subseteq all /\ (ip => i) /\ (P.probeIp => i)
      /\ (P.probing = {} \/ Probing(P) => P.probing \subseteq all)
  OBVIOUS
<1> HIDE DEF all, i, R
<1>3. R.state = "PROBE_1" /\ Aims(R) = all \cup HostIf(i)
  BY <1>1 DEF Starts, Aims
<1>4. Claims(R, ss \cup HostIf(ip))
  BY <1>2, <1>3 DEF Claims, HostIf
<1>5. P.probing = {} \/ Probing(P) => Aims(P) \subseteq Aims(R)
  BY <1>2, <1>3 DEF Aims, HostIf
<1> QED BY <1>4, <1>5 DEF R

\* A sound pcb has a list only while it probes.
LEMMA SoundProbing ==
  ASSUME NEW P, NEW svc, NEW named, Sound(P, svc, named)
  PROVE  P \in PcbType /\ (P.probing = {} \/ Probing(P))
BY DEF Sound, Form, Aims, Probing, Probes

\* The names that are there after a step are claimed by it, or were counted.
LEMMA CountClaimed ==
  ASSUME NEW P, NEW R, NEW a, NEW b, NEW ss, NEW more, NEW ns, Claims(R, ns),
         \A n \in more \cup {Host} :
           n \in ns \/ (Count(P, a, ss) /\ n \in ss \cup {Host} /\ b[n] = a[n]
                        /\ Aims(P) \subseteq Aims(R))
  PROVE  Count(R, b, more)
BY DEF Count, Claims

\* A pcb that becomes Claims for all names.
LEMMA CountAll ==
  ASSUME NEW R, NEW b, NEW ss, Claims(R, ss \cup {Host})
  PROVE  Count(R, b, ss)
BY DEF Count, Claims

\* An announcement does without no probe.
LEMMA AnnouncePcbCount ==
  ASSUME NEW P, NEW svc \in SUBSET Services, hostname', Sound(P, svc, TRUE),
         NEW ss \in SUBSET svc, NEW ip \in BOOLEAN, NEW k \in Nat, NEW a, Count(P, a, svc)
  PROVE  Count(AnnouncePcb(P, ss, ip, k), a, svc)
<1> DEFINE R == AnnouncePcb(P, ss, ip, k)
<1>0. P \in PcbType /\ (P.probing = {} \/ Probing(P)) /\ ss \in SUBSET Services
  BY SoundProbing
<1>1. CASE P.ready /\ Probing(P)
  <2>1. R = InitProbe(P, ss, ip)
    BY <1>1 DEF AnnouncePcb
  <2>2. Claims(R, ss \cup HostIf(ip)) /\ Aims(P) \subseteq Aims(R)
    BY <1>0, <2>1, InitProbeClaims
  <2> HIDE DEF R
  <2>3. Count(R, a, svc)
    BY <2>2, CountClaimed
  <2> QED BY <2>3 DEF R
<1>2. CASE ~(P.ready /\ Probing(P)) /\ R # P
  <2>1. R.state = "ANNOUNCE_1" /\ R.probing = P.probing /\ R.probeIp = P.probeIp
    <3>1. CASE P.ready /\ ~Probing(P) /\ Announcing(P) /\ P.queue # <<>>
      <4> DEFINE qs == [P.queue EXCEPT ![1].answers = @ \cup ss \cup HostIf(ip)]
      <4>1. R = [P EXCEPT !.queue = qs, !.state = "ANNOUNCE_1"]
        BY <3>1 DEF AnnouncePcb
      <4> HIDE DEF qs, R
      <4> QED BY <1>0, <4>1 DEF PcbType
    <3>2. CASE P.ready /\ ~Probing(P) /\ ~(Announcing(P) /\ P.queue # <<>>)
      <4> DEFINE qs == Put(P.queue, AnnouncePacket(ss, ip), k)
      <4>1. R = [P EXCEPT !.queue = qs, !.state = "ANNOUNCE_1"]
        BY <1>2, <3>2 DEF AnnouncePcb
      <4> HIDE DEF qs, R
      <4> QED BY <1>0, <4>1 DEF PcbType
    <3>3. CASE ~P.ready
      BY <1>2, <3>3 DEF AnnouncePcb
    <3> QED BY <1>2, <3>1, <3>2, <3>3
  <2> HIDE DEF R
  <2>2. Count(R, a, svc)
    BY <2>1 DEF Count, Aims
  <2> QED BY <2>2 DEF R
<1>3. CASE R = P
  BY <1>3
<1> QED BY <1>1, <1>2, <1>3

\* The names that are left after a removal are probed for as before.
LEMMA RemoveServicesCount ==
  ASSUME NEW P, NEW svc, NEW named, Sound(P, svc, named), NEW ss, NEW a, Count(P, a, svc)
  PROVE  Count(RemoveServices(P, ss), a, svc \ ss)
<1> DEFINE R == RemoveServices(P, ss)
<1>0. P \in PcbType
  BY DEF Sound, Form
<1>1. /\ R.probeIp = P.probeIp /\ R.probing = P.probing \ Gone(P, ss)
      /\ R.state = IF Stops(P, ss) THEN "RUNNING" ELSE P.state
  BY <1>0, RemoveServicesIs DEF Removed
<1> HIDE DEF R
<1>2. Aims(R) \subseteq Aims(P) /\ Aims(P) \ ss \subseteq Aims(R) \cup {Host}
      /\ (Host \in Aims(P) => Host \in Aims(R) \/ Host \in P.probing)
  BY <1>1 DEF Aims, Gone, HostIf
<1>3. Host \in Aims(P) => Host \in Aims(R)
  BY <1>0, <1>1, PcbFields, PcbAssumption DEF Aims, HostIf
<1>4. Count(R, a, svc \ ss)
  BY <1>1, <1>2, <1>3 DEF Count
<1> QED BY <1>4 DEF R

\* Each probe that is sent counts for the names the pcb probes for.
LEMMA HandledCount ==
  ASSUME NEW P, NEW svc \in SUBSET Services, NEW named, Sound(P, svc, named), P.queue # <<>>,
         NEW k \in Nat, NEW a \in [Names -> 0..3], NEW b, Count(P, a, svc),
         b = [n \in Names |-> IF n \in Head(P.queue).asks /\ a[n] < 3 THEN a[n] + 1 ELSE a[n]]
  PROVE  Count(Handled(P, k), b, svc)
<1> DEFINE R == Handled(P, k)
           q == Head(P.queue)
           rest == Tail(P.queue)
<1>0. P \in PcbType /\ Form(P) /\ Within(P, svc)
  BY DEF Sound, Form
<1>t. /\ P.state \in States /\ P.ready \in BOOLEAN /\ P.probing \subseteq Services
      /\ P.probeIp \in BOOLEAN /\ P.running \in BOOLEAN /\ P.queue \in Seq(PacketType)
  BY <1>0, PcbFields
<1>1. Aims(P) \subseteq Names /\ svc \cup {Host} \subseteq Names
  BY <1>t DEF Aims, Names, HostIf
<1>2. \A n \in Names : a[n] \in 0..3 /\ b[n] \in 0..3 /\ (a[n] = 3 => b[n] = 3)
                       /\ (n \in q.asks => b[n] = 3 \/ b[n] = a[n] + 1)
  <2> HIDE DEF q
  <2> QED BY DEF q
<1>3. CASE P.running
  <2>1. P.queue = <<q>> /\ q.asks = Aims(P) /\ P.state \in Probes
    BY <1>0, <1>3, Seq1 DEF Form, IsProbe
  <2>2. \A n \in svc \cup {Host} : n \in Aims(P) \/ b[n] = 3
    BY <1>1, <1>2 DEF Count
  <2>3. CASE P.state \in {"PROBE_1", "PROBE_2"}
    <3> DEFINE qs == Put(rest, q, k)
    <3>1. R = [P EXCEPT !.queue = qs, !.state = After[P.state]]
      BY <1>0, <2>3 DEF Handled, PcbType
    <3> HIDE DEF R, qs, q
    <3>2. R.state = After[P.state] /\ R.probing = P.probing /\ R.probeIp = P.probeIp
      BY <1>0, <3>1 DEF PcbType
    <3>3. Aims(R) = Aims(P)
      BY <3>2 DEF Aims
    <3>4. P.state = "PROBE_2" => \A n \in Aims(P) : b[n] >= 2
      BY <1>1, <1>2, <2>1 DEF Count
    <3>5. \A n \in Aims(P) : b[n] >= 1
      BY <1>1, <1>2, <2>1
    <3>6. Count(R, b, svc)
      BY <2>2, <2>3, <3>2, <3>3, <3>4, <3>5, AfterIs DEF Count
    <3> QED BY <3>6 DEF R
  <2>4. CASE P.state = "PROBE_3"
    <3> DEFINE qs == Put(rest, AnnounceFromProbe(q), k)
    <3>1. R = [P EXCEPT !.queue = qs, !.state = "ANNOUNCE_1", !.running = FALSE,
                        !.probeIp = FALSE, !.probing = {}]
      BY <1>0, <2>4, AfterIs DEF Handled, PcbType, EndProbe
    <3> HIDE DEF R, qs, q
    <3>2. R.state = "ANNOUNCE_1"
      BY <1>0, <3>1 DEF PcbType
    <3>3. \A n \in Aims(P) : b[n] = 3
      BY <1>1, <1>2, <2>1, <2>4 DEF Count
    <3>4. Count(R, b, svc)
      BY <2>2, <3>2, <3>3 DEF Count
    <3> QED BY <3>4 DEF R
  <2> QED BY <2>1, <2>3, <2>4 DEF Probes
<1>4. CASE ~P.running
  <2>1. Aims(P) = {} /\ P.state \notin Probes
    BY <1>0, <1>4 DEF Form
  <2>2. \A n \in svc \cup {Host} : b[n] = 3
    BY <1>1, <1>2, <2>1 DEF Count
  <2>3. R.state \notin {"PROBE_2", "PROBE_3"}
    <3> DEFINE qs == IF P.state \in {"ANNOUNCE_1", "ANNOUNCE_2"} THEN Put(rest, q, k) ELSE rest
               st == IF Announcing(P) THEN After[P.state] ELSE P.state
    <3>1. R = [P EXCEPT !.queue = qs, !.state = st]
      BY <1>0, <1>t, <2>1 DEF Handled, PcbType, Probes, Announcing
    <3>2. st \notin {"PROBE_2", "PROBE_3"}
      BY <2>1, AfterIs DEF Probes, Announcing
    <3> HIDE DEF R, qs, st, q
    <3>3. R.state = st
      BY <1>0, <3>1 DEF PcbType
    <3> QED BY <3>2, <3>3
  <2> HIDE DEF R
  <2>4. Count(R, b, svc)
    BY <2>2, <2>3 DEF Count
  <2> QED BY <2>4 DEF R
<1> QED BY <1>t, <1>3, <1>4

\* All services have an instance name of their own.
OwnNames == WithInstance = Services

NamedInv == PcbInv /\ OwnInv /\ ClaimInv

\* What the proof that a step keeps ClaimInv starts from.
LEMMA NamedFacts ==
  ASSUME NamedInv, hostname
  PROVE  /\ hostname = TRUE /\ services \in SUBSET Services /\ NoInstance = {}
         /\ pcb \in [Pcbs -> PcbType] /\ asked \in [Pcbs -> [Names -> 0..3]]
         /\ \A p \in Pcbs : pcb[p] \in PcbType /\ asked[p] \in [Names -> 0..3]
         /\ \A p \in Pcbs : Sound(pcb[p], services, TRUE)
         /\ \A p \in Pcbs : pcb[p].ready => Count(pcb[p], asked[p], services)
BY InvFacts DEF NamedInv, OwnInv, ClaimInv, NoInstance, RestTyped

\* A service keeps its instance name for as long as it is there.
LEMMA OwnStep ==
  ASSUME OwnInv, OwnNames, [PcbNext]_pcbVars
  PROVE  OwnInv'
BY DEF OwnInv, OwnNames, PcbNext, ClientAction, SystemEvent, Receives, Transmits, pcbVars,
       HostnameSet, InstanceSet, ServiceAdd, ServiceInstanceSet, ServiceUpdate, ServiceDel,
       ServicesClear, Enable, Disable, AnnounceEvent, LosesService, LosesHost, TxtDiffers,
       IsDuplicate, Asked, IsAnswered, TxHandle

\* The services in ss are probed for on every pcb that is in use.
LEMMA ProbeAllCount ==
  ASSUME NamedInv, hostname, hostname', NEW svc \in SUBSET Services, NEW ss \in SUBSET svc,
         svc \subseteq services \cup ss, Claim(ss), NEW p \in Pcbs, pcb[p].ready
  PROVE  Count(ProbeAll(ss, FALSE, FALSE)[p], asked'[p], svc)
<1> DEFINE R == InitProbe(pcb[p], ss, FALSE)
<1>1. ProbeAll(ss, FALSE, FALSE)[p] = R
  BY DEF ProbeAll
<1>2. pcb[p] \in PcbType /\ (pcb[p].probing = {} \/ Probing(pcb[p])) /\ ss \in SUBSET Services
  BY NamedFacts, SoundProbing
<1>3. Claims(R, ss \cup HostIf(FALSE)) /\ Aims(pcb[p]) \subseteq Aims(R)
  BY <1>2, InitProbeClaims
<1> HIDE DEF R
<1>4. Claims(R, ss)
  BY <1>3 DEF HostIf, Claims
<1>5. \A n \in svc \cup {Host} : n \in ss \/ (n \in services \cup {Host} /\ asked'[p][n] = asked[p][n])
  BY DEF Claim, Names
<1>6. Count(pcb[p], asked[p], services)
  BY NamedFacts
<1>7. Count(R, asked'[p], svc)
  BY <1>3, <1>4, <1>5, <1>6, CountClaimed
<1> QED BY <1>1, <1>7

LEMMA RestartAllCount ==
  ASSUME PcbInv, hostname', NEW b, NEW p \in Pcbs, pcb[p].ready
  PROVE  Count(RestartAll[p], b, services)
<1> DEFINE Q == [pcb[p] EXCEPT !.probing = {}, !.running = FALSE]
           R == InitProbe(Q, services, TRUE)
<1>1. RestartAll[p] = R
  BY DEF RestartAll
<1>2. Q \in PcbType
  <2> HIDE DEF PacketType, States
  <2> QED BY InvFacts DEF PcbType
<1> HIDE DEF Q
<1>3. Claims(R, services \cup HostIf(TRUE))
  BY <1>2, InvFacts, InitProbeClaims
<1> HIDE DEF R
<1>4. Claims(R, services \cup {Host})
  BY <1>3 DEF HostIf
<1> QED BY <1>1, <1>4, CountAll

LEMMA ReprobeCount ==
  ASSUME NamedInv, hostname, hostname', NEW o \in Pcbs, NEW ss \in SUBSET services,
         NEW ip \in BOOLEAN, NEW p \in Pcbs, pcb[p].ready
  PROVE  Count(Reprobe(o, ss, ip)[p], asked[p], services)
<1>0. Count(pcb[p], asked[p], services)
  BY NamedFacts
<1>1. CASE p # o
  BY <1>0, <1>1, NamedFacts DEF Reprobe
<1>2. CASE p = o
  <2> DEFINE R == InitProbe(pcb[p], ss, ip)
  <2>1. Reprobe(o, ss, ip)[p] = R
    BY <1>2, NamedFacts DEF Reprobe
  <2>2. pcb[p] \in PcbType /\ (pcb[p].probing = {} \/ Probing(pcb[p])) /\ ss \in SUBSET Services
    BY NamedFacts, SoundProbing
  <2>3. Claims(R, ss \cup HostIf(ip)) /\ Aims(pcb[p]) \subseteq Aims(R)
    BY <2>2, InitProbeClaims
  <2> HIDE DEF R
  <2>4. Count(R, asked[p], services)
    BY <1>0, <2>3, CountClaimed
  <2> QED BY <2>1, <2>4
<1> QED BY <1>1, <1>2

LEMMA EnabledCount ==
  ASSUME NEW P \in PcbType, services \in SUBSET Services, hostname', NEW b
  PROVE  Count(Enabled(P), b, services)
<1> DEFINE Q == [P EXCEPT !.ready = TRUE, !.state = IF P.ready THEN P.state ELSE "OFF"]
           R == InitProbe(Q, services, TRUE)
<1>1. Enabled(P) = R
  BY DEF Enabled
<1>2. Q \in PcbType
  <2>1. "OFF" \in States
    BY DEF States
  <2> HIDE DEF PacketType, States
  <2> QED BY <2>1 DEF PcbType
<1> HIDE DEF Q
<1>3. Claims(R, services \cup HostIf(TRUE))
  BY <1>2, InitProbeClaims
<1> HIDE DEF R
<1>4. Claims(R, services \cup {Host})
  BY <1>3 DEF HostIf
<1> QED BY <1>1, <1>4, CountAll

LEMMA ClaimNothing ==
  ASSUME asked \in [Pcbs -> [Names -> 0..3]], Claim({})
  PROVE  asked' = asked
<1>1. \A p \in Pcbs : [n \in Names |-> asked[p][n]] = asked[p]
  OBVIOUS
<1>2. asked' = [p \in Pcbs |-> asked[p]]
  BY <1>1 DEF Claim
<1> QED BY <1>2

\* A pcb that announces, or adds to its announcement.
LEMMA AnnounceCount ==
  ASSUME NamedInv, hostname, hostname', NEW ss \in SUBSET services, NEW ip \in BOOLEAN,
         NEW k \in 0..MaxAnswers, NEW p \in Pcbs, pcb[p].ready
  PROVE  Count(AnnouncePcb(pcb[p], ss, ip, k), asked[p], services)
BY NamedFacts, BoundIsNat, AnnouncePcbCount

\* The actions of clients claim the names they add or change.
LEMMA ClientCount ==
  ASSUME NamedInv, OwnNames, hostname', ClientAction, AllSound', NEW p \in Pcbs, pcb'[p].ready
  PROVE  Count(pcb'[p], asked'[p], services')
<1>0. pcb[p].ready
  <2>1. Kept(pcb'[p], pcb[p], services', hostname')
    BY ClientSound DEF NamedInv
  <2> QED BY <2>1 DEF Kept
<1>1. CASE HostnameSet
  BY <1>0, <1>1, RestartAllCount DEF HostnameSet, NamedInv
<1>2. CASE InstanceSet
  <2>1. hostname /\ services' = services
    BY <1>2 DEF InstanceSet
  <2>2. pcb' = pcb /\ asked' = asked
    BY <1>2, <2>1, NamedFacts, ClaimNothing DEF InstanceSet, RestartNoInstance
  <2> QED BY <1>0, <2>1, <2>2, NamedFacts
<1>3. CASE ServicesClear
  <2>1. hostname /\ services' = services \ services /\ asked' = asked
        /\ pcb'[p] = RemoveServices(pcb[p], services)
    BY <1>3 DEF ServicesClear
  <2>2. Count(pcb[p], asked[p], services) /\ Sound(pcb[p], services, TRUE)
    BY <1>0, <2>1, NamedFacts
  <2>3. Count(RemoveServices(pcb[p], services), asked[p], services \ services)
    BY <2>2, RemoveServicesCount
  <2> QED BY <2>1, <2>3
<1>4. ASSUME NEW s \in Services, ServiceAdd(s) PROVE Count(pcb'[p], asked'[p], services')
  <2>1. /\ hostname /\ services' = services \cup {s} /\ Claim({s})
        /\ pcb' = ProbeAll({s}, FALSE, FALSE)
    BY <1>4 DEF ServiceAdd
  <2>2. services' \in SUBSET Services /\ {s} \in SUBSET services'
    BY <2>1, NamedFacts
  <2> QED BY <1>0, <2>1, <2>2, ProbeAllCount
<1>5. ASSUME NEW s \in Services, ServiceInstanceSet(s)
      PROVE  Count(pcb'[p], asked'[p], services')
  <2>1. /\ hostname /\ services' = services /\ Claim({s})
        /\ pcb' = ProbeAll({s}, FALSE, FALSE) /\ s \in services
    BY <1>5 DEF ServiceInstanceSet
  <2>2. services \in SUBSET Services /\ {s} \in SUBSET services
    BY <2>1, NamedFacts
  <2>3. Count(ProbeAll({s}, FALSE, FALSE)[p], asked'[p], services)
    BY <1>0, <2>1, <2>2, ProbeAllCount
  <2> QED BY <2>1, <2>3
<1>6. ASSUME NEW s \in Services, ServiceUpdate(s) PROVE Count(pcb'[p], asked'[p], services')
  <2>1. /\ hostname /\ services' = services /\ asked' = asked /\ {s} \in SUBSET services
    BY <1>6 DEF ServiceUpdate
  <2>2. PICK ip \in BOOLEAN, k \in 0..MaxAnswers : pcb'[p] = AnnouncePcb(pcb[p], {s}, ip, k)
    BY <1>6 DEF ServiceUpdate
  <2> QED BY <1>0, <2>1, <2>2, AnnounceCount
<1>7. ASSUME NEW s \in Services, ServiceDel(s) PROVE Count(pcb'[p], asked'[p], services')
  <2>1. hostname /\ services' = services \ {s} /\ asked' = asked
        /\ pcb'[p] = RemoveServices(pcb[p], {s})
    BY <1>7 DEF ServiceDel
  <2>2. Count(pcb[p], asked[p], services) /\ Sound(pcb[p], services, TRUE)
    BY <1>0, <2>1, NamedFacts
  <2>3. Count(RemoveServices(pcb[p], {s}), asked[p], services \ {s})
    BY <2>2, RemoveServicesCount
  <2> QED BY <2>1, <2>3
<1> QED BY <1>1, <1>2, <1>3, <1>4, <1>5, <1>6, <1>7 DEF ClientAction

\* A pcb that comes up, or takes over, probes for all names.
LEMMA SystemCount ==
  ASSUME NamedInv, hostname', SystemEvent, NEW p \in Pcbs, pcb'[p].ready
  PROVE  Count(pcb'[p], asked'[p], services')
<1>1. ASSUME NEW x \in Pcbs, Enable(x) PROVE Count(pcb'[p], asked'[p], services')
  <2>1. /\ hostname /\ services' = services /\ asked' = [asked EXCEPT ![x] = NoneAsked]
        /\ (pcb' = [pcb EXCEPT ![x] = Enabled(@)] \/ (~pcb[x].ready /\ pcb' = pcb))
    BY <1>1 DEF Enable
  <2>2. CASE p # x
    BY <2>1, <2>2, NamedFacts
  <2>3. CASE p = x
    <3>1. pcb'[p] = Enabled(pcb[p])
      BY <2>1, <2>3, NamedFacts
    <3> QED BY <2>1, <3>1, NamedFacts, EnabledCount
  <2> QED BY <2>2, <2>3
<1>2. ASSUME NEW x \in Pcbs, Disable(x) PROVE Count(pcb'[p], asked'[p], services')
  <2>0. hostname /\ services' = services /\ asked' = asked
    BY <1>2 DEF Disable
  <2>1. PICK up \in BOOLEAN :
          pcb' = [o \in Pcbs |-> IF o = x THEN Disabled(pcb[x]) ELSE TakesOver(o, x, up)]
    BY <1>2 DEF Disable
  <2>2. p # x
    <3> SUFFICES ASSUME p = x PROVE FALSE
      OBVIOUS
    <3>1. pcb'[p] = Disabled(pcb[p])
      BY <2>1
    <3>2. ~Disabled(pcb[p]).ready
      <4>1. CASE pcb[p].ready
        BY <4>1 DEF Disabled, Deinit, Off
      <4>2. CASE ~pcb[p].ready
        <5>1. ~[pcb[p] EXCEPT !.state = "OFF"].ready
          BY <2>0, <4>2, NamedFacts DEF PcbType
        <5> QED BY <4>2, <5>1 DEF Disabled
      <4> QED BY <4>1, <4>2
    <3> QED BY <3>1, <3>2
  <2>3. pcb'[p] = TakesOver(p, x, up)
    BY <2>1, <2>2
  <2>4. CASE ~StandsIn(p, x)
    BY <2>0, <2>3, <2>4, NamedFacts DEF TakesOver
  <2>5. CASE StandsIn(p, x)
    <3> DEFINE Q == [pcb[p] EXCEPT !.state = "OFF"]
    <3>1. pcb'[p] = IF up THEN Enabled(Q) ELSE Q
      BY <2>3, <2>5 DEF TakesOver
    <3>2. Sound(pcb[p], services, TRUE) /\ ~pcb[p].ready
      BY <2>0, <2>5, NamedFacts DEF StandsIn, Sound, Form
    <3>3. Q \in PcbType /\ ~Q.ready
      <4>1. "OFF" \in States
        BY DEF States
      <4> HIDE DEF PacketType, States
      <4> QED BY <2>0, <3>2, <4>1, NamedFacts DEF PcbType
    <3> HIDE DEF Q
    <3>4. pcb'[p] = Enabled(Q)
      BY <3>1, <3>3
    <3> QED BY <2>0, <3>3, <3>4, NamedFacts, EnabledCount
  <2> QED BY <2>4, <2>5
<1>3. ASSUME NEW x \in Pcbs, AnnounceEvent(x) PROVE Count(pcb'[p], asked'[p], services')
  <2>1. hostname /\ services' = services /\ asked' = asked
    BY <1>3 DEF AnnounceEvent
  <2>2. PICK k \in 0..MaxAnswers : pcb' = [pcb EXCEPT ![x] = AnnouncePcb(@, {}, TRUE, k)]
    BY <1>3 DEF AnnounceEvent
  <2>3. CASE p # x
    BY <2>1, <2>2, <2>3, NamedFacts
  <2>4. CASE p = x
    <3>1. pcb'[p] = AnnouncePcb(pcb[p], {}, TRUE, k)
      BY <2>1, <2>2, <2>4, NamedFacts
    <3>2. pcb[p].ready
      BY <3>1 DEF AnnouncePcb
    <3>3. Count(AnnouncePcb(pcb[p], {}, TRUE, k), asked[p], services)
      BY <2>1, <3>2, AnnounceCount
    <3> QED BY <2>1, <3>1, <3>3
  <2> QED BY <2>3, <2>4
<1> QED BY <1>1, <1>2, <1>3 DEF SystemEvent

\* A name that is lost is claimed again; one that is disputed is probed for again.
LEMMA ReceivesCount ==
  ASSUME NamedInv, Apart, hostname', Receives, NEW p \in Pcbs, pcb'[p].ready
  PROVE  Count(pcb'[p], asked'[p], services')
<1>0. ASSUME hostname, pcb[p].ready, pcb'[p] = pcb[p], asked' = asked, services' = services
      PROVE  Count(pcb'[p], asked'[p], services')
  BY <1>0, NamedFacts
<1>1. ASSUME \A x \in Pcbs : ~IsDuplicate(x) PROVE pcb[p].ready
  <2>1. Kept(pcb'[p], pcb[p], services', hostname')
    BY <1>1, ReceivesSound DEF NamedInv
  <2> QED BY <2>1 DEF Kept
<1>2. ASSUME NEW o \in Pcbs, NEW s \in Services, LosesService(o, s), pcb[p].ready
      PROVE  Count(pcb'[p], asked'[p], services')
  <2>1. /\ services' = services /\ hostname /\ s \in services /\ {s} \in SUBSET services
        /\ s \in own
    BY <1>2 DEF LosesService, NamedInv, OwnInv
  <2>2. CASE pcb' = ProbeAll({s}, FALSE, FALSE) /\ Claim({s})
    <3>1. Count(ProbeAll({s}, FALSE, FALSE)[p], asked'[p], services)
      BY <1>2, <2>1, <2>2, NamedFacts, ProbeAllCount
    <3> QED BY <2>1, <2>2, <3>1
  <2>3. CASE pcb' = Reprobe(o, {s}, FALSE) /\ asked' = asked
    <3>1. Count(Reprobe(o, {s}, FALSE)[p], asked[p], services)
      BY <1>2, <2>1, ReprobeCount
    <3> QED BY <2>1, <2>3, <3>1
  <2> QED BY <1>2, <2>1, <2>2, <2>3 DEF LosesService
<1>3. ASSUME NEW o \in Pcbs, NEW s \in Services, TxtDiffers(o, s), pcb[p].ready
      PROVE  Count(pcb'[p], asked'[p], services')
  <2>1. /\ services' = services /\ hostname /\ {s} \in SUBSET services
        /\ asked' = asked /\ pcb' = Reprobe(o, {s}, TRUE)
    BY <1>3 DEF TxtDiffers
  <2>2. Count(Reprobe(o, {s}, TRUE)[p], asked[p], services)
    BY <1>3, <2>1, ReprobeCount
  <2> QED BY <2>1, <2>2
<1>4. ASSUME NEW o \in Pcbs, LosesHost(o), pcb[p].ready
      PROVE  Count(pcb'[p], asked'[p], services')
  <2>1. services' = services /\ hostname /\ {} \in SUBSET services
    BY <1>4 DEF LosesHost
  <2>2. CASE pcb' = RestartAll
    <3>1. Count(RestartAll[p], asked'[p], services)
      BY <1>4, RestartAllCount DEF NamedInv
    <3> QED BY <2>1, <2>2, <3>1
  <2>3. CASE pcb' = Reprobe(o, {}, TRUE) /\ asked' = asked
    <3>1. Count(Reprobe(o, {}, TRUE)[p], asked[p], services)
      BY <1>4, <2>1, ReprobeCount
    <3> QED BY <2>1, <2>3, <3>1
  <2> QED BY <1>4, <2>2, <2>3 DEF LosesHost
<1>5. ASSUME NEW o \in Pcbs, Asked(o), pcb[p].ready PROVE Count(pcb'[p], asked'[p], services')
  <2>1. services' = services /\ hostname /\ asked' = asked
    BY <1>5 DEF Asked
  <2>2. Count(pcb[p], asked[p], services)
    BY <1>5, <2>1, NamedFacts
  <2>3. CASE pcb' = pcb
    BY <1>0, <1>5, <2>1, <2>3
  <2>4. ASSUME NEW n \in services \cup {Host}, NEW k \in 0..MaxAnswers,
               pcb' = [pcb EXCEPT ![o].queue = Put(@, Packet({}, {}, {n}, {}, TRUE), k)]
        PROVE  Count(pcb'[p], asked'[p], services')
    <3> DEFINE qs == Put(pcb[o].queue, Packet({}, {}, {n}, {}, TRUE), k)
    <3>1. pcb' = [pcb EXCEPT ![o].queue = qs]
      BY <2>4
    <3> HIDE DEF qs
    <3>2. /\ pcb'[p].state = pcb[p].state /\ pcb'[p].probing = pcb[p].probing
          /\ pcb'[p].probeIp = pcb[p].probeIp
      BY <2>1, <3>1, NamedFacts DEF PcbType
    <3> QED BY <2>1, <2>2, <3>2 DEF Count, Aims
  <2> QED BY <1>5, <2>3, <2>4 DEF Asked
<1>6. ASSUME NEW o \in Pcbs, IsAnswered(o), pcb[p].ready PROVE Count(pcb'[p], asked'[p], services')
  <2>1. services' = services /\ hostname /\ asked' = asked
    BY <1>6 DEF IsAnswered
  <2>2. Count(pcb[p], asked[p], services)
    BY <1>6, <2>1, NamedFacts
  <2>3. PICK n \in Names :
          pcb' = [pcb EXCEPT ![o].queue = [i \in DOMAIN @ |-> Withdrawn(@[i], n)]]
    BY <1>6 DEF IsAnswered
  <2> DEFINE qs == [i \in DOMAIN pcb[o].queue |-> Withdrawn(pcb[o].queue[i], n)]
  <2>4. pcb' = [pcb EXCEPT ![o].queue = qs]
    BY <2>3
  <2> HIDE DEF qs
  <2>5. /\ pcb'[p].state = pcb[p].state /\ pcb'[p].probing = pcb[p].probing
        /\ pcb'[p].probeIp = pcb[p].probeIp
    BY <2>1, <2>4, NamedFacts DEF PcbType
  <2> QED BY <2>1, <2>2, <2>5 DEF Count, Aims
<1>7. ASSUME NEW x \in Pcbs, IsDuplicate(x) PROVE Count(pcb'[p], asked'[p], services')
  <2>0. services' = services /\ hostname /\ asked' = asked /\ pcb[x].ready
    BY <1>7, ReceivedReady DEF IsDuplicate
  <2>1. PICK o \in Others(x), k \in 0..MaxAnswers :
          /\ pcb[o].ready
          /\ pcb' = [pcb EXCEPT
               ![x] = [IF @.ready THEN Deinit(@) ELSE @ EXCEPT !.state = "DUP"],
               ![o] = AnnouncePcb(@, {}, TRUE, k)]
    BY <1>7 DEF IsDuplicate
  <2>2. o \in Pcbs /\ o # x
    BY <2>1 DEF Others
  <2>3. /\ pcb'[x] = [Off EXCEPT !.state = "DUP"]
        /\ pcb'[o] = AnnouncePcb(pcb[o], {}, TRUE, k)
        /\ \A y \in Pcbs \ {x, o} : pcb'[y] = pcb[y]
    BY <2>0, <2>1, <2>2, NamedFacts DEF Deinit
  <2>4. ~pcb'[x].ready
    BY <2>3, OffSound DEF Unused
  <2>5. CASE p = o
    <3>1. Count(AnnouncePcb(pcb[o], {}, TRUE, k), asked[o], services)
      BY <2>0, <2>1, <2>2, AnnounceCount
    <3> QED BY <2>0, <2>3, <2>5, <3>1
  <2>6. CASE p \notin {x, o}
    BY <2>0, <2>3, <2>6, NamedFacts
  <2> QED BY <2>4, <2>5, <2>6
<1>8. CASE \E x \in Pcbs : IsDuplicate(x)
  BY <1>7, <1>8
<1>9. CASE \A x \in Pcbs : ~IsDuplicate(x)
  BY <1>1, <1>2, <1>3, <1>4, <1>5, <1>6, <1>9 DEF Receives
<1> QED BY <1>8, <1>9

\* Probes are counted, and after the third the names are told.
LEMMA TransmitsCount ==
  ASSUME NamedInv, hostname', Transmits, NEW p \in Pcbs, pcb'[p].ready
  PROVE  Count(pcb'[p], asked'[p], services')
<1>0. PICK x \in Pcbs : TxHandle(x)
  BY DEF Transmits
<1>1. services' = services /\ hostname /\ pcb[x].queue # <<>>
  BY <1>0 DEF TxHandle
<1>2. PICK k \in 0..MaxAnswers : pcb' = [pcb EXCEPT ![x] = Handled(@, k)]
  BY <1>0 DEF TxHandle
<1>3. pcb'[x] = Handled(pcb[x], k) /\ \A y \in Pcbs \ {x} : pcb'[y] = pcb[y]
  BY <1>1, <1>2, NamedFacts
<1> DEFINE q == Head(pcb[x].queue)
           b == [n \in Names |-> IF n \in q.asks /\ asked[x][n] < 3
                                 THEN asked[x][n] + 1 ELSE asked[x][n]]
<1>4. asked' = IF pcb[x].ready THEN [asked EXCEPT ![x] = b] ELSE asked
  BY <1>0 DEF TxHandle
<1>5. CASE p # x
  <2>1. asked'[p] = asked[p]
    <3> HIDE DEF b
    <3> QED BY <1>1, <1>4, <1>5, NamedFacts
  <2> QED BY <1>1, <1>3, <1>5, <2>1, NamedFacts
<1>6. CASE p = x
  <2>1. pcb[x].ready
    <3>1. Sound(pcb[x], services, TRUE)
      BY <1>1, NamedFacts
    <3> QED BY <1>1, <3>1 DEF Sound, Form, Unused
  <2>2. Count(pcb[x], asked[x], services) /\ Sound(pcb[x], services, TRUE) /\ k \in Nat
        /\ services \in SUBSET Services /\ asked[x] \in [Names -> 0..3]
    BY <1>1, <2>1, NamedFacts, BoundIsNat
  <2>3. asked'[x] = b
    <3> HIDE DEF b
    <3> QED BY <1>1, <1>4, <2>1, NamedFacts
  <2>4. Count(Handled(pcb[x], k), b, services)
    BY <1>1, <2>2, HandledCount
  <2> QED BY <1>1, <1>3, <1>6, <2>3, <2>4
<1> QED BY <1>5, <1>6

\* And so it is together with the count of the probes.
LEMMA NamedStep ==
  ASSUME NamedInv, Apart, OwnNames, [PcbNext]_pcbVars
  PROVE  NamedInv'
<1>1. PcbInv' /\ OwnInv'
  BY PcbStepInv, OwnStep DEF NamedInv
<1>2. CASE UNCHANGED pcbVars
  BY <1>1, <1>2 DEF NamedInv, pcbVars, ClaimInv
<1>3. CASE PcbNext
  <2>1. ASSUME hostname', NEW p \in Pcbs, pcb'[p].ready
        PROVE  Count(pcb'[p], asked'[p], services')
    BY <1>1, <1>3, <2>1, ClientCount, SystemCount, ReceivesCount, TransmitsCount
       DEF PcbNext, PcbInv
  <2>2. ClaimInv'
    BY <2>1 DEF ClaimInv
  <2> QED BY <1>1, <2>2 DEF NamedInv
<1> QED BY <1>2, <1>3

LEMMA NamedInit == PcbInit => NamedInv
BY PcbInitInv DEF NamedInv, PcbInit, OwnInv, ClaimInv

LEMMA NamedSays == NamedInv => NamesAreProbed
<1> SUFFICES ASSUME NamedInv PROVE NamesAreProbed
  OBVIOUS
<1>0. PcbTypeOK /\ DuplicateHasStandIn /\ PcbInv
  BY DEF NamedInv, PcbInv
<1>1. ASSUME NEW p \in Pcbs
      PROVE  Form(pcb[p]) /\ Within(pcb[p], services) /\ pcb[p].queue \in Seq(PacketType)
  BY <1>0, InvFacts, PcbFields DEF Sound
<1>2. ProbesForItsNames
  <2> SUFFICES ASSUME NEW p \in Pcbs, pcb[p].running
               PROVE  /\ Len(pcb[p].queue) = 1
                      /\ pcb[p].queue[1].asks = pcb[p].probing \cup HostIf(pcb[p].probeIp)
    BY DEF ProbesForItsNames
  <2>1. PICK q \in PacketType : pcb[p].queue = <<q>> /\ IsProbe(q, pcb[p])
    BY <1>1 DEF Form
  <2> QED BY <2>1, Seq1 DEF IsProbe, Aims
<1>3. AnnouncingHasPacket
  BY <1>1, Seq0 DEF AnnouncingHasPacket, Form
<1>4. ToldIsProbed
  <2> SUFFICES ASSUME NEW p \in Pcbs, NEW q \in Range(pcb[p].queue), NEW n \in Tells(q),
                      pcb[p].ready, hostname
               PROVE  asked[p][n] = 3
    BY DEF ToldIsProbed
  <2>1. q.asks = {} /\ n \in services \cup {Host}
    BY <1>1 DEF Tells, Within
  <2>2. ~pcb[p].running
    <3> SUFFICES ASSUME pcb[p].running PROVE FALSE
      OBVIOUS
    <3>1. PICK x \in PacketType : pcb[p].queue = <<x>> /\ IsProbe(x, pcb[p])
      BY <1>1 DEF Form
    <3>2. q = x
      BY <3>1, Seq1
    <3> QED BY <2>1, <3>1, <3>2 DEF IsProbe
  <2>3. Aims(pcb[p]) = {}
    BY <1>1, <2>2 DEF Form
  <2> QED BY <2>1, <2>3, NamedFacts DEF Count
<1> QED BY <1>0, <1>2, <1>3, <1>4 DEF NamesAreProbed

(* THEOREM: when every service has an instance name of its own, a pcb that *)
(* is in use tells no name before it has sent three probes for it, however *)
(* calls, events and packets interleave, and has a packet to go on with.   *)
THEOREM EveryNameIsProbed == Apart /\ OwnNames => (PcbSpec => []NamesAreProbed)
<1> SUFFICES ASSUME Apart, OwnNames PROVE PcbSpec => []NamesAreProbed
  OBVIOUS
<1>1. NamedInv /\ [PcbNext]_pcbVars => NamedInv'
  BY NamedStep
<1> QED BY <1>1, NamedInit, NamedSays, PTL DEF PcbSpec
=============================================================================
