-------------------------- MODULE MdnsRecords_proofs --------------------------
(***************************************************************************)
(* Proofs about the host names and the services of the mDNS component.     *)
(***************************************************************************)
EXTENDS MdnsServices, MdnsHosts, Lists_proofs

-----------------------------------------------------------------------------
(* Host names: the inductive invariant.                                    *)

\* What a waiting action was posted for still holds: the host name to be set is
\* not delegated and will not be, and the host of a service to be added is ours
\* until then.
HostWaits(i) ==
  LET a == hostActions[i]
  IN  /\ a.op = "HOSTNAME_SET" => a.name \notin Delegated /\ ~Waits("DELEGATE_ADD")
      /\ a.op = "SERVICE_ADD" =>
           /\ IsOurs(a.name)
           /\ \A j \in DOMAIN hostActions :
                j < i => hostActions[j].op \notin {"HOSTNAME_SET", "DELEGATE_REMOVE"}

HostActionsWait == \A i \in DOMAIN hostActions : HostWaits(i)

HaveAddresses == \A n \in Names : delegated[n] # 0

HostsInv ==
  HostsTypeOK /\ HostActionsWait /\ ServiceHostIsOurs /\ OwnIsNotDelegated /\ HaveAddresses

\* The constants, one by one.
LEMMA HostConstants ==
  /\ NoName \notin Names /\ Setters \subseteq HostClients
  /\ \A k \in Addresses : k \in Nat
  /\ HostQueueLen \in Nat /\ MaxHosted \in Nat /\ MaxHostCalls \in Nat
BY HostsAssumption

\* The fields of an action.
LEMMA HostActFields ==
  ASSUME NEW a \in HostActions
  PROVE  /\ a.op \in {"HOSTNAME_SET", "SERVICE_ADD", "DELEGATE_REMOVE", "DELEGATE_ADD",
                      "DELEGATE_SET", "INSTANCE_SET"}
         /\ a.op # "INSTANCE_SET" => a.name \in Names
         /\ a.op \in {"DELEGATE_ADD", "DELEGATE_SET"} => a.addrs \in Addresses
         /\ a.addrs \in Nat
BY HostConstants DEF HostActions

\* A queue with one more action, and one without its first.
LEMMA Posted ==
  ASSUME NEW S, NEW q \in Seq(S), NEW a \in S
  PROVE  LET r == Append(q, a)
         IN  /\ r \in Seq(S) /\ Len(r) = Len(q) + 1
             /\ Len(q) \in Nat /\ Len(q) + 1 \notin DOMAIN q
             /\ \A i \in DOMAIN q : i \in DOMAIN r /\ r[i] = q[i] /\ i < Len(q) + 1
             /\ r[Len(q) + 1] = a
             /\ \A i \in DOMAIN r : i \in DOMAIN q \/ i = Len(q) + 1
OBVIOUS

LEMMA Taken ==
  ASSUME NEW S, NEW q \in Seq(S), q # <<>>
  PROVE  LET r == Tail(q)
         IN  /\ Head(q) \in S /\ 1 \in DOMAIN q /\ Head(q) = q[1]
             /\ r \in Seq(S) /\ Len(r) <= Len(q) /\ Len(q) \in Nat /\ Len(r) \in Nat
             /\ \A i \in DOMAIN r : i + 1 \in DOMAIN q /\ i + 1 > 1 /\ r[i] = q[i + 1] /\ i \in Nat
OBVIOUS

\* When the host name and the delegated hosts stay, so does what is ours.
LEMMA OursStay ==
  ASSUME UNCHANGED <<hostname, delegated>>
  PROVE  Delegated' = Delegated /\ \A n : IsOurs(n)' <=> IsOurs(n)
BY DEF Delegated, IsOurs

LEMMA HostsInvInit == HostsInit => HostsInv
<1> SUFFICES ASSUME HostsInit PROVE HostsInv
  OBVIOUS
<1>1. HostsTypeOK
  <2>1. HostIdle \in [op : {"idle", "set", "add"}, name : HostNames]
    BY DEF HostIdle, HostNames
  <2>2. hostActions \in Seq(HostActions) /\ Len(hostActions) = 0
    BY DEF HostsInit
  <2>3. delegated \in [Names -> Nat \cup {NoAddresses}]
    BY DEF HostsInit
  <2>4. hostPc \in [HostClients -> [op : {"idle", "set", "add"}, name : HostNames]]
    BY <2>1 DEF HostsInit
  <2>5. hostname \in HostNames /\ instance \in BOOLEAN /\ hostServices \in Seq(Names)
    <3>1. hostname \in HostNames
      BY DEF HostsInit, HostNames
    <3>2. instance \in BOOLEAN
      BY DEF HostsInit
    <3>3. hostServices \in Seq(Names)
      BY DEF HostsInit
    <3> QED BY <3>1, <3>2, <3>3
  <2>6. /\ scheduled \subseteq Names /\ sema \in 0..1 /\ hostBlocks \in Int
        /\ hostCalls \in 0..MaxHostCalls /\ Len(hostActions) <= HostQueueLen
    BY <2>2, HostConstants DEF HostsInit
  <2> QED BY <2>2, <2>3, <2>4, <2>5, <2>6 DEF HostsTypeOK
<1>2. HostActionsWait /\ ServiceHostIsOurs
  BY DEF HostsInit, HostActionsWait, ServiceHostIsOurs
<1>3. OwnIsNotDelegated /\ HaveAddresses
  BY HostConstants DEF HostsInit, OwnIsNotDelegated, Delegated, HaveAddresses, NoAddresses
<1> QED BY <1>1, <1>2, <1>3 DEF HostsInv

-----------------------------------------------------------------------------
(* Host names: the calls keep it.                                          *)

\* An action is posted, or freed again when the queue is full.
LEMMA HostPostStep ==
  ASSUME HostsInv, NEW a \in HostActions,
         hostActions' = hostActions \/ (HostsHaveRoom /\ hostActions' = Append(hostActions, a)),
         UNCHANGED <<hostname, instance, delegated, hostServices, scheduled>>,
         sema' \in 0..1,
         hostPc' \in [HostClients -> [op : {"idle", "set", "add"}, name : HostNames]],
         hostBlocks' \in Int, hostCalls' \in 0..MaxHostCalls,
         a.op = "HOSTNAME_SET" => a.name \notin Delegated /\ ~Waits("DELEGATE_ADD"),
         a.op = "DELEGATE_ADD" => ~Waits("HOSTNAME_SET"),
         a.op = "SERVICE_ADD" =>
           IsOurs(a.name) /\ ~Waits("HOSTNAME_SET") /\ ~Waits("DELEGATE_REMOVE")
  PROVE  HostsInv'
<1> USE DEF HostsInv
<1>1. Delegated' = Delegated /\ \A n : IsOurs(n)' <=> IsOurs(n)
  BY OursStay
<1>2. ServiceHostIsOurs' /\ OwnIsNotDelegated' /\ HaveAddresses'
  BY <1>1 DEF ServiceHostIsOurs, OwnIsNotDelegated, HaveAddresses
<1>3. CASE hostActions' = hostActions
  <2>1. HostsTypeOK'
    BY <1>3 DEF HostsTypeOK
  <2>2. HostActionsWait'
    BY <1>1, <1>3 DEF HostActionsWait, HostWaits, Waits
  <2> QED BY <1>2, <2>1, <2>2
<1>4. CASE HostsHaveRoom /\ hostActions' = Append(hostActions, a)
  <2> DEFINE n == Len(hostActions)
  <2>1. /\ hostActions' \in Seq(HostActions) /\ Len(hostActions') = n + 1
        /\ n \in Nat /\ n + 1 \notin DOMAIN hostActions
        /\ \A i \in DOMAIN hostActions :
             i \in DOMAIN hostActions' /\ hostActions'[i] = hostActions[i] /\ i < n + 1
        /\ hostActions'[n + 1] = a
        /\ \A i \in DOMAIN hostActions' : i \in DOMAIN hostActions \/ i = n + 1
        /\ DOMAIN hostActions \subseteq Nat
    BY <1>4, Posted DEF HostsTypeOK
  <2>2. HostsTypeOK'
    BY <1>4, <2>1, HostConstants DEF HostsTypeOK, HostsHaveRoom
  <2> HIDE DEF n
  <2>3. \A op : Waits(op)' <=> Waits(op) \/ a.op = op
    <3>1. n + 1 \in DOMAIN hostActions'
      BY <2>1
    <3> QED BY <2>1, <3>1 DEF Waits
  <2>4. HostActionsWait'
    <3> SUFFICES ASSUME NEW i \in DOMAIN hostActions' PROVE HostWaits(i)'
      BY DEF HostActionsWait
    <3>1. CASE i \in DOMAIN hostActions
      <4>1. HostWaits(i) /\ hostActions'[i] = hostActions[i]
        BY <2>1, <3>1 DEF HostActionsWait
      <4>2. \A j \in DOMAIN hostActions' :
              j < i => j \in DOMAIN hostActions /\ hostActions'[j] = hostActions[j]
        BY <2>1, <3>1
      <4>3. hostActions[i].op = "HOSTNAME_SET" => ~Waits("DELEGATE_ADD")'
        BY <2>3, <3>1, <4>1 DEF HostWaits, Waits
      <4> QED BY <1>1, <4>1, <4>2, <4>3 DEF HostWaits
    <3>2. CASE i = n + 1
      <4>1. hostActions'[i] = a
        BY <2>1, <3>2
      <4>2. \A j \in DOMAIN hostActions' :
              j < i => j \in DOMAIN hostActions /\ hostActions'[j] = hostActions[j]
        BY <2>1, <3>2
      <4>3. a.op = "HOSTNAME_SET" => ~Waits("DELEGATE_ADD")'
        BY <2>3
      <4>4. a.op = "SERVICE_ADD" => \A j \in DOMAIN hostActions' :
              j < i => hostActions'[j].op \notin {"HOSTNAME_SET", "DELEGATE_REMOVE"}
        BY <4>2 DEF Waits
      <4> QED BY <1>1, <4>1, <4>3, <4>4 DEF HostWaits
    <3> QED BY <2>1, <3>1, <3>2
  <2> QED BY <1>2, <2>2, <2>4
<1> QED BY <1>3, <1>4

\* What a client waits for.
LEMMA HostPcTyped ==
  ASSUME HostsTypeOK, NEW c \in HostClients, NEW op \in {"idle", "set", "add"}, NEW n \in HostNames
  PROVE  [hostPc EXCEPT ![c] = [op |-> op, name |-> n]]
           \in [HostClients -> [op : {"idle", "set", "add"}, name : HostNames]]
BY DEF HostsTypeOK

\* Clients call as the constants say they do.
Calm == Separate /\ Settled /\ ~Disputed /\ 0 \notin Addresses

LEMMA HostRequestsStep ==
  ASSUME Calm, HostsInv, NEW c \in HostClients, HostRequests(c)
  PROVE  HostsInv'
<1> USE DEF HostsInv, Calm
<1>1. /\ UNCHANGED <<hostname, instance, delegated, hostServices, scheduled, sema>>
      /\ sema' \in 0..1 /\ hostCalls' \in 0..MaxHostCalls
  BY HostConstants DEF HostRequests, HostCall, DefaultInstanceSet, HostnameSet, HostServiceAdd,
       DelegateAdd, DelegateSetAddress, DelegateRemove, HostsTypeOK
<1>2. ASSUME NEW op, NEW name, NEW addrs \in Nat, PostAction(op, name, addrs)
      PROVE  /\ hostBlocks' \in Int
             /\ \/ hostActions' = hostActions
                \/ HostsHaveRoom /\ hostActions' = Append(hostActions, HostAct(op, name, addrs))
  BY <1>2 DEF PostAction, HostsTypeOK
<1>3. ASSUME NEW op \in {"set", "add"}, NEW n \in Names, WaitIfPosted(c, op, n)
      PROVE  hostPc' \in [HostClients -> [op : {"idle", "set", "add"}, name : HostNames]]
  BY <1>3, HostPcTyped DEF WaitIfPosted, HostsTypeOK, HostNames
<1>4. UNCHANGED hostPc => hostPc' \in [HostClients -> [op : {"idle", "set", "add"}, name : HostNames]]
  BY DEF HostsTypeOK
<1>5. CASE DefaultInstanceSet(c)
  <2> DEFINE a == HostAct("INSTANCE_SET", NoName, 0)
  <2>1. a \in HostActions /\ a.op = "INSTANCE_SET"
    BY DEF HostAct, HostActions
  <2>2. PostAction("INSTANCE_SET", NoName, 0) /\ UNCHANGED hostPc
    BY <1>5 DEF DefaultInstanceSet
  <2>3. hostBlocks' \in Int /\ (hostActions' = hostActions \/ (HostsHaveRoom /\ hostActions' = Append(hostActions, a)))
    BY <1>2, <2>2
  <2> HIDE DEF a
  <2> QED BY <1>1, <1>4, <2>1, <2>2, <2>3, HostPostStep
<1>6. ASSUME NEW n \in Names, HostnameSet(c, n) PROVE HostsInv'
  <2> DEFINE a == HostAct("HOSTNAME_SET", n, 0)
  <2>1. a \in HostActions /\ a.op = "HOSTNAME_SET" /\ a.name = n
    BY DEF HostAct, HostActions
  <2>2. /\ PostAction("HOSTNAME_SET", n, 0) /\ WaitIfPosted(c, "set", n)
        /\ n \notin Delegated /\ ~Waits("DELEGATE_ADD")
    BY <1>6 DEF HostnameSet
  <2>3. hostBlocks' \in Int /\ (hostActions' = hostActions \/ (HostsHaveRoom /\ hostActions' = Append(hostActions, a)))
    BY <1>2, <2>2
  <2>4. hostPc' \in [HostClients -> [op : {"idle", "set", "add"}, name : HostNames]]
    BY <1>3, <2>2
  <2> HIDE DEF a
  <2> QED BY <1>1, <2>1, <2>2, <2>3, <2>4, HostPostStep
<1>7. ASSUME NEW n \in Names, HostServiceAdd(c, n) PROVE HostsInv'
  <2> DEFINE a == HostAct("SERVICE_ADD", n, 0)
  <2>1. a \in HostActions /\ a.op = "SERVICE_ADD" /\ a.name = n
    BY DEF HostAct, HostActions
  <2>2. /\ PostAction("SERVICE_ADD", n, 0) /\ WaitIfPosted(c, "add", n)
        /\ IsOurs(n) /\ ~Waits("HOSTNAME_SET") /\ ~Waits("DELEGATE_REMOVE")
    BY <1>7 DEF HostServiceAdd
  <2>3. hostBlocks' \in Int /\ (hostActions' = hostActions \/ (HostsHaveRoom /\ hostActions' = Append(hostActions, a)))
    BY <1>2, <2>2
  <2>4. hostPc' \in [HostClients -> [op : {"idle", "set", "add"}, name : HostNames]]
    BY <1>3, <2>2
  <2> HIDE DEF a
  <2> QED BY <1>1, <2>1, <2>2, <2>3, <2>4, HostPostStep
<1>8. ASSUME NEW n \in Names, DelegateAdd(c, n) \/ DelegateSetAddress(c, n) \/ DelegateRemove(c, n)
      PROVE  HostsInv'
  <2>1. PICK op \in {"DELEGATE_ADD", "DELEGATE_SET", "DELEGATE_REMOVE"}, k \in Addresses \cup {0} :
          /\ PostAction(op, n, k)
          /\ IF op = "DELEGATE_REMOVE" THEN k = 0 ELSE k \in Addresses
          /\ op = "DELEGATE_ADD" => ~Waits("HOSTNAME_SET")
    BY <1>8 DEF DelegateAdd, DelegateSetAddress, DelegateRemove
  <2> DEFINE a == HostAct(op, n, k)
  <2>2. a \in HostActions /\ a.op = op
    BY <2>1 DEF HostAct, HostActions
  <2>3. hostBlocks' \in Int /\ (hostActions' = hostActions \/ (HostsHaveRoom /\ hostActions' = Append(hostActions, a)))
    BY <1>2, <2>1, HostConstants
  <2>4. UNCHANGED hostPc
    BY <1>8 DEF DelegateAdd, DelegateSetAddress, DelegateRemove
  <2> HIDE DEF a
  <2> QED BY <1>1, <1>4, <2>1, <2>2, <2>3, <2>4, HostPostStep
<1> QED BY <1>5, <1>6, <1>7, <1>8 DEF HostRequests

-----------------------------------------------------------------------------
(* Host names: the service task keeps it.                                  *)

\* The first action is executed: what has to be shown of what it does.
LEMMA HostServeStep ==
  ASSUME HostsInv, hostActions # <<>>, hostActions' = Tail(hostActions),
         hostname' \in HostNames, instance' \in BOOLEAN,
         delegated' \in [Names -> Nat \cup {NoAddresses}], hostServices' \in Seq(Names),
         sema' \in 0..1, hostBlocks' \in Int,
         UNCHANGED <<scheduled, hostPc, hostCalls>>,
         Head(hostActions).op \notin {"HOSTNAME_SET", "DELEGATE_REMOVE"} =>
           \A n \in Names : IsOurs(n) => IsOurs(n)',
         Head(hostActions).op # "DELEGATE_ADD" => Delegated' \subseteq Delegated,
         ServiceHostIsOurs', OwnIsNotDelegated', HaveAddresses'
  PROVE  HostsInv'
<1> USE DEF HostsInv
<1>1. /\ Head(hostActions) \in HostActions /\ 1 \in DOMAIN hostActions
      /\ Head(hostActions) = hostActions[1]
      /\ hostActions' \in Seq(HostActions) /\ Len(hostActions') <= Len(hostActions)
      /\ Len(hostActions) \in Nat /\ Len(hostActions') \in Nat
      /\ \A i \in DOMAIN hostActions' :
           /\ i + 1 \in DOMAIN hostActions /\ i + 1 > 1 /\ i \in Nat
           /\ hostActions'[i] = hostActions[i + 1]
  BY Taken DEF HostsTypeOK
<1>2. HostsTypeOK'
  <2>1. Len(hostActions') <= HostQueueLen
    BY <1>1, HostConstants DEF HostsTypeOK
  <2> QED BY <1>1, <2>1 DEF HostsTypeOK
<1>3. HostActionsWait'
  <2> SUFFICES ASSUME NEW i \in DOMAIN hostActions' PROVE HostWaits(i)'
    BY DEF HostActionsWait
  <2>1. /\ HostWaits(i + 1) /\ hostActions'[i] = hostActions[i + 1]
        /\ hostActions[i + 1] \in HostActions
    BY <1>1 DEF HostActionsWait, HostsTypeOK
  <2>2. ASSUME hostActions'[i].op = "HOSTNAME_SET"
        PROVE  hostActions'[i].name \notin Delegated' /\ ~Waits("DELEGATE_ADD")'
    <3>1. hostActions[i + 1].name \notin Delegated /\ ~Waits("DELEGATE_ADD")
      BY <2>1, <2>2 DEF HostWaits
    <3>2. Head(hostActions).op # "DELEGATE_ADD"
      BY <1>1, <3>1 DEF Waits
    <3>3. ~Waits("DELEGATE_ADD")'
      BY <1>1, <3>1 DEF Waits
    <3> QED BY <2>1, <3>1, <3>2, <3>3
  <2>3. ASSUME hostActions'[i].op = "SERVICE_ADD"
        PROVE  /\ IsOurs(hostActions[i].name)'
               /\ \A j \in DOMAIN hostActions' :
                    j < i => hostActions'[j].op \notin {"HOSTNAME_SET", "DELEGATE_REMOVE"}
    <3> DEFINE n == hostActions[i + 1].name
    <3>1. /\ IsOurs(n) /\ n \in Names
          /\ \A j \in DOMAIN hostActions :
               j < i + 1 => hostActions[j].op \notin {"HOSTNAME_SET", "DELEGATE_REMOVE"}
      BY <2>1, <2>3, HostActFields DEF HostWaits
    <3>2. Head(hostActions).op \notin {"HOSTNAME_SET", "DELEGATE_REMOVE"}
      BY <1>1, <3>1
    <3>3. PICK m \in Names : m = n
      BY <3>1
    <3>5. hostActions'[i].name = m
      BY <2>1, <3>3
    <3>6. IsOurs(m)
      BY <3>1, <3>3
    <3>7. IsOurs(m)'
      BY <3>2, <3>6
    <3>8. IsOurs(hostActions[i].name)'
      BY <3>5, <3>7 DEF IsOurs
    <3>4. \A j \in DOMAIN hostActions' : j < i => j + 1 < i + 1
      BY <1>1
    <3> QED BY <1>1, <3>1, <3>8, <3>4
  <2> QED BY <2>2, <2>3 DEF HostWaits
<1> QED BY <1>2, <1>3

\* The names of the services after the host name has changed.
LEMMA RemappedIs ==
  ASSUME hostServices \in Seq(Names), NEW old, NEW new \in Names
  PROVE  /\ Remapped(old, new) \in Seq(Names)
         /\ DOMAIN Remapped(old, new) = DOMAIN hostServices
         /\ \A i \in DOMAIN hostServices :
              Remapped(old, new)[i] = IF hostServices[i] = old THEN new ELSE hostServices[i]
<1> DEFINE r == Remapped(old, new)
<1>1. DOMAIN hostServices = 1..Len(hostServices) /\ Len(hostServices) \in Nat
  OBVIOUS
<1>2. /\ DOMAIN r = 1..Len(hostServices)
      /\ \A i \in DOMAIN hostServices :
           r[i] = IF hostServices[i] = old THEN new ELSE hostServices[i]
  BY <1>1 DEF Remapped
<1>3. r \in [1..Len(hostServices) -> Names]
  <2>1. r = [i \in 1..Len(hostServices) |-> r[i]]
    BY <1>1 DEF Remapped
  <2>2. \A i \in 1..Len(hostServices) : r[i] \in Names
    BY <1>1, <1>2
  <2> HIDE DEF r
  <2> QED BY <2>1, <2>2
<1>4. r \in Seq(Names)
  BY <1>1, <1>3
<1> QED BY <1>1, <1>2, <1>4

LEMMA HostTakenIs ==
  ASSUME HostsInv, ExecuteHosts
  PROVE  /\ hostActions # <<>> /\ hostActions' = Tail(hostActions)
         /\ UNCHANGED <<hostPc, hostCalls>>
         /\ 1 \in DOMAIN hostActions /\ Head(hostActions) = hostActions[1]
         /\ Head(hostActions) \in HostActions
BY Taken DEF ExecuteHosts, HostsInv, HostsTypeOK

LEMMA HostnameSetStep ==
  ASSUME Calm, HostsInv, ExecuteHosts, ExecuteHostnameSet(Head(hostActions))
  PROVE  HostsInv'
<1> DEFINE n == Head(hostActions).name
<1> USE DEF HostsInv
<1>1. /\ hostActions # <<>> /\ hostActions' = Tail(hostActions)
      /\ UNCHANGED <<hostPc, hostCalls>> /\ Head(hostActions).op = "HOSTNAME_SET"
      /\ n \in Names /\ HostWaits(1) /\ Head(hostActions) = hostActions[1]
  BY HostTakenIs, HostActFields DEF ExecuteHostnameSet, HostActionsWait
<1>2. n \notin Delegated
  BY <1>1 DEF HostWaits
<1>3. /\ hostServices' = Remapped(hostname, n) /\ hostname' = n /\ sema' = 1
      /\ hostBlocks' \in Int /\ UNCHANGED <<instance, delegated, scheduled>>
  BY DEF ExecuteHostnameSet, HostsTypeOK, One
<1> HIDE DEF n
<1>4. Delegated' = Delegated /\ hostServices \in Seq(Names)
  BY <1>3 DEF Delegated, HostsTypeOK
<1>5. /\ hostServices' \in Seq(Names) /\ DOMAIN hostServices' = DOMAIN hostServices
      /\ \A i \in DOMAIN hostServices :
           hostServices'[i] = IF hostServices[i] = hostname THEN n ELSE hostServices[i]
  BY <1>1, <1>3, <1>4, RemappedIs
<1>6. ServiceHostIsOurs'
  BY <1>3, <1>4, <1>5 DEF ServiceHostIsOurs, IsOurs
<1>7. OwnIsNotDelegated' /\ HaveAddresses'
  BY <1>2, <1>3, <1>4 DEF OwnIsNotDelegated, HaveAddresses
<1>8. /\ hostname' \in HostNames /\ instance' \in BOOLEAN /\ sema' \in 0..1
      /\ delegated' \in [Names -> Nat \cup {NoAddresses}]
  BY <1>1, <1>3 DEF HostsTypeOK, HostNames
<1> QED BY <1>1, <1>3, <1>4, <1>5, <1>6, <1>7, <1>8, HostServeStep

LEMMA InstanceSetStep ==
  ASSUME HostsInv, ExecuteHosts, ExecuteInstanceSet(Head(hostActions))
  PROVE  HostsInv'
<1> USE DEF HostsInv
<1>1. /\ UNCHANGED <<hostname, delegated, hostServices, scheduled, sema>> /\ instance' = TRUE
      /\ hostBlocks' \in Int
  BY DEF ExecuteInstanceSet, HostsTypeOK, One
<1>2. Delegated' = Delegated /\ \A n : IsOurs(n)' <=> IsOurs(n)
  BY <1>1, OursStay
<1>3. ServiceHostIsOurs' /\ OwnIsNotDelegated' /\ HaveAddresses'
  BY <1>1, <1>2 DEF ServiceHostIsOurs, OwnIsNotDelegated, HaveAddresses
<1>4. /\ hostname' \in HostNames /\ instance' \in BOOLEAN /\ sema' \in 0..1
      /\ delegated' \in [Names -> Nat \cup {NoAddresses}] /\ hostServices' \in Seq(Names)
  BY <1>1 DEF HostsTypeOK
<1> QED BY <1>1, <1>2, <1>3, <1>4, HostTakenIs, HostServeStep

LEMMA HostServiceAddStep ==
  ASSUME HostsInv, ExecuteHosts, ExecuteServiceAdd(Head(hostActions))
  PROVE  HostsInv'
<1> DEFINE n == Head(hostActions).name
<1> USE DEF HostsInv
<1>1. /\ UNCHANGED <<hostname, instance, delegated, scheduled, sema, hostBlocks>>
      /\ hostServices' = <<n>> \o hostServices /\ Head(hostActions).op = "SERVICE_ADD"
  BY DEF ExecuteServiceAdd
<1>2. n \in Names /\ IsOurs(n)
  BY <1>1, HostTakenIs, HostActFields DEF HostActionsWait, HostWaits
<1> HIDE DEF n
<1>3. Delegated' = Delegated /\ \A m : IsOurs(m)' <=> IsOurs(m)
  BY <1>1, OursStay
<1>4. /\ hostServices' \in Seq(Names)
      /\ \A i \in DOMAIN hostServices' :
           hostServices'[i] = n \/ \E j \in DOMAIN hostServices : hostServices'[i] = hostServices[j]
  <2>1. hostServices \in Seq(Names)
    BY DEF HostsTypeOK
  <2>2. /\ hostServices' \in Seq(Names) /\ DOMAIN hostServices' = 1..(Len(hostServices) + 1)
        /\ DOMAIN hostServices = 1..Len(hostServices) /\ Len(hostServices) \in Nat
        /\ hostServices'[1] = n
        /\ \A i \in 1..(Len(hostServices) + 1) :
             i = 1 \/ (i - 1 \in 1..Len(hostServices) /\ hostServices'[i] = hostServices[i - 1])
    BY <1>1, <1>2, <2>1
  <2> QED BY <2>2
<1>5. ServiceHostIsOurs'
  BY <1>1, <1>2, <1>3, <1>4 DEF ServiceHostIsOurs, IsOurs
<1>6. OwnIsNotDelegated' /\ HaveAddresses'
  BY <1>1, <1>3 DEF OwnIsNotDelegated, HaveAddresses
<1>7. /\ hostname' \in HostNames /\ instance' \in BOOLEAN /\ sema' \in 0..1
      /\ delegated' \in [Names -> Nat \cup {NoAddresses}] /\ hostBlocks' \in Int
  BY <1>1 DEF HostsTypeOK
<1> QED BY <1>1, <1>3, <1>4, <1>5, <1>6, <1>7, HostTakenIs, HostServeStep

LEMMA DelegateAddStep ==
  ASSUME Calm, HostsInv, ExecuteHosts, ExecuteDelegateAdd(Head(hostActions))
  PROVE  HostsInv'
<1> DEFINE n == Head(hostActions).name
           k == Head(hostActions).addrs
<1> USE DEF HostsInv
<1>1. /\ UNCHANGED <<hostname, instance, hostServices, scheduled, sema>>
      /\ Head(hostActions).op = "DELEGATE_ADD"
      /\ IF IsOurs(n) THEN hostBlocks' = hostBlocks - 1 - k /\ UNCHANGED delegated
         ELSE delegated' = [delegated EXCEPT ![n] = k] /\ UNCHANGED hostBlocks
  BY DEF ExecuteDelegateAdd
<1>2. n \in Names /\ k \in Addresses /\ k \in Nat
  BY <1>1, HostTakenIs, HostActFields
<1> HIDE DEF n, k
<1>3. delegated' \in [Names -> Nat \cup {NoAddresses}] /\ hostBlocks' \in Int
  BY <1>1, <1>2 DEF HostsTypeOK
<1>4. Delegated' = Delegated \/ (~IsOurs(n) /\ Delegated' = Delegated \cup {n})
  <2>1. CASE IsOurs(n)
    BY <1>1, <2>1 DEF Delegated
  <2>2. CASE ~IsOurs(n)
    BY <1>1, <1>2, <2>2 DEF Delegated, HostsTypeOK, NoAddresses
  <2> QED BY <2>1, <2>2
<1>5. \A m \in Names : IsOurs(m) => IsOurs(m)'
  BY <1>1, <1>4 DEF IsOurs
<1>6. ServiceHostIsOurs'
  BY <1>1, <1>4 DEF ServiceHostIsOurs, IsOurs
<1>7. OwnIsNotDelegated'
  BY <1>1, <1>4 DEF OwnIsNotDelegated, IsOurs
<1>8. HaveAddresses'
  BY <1>1, <1>2 DEF HaveAddresses, Calm, HostsTypeOK
<1>9. /\ hostname' \in HostNames /\ instance' \in BOOLEAN /\ sema' \in 0..1
      /\ hostServices' \in Seq(Names)
  BY <1>1 DEF HostsTypeOK
<1> QED BY <1>1, <1>3, <1>5, <1>6, <1>7, <1>8, <1>9, HostTakenIs, HostServeStep

LEMMA DelegateSetStep ==
  ASSUME Calm, HostsInv, ExecuteHosts, ExecuteDelegateSet(Head(hostActions))
  PROVE  HostsInv'
<1> DEFINE n == Head(hostActions).name
           k == Head(hostActions).addrs
<1> USE DEF HostsInv
<1>1. /\ UNCHANGED <<hostname, instance, hostServices, scheduled, sema>>
      /\ Head(hostActions).op = "DELEGATE_SET"
      /\ IF n = hostname \/ n \notin Delegated
         THEN hostBlocks' = hostBlocks - 1 - k /\ UNCHANGED delegated
         ELSE /\ delegated' = [delegated EXCEPT ![n] = k]
              /\ hostBlocks' = hostBlocks - 1 - delegated[n]
  BY DEF ExecuteDelegateSet
<1>2. n \in Names /\ k \in Addresses /\ k \in Nat
  BY <1>1, HostTakenIs, HostActFields
<1> HIDE DEF n, k
<1>3. delegated' \in [Names -> Nat \cup {NoAddresses}] /\ hostBlocks' \in Int
  BY <1>1, <1>2 DEF HostsTypeOK, NoAddresses
<1>4. Delegated' = Delegated
  <2>1. CASE n = hostname \/ n \notin Delegated
    BY <1>1, <2>1 DEF Delegated
  <2>2. CASE ~(n = hostname \/ n \notin Delegated)
    BY <1>1, <1>2, <2>2 DEF Delegated, HostsTypeOK, NoAddresses
  <2> QED BY <2>1, <2>2
<1>5. \A m : IsOurs(m) <=> IsOurs(m)'
  BY <1>1, <1>4 DEF IsOurs
<1>6. ServiceHostIsOurs'
  BY <1>1, <1>4 DEF ServiceHostIsOurs, IsOurs
<1>7. OwnIsNotDelegated'
  BY <1>1, <1>4 DEF OwnIsNotDelegated
<1>8. HaveAddresses'
  BY <1>1, <1>2 DEF HaveAddresses, Calm, HostsTypeOK
<1>9. /\ hostname' \in HostNames /\ instance' \in BOOLEAN /\ sema' \in 0..1
      /\ hostServices' \in Seq(Names)
  BY <1>1 DEF HostsTypeOK
<1> QED BY <1>1, <1>3, <1>4, <1>5, <1>6, <1>7, <1>8, <1>9, HostTakenIs, HostServeStep

LEMMA DelegateRemoveStep ==
  ASSUME HostsInv, ExecuteHosts, ExecuteDelegateRemove(Head(hostActions))
  PROVE  HostsInv'
<1> DEFINE n == Head(hostActions).name
           left == Keep(hostServices, Names \ {n})
<1> USE DEF HostsInv
<1>1. /\ UNCHANGED <<hostname, instance, scheduled, sema>>
      /\ Head(hostActions).op = "DELEGATE_REMOVE"
      /\ hostServices' = left /\ delegated' = [delegated EXCEPT ![n] = NoAddresses]
      /\ hostBlocks' = hostBlocks - 1 - (Len(hostServices) - Len(left))
                     - (IF n \in Delegated THEN 1 + delegated[n] ELSE 0)
  BY DEF ExecuteDelegateRemove
<1>2. n \in Names
  BY <1>1, HostTakenIs, HostActFields
<1>3. hostServices \in Seq(Names) /\ Len(hostServices) \in Nat
  BY DEF HostsTypeOK
<1>4. /\ left \in Seq(Names) /\ Range(left) = Range(hostServices) \cap (Names \ {n})
      /\ Len(left) \in Nat
  BY <1>3, KeepRange
<1> HIDE DEF n, left
<1>5. delegated' \in [Names -> Nat \cup {NoAddresses}]
  BY <1>1, <1>2 DEF HostsTypeOK
<1>6. hostBlocks' \in Int
  <2>1. n \in Delegated => delegated[n] \in Nat
    BY <1>2 DEF Delegated, HostsTypeOK
  <2> QED BY <1>1, <1>3, <1>4, <2>1 DEF HostsTypeOK
<1>7. Delegated' = Delegated \ {n}
  BY <1>1, <1>2 DEF Delegated, HostsTypeOK
<1>8. ServiceHostIsOurs'
  <2> SUFFICES ASSUME NEW i \in DOMAIN left PROVE left[i] = hostname \/ left[i] \in Delegated \ {n}
    BY <1>1, <1>7 DEF ServiceHostIsOurs, IsOurs
  <2>1. left[i] \in Range(left)
    BY DEF Range
  <2>2. left[i] # n /\ left[i] \in Range(hostServices)
    BY <1>4, <2>1
  <2> QED BY <2>2 DEF ServiceHostIsOurs, IsOurs, Range
<1>9. OwnIsNotDelegated'
  BY <1>1, <1>7 DEF OwnIsNotDelegated
<1>10. HaveAddresses'
  BY <1>1, <1>2 DEF HaveAddresses, HostsTypeOK, NoAddresses
<1>11. hostname' \in HostNames /\ instance' \in BOOLEAN /\ sema' \in 0..1
  BY <1>1 DEF HostsTypeOK
<1>12. Delegated' \subseteq Delegated
  BY <1>7
<1>13. hostServices' \in Seq(Names)
  BY <1>1, <1>4
<1> QED BY <1>1, <1>5, <1>6, <1>8, <1>9, <1>10, <1>11, <1>12, <1>13, HostTakenIs, HostServeStep

\* Every step keeps it.
LEMMA HostsInvStep ==
  ASSUME Calm, HostsInv, [HostsNext]_hostVars
  PROVE  HostsInv'
<1> USE DEF HostsInv
<1>1. ASSUME UNCHANGED <<hostname, instance, delegated, hostServices, hostActions, hostBlocks, hostCalls>>,
             scheduled' \subseteq Names, sema' \in 0..1,
             hostPc' \in [HostClients -> [op : {"idle", "set", "add"}, name : HostNames]]
      PROVE  HostsInv'
  <2>1. Delegated' = Delegated /\ \A n : IsOurs(n)' <=> IsOurs(n)
    BY <1>1, OursStay
  <2>2. HostsTypeOK'
    BY <1>1 DEF HostsTypeOK
  <2>3. ServiceHostIsOurs' /\ OwnIsNotDelegated' /\ HaveAddresses'
    BY <1>1, <2>1 DEF ServiceHostIsOurs, OwnIsNotDelegated, HaveAddresses
  <2>4. HostActionsWait'
    BY <1>1, <2>1 DEF HostActionsWait, HostWaits, Waits
  <2> QED BY <2>2, <2>3, <2>4
<1>2. ASSUME NEW c \in HostClients, HostRequests(c) PROVE HostsInv'
  BY <1>2, HostRequestsStep
<1>3. ASSUME NEW c \in HostClients, HostnameSetReturns(c) \/ HostServiceAddReturns(c) PROVE HostsInv'
  <2>1. hostPc' = [hostPc EXCEPT ![c] = [op |-> "idle", name |-> NoName]]
    BY <1>3 DEF HostnameSetReturns, HostServiceAddReturns, HostIdle
  <2>2. hostPc' \in [HostClients -> [op : {"idle", "set", "add"}, name : HostNames]]
    BY <2>1, HostPcTyped DEF HostNames
  <2>3. /\ UNCHANGED <<hostname, instance, delegated, hostServices, hostActions, hostBlocks, hostCalls>>
        /\ scheduled' \subseteq Names /\ sema' \in 0..1
    BY <1>3 DEF HostnameSetReturns, HostServiceAddReturns, HostsTypeOK
  <2> QED BY <1>1, <2>2, <2>3
<1>4. CASE ExecuteHosts
  BY <1>4, HostnameSetStep, InstanceSetStep, HostServiceAddStep, DelegateAddStep, DelegateSetStep,
     DelegateRemoveStep DEF ExecuteHosts
<1>5. CASE Mangle
  BY <1>5 DEF Mangle, Calm
<1>6. CASE Schedules \/ Sent \/ UNCHANGED hostVars
  <2>1. /\ UNCHANGED <<hostname, instance, delegated, hostServices, hostActions, hostBlocks, hostCalls>>
        /\ scheduled' \subseteq Names /\ sema' \in 0..1
        /\ hostPc' \in [HostClients -> [op : {"idle", "set", "add"}, name : HostNames]]
    BY <1>6 DEF Schedules, Sent, hostVars, HostsTypeOK, Delegated
  <2> QED BY <1>1, <2>1
<1> QED BY <1>2, <1>3, <1>4, <1>5, <1>6 DEF HostsNext

\* A lookup finds every service whose host is ours and has addresses.
LEMMA HostsInvSays == HostsInv => ServicesHaveHosts
<1> SUFFICES ASSUME HostsInv PROVE ServicesHaveHosts
  OBVIOUS
<1> USE DEF HostsInv
<1>1. \A i \in Hosted(FALSE) : hostServices[i] \in Delegated /\ delegated[hostServices[i]] # 0
  BY DEF Hosted, ServiceHostIsOurs, IsOurs, HaveAddresses, Delegated
<1>2. Lookup(FALSE) = Hosted(FALSE) /\ Lookup(TRUE) = Hosted(TRUE)
  BY <1>1 DEF Lookup
<1>3. Hosted(TRUE) \cup Hosted(FALSE) = DOMAIN hostServices
  BY DEF Hosted
<1>4. LookupFindsAll
  BY <1>2, <1>3 DEF LookupFindsAll
<1> QED BY <1>4 DEF ServicesHaveHosts

\* The host of every service is this one or delegated to it, never both, and a
\* lookup finds every service (mdns.c:4931, _mdns_remap_self_service_hostname;
\* 2989, _mdns_delegate_hostname_add), as long as no other host disputes the
\* name, the host name is not set to a delegated one, no service is added while
\* its host is changed, and delegated hosts have addresses.
THEOREM ServicesKeepHosts == Calm => (HostsSpec => []ServicesHaveHosts)
<1> SUFFICES ASSUME Calm PROVE HostsSpec => []ServicesHaveHosts
  OBVIOUS
<1>1. HostsInv /\ [HostsNext]_hostVars => HostsInv'
  BY HostsInvStep
<1> QED BY HostsInvInit, <1>1, HostsInvSays, PTL DEF HostsSpec

-----------------------------------------------------------------------------
(* Host names: a call that returns.                                        *)

\* The host name that is set is that of the client that waits.
Sets(c, n) == hostPc[c].op = "set" /\ hostPc[c].name = n

SetInv ==
  /\ HostsTypeOK
  /\ \A c \in HostClients : hostPc[c].op = "set" => c \in Setters
  /\ sema = 1 => \E c \in Setters : Sets(c, hostname)
  /\ \A i \in DOMAIN hostActions : hostActions[i].op = "HOSTNAME_SET" =>
       /\ sema = 0
       /\ \E c \in Setters : Sets(c, hostActions[i].name)
       /\ \A j \in DOMAIN hostActions : hostActions[j].op = "HOSTNAME_SET" => j = i

\* One client at most sets the host name, and no other host disputes it.
OneSetter == ~Disputed /\ \A c, d \in Setters : c = d

\* The fields of what a client waits for.
LEMMA HostPcFields ==
  ASSUME HostsTypeOK, NEW c \in HostClients
  PROVE  hostPc[c].op \in {"idle", "set", "add"} /\ HostIdle.op = "idle"
BY DEF HostsTypeOK, HostIdle

\* Clients that wait, and actions that wait, stay as they are where it matters.
LEMMA SetStays ==
  ASSUME SetInv, HostsTypeOK', UNCHANGED <<hostname, sema>>,
         \A c \in HostClients : hostPc'[c].op = "set" => hostPc'[c] = hostPc[c],
         \A c \in HostClients : hostPc[c].op = "set" => hostPc'[c] = hostPc[c],
         NEW shift \in [DOMAIN hostActions' -> Nat],
         \A i, j \in DOMAIN hostActions' : shift[i] = shift[j] => i = j,
         \A i \in DOMAIN hostActions' : hostActions'[i].op = "HOSTNAME_SET" =>
           shift[i] \in DOMAIN hostActions /\ hostActions'[i] = hostActions[shift[i]]
  PROVE  SetInv'
<1>1. \A c \in HostClients : hostPc'[c].op = "set" => c \in Setters
  BY DEF SetInv
<1>2. \A n : \A c \in Setters : Sets(c, n) => hostPc'[c].op = "set" /\ hostPc'[c].name = n
  BY HostConstants DEF Sets
<1>3. sema' = 1 => \E c \in Setters : Sets(c, hostname)'
  BY <1>2 DEF SetInv, Sets
<1>4. ASSUME NEW i \in DOMAIN hostActions', hostActions'[i].op = "HOSTNAME_SET"
      PROVE  /\ sema' = 0
             /\ \E c \in Setters : Sets(c, hostActions[i].name)'
             /\ \A j \in DOMAIN hostActions' : hostActions'[j].op = "HOSTNAME_SET" => j = i
  <2>1. shift[i] \in DOMAIN hostActions /\ hostActions'[i] = hostActions[shift[i]]
    BY <1>4
  <2>2. sema = 0 /\ \E c \in Setters : Sets(c, hostActions[shift[i]].name)
    BY <1>4, <2>1 DEF SetInv
  <2>3. \E c \in Setters : Sets(c, hostActions[i].name)'
    BY <1>2, <2>1, <2>2 DEF Sets
  <2>4. ASSUME NEW j \in DOMAIN hostActions', hostActions'[j].op = "HOSTNAME_SET" PROVE j = i
    <3>1. shift[j] \in DOMAIN hostActions /\ hostActions'[j] = hostActions[shift[j]]
      BY <2>4
    <3>2. shift[j] = shift[i]
      BY <1>4, <2>1, <2>4, <3>1 DEF SetInv
    <3> QED BY <3>2
  <2> QED BY <2>2, <2>3, <2>4
<1> QED BY <1>1, <1>3, <1>4 DEF SetInv

\* No client is setting the host name when one calls to set it.
LEMMA SetCall ==
  ASSUME OneSetter, SetInv, HostsTypeOK', NEW c \in HostClients, NEW n \in Names, HostnameSet(c, n)
  PROVE  SetInv'
<1>1. c \in Setters /\ hostPc[c] = HostIdle /\ UNCHANGED <<hostname, sema>>
  BY DEF HostnameSet, HostCall
<1>2. \A d \in HostClients : hostPc[d].op # "set"
  BY <1>1, HostPcFields DEF SetInv, OneSetter
<1>3. sema # 1 /\ ~Waits("HOSTNAME_SET")
  BY <1>2, HostConstants DEF SetInv, Sets, Waits
<1>4. CASE ~HostsHaveRoom
  <2>1. hostActions' = hostActions /\ hostPc' = hostPc
    BY <1>4 DEF HostnameSet, PostAction, WaitIfPosted
  <2> QED BY <1>1, <1>2, <1>3, <2>1 DEF SetInv, Waits
<1>5. CASE HostsHaveRoom
  <2> DEFINE a == HostAct("HOSTNAME_SET", n, 0)
             last == Len(hostActions) + 1
  <2>1. hostActions' = Append(hostActions, a) /\ hostPc' = [hostPc EXCEPT ![c] = [op |-> "set", name |-> n]]
    BY <1>5 DEF HostnameSet, PostAction, WaitIfPosted
  <2>2. a \in HostActions /\ a.op = "HOSTNAME_SET" /\ a.name = n
    BY DEF HostAct, HostActions
  <2> HIDE DEF a
  <2>3. /\ \A i \in DOMAIN hostActions : i \in DOMAIN hostActions' /\ hostActions'[i] = hostActions[i]
        /\ hostActions'[last] = a
        /\ \A i \in DOMAIN hostActions' : i \in DOMAIN hostActions \/ i = last
    BY <2>1, <2>2, Posted DEF SetInv, HostsTypeOK
  <2> HIDE DEF last
  <2>4. /\ hostPc'[c].op = "set" /\ hostPc'[c].name = n
        /\ \A d \in HostClients : d # c => hostPc'[d] = hostPc[d]
    BY <2>1 DEF SetInv, HostsTypeOK
  <2>5. \A d \in HostClients : hostPc'[d].op = "set" => d \in Setters
    BY <1>1, <2>4 DEF SetInv
  <2>6. sema' = 0
    BY <1>1, <1>3 DEF SetInv, HostsTypeOK
  <2>7. \A i \in DOMAIN hostActions' : hostActions'[i].op = "HOSTNAME_SET" => i = last
    BY <1>3, <2>3 DEF Waits
  <2>8. Sets(c, n)'
    BY <2>4 DEF Sets
  <2>9. ASSUME NEW i \in DOMAIN hostActions', hostActions'[i].op = "HOSTNAME_SET"
        PROVE  /\ \E d \in Setters : Sets(d, hostActions[i].name)'
               /\ \A j \in DOMAIN hostActions' : hostActions'[j].op = "HOSTNAME_SET" => j = i
    <3>1. hostActions'[i].name = n
      BY <2>2, <2>3, <2>7, <2>9
    <3>2. Sets(c, hostActions[i].name)'
      BY <2>4, <3>1 DEF Sets
    <3> QED BY <1>1, <2>7, <2>9, <3>2
  <2> QED BY <2>5, <2>6, <2>9 DEF SetInv
<1> QED BY <1>4, <1>5

\* The other calls post no host name.
LEMMA OtherCall ==
  ASSUME SetInv, HostsTypeOK', NEW c \in HostClients, HostRequests(c),
         \A n \in Names : ~HostnameSet(c, n)
  PROVE  SetInv'
<1>1. UNCHANGED <<hostname, sema>> /\ hostPc[c] = HostIdle
  BY DEF HostRequests, HostCall, DefaultInstanceSet, HostServiceAdd,
       DelegateAdd, DelegateSetAddress, DelegateRemove
<1>2. hostPc' = hostPc \/ \E n \in Names : hostPc' = [hostPc EXCEPT ![c] = [op |-> "add", name |-> n]]
  BY DEF HostRequests, DefaultInstanceSet, HostServiceAdd, WaitIfPosted,
       DelegateAdd, DelegateSetAddress, DelegateRemove
<1>3. /\ \A d \in HostClients : hostPc'[d].op = "set" => hostPc'[d] = hostPc[d]
      /\ \A d \in HostClients : hostPc[d].op = "set" => hostPc'[d] = hostPc[d]
  BY <1>1, <1>2, HostPcFields DEF SetInv, HostsTypeOK
<1>4. \/ hostActions' = hostActions
      \/ \E op \in {"SERVICE_ADD", "DELEGATE_ADD", "DELEGATE_SET", "DELEGATE_REMOVE", "INSTANCE_SET"},
            n \in HostNames, k \in Addresses \cup {0} :
              hostActions' = Append(hostActions, HostAct(op, n, k))
  BY DEF HostRequests, DefaultInstanceSet, HostServiceAdd, PostAction,
       DelegateAdd, DelegateSetAddress, DelegateRemove, HostNames
<1>5. hostActions \in Seq(HostActions) /\ DOMAIN hostActions' \subseteq Nat
  BY DEF SetInv, HostsTypeOK
<1>6. \A i \in DOMAIN hostActions' : hostActions'[i].op = "HOSTNAME_SET" =>
        i \in DOMAIN hostActions /\ hostActions'[i] = hostActions[i]
  <2>1. CASE hostActions' = hostActions
    BY <2>1
  <2>2. ASSUME NEW op \in {"SERVICE_ADD", "DELEGATE_ADD", "DELEGATE_SET", "DELEGATE_REMOVE", "INSTANCE_SET"},
               NEW n, NEW k, hostActions' = Append(hostActions, HostAct(op, n, k))
        PROVE  \A i \in DOMAIN hostActions' : hostActions'[i].op = "HOSTNAME_SET" =>
                 i \in DOMAIN hostActions /\ hostActions'[i] = hostActions[i]
    <3> DEFINE a == HostAct(op, n, k)
    <3>1. a.op # "HOSTNAME_SET"
      BY DEF HostAct
    <3> HIDE DEF a
    <3> DEFINE last == Len(hostActions) + 1
    <3>2. /\ \A i \in DOMAIN hostActions : hostActions'[i] = hostActions[i]
          /\ hostActions'[last] = a
          /\ \A i \in DOMAIN hostActions' : i \in DOMAIN hostActions \/ i = last
      <4>1. hostActions' = Append(hostActions, a) /\ hostActions \in Seq(HostActions \cup {a})
        BY <1>5, <2>2 DEF a
      <4> QED BY <4>1, Posted
    <3> QED BY <3>1, <3>2
  <2> QED BY <1>4, <2>1, <2>2
<1> DEFINE shift == [i \in DOMAIN hostActions' |-> i]
<1>7. shift \in [DOMAIN hostActions' -> Nat]
  BY <1>5
<1>8. \A i \in DOMAIN hostActions' : shift[i] = i
  OBVIOUS
<1> HIDE DEF shift
<1> QED BY <1>1, <1>3, <1>6, <1>7, <1>8, SetStays

\* A client returns: from setting the host name, whose semaphore it takes.
LEMMA SetReturned ==
  ASSUME OneSetter, SetInv, HostsTypeOK', NEW c \in HostClients,
         HostnameSetReturns(c) \/ HostServiceAddReturns(c)
  PROVE  SetInv'
<1>1. UNCHANGED <<hostname, hostActions>> /\ hostPc' = [hostPc EXCEPT ![c] = HostIdle]
  BY DEF HostnameSetReturns, HostServiceAddReturns
<1>2. hostPc'[c].op = "idle" /\ \A d \in HostClients : d # c => hostPc'[d] = hostPc[d]
  BY <1>1, HostPcFields DEF SetInv, HostsTypeOK
<1>3. CASE HostnameSetReturns(c)
  <2>1. hostPc[c].op = "set" /\ sema = 1 /\ sema' = 0
    BY <1>3 DEF HostnameSetReturns
  <2>2. \A d \in HostClients : hostPc'[d].op # "set"
    BY <1>2, <2>1 DEF SetInv, OneSetter
  <2>3. \A i \in DOMAIN hostActions : hostActions[i].op # "HOSTNAME_SET"
    BY <2>1 DEF SetInv
  <2> QED BY <1>1, <2>1, <2>2, <2>3 DEF SetInv
<1>4. CASE HostServiceAddReturns(c)
  <2>1. hostPc[c].op = "add" /\ sema' = sema
    BY <1>4 DEF HostServiceAddReturns
  <2> DEFINE shift == [i \in DOMAIN hostActions' |-> i]
  <2>2. shift \in [DOMAIN hostActions' -> Nat]
    BY DEF HostsTypeOK
  <2>3. \A i \in DOMAIN hostActions' : shift[i] = i
    OBVIOUS
  <2> HIDE DEF shift
  <2> QED BY <1>1, <1>2, <2>1, <2>2, <2>3, SetStays
<1> QED BY <1>3, <1>4

\* An action is executed: the host name is set for the client that waits.
LEMMA SetExecuted ==
  ASSUME SetInv, HostsTypeOK', ExecuteHosts
  PROVE  SetInv'
<1>1. hostActions # <<>> /\ hostActions' = Tail(hostActions) /\ hostPc' = hostPc
  BY DEF ExecuteHosts
<1>2. /\ 1 \in DOMAIN hostActions /\ Head(hostActions) = hostActions[1]
      /\ \A i \in DOMAIN hostActions' :
           /\ i + 1 \in DOMAIN hostActions /\ i + 1 > 1 /\ i \in Nat
           /\ hostActions'[i] = hostActions[i + 1]
  BY <1>1, Taken DEF SetInv, HostsTypeOK
<1>3. CASE ExecuteHostnameSet(Head(hostActions))
  <2>1. /\ hostActions[1].op = "HOSTNAME_SET" /\ hostname' = hostActions[1].name /\ sema' = 1
    BY <1>2, <1>3 DEF ExecuteHostnameSet
  <2>2. \A i \in DOMAIN hostActions' : hostActions'[i].op # "HOSTNAME_SET"
    BY <1>2, <2>1 DEF SetInv
  <2>3. PICK c \in Setters : Sets(c, hostActions[1].name)
    BY <1>2, <2>1 DEF SetInv
  <2>4. Sets(c, hostname)'
    BY <1>1, <2>1, <2>3 DEF Sets
  <2> QED BY <1>1, <2>2, <2>4 DEF SetInv
<1>4. CASE UNCHANGED <<hostname, sema>>
  <2> DEFINE shift == [i \in DOMAIN hostActions' |-> i + 1]
  <2>1. shift \in [DOMAIN hostActions' -> Nat]
    BY <1>2
  <2>2. \A i \in DOMAIN hostActions' : shift[i] = i + 1
    OBVIOUS
  <2> HIDE DEF shift
  <2>3. \A i, j \in DOMAIN hostActions' : shift[i] = shift[j] => i = j
    BY <1>2, <2>2
  <2>4. \A i \in DOMAIN hostActions' : hostActions'[i].op = "HOSTNAME_SET" =>
           shift[i] \in DOMAIN hostActions /\ hostActions'[i] = hostActions[shift[i]]
    BY <1>2, <2>2
  <2> QED BY <1>1, <1>4, <2>1, <2>3, <2>4, SetStays
<1> QED BY <1>3, <1>4 DEF ExecuteHosts, ExecuteInstanceSet, ExecuteServiceAdd, ExecuteDelegateAdd,
                      ExecuteDelegateSet, ExecuteDelegateRemove

LEMMA SetInvStep ==
  ASSUME OneSetter, SetInv, HostsTypeOK', [HostsNext]_hostVars
  PROVE  SetInv'
<1>1. ASSUME NEW c \in HostClients, HostRequests(c) PROVE SetInv'
  BY <1>1, SetCall, OtherCall
<1>2. ASSUME NEW c \in HostClients, HostnameSetReturns(c) \/ HostServiceAddReturns(c) PROVE SetInv'
  BY <1>2, SetReturned
<1>3. CASE ExecuteHosts
  BY <1>3, SetExecuted
<1>4. CASE Mangle
  BY <1>4 DEF Mangle, OneSetter
<1>5. CASE Schedules \/ Sent \/ UNCHANGED hostVars
  BY <1>5 DEF Schedules, Sent, hostVars, SetInv, Sets
<1> QED BY <1>1, <1>2, <1>3, <1>4, <1>5 DEF HostsNext

LEMMA SetInvInit == HostsInit => SetInv
<1> SUFFICES ASSUME HostsInit PROVE SetInv
  OBVIOUS
<1>1. HostsTypeOK
  BY HostsInvInit DEF HostsInv
<1> QED BY <1>1 DEF HostsInit, SetInv, HostIdle

\* A client that returns finds the host name set.
LEMMA SetInvSays ==
  ASSUME OneSetter, SetInv, [HostsNext]_hostVars
  PROVE  SetReturns
<1> SUFFICES ASSUME NEW c \in HostClients, hostPc[c].op = "set", hostPc'[c] = HostIdle
             PROVE  hostname = hostPc[c].name
  BY DEF SetReturns
<1>1. hostPc[c] # HostIdle /\ hostPc'[c] # hostPc[c]
  BY HostPcFields DEF SetInv
<1>2. ASSUME NEW d \in HostClients, hostPc[d].op # "set", hostPc'[c] # hostPc[c],
             \E x : hostPc' = [hostPc EXCEPT ![d] = x]
      PROVE  FALSE
  BY <1>2 DEF SetInv, HostsTypeOK
<1>3. ASSUME NEW d \in HostClients, HostRequests(d) PROVE FALSE
  <2>1. hostPc[d] = HostIdle /\ (hostPc' = hostPc \/ \E x : hostPc' = [hostPc EXCEPT ![d] = x])
    BY <1>3 DEF HostRequests, HostCall, DefaultInstanceSet, HostnameSet, HostServiceAdd, WaitIfPosted,
         DelegateAdd, DelegateSetAddress, DelegateRemove
  <2> QED BY <1>1, <1>2, <2>1, HostPcFields DEF SetInv
<1>4. ASSUME NEW d \in HostClients, HostServiceAddReturns(d) PROVE FALSE
  <2>1. hostPc[d].op = "add" /\ \E x : hostPc' = [hostPc EXCEPT ![d] = x]
    BY <1>4 DEF HostServiceAddReturns
  <2> QED BY <1>1, <1>2, <2>1
<1>5. ASSUME NEW d \in HostClients, HostnameSetReturns(d) PROVE hostname = hostPc[c].name
  <2>1. sema = 1
    BY <1>5 DEF HostnameSetReturns
  <2>2. PICK e \in Setters : Sets(e, hostname)
    BY <2>1 DEF SetInv
  <2>3. c = e
    BY <2>2 DEF SetInv, OneSetter
  <2> QED BY <2>2, <2>3 DEF Sets
<1>6. PICK d \in HostClients : HostRequests(d) \/ HostnameSetReturns(d) \/ HostServiceAddReturns(d)
  BY <1>1 DEF HostsNext, hostVars, ExecuteHosts, Mangle, Schedules, Sent
<1> QED BY <1>3, <1>4, <1>5, <1>6

\* Types, from the invariant of the hosts.
LEMMA HostsTypeAlways == Calm => (HostsSpec => []HostsTypeOK)
<1> SUFFICES ASSUME Calm PROVE HostsSpec => []HostsTypeOK
  OBVIOUS
<1>1. HostsInv /\ [HostsNext]_hostVars => HostsInv'
  BY HostsInvStep
<1>2. HostsInv => HostsTypeOK
  BY DEF HostsInv
<1> QED BY HostsInvInit, <1>1, <1>2, PTL DEF HostsSpec

\* A client that returns from setting the host name finds it set (mdns.c:5624,
\* mdns_hostname_set), as long as it is the only one that sets it and no other
\* host disputes it.
THEOREM NameIsSet == Calm /\ OneSetter => (HostsSpec => ReturnMeansSet)
<1> SUFFICES ASSUME Calm, OneSetter PROVE HostsSpec => ReturnMeansSet
  OBVIOUS
<1>1. HostsSpec => []HostsTypeOK
  BY HostsTypeAlways
<1>2. SetInv /\ HostsTypeOK' /\ [HostsNext]_hostVars => SetInv'
  BY SetInvStep
<1>3. SetInv /\ [HostsNext]_hostVars => [SetReturns]_hostVars
  BY SetInvSays
<1> QED BY <1>1, <1>2, <1>3, SetInvInit, PTL DEF HostsSpec, ReturnMeansSet

-----------------------------------------------------------------------------
(* Host names: the names and addresses are counted.                        *)

\* The records of the task and its queue.
HostRecords ==
  /\ hostname \in HostNames /\ instance \in BOOLEAN
  /\ delegated \in [Names -> Nat \cup {NoAddresses}]
  /\ hostServices \in Seq(Names)
  /\ hostActions \in Seq(HostActions)

HostsLeakInv == HostRecords /\ HostsLeakNothing

\* A delegated host or its addresses are refused, as the queue is full.
RefusesAddresses ==
  /\ ~HostsHaveRoom
  /\ \E c \in HostClients, n \in Names : DelegateAdd(c, n) \/ DelegateSetAddress(c, n)

\* What the delegated hosts own, each its name and addresses, and what the
\* actions of a queue do.
Owns(k) == IF k = NoAddresses THEN 0 ELSE 1 + k
HostsOwn(d) == Total([n \in Names |-> Owns(d[n])])
QueueOwns(q) == Total([i \in DOMAIN q |-> 1 + q[i].addrs])

LEMMA OwnsIsNat == \A k \in Nat \cup {NoAddresses} : Owns(k) \in Nat
BY DEF Owns

LEMMA HostsLeakIs ==
  /\ HostsLeakNothing <=>
       hostBlocks = One(hostname # NoName) + One(instance) + Len(hostServices)
                    + HostsOwn(delegated) + QueueOwns(hostActions)
  /\ HostsLeakNothing' <=>
       hostBlocks' = One(hostname' # NoName) + One(instance') + Len(hostServices')
                    + HostsOwn(delegated') + QueueOwns(hostActions')
<1>1. [n \in Names |-> IF n \in Delegated THEN 1 + delegated[n] ELSE 0]
        = [n \in Names |-> Owns(delegated[n])]
  BY DEF Delegated, Owns
<1>2. [n \in Names |-> IF n \in Delegated' THEN 1 + delegated'[n] ELSE 0]
        = [n \in Names |-> Owns(delegated'[n])]
  BY DEF Delegated, Owns
<1> QED BY <1>1, <1>2 DEF HostsLeakNothing, Owned, HostsOwn, QueueOwns

\* One more action waits, and the first is taken.
LEMMA QueueMore ==
  ASSUME NEW q \in Seq(HostActions), NEW x \in HostActions
  PROVE  QueueOwns(Append(q, x)) = QueueOwns(q) + 1 + x.addrs /\ QueueOwns(q) \in Nat
<1> DEFINE r == Append(q, x)
           n == Len(q)
           f == [i \in DOMAIN r |-> 1 + r[i].addrs]
           g == [i \in DOMAIN q |-> 1 + q[i].addrs]
<1>1. /\ n \in Nat /\ r \in Seq(HostActions) /\ DOMAIN r = 1..(n + 1) /\ DOMAIN q = 1..n
      /\ r[n + 1] = x /\ \A i \in 1..n : r[i] = q[i] /\ i \in 1..(n + 1)
      /\ n + 1 \in 1..(n + 1)
  BY AppendProperties
<1>2. /\ \A i \in DOMAIN r : r[i] \in HostActions
      /\ \A i \in DOMAIN q : q[i] \in HostActions
  BY <1>1
<1> HIDE DEF r, n
<1>3. f \in [1..(n + 1) -> Nat] /\ g \in [1..n -> Nat]
  BY <1>1, <1>2, HostActFields
<1>4. IsPart(g, f, 1..n) /\ f[n + 1] = 1 + x.addrs
  BY <1>1, <1>3 DEF IsPart
<1>5. QueueOwns(r) = Total(f) /\ QueueOwns(q) = Total(g)
  BY DEF QueueOwns
<1> HIDE DEF f, g
<1>6. Total(f) = Total(g) + f[n + 1] /\ Total(g) \in Nat
  BY <1>1, <1>3, <1>4, TotalLast
<1>7. x.addrs \in Nat
  BY HostActFields
<1> QED BY <1>4, <1>5, <1>6, <1>7 DEF r

LEMMA QueueLess ==
  ASSUME NEW q \in Seq(HostActions), q # <<>>
  PROVE  /\ QueueOwns(q) = 1 + Head(q).addrs + QueueOwns(Tail(q))
         /\ QueueOwns(Tail(q)) \in Nat
<1> DEFINE r == Tail(q)
           n == Len(r)
           f == [i \in DOMAIN q |-> 1 + q[i].addrs]
           g == [i \in DOMAIN r |-> 1 + r[i].addrs]
<1>1. /\ n \in Nat /\ r \in Seq(HostActions) /\ DOMAIN q = 1..(n + 1) /\ DOMAIN r = 1..n
      /\ Head(q) = q[1] /\ \A i \in 1..n : r[i] = q[i + 1] /\ i + 1 \in 1..(n + 1)
      /\ 1 \in 1..(n + 1)
  OBVIOUS
<1>2. /\ \A i \in DOMAIN r : r[i] \in HostActions
      /\ \A i \in DOMAIN q : q[i] \in HostActions
  BY <1>1
<1> HIDE DEF r, n
<1>3. f \in [1..(n + 1) -> Nat] /\ g \in [1..n -> Nat]
  BY <1>1, <1>2, HostActFields
<1>4. IsRest(g, f, n) /\ f[1] = 1 + Head(q).addrs
  BY <1>1, <1>3 DEF IsRest
<1>5. QueueOwns(q) = Total(f) /\ QueueOwns(r) = Total(g)
  BY DEF QueueOwns
<1> HIDE DEF f, g
<1>6. Total(f) = f[1] + Total(g) /\ Total(g) \in Nat
  BY <1>1, <1>3, <1>4, TotalFirst
<1> QED BY <1>4, <1>5, <1>6 DEF r

\* A host has other addresses, or none.
LEMMA HostsOwnChanged ==
  ASSUME NEW d \in [Names -> Nat \cup {NoAddresses}], NEW n \in Names,
         NEW k \in Nat \cup {NoAddresses}
  PROVE  /\ HostsOwn([d EXCEPT ![n] = k]) = HostsOwn(d) - Owns(d[n]) + Owns(k)
         /\ HostsOwn(d) \in Nat
<1> DEFINE r == [d EXCEPT ![n] = k]
           f == [m \in Names |-> Owns(d[m])]
           g == [m \in Names |-> Owns(r[m])]
<1>1. /\ r \in [Names -> Nat \cup {NoAddresses}] /\ r[n] = k
      /\ \A m \in Names \ {n} : r[m] = d[m]
  OBVIOUS
<1> HIDE DEF r
<1>2. f \in [Names -> Nat] /\ g \in [Names -> Nat]
  BY <1>1, OwnsIsNat
<1>3. f[n] = Owns(d[n]) /\ g[n] = Owns(k) /\ \A m \in Names \ {n} : g[m] = f[m]
  BY <1>1
<1>4. HostsOwn(d) = Total(f) /\ HostsOwn(r) = Total(g)
  BY DEF HostsOwn
<1> HIDE DEF f, g
<1>5. IsFiniteSet(Names)
  BY HostsAssumption
<1>6. Total(g) = Total(f) - f[n] + g[n] /\ Total(f) \in Nat
  BY <1>2, <1>3, <1>5, TotalChanged, ThingsAreFinite
<1> QED BY <1>3, <1>4, <1>6 DEF r

\* What is counted is a number.
LEMMA HostCountsAreNat ==
  ASSUME HostRecords
  PROVE  /\ HostsOwn(delegated) \in Nat /\ QueueOwns(hostActions) \in Nat
         /\ Len(hostServices) \in Nat /\ \A b \in BOOLEAN : One(b) \in Nat
<1>1. HostsOwn(delegated) \in Nat
  <2> DEFINE f == [m \in Names |-> Owns(delegated[m])]
  <2>1. f \in [Names -> Nat]
    BY OwnsIsNat DEF HostRecords
  <2>2. HostsOwn(delegated) = Total(f)
    BY DEF HostsOwn
  <2> HIDE DEF f
  <2> QED BY <2>1, <2>2, ThingsAreFinite, HostsAssumption
<1>2. QueueOwns(hostActions) \in Nat
  <2>1. HostAct("INSTANCE_SET", NoName, 0) \in HostActions
    BY DEF HostAct, HostActions
  <2> QED BY <2>1, QueueMore DEF HostRecords
<1>3. Len(hostServices) \in Nat /\ \A b \in BOOLEAN : One(b) \in Nat
  BY DEF HostRecords, One
<1> QED BY <1>1, <1>2, <1>3

-----------------------------------------------------------------------------
(* Host names: the steps keep the count.                                   *)

\* A call posts a name and addresses, or frees the name again and had no
\* addresses to free.
LEMMA HostsLeakPost ==
  ASSUME HostsLeakInv, NEW op, NEW name, NEW addrs, PostAction(op, name, addrs),
         HostAct(op, name, addrs) \in HostActions, ~HostsHaveRoom => addrs = 0,
         UNCHANGED <<hostname, instance, delegated, hostServices>>
  PROVE  HostsLeakInv'
<1> DEFINE x == HostAct(op, name, addrs)
<1>1. x \in HostActions /\ x.addrs = addrs /\ addrs \in Nat
  BY HostActFields DEF HostAct
<1>2. HostRecords
  BY DEF HostsLeakInv
<1>3. hostBlocks = One(hostname # NoName) + One(instance) + Len(hostServices)
                    + HostsOwn(delegated) + QueueOwns(hostActions)
  BY HostsLeakIs DEF HostsLeakInv
<1> HIDE DEF x
<1> DEFINE m == One(hostname # NoName) + One(instance) + Len(hostServices) + HostsOwn(delegated)
<1>4. m \in Nat /\ QueueOwns(hostActions) \in Nat
  <2>1. /\ One(hostname # NoName) \in Nat /\ One(instance) \in Nat
        /\ Len(hostServices) \in Nat /\ HostsOwn(delegated) \in Nat
        /\ QueueOwns(hostActions) \in Nat
    BY <1>2, HostCountsAreNat DEF HostRecords
  <2> QED BY <2>1
<1>5. HostsLeakNothing' <=> hostBlocks' = m + QueueOwns(hostActions')
  BY HostsLeakIs
<1>6. hostBlocks = m + QueueOwns(hostActions)
  BY <1>3
<1> HIDE DEF m
<1>7. CASE HostsHaveRoom
  <2>1. hostActions' = Append(hostActions, x) /\ hostBlocks' = hostBlocks + 1 + addrs
    BY <1>7 DEF PostAction, x
  <2>2. QueueOwns(hostActions') = QueueOwns(hostActions) + 1 + addrs
    BY <1>1, <1>2, <2>1, QueueMore DEF HostRecords
  <2>3. HostRecords'
    BY <1>1, <1>2, <2>1 DEF HostRecords
  <2> QED BY <1>1, <1>4, <1>5, <1>6, <2>1, <2>2, <2>3 DEF HostsLeakInv
<1>8. CASE ~HostsHaveRoom
  <2>1. hostActions' = hostActions /\ hostBlocks' = hostBlocks
    BY <1>4, <1>6, <1>8 DEF PostAction
  <2>2. HostRecords'
    BY <1>2, <2>1 DEF HostRecords
  <2> QED BY <1>5, <1>6, <2>1, <2>2 DEF HostsLeakInv
<1> QED BY <1>7, <1>8

LEMMA HostRequestsLeak ==
  ASSUME HostsLeakInv, ~RefusesAddresses, NEW c \in HostClients, HostRequests(c)
  PROVE  HostsLeakInv'
<1>1. UNCHANGED <<hostname, instance, delegated, hostServices>>
  BY DEF HostRequests, HostCall, DefaultInstanceSet, HostnameSet, HostServiceAdd,
       DelegateAdd, DelegateSetAddress, DelegateRemove
<1>2. CASE DefaultInstanceSet(c)
  <2>1. PostAction("INSTANCE_SET", NoName, 0) /\ HostAct("INSTANCE_SET", NoName, 0) \in HostActions
    BY <1>2 DEF DefaultInstanceSet, HostAct, HostActions
  <2> QED BY <1>1, <2>1, HostsLeakPost
<1>3. ASSUME NEW n \in Names, HostnameSet(c, n) \/ HostServiceAdd(c, n) \/ DelegateRemove(c, n)
      PROVE  HostsLeakInv'
  <2>1. PICK op \in {"HOSTNAME_SET", "SERVICE_ADD", "DELEGATE_REMOVE"} : PostAction(op, n, 0)
    BY <1>3 DEF HostnameSet, HostServiceAdd, DelegateRemove
  <2>2. HostAct(op, n, 0) \in HostActions
    BY DEF HostAct, HostActions
  <2> QED BY <1>1, <2>1, <2>2, HostsLeakPost
<1>4. ASSUME NEW n \in Names, DelegateAdd(c, n) \/ DelegateSetAddress(c, n)
      PROVE  HostsLeakInv'
  <2>1. PICK op \in {"DELEGATE_ADD", "DELEGATE_SET"}, k \in Addresses : PostAction(op, n, k)
    BY <1>4 DEF DelegateAdd, DelegateSetAddress
  <2>2. HostAct(op, n, k) \in HostActions
    BY DEF HostAct, HostActions
  <2>3. HostsHaveRoom
    BY <1>4 DEF RefusesAddresses
  <2> QED BY <1>1, <2>1, <2>2, <2>3, HostsLeakPost
<1> QED BY <1>2, <1>3, <1>4 DEF HostRequests

\* The first action is executed: what it owned is taken or freed.
LEMMA HostsLeakServe ==
  ASSUME HostsLeakInv, ExecuteHosts
  PROVE  HostsLeakInv'
<1> DEFINE x == Head(hostActions)
           k == x.addrs
           q == QueueOwns(hostActions')
           h == One(hostname # NoName)
           i == One(instance)
           l == Len(hostServices)
           d == HostsOwn(delegated)
<1>1. HostRecords /\ hostActions # <<>> /\ hostActions' = Tail(hostActions)
  BY DEF HostsLeakInv, ExecuteHosts
<1>2. /\ x \in HostActions /\ k \in Nat
      /\ hostActions' \in Seq(HostActions)
      /\ x.op # "INSTANCE_SET" => x.name \in Names
      /\ x.op \in {"HOSTNAME_SET", "SERVICE_ADD", "DELEGATE_REMOVE", "INSTANCE_SET"} => k = 0
  <2>1. x \in HostActions /\ hostActions' \in Seq(HostActions)
    BY <1>1 DEF HostRecords
  <2>2. x.op \in {"HOSTNAME_SET", "SERVICE_ADD", "DELEGATE_REMOVE", "INSTANCE_SET"} => k = 0
    BY <2>1 DEF HostActions
  <2> HIDE DEF x
  <2> QED BY <2>1, <2>2, HostActFields
<1>3. hostBlocks = h + i + l + d + QueueOwns(hostActions)
  BY HostsLeakIs DEF HostsLeakInv
<1>4. QueueOwns(hostActions) = 1 + k + q /\ q \in Nat
  BY <1>1, QueueLess DEF HostRecords
<1>5. h \in Nat /\ i \in Nat /\ l \in Nat /\ d \in Nat
  BY <1>1, HostCountsAreNat DEF HostRecords
<1>6. HostsLeakNothing' <=>
        hostBlocks' = One(hostname' # NoName) + One(instance') + Len(hostServices')
                      + HostsOwn(delegated') + q
  BY HostsLeakIs
<1> HIDE DEF x, k, q, h, i, l, d
<1>7. CASE ExecuteHostnameSet(x)
  <2>1. /\ x.op = "HOSTNAME_SET" /\ hostServices' = Remapped(hostname, x.name)
        /\ hostBlocks' = hostBlocks - h /\ hostname' = x.name
        /\ UNCHANGED <<instance, delegated>>
    BY <1>7 DEF ExecuteHostnameSet, h
  <2>2. x.name \in Names /\ x.name # NoName /\ k = 0
    BY <1>2, <2>1, HostConstants
  <2>3. hostServices' \in Seq(Names) /\ Len(hostServices') = l
    <3>1. hostServices \in Seq(Names)
      BY <1>1 DEF HostRecords
    <3>2. /\ Remapped(hostname, x.name) \in Seq(Names)
          /\ DOMAIN Remapped(hostname, x.name) = DOMAIN hostServices
      BY <2>2, <3>1, RemappedIs
    <3> HIDE DEF Remapped
    <3> QED BY <2>1, <3>1, <3>2, LenProperties DEF l
  <2>4. One(hostname' # NoName) = 1 /\ One(instance') = i /\ HostsOwn(delegated') = d
    BY <2>1, <2>2 DEF One, i, d
  <2>5. HostRecords'
    BY <1>1, <1>2, <2>1, <2>2, <2>3 DEF HostRecords, HostNames
  <2> QED BY <1>3, <1>4, <1>5, <1>6, <2>1, <2>2, <2>3, <2>4, <2>5 DEF HostsLeakInv
<1>8. CASE ExecuteInstanceSet(x)
  <2>1. /\ x.op = "INSTANCE_SET" /\ hostBlocks' = hostBlocks - i /\ instance' = TRUE
        /\ UNCHANGED <<hostname, delegated, hostServices>>
    BY <1>8 DEF ExecuteInstanceSet, i
  <2>2. k = 0
    BY <1>2, <2>1
  <2>3. /\ One(hostname' # NoName) = h /\ One(instance') = 1 /\ HostsOwn(delegated') = d
        /\ Len(hostServices') = l
    BY <2>1 DEF One, h, d, l
  <2>4. HostRecords'
    BY <1>1, <1>2, <2>1 DEF HostRecords
  <2> QED BY <1>3, <1>4, <1>5, <1>6, <2>1, <2>2, <2>3, <2>4 DEF HostsLeakInv
<1>9. CASE ExecuteServiceAdd(x)
  <2>1. /\ x.op = "SERVICE_ADD" /\ hostServices' = <<x.name>> \o hostServices
        /\ UNCHANGED <<hostname, instance, delegated, hostBlocks>>
    BY <1>9 DEF ExecuteServiceAdd
  <2>2. x.name \in Names /\ k = 0
    BY <1>2, <2>1
  <2>3. hostServices' \in Seq(Names) /\ Len(hostServices') = l + 1
    BY <1>1, <2>1, <2>2 DEF HostRecords, l
  <2>4. /\ One(hostname' # NoName) = h /\ One(instance') = i /\ HostsOwn(delegated') = d
    BY <2>1 DEF h, d, i
  <2>5. HostRecords'
    BY <1>1, <1>2, <2>1, <2>3 DEF HostRecords
  <2> QED BY <1>3, <1>4, <1>5, <1>6, <2>1, <2>2, <2>3, <2>4, <2>5 DEF HostsLeakInv
<1>10. ASSUME x.op \in {"DELEGATE_ADD", "DELEGATE_SET"},
              UNCHANGED <<hostname, instance, hostServices>>,
              \/ hostBlocks' = hostBlocks - 1 - k /\ UNCHANGED delegated
              \/ /\ delegated' = [delegated EXCEPT ![x.name] = k]
                 /\ hostBlocks' = hostBlocks - Owns(delegated[x.name])
       PROVE  HostsLeakInv'
  <2>1. x.name \in Names
    BY <1>2, <1>10
  <2>2. One(hostname' # NoName) = h /\ One(instance') = i /\ Len(hostServices') = l
    BY <1>10 DEF h, i, l
  <2>3. CASE hostBlocks' = hostBlocks - 1 - k /\ UNCHANGED delegated
    <3>1. HostsOwn(delegated') = d
      BY <2>3 DEF d
    <3>2. HostRecords'
      BY <1>1, <1>2, <1>10, <2>3 DEF HostRecords
    <3> QED BY <1>2, <1>3, <1>4, <1>5, <1>6, <2>2, <2>3, <3>1, <3>2 DEF HostsLeakInv
  <2>4. CASE /\ delegated' = [delegated EXCEPT ![x.name] = k]
             /\ hostBlocks' = hostBlocks - Owns(delegated[x.name])
    <3>1. delegated \in [Names -> Nat \cup {NoAddresses}]
      BY <1>1 DEF HostRecords
    <3>2. HostsOwn(delegated') = d - Owns(delegated[x.name]) + Owns(k)
      BY <1>2, <2>1, <2>4, <3>1, HostsOwnChanged DEF d
    <3>3. Owns(k) = 1 + k /\ Owns(delegated[x.name]) \in Nat
      BY <1>2, <2>1, <3>1, OwnsIsNat DEF Owns, NoAddresses
    <3>4. delegated' \in [Names -> Nat \cup {NoAddresses}]
      BY <1>2, <2>1, <2>4, <3>1
    <3>5. HostRecords'
      BY <1>1, <1>2, <1>10, <3>4 DEF HostRecords
    <3> QED BY <1>2, <1>3, <1>4, <1>5, <1>6, <2>2, <2>4, <3>2, <3>3, <3>5 DEF HostsLeakInv
  <2> QED BY <1>10, <2>3, <2>4
<1>11. CASE ExecuteDelegateAdd(x)
  <2>1. /\ x.op = "DELEGATE_ADD" /\ UNCHANGED <<hostname, instance, hostServices>>
        /\ IF IsOurs(x.name) THEN hostBlocks' = hostBlocks - 1 - k /\ UNCHANGED delegated
           ELSE delegated' = [delegated EXCEPT ![x.name] = k] /\ UNCHANGED hostBlocks
    BY <1>11 DEF ExecuteDelegateAdd, k
  <2>2. CASE ~IsOurs(x.name)
    <3>1. x.name \in Names
      BY <1>2, <2>1
    <3>2. Owns(delegated[x.name]) = 0
      BY <2>2, <3>1 DEF IsOurs, Delegated, Owns
    <3>3. hostBlocks' = hostBlocks - Owns(delegated[x.name])
      BY <1>3, <1>4, <1>5, <1>2, <2>1, <2>2, <3>2
    <3> QED BY <1>10, <2>1, <2>2, <3>3
  <2> QED BY <1>10, <2>1, <2>2
<1>12. CASE ExecuteDelegateSet(x)
  <2>1. /\ x.op = "DELEGATE_SET" /\ UNCHANGED <<hostname, instance, hostServices>>
        /\ IF x.name = hostname \/ x.name \notin Delegated
           THEN hostBlocks' = hostBlocks - 1 - k /\ UNCHANGED delegated
           ELSE /\ delegated' = [delegated EXCEPT ![x.name] = k]
                /\ hostBlocks' = hostBlocks - 1 - delegated[x.name]
    BY <1>12 DEF ExecuteDelegateSet, k
  <2>2. CASE ~ (x.name = hostname \/ x.name \notin Delegated)
    <3>1. x.name \in Names /\ delegated[x.name] \in Nat
      BY <1>1, <1>2, <2>1, <2>2 DEF HostRecords, Delegated
    <3>2. Owns(delegated[x.name]) = 1 + delegated[x.name]
      BY <3>1 DEF Owns, NoAddresses
    <3>3. hostBlocks' = hostBlocks - Owns(delegated[x.name])
      BY <1>3, <1>4, <1>5, <1>2, <2>1, <2>2, <3>1, <3>2
    <3> QED BY <1>10, <2>1, <2>2, <3>3
  <2> QED BY <1>10, <2>1, <2>2
<1>13. CASE ExecuteDelegateRemove(x)
  <2> DEFINE left == Keep(hostServices, Names \ {x.name})
  <2>1. /\ x.op = "DELEGATE_REMOVE" /\ UNCHANGED <<hostname, instance>>
        /\ hostServices' = left /\ delegated' = [delegated EXCEPT ![x.name] = NoAddresses]
        /\ hostBlocks' = hostBlocks - 1 - (l - Len(left))
                       - (IF x.name \in Delegated THEN 1 + delegated[x.name] ELSE 0)
    BY <1>13 DEF ExecuteDelegateRemove, l
  <2>2. x.name \in Names /\ k = 0
    BY <1>2, <2>1
  <2>3. left \in Seq(Names) /\ Len(left) \in Nat
    BY <1>1, KeepRange DEF HostRecords
  <2> HIDE DEF left
  <2>4. delegated \in [Names -> Nat \cup {NoAddresses}]
    BY <1>1 DEF HostRecords
  <2>5. (IF x.name \in Delegated THEN 1 + delegated[x.name] ELSE 0) = Owns(delegated[x.name])
    BY <2>2 DEF Delegated, Owns
  <2>6. HostsOwn(delegated') = d - Owns(delegated[x.name])
    <3>1. HostsOwn(delegated') = d - Owns(delegated[x.name]) + Owns(NoAddresses)
      BY <2>1, <2>2, <2>4, HostsOwnChanged DEF d
    <3>2. Owns(NoAddresses) = 0 /\ Owns(delegated[x.name]) \in Nat
      BY <2>2, <2>4, OwnsIsNat DEF Owns
    <3> QED BY <1>5, <3>1, <3>2
  <2>7. One(hostname' # NoName) = h /\ One(instance') = i
    BY <2>1 DEF h, i
  <2>8. HostRecords'
    BY <1>1, <1>2, <2>1, <2>2, <2>3, <2>4 DEF HostRecords
  <2>9. Owns(delegated[x.name]) \in Nat
    BY <2>2, <2>4, OwnsIsNat
  <2>10. hostBlocks' = hostBlocks - 1 - (l - Len(hostServices')) - Owns(delegated[x.name])
    BY <2>1, <2>5
  <2>11. Len(hostServices') \in Nat
    BY <2>1, <2>3
  <2> QED BY <1>3, <1>4, <1>5, <1>6, <2>2, <2>6, <2>7, <2>8, <2>9, <2>10, <2>11 DEF HostsLeakInv
<1> QED BY <1>7, <1>8, <1>9, <1>11, <1>12, <1>13 DEF ExecuteHosts, x

\* A dispute changes the host name and those of the services, and allocates
\* nothing.
LEMMA MangleLeaks ==
  ASSUME HostsLeakInv, Mangle
  PROVE  HostsLeakInv'
<1>1. HostRecords /\ hostname # NoName
  BY DEF HostsLeakInv, Mangle
<1>2. PICK n \in Names : hostname' = n /\ hostServices' = Remapped(hostname, n)
  BY DEF Mangle
<1>3. UNCHANGED <<instance, delegated, hostActions, hostBlocks>>
  BY DEF Mangle
<1>4. hostServices' \in Seq(Names) /\ Len(hostServices') = Len(hostServices)
  <2>1. hostServices \in Seq(Names)
    BY <1>1 DEF HostRecords
  <2>2. /\ Remapped(hostname, n) \in Seq(Names)
        /\ DOMAIN Remapped(hostname, n) = DOMAIN hostServices
    BY <2>1, RemappedIs
  <2> QED BY <1>2, <2>1, <2>2, LenProperties
<1>5. One(hostname' # NoName) = One(hostname # NoName)
  BY <1>1, <1>2, HostConstants
<1>6. HostRecords'
  BY <1>1, <1>2, <1>3, <1>4 DEF HostRecords, HostNames
<1> QED BY <1>3, <1>4, <1>5, <1>6, HostsLeakIs DEF HostsLeakInv

LEMMA HostsLeakStep ==
  HostsLeakInv /\ [HostsNext]_hostVars /\ [~RefusesAddresses]_hostVars => HostsLeakInv'
<1> SUFFICES ASSUME HostsLeakInv, [HostsNext]_hostVars, [~RefusesAddresses]_hostVars
             PROVE  HostsLeakInv'
  OBVIOUS
<1>1. CASE UNCHANGED <<hostname, instance, delegated, hostServices, hostActions, hostBlocks>>
  <2>1. HostRecords'
    BY <1>1 DEF HostsLeakInv, HostRecords
  <2> QED BY <1>1, <2>1, HostsLeakIs DEF HostsLeakInv
<1>2. CASE UNCHANGED hostVars
  BY <1>1, <1>2 DEF hostVars
<1>3. ASSUME ~RefusesAddresses, NEW c \in HostClients,
             HostRequests(c) \/ HostnameSetReturns(c) \/ HostServiceAddReturns(c)
      PROVE  HostsLeakInv'
  BY <1>1, <1>3, HostRequestsLeak DEF HostnameSetReturns, HostServiceAddReturns
<1>4. CASE Schedules \/ Sent
  BY <1>1, <1>4 DEF Schedules, Sent
<1> QED BY <1>2, <1>3, <1>4, HostsLeakServe, MangleLeaks DEF HostsNext

LEMMA HostsLeakInit == HostsInit => HostsLeakInv
<1> SUFFICES ASSUME HostsInit PROVE HostsLeakInv
  OBVIOUS
<1>1. /\ hostname = NoName /\ instance = FALSE /\ delegated = [n \in Names |-> NoAddresses]
      /\ hostServices = <<>> /\ hostActions = <<>> /\ hostBlocks = 0
  BY DEF HostsInit
<1>2. HostRecords
  <2>1. hostServices \in Seq(Names) /\ hostActions \in Seq(HostActions)
    BY <1>1
  <2> QED BY <1>1, <2>1 DEF HostRecords, HostNames
<1> DEFINE f == [n \in Names |-> Owns(delegated[n])]
           g == [i \in DOMAIN hostActions |-> 1 + hostActions[i].addrs]
<1>3. f \in [Names -> Nat] /\ \A n \in Names : f[n] = 0
  BY <1>1 DEF Owns
<1>4. DOMAIN hostActions = {}
  BY <1>1
<1>5. g \in [{} -> Nat]
  BY <1>4
<1>6. HostsOwn(delegated) = Total(f) /\ QueueOwns(hostActions) = Total(g)
  BY DEF HostsOwn, QueueOwns
<1> HIDE DEF f, g
<1>7. Total(f) = 0 /\ Total(g) = 0
  BY <1>3, <1>5, TotalNone
<1>8. One(hostname # NoName) = 0 /\ One(instance) = 0 /\ Len(hostServices) = 0
  BY <1>1 DEF One
<1> QED BY <1>1, <1>2, <1>6, <1>7, <1>8, HostsLeakIs DEF HostsLeakInv

\* HostsLeakNothing, whatever clients and other hosts do, as long as the queue
\* has room whenever addresses are delegated: only the refusal of those loses
\* any, for just the name is freed then.
THEOREM HostNamesAreKept ==
  HostsSpec /\ [][~RefusesAddresses]_hostVars => []HostsLeakNothing
<1>1. HostsLeakInv => HostsLeakNothing
  BY DEF HostsLeakInv
<1> QED BY <1>1, HostsLeakInit, HostsLeakStep, PTL DEF HostsSpec

-----------------------------------------------------------------------------
(* Services: the inductive invariant.                                      *)

\* The actions that can wait, by what they carry.
Actions ==
  [op : {"ADD", "DEL"}, item : Items, arg : {None}]
    \cup [op : {"CLEAR"}, item : {None}, arg : {None}]
    \cup [op : {"PORT_SET"}, item : Items, arg : Values]
    \cup [op : {"TXT_REPLACE"}, item : Items, arg : Texts]
    \cup [op : {"TXT_SET"}, item : Items, arg : [key : Keys, value : Values]]
    \cup [op : {"TXT_DEL"}, item : Items, arg : Keys]
    \cup [op : {"SUBTYPE_ADD"}, item : Items, arg : Subtypes]
    \cup [op : {"INSTANCE_SET"}, item : Items, arg : Instances]

ServiceTypes ==
  /\ item \in [Items -> ServiceType \cup {Free}]
  /\ wanted \in [Items -> ServiceType \cup {Free}]
  /\ services \in Seq(Items)
  /\ actions \in Seq(Actions) /\ Len(actions) <= QueueLen
  /\ pc \in [Clients -> Adding \cup {Idle}]
  /\ failed \subseteq Items /\ calls \in 0..MaxCalls

\* A service is in the list once, or waits to be added once, or is free.
OwnedOnce ==
  /\ IsInjective(services)
  /\ \A i, j \in DOMAIN actions :
       actions[i].op = "ADD" /\ actions[j].op = "ADD"
         /\ actions[i].item = actions[j].item => i = j
  /\ \A i \in DOMAIN actions : actions[i].op = "ADD" => actions[i].item \notin Range(services)
  /\ \A a \in Items : /\ item[a] = Free <=> a \notin Range(services) /\ ~AddPending(a)
                      /\ wanted[a] = Free <=> item[a] = Free

\* What a waiting action names is listed, and nothing before it removes it.
NamedIsListed ==
  \A i \in DOMAIN actions :
    actions[i].op \notin {"ADD", "CLEAR"} =>
      /\ actions[i].item \in Range(services)
      /\ \A j \in DOMAIN actions : j < i =>
           /\ actions[j].op # "CLEAR"
           /\ ~ (actions[j].op = "DEL" /\ actions[j].item = actions[i].item)

ServicesInv == ServiceTypes /\ OwnedOnce /\ NamedIsListed

\* The constants, one by one.
LEMMA ServiceConstants ==
  /\ Adders \subseteq Clients /\ Careful \in BOOLEAN /\ Prompt \in BOOLEAN
  /\ Default \in Instances
  /\ None \notin Items /\ None \notin Instances /\ None \notin Values
  /\ MaxServices \in Nat /\ QueueLen \in Nat /\ MaxCalls \in Nat
BY ServicesAssumption

\* An action by its operation.
LEMMA ActionFields ==
  ASSUME NEW x \in Actions
  PROVE  /\ x = Act(x.op, x.item, x.arg)
         /\ x.op \in {"ADD", "DEL", "CLEAR", "PORT_SET", "TXT_REPLACE", "TXT_SET", "TXT_DEL",
                      "SUBTYPE_ADD", "INSTANCE_SET"}
         /\ x.op = "CLEAR" => x.item = None
         /\ x.op # "CLEAR" => x.item \in Items
         /\ x.op \in {"ADD", "DEL", "CLEAR"} => x.arg = None
         /\ Carries(x)
<1>1. CASE x \in [op : {"ADD", "DEL"}, item : Items, arg : {None}]
  BY <1>1 DEF Act, Carries
<1>2. CASE x \in [op : {"CLEAR"}, item : {None}, arg : {None}]
  BY <1>2 DEF Act, Carries
<1>3. CASE x \in [op : {"PORT_SET"}, item : Items, arg : Values]
  BY <1>3 DEF Act, Carries
<1>4. CASE x \in [op : {"TXT_REPLACE"}, item : Items, arg : Texts]
  BY <1>4 DEF Act, Carries
<1>5. CASE x \in [op : {"TXT_SET"}, item : Items, arg : [key : Keys, value : Values]]
  BY <1>5 DEF Act, Carries
<1>6. CASE x \in [op : {"TXT_DEL"}, item : Items, arg : Keys]
  BY <1>6 DEF Act, Carries
<1>7. CASE x \in [op : {"SUBTYPE_ADD"}, item : Items, arg : Subtypes]
  BY <1>7 DEF Act, Carries
<1>8. CASE x \in [op : {"INSTANCE_SET"}, item : Items, arg : Instances]
  BY <1>8 DEF Act, Carries
<1> QED BY <1>1, <1>2, <1>3, <1>4, <1>5, <1>6, <1>7, <1>8 DEF Actions

\* An add waits just if an action of the queue is one.
LEMMA PendingIsAdd ==
  ASSUME actions \in Seq(Actions), NEW a
  PROVE  AddPending(a) <=> \E i \in DOMAIN actions : actions[i].op = "ADD" /\ actions[i].item = a
<1>1. ASSUME NEW i \in DOMAIN actions, actions[i].op = "ADD", actions[i].item = a
      PROVE  actions[i] = Act("ADD", a, None)
  <2>1. actions[i] \in Actions
    OBVIOUS
  <2>2. actions[i] = Act(actions[i].op, actions[i].item, actions[i].arg) /\ actions[i].arg = None
    BY <2>1, <1>1, ActionFields
  <2> QED BY <2>2, <1>1
<1>2. Act("ADD", a, None).op = "ADD" /\ Act("ADD", a, None).item = a
  BY DEF Act
<1> QED BY <1>1, <1>2 DEF AddPending

\* What an action does to a service leaves a service.
LEMMA EffectIsService ==
  ASSUME NEW x \in Actions, NEW s \in ServiceType
  PROVE  Effect(x.op, s, x.arg) \in ServiceType
<1>1. s.text \in [Keys -> Values \cup {None}] /\ s.subs \in Seq(Subtypes)
  BY DEF ServiceType, Texts
<1>2. CASE x \in [op : {"ADD", "DEL"}, item : Items, arg : {None}]
  BY <1>2 DEF Effect
<1>3. CASE x \in [op : {"CLEAR"}, item : {None}, arg : {None}]
  BY <1>3 DEF Effect
<1>4. CASE x \in [op : {"PORT_SET"}, item : Items, arg : Values]
  BY <1>4 DEF Effect, ServiceType
<1>5. CASE x \in [op : {"TXT_REPLACE"}, item : Items, arg : Texts]
  BY <1>5 DEF Effect, ServiceType
<1>6. CASE x \in [op : {"TXT_SET"}, item : Items, arg : [key : Keys, value : Values]]
  <2>1. x.op = "TXT_SET" /\ x.arg.key \in Keys /\ x.arg.value \in Values
    BY <1>6
  <2>2. [s.text EXCEPT ![x.arg.key] = x.arg.value] \in Texts
    BY <2>1, <1>1 DEF Texts
  <2>3. Effect(x.op, s, x.arg) = [s EXCEPT !.text = [s.text EXCEPT ![x.arg.key] = x.arg.value]]
    BY <2>1, <1>1 DEF Effect, ServiceType
  <2> QED BY <2>2, <2>3 DEF ServiceType
<1>7. CASE x \in [op : {"TXT_DEL"}, item : Items, arg : Keys]
  <2>1. x.op = "TXT_DEL" /\ x.arg \in Keys
    BY <1>7
  <2>2. [s.text EXCEPT ![x.arg] = None] \in Texts
    BY <2>1, <1>1 DEF Texts
  <2>3. Effect(x.op, s, x.arg) = [s EXCEPT !.text = [s.text EXCEPT ![x.arg] = None]]
    BY <2>1, <1>1 DEF Effect, ServiceType
  <2> QED BY <2>2, <2>3 DEF ServiceType
<1>8. CASE x \in [op : {"SUBTYPE_ADD"}, item : Items, arg : Subtypes]
  <2>1. x.op = "SUBTYPE_ADD" /\ x.arg \in Subtypes
    BY <1>8
  <2>2. <<x.arg>> \o s.subs \in Seq(Subtypes)
    BY <2>1, <1>1
  <2>3. Effect(x.op, s, x.arg) = [s EXCEPT !.subs = <<x.arg>> \o s.subs]
    BY <2>1 DEF Effect, ServiceType
  <2> QED BY <2>2, <2>3 DEF ServiceType
<1>9. CASE x \in [op : {"INSTANCE_SET"}, item : Items, arg : Instances]
  BY <1>9 DEF Effect, ServiceType
<1> QED BY <1>2, <1>3, <1>4, <1>5, <1>6, <1>7, <1>8, <1>9 DEF Actions

\* A service is not a free address.
LEMMA ServiceIsNotFree == \A s \in ServiceType : s # Free
BY DEF ServiceType, Free

LEMMA ServicesInvInit == Init => ServicesInv
<1> SUFFICES ASSUME Init PROVE ServicesInv
  OBVIOUS
<1>1. ServiceTypes
  <2>1. actions \in Seq(Actions) /\ Len(actions) = 0 /\ services \in Seq(Items)
    BY DEF Init
  <2>2. calls \in 0..MaxCalls
    BY ServiceConstants DEF Init
  <2> QED BY <2>1, <2>2, ServiceConstants DEF Init, ServiceTypes
<1>2. OwnedOnce
  <2>1. services = <<>> /\ actions = <<>> /\ \A a \in Items : item[a] = Free /\ wanted[a] = Free
    BY DEF Init
  <2>2. Range(services) = {} /\ IsInjective(services)
    BY <2>1 DEF Range, IsInjective
  <2> QED BY <2>1, <2>2 DEF OwnedOnce, AddPending
<1>3. NamedIsListed
  BY DEF Init, NamedIsListed
<1> QED BY <1>1, <1>2, <1>3 DEF ServicesInv

\* One more action waits: what it may be for the invariant to stay.
LEMMA PostStep ==
  ASSUME ServicesInv, NEW x \in Actions, actions' = Append(actions, x), HasRoom,
         UNCHANGED services, ServiceTypes',
         \A a \in Items : wanted'[a] = Free <=> item'[a] = Free,
         x.op = "ADD" => item[x.item] = Free,
         x.op \notin {"ADD", "CLEAR"} => x.item \in Range(services) /\ ~Removing(x.item),
         \A a \in Items : item'[a] = Free <=> item[a] = Free /\ ~ (x.op = "ADD" /\ x.item = a)
  PROVE  ServicesInv'
<1> DEFINE n == Len(actions) + 1
<1>1. actions \in Seq(Actions) /\ services \in Seq(Items)
  BY DEF ServicesInv, ServiceTypes
<1>2. /\ \A i \in DOMAIN actions : i \in DOMAIN actions' /\ actions'[i] = actions[i] /\ i < n
      /\ actions'[n] = x /\ n \in DOMAIN actions' /\ n \notin DOMAIN actions
      /\ \A i \in DOMAIN actions' : i \in DOMAIN actions \/ i = n
  <2>1. n \in DOMAIN Append(actions, x)
    BY <1>1
  <2> QED BY <1>1, <2>1, Posted
<1>3. \A i \in DOMAIN actions : i \in Nat
  BY <1>1
<1>4. n \in Nat
  BY <1>1
<1> HIDE DEF n
<1>5. x.op # "CLEAR" => x.item \in Items
  BY ActionFields
<1>6. actions' \in Seq(Actions)
  BY DEF ServiceTypes
<1>7. \A a : AddPending(a) <=> \E i \in DOMAIN actions : actions[i].op = "ADD" /\ actions[i].item = a
  BY <1>1, PendingIsAdd
<1>8. \A a : AddPending(a)' <=> \E i \in DOMAIN actions' : actions'[i].op = "ADD" /\ actions'[i].item = a
  <2>1. ASSUME NEW a, NEW q, q \in Seq(Actions)
        PROVE  (\E i \in DOMAIN q : q[i] = Act("ADD", a, None))
                 <=> \E i \in DOMAIN q : q[i].op = "ADD" /\ q[i].item = a
    <3>1. ASSUME NEW i \in DOMAIN q, q[i].op = "ADD", q[i].item = a
          PROVE  q[i] = Act("ADD", a, None)
      <4>1. q[i] \in Actions
        BY <2>1
      <4>2. q[i] = Act(q[i].op, q[i].item, q[i].arg) /\ q[i].arg = None
        BY <4>1, <3>1, ActionFields
      <4> QED BY <4>2, <3>1
    <3>2. Act("ADD", a, None).op = "ADD" /\ Act("ADD", a, None).item = a
      BY DEF Act
    <3> QED BY <3>1, <3>2
  <2> QED BY <2>1, <1>6 DEF AddPending
<1>9. OwnedOnce'
  <2>1. \A a \in Items : item[a] = Free => ~AddPending(a) /\ a \notin Range(services)
    BY DEF ServicesInv, OwnedOnce
  <2>2. \A i \in DOMAIN actions' : actions'[i].op = "ADD" => actions'[i].item \notin Range(services)
    BY <1>2, <1>5, <2>1 DEF ServicesInv, OwnedOnce
  <2>3. \A i, j \in DOMAIN actions' :
          actions'[i].op = "ADD" /\ actions'[j].op = "ADD"
            /\ actions'[i].item = actions'[j].item => i = j
    <3> SUFFICES ASSUME NEW i \in DOMAIN actions', NEW j \in DOMAIN actions',
                        actions'[i].op = "ADD", actions'[j].op = "ADD",
                        actions'[i].item = actions'[j].item
                 PROVE  i = j
      OBVIOUS
    <3>1. CASE i \in DOMAIN actions /\ j \in DOMAIN actions
      BY <3>1, <1>2 DEF ServicesInv, OwnedOnce
    <3>2. CASE i = n
      BY <3>2, <1>2, <1>5, <1>7, <2>1
    <3>3. CASE j = n
      BY <3>3, <1>2, <1>5, <1>7, <2>1
    <3> QED BY <3>1, <3>2, <3>3, <1>2
  <2>4. \A a \in Items : AddPending(a)' <=> AddPending(a) \/ (x.op = "ADD" /\ x.item = a)
    BY <1>2, <1>7, <1>8
  <2>5. \A a \in Items : item[a] = Free <=> a \notin Range(services) /\ ~AddPending(a)
    BY DEF ServicesInv, OwnedOnce
  <2>6. \A a \in Items : item'[a] = Free <=> a \notin Range(services) /\ ~AddPending(a)'
    BY <2>4, <2>5
  <2>7. IsInjective(services) /\ services' = services
    BY DEF ServicesInv, OwnedOnce
  <2> QED BY <2>2, <2>3, <2>6, <2>7 DEF OwnedOnce
<1>10. NamedIsListed'
  <2> SUFFICES ASSUME NEW i \in DOMAIN actions', actions'[i].op \notin {"ADD", "CLEAR"}
               PROVE  /\ actions'[i].item \in Range(services)
                      /\ \A j \in DOMAIN actions' : j < i =>
                           /\ actions'[j].op # "CLEAR"
                           /\ ~ (actions'[j].op = "DEL" /\ actions'[j].item = actions'[i].item)
    BY DEF NamedIsListed
  <2>1. CASE i \in DOMAIN actions
    <3>1. \A j \in DOMAIN actions' : j < i => j \in DOMAIN actions
      BY <2>1, <1>2, <1>3, <1>4
    <3> QED BY <2>1, <3>1, <1>2 DEF ServicesInv, NamedIsListed
  <2>2. CASE i = n
    <3>1. \A j \in DOMAIN actions' : j < n => j \in DOMAIN actions
      BY <1>2, <1>4
    <3> QED BY <2>2, <3>1, <1>2 DEF Removing
  <2> QED BY <2>1, <2>2, <1>2
<1> QED BY <1>9, <1>10 DEF ServicesInv

\* What is found is in the list, and something is found if anything matches.
LEMMA FoundIsListed ==
  ASSUME services \in Seq(Items), NEW name, NEW type
  PROVE  /\ Found(name, type) \subseteq Range(services)
         /\ Found(name, type) \subseteq Items
         /\ \A a \in Found(name, type) : Matches(item[a], name, type)
         /\ Found(name, type) = {} => \A a \in Range(services) : ~Matches(item[a], name, type)
<1>1. /\ Found(name, type) \subseteq Range(services)
      /\ \A a \in Found(name, type) : Matches(item[a], name, type)
  BY DEF Found, Range
<1>2. Range(services) \subseteq Items
  BY DEF Range
<1>3. ASSUME NEW a \in Range(services), Matches(item[a], name, type) PROVE Found(name, type) # {}
  <2> DEFINE T == {i \in DOMAIN services : Matches(item[services[i]], name, type)}
  <2>1. T \in SUBSET Nat /\ T # {}
    BY <1>3 DEF Range
  <2>2. PICK i \in T : \A m \in T : i <= m
    BY <2>1, Least
  <2>3. \A k \in 1..(i - 1) : k \in DOMAIN services /\ ~ (k \in T)
    <3>1. i \in 1..Len(services) /\ Len(services) \in Nat
      OBVIOUS
    <3>2. ASSUME NEW k \in 1..(i - 1) PROVE k \in DOMAIN services /\ ~ (i <= k)
      BY <3>1
    <3> QED BY <3>2, <2>2
  <2>4. services[i] \in Found(name, type)
    BY <2>2, <2>3 DEF Found
  <2> QED BY <2>4
<1> QED BY <1>1, <1>2, <1>3

LEMMA ChangeStep ==
  ASSUME ServicesInv, Careful, NEW c \in Clients, NEW op, NEW name, NEW type, NEW arg,
         op \notin {"ADD", "CLEAR"}, \A a \in Items : Act(op, a, arg) \in Actions,
         Change(c, op, name, type, arg)
  PROVE  ServicesInv'
<1>1. PICK a \in Found(name, type) :
        /\ ~Removing(a)
        /\ Post(Act(op, a, arg), Copies(op, arg))
        /\ wanted' = IF HasRoom THEN [wanted EXCEPT ![a] = Effect(op, @, arg)] ELSE wanted
  BY DEF Change
<1>2. a \in Range(services) /\ a \in Items
  BY FoundIsListed DEF ServicesInv, ServiceTypes
<1> DEFINE x == Act(op, a, arg)
<1>3. x \in Actions /\ x.op = op /\ x.item = a /\ x.arg = arg
  BY <1>2 DEF Act
<1> HIDE DEF x
<1>4. UNCHANGED <<item, services, pc, failed>> /\ calls' \in 0..MaxCalls
  BY ServiceConstants DEF Change, Call, ServicesInv, ServiceTypes
<1>5. CASE HasRoom
  <2>1. actions' = Append(actions, x)
    BY <1>1, <1>5 DEF Post, x
  <2>2. wanted[a] \in ServiceType
    BY <1>2 DEF ServicesInv, OwnedOnce, ServiceTypes
  <2>3. Effect(op, wanted[a], arg) \in ServiceType
    BY <1>3, <2>2, EffectIsService
  <2>4. wanted' = [wanted EXCEPT ![a] = Effect(op, wanted[a], arg)]
    BY <1>1, <1>5
  <2>5. ServiceTypes'
    <3>1. actions' \in Seq(Actions)
      BY <1>3, <2>1, Posted DEF ServicesInv, ServiceTypes
    <3>2. Len(actions') <= QueueLen
      BY <1>3, <1>5, <2>1, ServiceConstants DEF ServicesInv, ServiceTypes, HasRoom
    <3>3. wanted' \in [Items -> ServiceType \cup {Free}]
      BY <2>3, <2>4 DEF ServicesInv, ServiceTypes
    <3> QED BY <1>4, <3>1, <3>2, <3>3 DEF ServicesInv, ServiceTypes
  <2>6. \A b \in Items : wanted'[b] = Free <=> item'[b] = Free
    <3> SUFFICES ASSUME NEW b \in Items PROVE wanted'[b] = Free <=> item'[b] = Free
      OBVIOUS
    <3>1. wanted[b] = Free <=> item[b] = Free
      BY DEF ServicesInv, OwnedOnce
    <3>2. wanted[a] # Free /\ Effect(op, wanted[a], arg) # Free
      BY <2>2, <2>3, ServiceIsNotFree
    <3>3. wanted'[b] = IF b = a THEN Effect(op, wanted[a], arg) ELSE wanted[b]
      BY <2>4 DEF ServicesInv, ServiceTypes
    <3>4. item' = item
      BY <1>4
    <3> QED BY <3>1, <3>2, <3>3, <3>4
  <2>7. \A b \in Items : item'[b] = Free <=> item[b] = Free /\ ~ (x.op = "ADD" /\ x.item = b)
    BY <1>3, <1>4
  <2> QED BY <1>1, <1>2, <1>3, <1>4, <1>5, <2>1, <2>5, <2>6, <2>7, PostStep
<1>6. CASE ~HasRoom
  <2>1. UNCHANGED <<actions, wanted>>
    BY <1>1, <1>6 DEF Post
  <2> QED BY <1>4, <2>1 DEF ServicesInv, ServiceTypes, OwnedOnce, NamedIsListed, AddPending
<1> QED BY <1>5, <1>6

LEMMA RemoveAllStep ==
  ASSUME ServicesInv, NEW c \in Clients, RemoveAll(c)
  PROVE  ServicesInv'
<1> DEFINE x == Act("CLEAR", None, None)
<1>1. x \in Actions /\ x.op = "CLEAR"
  BY DEF Act, Actions
<1>2. Post(x, 0) /\ UNCHANGED <<item, services, pc, wanted, failed>> /\ calls' \in 0..MaxCalls
  BY ServiceConstants DEF RemoveAll, Call, ServicesInv, ServiceTypes
<1> HIDE DEF x
<1>3. CASE HasRoom
  <2>1. actions' = Append(actions, x)
    BY <1>2, <1>3 DEF Post
  <2>2. actions' \in Seq(Actions)
    BY <1>1, <2>1, Posted DEF ServicesInv, ServiceTypes
  <2>3. Len(actions') <= QueueLen
    BY <1>1, <1>3, <2>1, ServiceConstants DEF ServicesInv, ServiceTypes, HasRoom
  <2>4. ServiceTypes'
    BY <1>2, <2>2, <2>3 DEF ServicesInv, ServiceTypes
  <2>5. \A b \in Items : wanted'[b] = Free <=> item'[b] = Free
    BY <1>2 DEF ServicesInv, OwnedOnce
  <2> QED BY <1>1, <1>2, <1>3, <2>1, <2>4, <2>5, PostStep
<1>4. CASE ~HasRoom
  <2>1. UNCHANGED actions
    BY <1>2, <1>4 DEF Post
  <2> QED BY <1>2, <2>1 DEF ServicesInv, ServiceTypes, OwnedOnce, NamedIsListed, AddPending
<1> QED BY <1>3, <1>4

\* What a service is when it is added.
LEMMA ServiceIsTyped ==
  ASSUME NEW type \in Types, NEW name \in Instances \cup {None}, NEW p \in Values,
         NEW t \in Texts
  PROVE  /\ Service(type, name, p, t) \in ServiceType
         /\ Service(type, name, p, t).name = name /\ Service(type, name, p, t).type = type
BY DEF Service, ServiceType

LEMMA AddStep ==
  ASSUME ServicesInv, NEW c \in Clients, NEW name \in Instances \cup {None},
         NEW type \in Types, Add(c, name, type)
  PROVE  ServicesInv'
<1>1. PICK a \in Items, p \in Values, t \in Texts :
        LET s == Service(type, name, p, t)
        IN  /\ item[a] = Free
            /\ Post(Act("ADD", a, None), Strings(s))
            /\ IF HasRoom
               THEN /\ item' = [item EXCEPT ![a] = s]
                    /\ wanted' = [wanted EXCEPT ![a] = s]
                    /\ failed' = failed \ {a}
                    /\ pc' = [pc EXCEPT ![c] =
                         [free |-> FALSE, item |-> a, name |-> name, type |-> type]]
               ELSE UNCHANGED <<item, wanted, failed, pc>>
  BY DEF Add
<1> DEFINE s == Service(type, name, p, t)
           x == Act("ADD", a, None)
<1>2. s \in ServiceType
  BY ServiceIsTyped
<1>3. x \in Actions /\ x.op = "ADD" /\ x.item = a
  BY DEF Act, Actions
<1>4. services' = services /\ calls' \in 0..MaxCalls
  BY ServiceConstants DEF Add, Call, ServicesInv, ServiceTypes
<1>5. item[a] = Free /\ Post(x, Strings(s))
  BY <1>1
<1>6. HasRoom => /\ item' = [item EXCEPT ![a] = s]
                 /\ wanted' = [wanted EXCEPT ![a] = s]
                 /\ failed' = failed \ {a}
                 /\ pc' = [pc EXCEPT ![c] =
                      [free |-> FALSE, item |-> a, name |-> name, type |-> type]]
  BY <1>1
<1>7. ~HasRoom => UNCHANGED <<item, wanted, failed, pc>>
  BY <1>1
<1> HIDE DEF x, s
<1>8. CASE HasRoom
  <2>1. actions' = Append(actions, x)
    BY <1>5, <1>8 DEF Post
  <2>2. actions' \in Seq(Actions)
    BY <1>3, <2>1, Posted DEF ServicesInv, ServiceTypes
  <2>3. Len(actions') <= QueueLen
    BY <1>3, <1>8, <2>1, ServiceConstants DEF ServicesInv, ServiceTypes, HasRoom
  <2>4. pc' \in [Clients -> Adding \cup {Idle}]
    <3> DEFINE w == [free |-> FALSE, item |-> a, name |-> name, type |-> type]
    <3>1. w \in Adding
      BY DEF Adding
    <3>2. pc' = [pc EXCEPT ![c] = w]
      BY <1>6, <1>8
    <3> HIDE DEF w
    <3> QED BY <3>1, <3>2 DEF ServicesInv, ServiceTypes
  <2>5. item' \in [Items -> ServiceType \cup {Free}] /\ wanted' \in [Items -> ServiceType \cup {Free}]
    BY <1>2, <1>6, <1>8 DEF ServicesInv, ServiceTypes
  <2>6. ServiceTypes'
    BY <1>4, <1>6, <1>8, <2>2, <2>3, <2>4, <2>5 DEF ServicesInv, ServiceTypes
  <2>7. ASSUME NEW b \in Items
        PROVE  /\ wanted'[b] = Free <=> item'[b] = Free
               /\ item'[b] = Free <=> item[b] = Free /\ ~ (x.op = "ADD" /\ x.item = b)
    <3>1. s # Free
      BY <1>2, ServiceIsNotFree
    <3>2. item'[b] = (IF b = a THEN s ELSE item[b]) /\ wanted'[b] = (IF b = a THEN s ELSE wanted[b])
      BY <1>6, <1>8 DEF ServicesInv, ServiceTypes
    <3>3. wanted[b] = Free <=> item[b] = Free
      BY DEF ServicesInv, OwnedOnce
    <3> QED BY <1>3, <3>1, <3>2, <3>3
  <2> QED BY <1>3, <1>4, <1>5, <1>8, <2>1, <2>6, <2>7, PostStep
<1>9. CASE ~HasRoom
  <2>1. UNCHANGED actions
    BY <1>5, <1>9 DEF Post
  <2> QED BY <1>4, <1>7, <1>9, <2>1 DEF ServicesInv, ServiceTypes, OwnedOnce, NamedIsListed, AddPending
<1> QED BY <1>8, <1>9

LEMMA AddGoesOnStep ==
  ASSUME ServicesInv, NEW c \in Clients, AddGoesOn(c)
  PROVE  ServicesInv'
<1>1. UNCHANGED <<item, services, actions, wanted, calls>> /\ pc' = [pc EXCEPT ![c] = Idle]
  BY DEF AddGoesOn, AddReturns, AddTimesOut
<1>2. failed' \subseteq Items
  <2>1. CASE AddReturns(c)
    BY <2>1 DEF AddReturns, ServicesInv, ServiceTypes
  <2>2. CASE AddTimesOut(c)
    <3>1. pc[c] \in Adding
      BY <2>2 DEF AddTimesOut, ServicesInv, ServiceTypes
    <3> QED BY <2>2, <3>1 DEF AddTimesOut, ServicesInv, ServiceTypes, Adding
  <2> QED BY <2>1, <2>2 DEF AddGoesOn
<1>3. pc' \in [Clients -> Adding \cup {Idle}]
  BY <1>1 DEF ServicesInv, ServiceTypes
<1> QED BY <1>1, <1>2, <1>3 DEF ServicesInv, ServiceTypes, OwnedOnce, NamedIsListed, AddPending

\* The queue without its first action.
LEMMA ServiceTaken ==
  ASSUME actions \in Seq(Actions), actions # <<>>, actions' = Tail(actions)
  PROVE  /\ Head(actions) \in Actions /\ 1 \in DOMAIN actions /\ actions[1] = Head(actions)
         /\ actions' \in Seq(Actions) /\ Len(actions') <= Len(actions)
         /\ \A i \in DOMAIN actions' :
              i + 1 \in DOMAIN actions /\ i + 1 > 1 /\ actions'[i] = actions[i + 1] /\ i \in Nat
         /\ \A a : AddPending(a)' <=>
              \E i \in DOMAIN actions : i > 1 /\ actions[i].op = "ADD" /\ actions[i].item = a
<1>1. /\ Head(actions) \in Actions /\ 1 \in DOMAIN actions /\ actions[1] = Head(actions)
      /\ actions' \in Seq(Actions) /\ Len(actions') <= Len(actions)
      /\ \A i \in DOMAIN actions' :
           i + 1 \in DOMAIN actions /\ i + 1 > 1 /\ actions'[i] = actions[i + 1] /\ i \in Nat
  BY Taken
<1>2. \A i \in DOMAIN actions : i > 1 => i - 1 \in DOMAIN actions' /\ actions'[i - 1] = actions[i]
  OBVIOUS
<1>3. ASSUME NEW x \in Actions, NEW a
      PROVE  x = Act("ADD", a, None) <=> x.op = "ADD" /\ x.item = a
  <2>1. x = Act(x.op, x.item, x.arg) /\ (x.op = "ADD" => x.arg = None)
    BY ActionFields
  <2>2. Act("ADD", a, None).op = "ADD" /\ Act("ADD", a, None).item = a
    BY DEF Act
  <2> QED BY <2>1, <2>2
<1>4. \A i \in DOMAIN actions : actions[i] \in Actions
  OBVIOUS
<1>5. \A i \in DOMAIN actions' : actions'[i] \in Actions
  BY <1>1
<1>6. ASSUME NEW a
      PROVE  AddPending(a)' <=>
               \E i \in DOMAIN actions : i > 1 /\ actions[i].op = "ADD" /\ actions[i].item = a
  <2>1. AddPending(a)' <=> \E i \in DOMAIN actions' : actions'[i].op = "ADD" /\ actions'[i].item = a
    BY <1>3, <1>5 DEF AddPending
  <2> QED BY <1>1, <1>2, <2>1
<1> QED BY <1>1, <1>6

\* The first action is executed: what the list may be for the invariant to stay.
LEMMA TakeStep ==
  ASSUME ServicesInv, actions # <<>>, actions' = Tail(actions),
         ServiceTypes', IsInjective(services'),
         \A a \in Range(services') :
           a \in Range(services) \/ (Head(actions).op = "ADD" /\ Head(actions).item = a),
         \A i \in DOMAIN actions :
           i > 1 /\ actions[i].op \notin {"ADD", "CLEAR"} => actions[i].item \in Range(services'),
         \A a \in Items :
           /\ item'[a] = Free <=> a \notin Range(services') /\ ~AddPending(a)'
           /\ wanted'[a] = Free <=> item'[a] = Free
  PROVE  ServicesInv'
<1>1. actions \in Seq(Actions)
  BY DEF ServicesInv, ServiceTypes
<1>2. /\ Head(actions) \in Actions /\ 1 \in DOMAIN actions /\ actions[1] = Head(actions)
      /\ \A i \in DOMAIN actions' :
           i + 1 \in DOMAIN actions /\ i + 1 > 1 /\ actions'[i] = actions[i + 1] /\ i \in Nat
  BY <1>1, ServiceTaken
<1>3. ASSUME NEW i \in DOMAIN actions', actions'[i].op = "ADD"
      PROVE  actions'[i].item \notin Range(services')
  <2> DEFINE m == i + 1
  <2>1. m \in DOMAIN actions /\ m > 1 /\ actions[m].op = "ADD" /\ actions'[i].item = actions[m].item
    BY <1>2, <1>3
  <2> HIDE DEF m
  <2>2. m # 1
    BY <2>1
  <2>3. actions[m].item \notin Range(services)
    BY <2>1 DEF ServicesInv, OwnedOnce
  <2>4. ~ (actions[1].op = "ADD" /\ actions[1].item = actions[m].item)
    BY <1>2, <2>1, <2>2 DEF ServicesInv, OwnedOnce
  <2> QED BY <1>2, <2>1, <2>3, <2>4
<1>4. ASSUME NEW i \in DOMAIN actions', NEW j \in DOMAIN actions',
             actions'[i].op = "ADD", actions'[j].op = "ADD", actions'[i].item = actions'[j].item
      PROVE  i = j
  <2>1. i + 1 = j + 1
    BY <1>2, <1>4 DEF ServicesInv, OwnedOnce
  <2> QED BY <1>2, <2>1
<1>5. OwnedOnce'
  BY <1>3, <1>4 DEF OwnedOnce
<1>6. NamedIsListed'
  <2> SUFFICES ASSUME NEW i \in DOMAIN actions', actions'[i].op \notin {"ADD", "CLEAR"}
               PROVE  /\ actions'[i].item \in Range(services')
                      /\ \A j \in DOMAIN actions' : j < i =>
                           /\ actions'[j].op # "CLEAR"
                           /\ ~ (actions'[j].op = "DEL" /\ actions'[j].item = actions'[i].item)
    BY DEF NamedIsListed
  <2>1. actions'[i].item \in Range(services')
    BY <1>2
  <2>2. ASSUME NEW j \in DOMAIN actions', j < i
        PROVE  /\ actions'[j].op # "CLEAR"
               /\ ~ (actions'[j].op = "DEL" /\ actions'[j].item = actions'[i].item)
    <3>1. j + 1 < i + 1
      BY <1>2, <2>2
    <3> QED BY <1>2, <3>1 DEF ServicesInv, NamedIsListed
  <2> QED BY <2>1, <2>2
<1> QED BY <1>5, <1>6 DEF ServicesInv

LEMMA ServiceAddStep ==
  ASSUME ServicesInv, Execute, ServiceAdd(Head(actions))
  PROVE  ServicesInv'
<1> DEFINE a == Head(actions).item
<1>1. actions # <<>> /\ actions' = Tail(actions) /\ UNCHANGED <<pc, failed, calls>>
  BY DEF Execute
<1>2. Head(actions).op = "ADD" /\ services' = <<a>> \o services /\ UNCHANGED <<item, wanted>>
  BY DEF ServiceAdd
<1>3. /\ Head(actions) \in Actions /\ 1 \in DOMAIN actions /\ actions[1] = Head(actions)
      /\ actions' \in Seq(Actions) /\ Len(actions') <= Len(actions)
      /\ \A b : AddPending(b)' <=>
              \E i \in DOMAIN actions : i > 1 /\ actions[i].op = "ADD" /\ actions[i].item = b
  BY <1>1, ServiceTaken DEF ServicesInv, ServiceTypes
<1>4. a \in Items /\ a \notin Range(services)
  <2>1. a \in Items
    BY <1>2, <1>3, ActionFields
  <2> QED BY <1>2, <1>3, <2>1 DEF ServicesInv, OwnedOnce
<1>5. services \in Seq(Items) /\ actions \in Seq(Actions)
  BY DEF ServicesInv, ServiceTypes
<1> HIDE DEF a
<1>6. services' \in Seq(Items)
  BY <1>2, <1>4, <1>5
<1>7. /\ DOMAIN services' = 1..(Len(services) + 1) /\ services'[1] = a
      /\ \A i \in DOMAIN services : i + 1 \in DOMAIN services' /\ services'[i + 1] = services[i]
      /\ \A i \in DOMAIN services' : i = 1 \/ (i - 1 \in DOMAIN services /\ services'[i] = services[i - 1])
  BY <1>2, <1>4, <1>5
<1>8. Range(services') = Range(services) \cup {a}
  <2>1. 1 \in DOMAIN services'
    BY <1>5, <1>7
  <2>2. ASSUME NEW b \in Range(services') PROVE b \in Range(services) \cup {a}
    <3>1. PICK i \in DOMAIN services' : services'[i] = b
      BY DEF Range
    <3>2. CASE i = 1
      BY <1>7, <3>1, <3>2
    <3>3. CASE i # 1
      <4>1. i - 1 \in DOMAIN services /\ services[i - 1] = b
        BY <1>7, <3>1, <3>3
      <4> QED BY <4>1 DEF Range
    <3> QED BY <3>2, <3>3
  <2>3. ASSUME NEW b \in Range(services) PROVE b \in Range(services')
    <3>1. PICK i \in DOMAIN services : services[i] = b
      BY DEF Range
    <3> QED BY <1>7, <3>1 DEF Range
  <2>4. a \in Range(services')
    BY <1>7, <2>1 DEF Range
  <2> QED BY <2>2, <2>3, <2>4
<1>9. IsInjective(services')
  <2> SUFFICES ASSUME NEW i \in DOMAIN services', NEW j \in DOMAIN services',
                      services'[i] = services'[j]
               PROVE  i = j
    BY DEF IsInjective
  <2>1. \A k \in DOMAIN services : services[k] # a
    BY <1>4 DEF Range
  <2>2. i \in Nat /\ j \in Nat
    BY <1>5, <1>7
  <2>3. CASE i # 1 /\ j # 1
    <3>1. i - 1 = j - 1
      BY <1>7, <2>3 DEF ServicesInv, OwnedOnce, IsInjective
    <3> QED BY <3>1, <2>2
  <2>4. CASE i = 1 /\ j # 1
    <3>1. j - 1 \in DOMAIN services /\ services'[j] = services[j - 1]
      BY <1>7, <2>4
    <3> QED BY <1>7, <2>1, <2>4, <3>1
  <2>5. CASE i # 1 /\ j = 1
    <3>1. i - 1 \in DOMAIN services /\ services'[i] = services[i - 1] /\ services'[j] = a
      BY <1>7, <2>5
    <3> QED BY <2>1, <3>1
  <2> QED BY <2>3, <2>4, <2>5
<1>10. ServiceTypes'
  <2>1. Len(actions') <= QueueLen
    BY <1>3, <1>5, ServiceConstants DEF ServicesInv, ServiceTypes
  <2> QED BY <1>1, <1>2, <1>3, <1>6, <2>1 DEF ServicesInv, ServiceTypes
<1>11. \A i \in DOMAIN actions :
           i > 1 /\ actions[i].op \notin {"ADD", "CLEAR"} => actions[i].item \in Range(services')
  BY <1>8 DEF ServicesInv, NamedIsListed
<1>12. ASSUME NEW b \in Items
       PROVE  /\ item'[b] = Free <=> b \notin Range(services') /\ ~AddPending(b)'
              /\ wanted'[b] = Free <=> item'[b] = Free
  <2>1. AddPending(b) <=> \E i \in DOMAIN actions : actions[i].op = "ADD" /\ actions[i].item = b
    BY <1>5, PendingIsAdd
  <2>2. \A i \in DOMAIN actions : i = 1 \/ i > 1
    BY <1>5
  <2>3. AddPending(b) <=> AddPending(b)' \/ b = a
    BY <1>2, <1>3, <2>1, <2>2 DEF a
  <2>4. item[b] = Free <=> b \notin Range(services) /\ ~AddPending(b)
    BY DEF ServicesInv, OwnedOnce
  <2>5. wanted[b] = Free <=> item[b] = Free
    BY DEF ServicesInv, OwnedOnce
  <2> QED BY <1>2, <1>8, <2>3, <2>4, <2>5
<1>13. \A b \in Range(services') :
           b \in Range(services) \/ (Head(actions).op = "ADD" /\ Head(actions).item = b)
  BY <1>2, <1>8 DEF a
<1> QED BY <1>1, <1>9, <1>10, <1>11, <1>12, <1>13, TakeStep

LEMMA ServiceDelStep ==
  ASSUME ServicesInv, Execute, ServiceDel(Head(actions))
  PROVE  ServicesInv'
<1> DEFINE a == Head(actions).item
<1>1. actions # <<>> /\ actions' = Tail(actions) /\ UNCHANGED <<pc, failed, calls>>
  BY DEF Execute
<1>2. /\ Head(actions).op = "DEL"
      /\ a \in Range(services) => services' = Unlinked(a) /\ FreeItems({a})
      /\ a \notin Range(services) => UNCHANGED <<services, item, wanted, blocks>>
  BY DEF ServiceDel
<1>3. /\ Head(actions) \in Actions /\ 1 \in DOMAIN actions /\ actions[1] = Head(actions)
      /\ actions' \in Seq(Actions) /\ Len(actions') <= Len(actions)
      /\ \A b : AddPending(b)' <=>
              \E i \in DOMAIN actions : i > 1 /\ actions[i].op = "ADD" /\ actions[i].item = b
  BY <1>1, ServiceTaken DEF ServicesInv, ServiceTypes
<1>4. a \in Items /\ a \in Range(services)
  <2>1. a \in Items
    BY <1>2, <1>3, ActionFields
  <2> QED BY <1>2, <1>3, <2>1 DEF ServicesInv, NamedIsListed
<1>5. services \in Seq(Items) /\ actions \in Seq(Actions)
  BY DEF ServicesInv, ServiceTypes
<1>6. /\ services' = Keep(services, Items \ {a})
      /\ item' = [b \in Items |-> IF b \in {a} THEN Free ELSE item[b]]
      /\ wanted' = [b \in Items |-> IF b \in {a} THEN Free ELSE wanted[b]]
  BY <1>2, <1>4 DEF Unlinked, FreeItems
<1>7. services' \in Seq(Items) /\ IsInjective(services')
      /\ Range(services') = Range(services) \cap (Items \ {a})
  BY <1>5, <1>6, KeepRange DEF ServicesInv, OwnedOnce
<1> HIDE DEF a
<1>8. Range(services) \subseteq Items
  BY <1>5 DEF Range
<1>9. Range(services') = Range(services) \ {a}
  BY <1>7, <1>8
<1>10. ServiceTypes'
  <2>1. Len(actions') <= QueueLen
    BY <1>3, <1>5, ServiceConstants DEF ServicesInv, ServiceTypes
  <2>2. item' \in [Items -> ServiceType \cup {Free}] /\ wanted' \in [Items -> ServiceType \cup {Free}]
    BY <1>6 DEF ServicesInv, ServiceTypes
  <2> QED BY <1>1, <1>3, <1>7, <2>1, <2>2 DEF ServicesInv, ServiceTypes
<1>11. ASSUME NEW i \in DOMAIN actions, i > 1, actions[i].op \notin {"ADD", "CLEAR"}
       PROVE  actions[i].item \in Range(services')
  <2>1. 1 < i
    BY <1>5, <1>11
  <2>2. actions[i].item \in Range(services) /\ actions[i].item # a
    BY <1>2, <1>3, <1>11, <2>1 DEF ServicesInv, NamedIsListed, a
  <2> QED BY <1>9, <2>2
<1>12. ASSUME NEW b \in Items
       PROVE  /\ item'[b] = Free <=> b \notin Range(services') /\ ~AddPending(b)'
              /\ wanted'[b] = Free <=> item'[b] = Free
  <2>1. AddPending(b) <=> \E i \in DOMAIN actions : actions[i].op = "ADD" /\ actions[i].item = b
    BY <1>5, PendingIsAdd
  <2>2. \A i \in DOMAIN actions : i = 1 \/ i > 1
    BY <1>5
  <2>3. AddPending(b) <=> AddPending(b)'
    BY <1>2, <1>3, <2>1, <2>2
  <2>4. item[b] = Free <=> b \notin Range(services) /\ ~AddPending(b)
    BY DEF ServicesInv, OwnedOnce
  <2>5. wanted[b] = Free <=> item[b] = Free
    BY DEF ServicesInv, OwnedOnce
  <2>6. b = a => ~AddPending(b)
    BY <1>4, <2>1 DEF ServicesInv, OwnedOnce
  <2>7. item'[b] = (IF b = a THEN Free ELSE item[b]) /\ wanted'[b] = (IF b = a THEN Free ELSE wanted[b])
    BY <1>6
  <2> QED BY <1>9, <2>3, <2>4, <2>5, <2>6, <2>7
<1>13. \A b \in Range(services') : b \in Range(services)
  BY <1>9
<1> QED BY <1>1, <1>7, <1>10, <1>11, <1>12, <1>13, TakeStep

LEMMA ServicesClearStep ==
  ASSUME ServicesInv, Execute, ServicesClear(Head(actions))
  PROVE  ServicesInv'
<1>1. actions # <<>> /\ actions' = Tail(actions) /\ UNCHANGED <<pc, failed, calls>>
  BY DEF Execute
<1>2. /\ Head(actions).op = "CLEAR" /\ services' = <<>>
      /\ item' = [b \in Items |-> IF b \in Range(services) THEN Free ELSE item[b]]
      /\ wanted' = [b \in Items |-> IF b \in Range(services) THEN Free ELSE wanted[b]]
  BY DEF ServicesClear, FreeItems
<1>3. /\ Head(actions) \in Actions /\ 1 \in DOMAIN actions /\ actions[1] = Head(actions)
      /\ actions' \in Seq(Actions) /\ Len(actions') <= Len(actions)
      /\ \A b : AddPending(b)' <=>
              \E i \in DOMAIN actions : i > 1 /\ actions[i].op = "ADD" /\ actions[i].item = b
  BY <1>1, ServiceTaken DEF ServicesInv, ServiceTypes
<1>4. actions \in Seq(Actions)
  BY DEF ServicesInv, ServiceTypes
<1>5. services' \in Seq(Items) /\ IsInjective(services') /\ Range(services') = {}
  BY <1>2 DEF IsInjective, Range
<1>6. ServiceTypes'
  <2>1. Len(actions') <= QueueLen
    BY <1>3, <1>4, ServiceConstants DEF ServicesInv, ServiceTypes
  <2>2. item' \in [Items -> ServiceType \cup {Free}] /\ wanted' \in [Items -> ServiceType \cup {Free}]
    BY <1>2 DEF ServicesInv, ServiceTypes
  <2> QED BY <1>1, <1>3, <1>5, <2>1, <2>2 DEF ServicesInv, ServiceTypes
<1>7. ASSUME NEW i \in DOMAIN actions, i > 1, actions[i].op \notin {"ADD", "CLEAR"}
      PROVE  FALSE
  <2>1. 1 < i
    BY <1>4, <1>7
  <2> QED BY <1>2, <1>3, <1>7, <2>1 DEF ServicesInv, NamedIsListed
<1>8. ASSUME NEW b \in Items
      PROVE  /\ item'[b] = Free <=> b \notin Range(services') /\ ~AddPending(b)'
             /\ wanted'[b] = Free <=> item'[b] = Free
  <2>1. AddPending(b) <=> \E i \in DOMAIN actions : actions[i].op = "ADD" /\ actions[i].item = b
    BY <1>4, PendingIsAdd
  <2>2. \A i \in DOMAIN actions : i = 1 \/ i > 1
    BY <1>4
  <2>3. AddPending(b) <=> AddPending(b)'
    BY <1>2, <1>3, <2>1, <2>2
  <2>4. item[b] = Free <=> b \notin Range(services) /\ ~AddPending(b)
    BY DEF ServicesInv, OwnedOnce
  <2>5. wanted[b] = Free <=> item[b] = Free
    BY DEF ServicesInv, OwnedOnce
  <2>6. b \in Range(services) => ~AddPending(b)
    BY <2>1 DEF ServicesInv, OwnedOnce
  <2>7. item'[b] = (IF b \in Range(services) THEN Free ELSE item[b])
        /\ wanted'[b] = (IF b \in Range(services) THEN Free ELSE wanted[b])
    BY <1>2
  <2> QED BY <1>5, <2>3, <2>4, <2>5, <2>6, <2>7
<1>9. \A b \in Range(services') : b \in Range(services)
  BY <1>5
<1> QED BY <1>1, <1>5, <1>6, <1>7, <1>8, <1>9, TakeStep

LEMMA ServiceChangeStep ==
  ASSUME ServicesInv, Execute, ServiceChange(Head(actions))
  PROVE  /\ ServicesInv'
         /\ item' = [item EXCEPT ![Head(actions).item] =
                       Effect(Head(actions).op, item[Head(actions).item], Head(actions).arg)]
<1> DEFINE x == Head(actions)
           a == x.item
           e == Effect(x.op, item[a], x.arg)
<1>1. actions # <<>> /\ actions' = Tail(actions) /\ UNCHANGED <<pc, failed, calls>>
  BY DEF Execute
<1>2. /\ x \in Actions /\ 1 \in DOMAIN actions /\ actions[1] = x
      /\ actions' \in Seq(Actions) /\ Len(actions') <= Len(actions)
      /\ \A b : AddPending(b)' <=>
              \E i \in DOMAIN actions : i > 1 /\ actions[i].op = "ADD" /\ actions[i].item = b
  BY <1>1, ServiceTaken DEF ServicesInv, ServiceTypes
<1>3. x.op \notin {"ADD", "DEL", "CLEAR"} /\ UNCHANGED <<services, wanted>>
  BY DEF ServiceChange
<1>4. a \in Items /\ a \in Range(services)
  <2>1. a \in Items
    BY <1>2, <1>3, ActionFields
  <2> QED BY <1>2, <1>3, <2>1 DEF ServicesInv, NamedIsListed
<1>5. actions \in Seq(Actions)
  BY DEF ServicesInv, ServiceTypes
<1>6. item[a] \in ServiceType /\ item[a] # Free
  BY <1>4 DEF ServicesInv, OwnedOnce, ServiceTypes
<1>7. item' = [item EXCEPT ![a] = e]
  BY <1>6 DEF ServiceChange
<1>8. e \in ServiceType /\ e # Free
  BY <1>2, <1>6, EffectIsService, ServiceIsNotFree
<1> HIDE DEF e, a, x
<1>9. ServiceTypes'
  <2>1. Len(actions') <= QueueLen
    BY <1>2, <1>5, ServiceConstants DEF ServicesInv, ServiceTypes
  <2>2. item' \in [Items -> ServiceType \cup {Free}]
    BY <1>7, <1>8 DEF ServicesInv, ServiceTypes
  <2> QED BY <1>1, <1>2, <1>3, <2>1, <2>2 DEF ServicesInv, ServiceTypes
<1>10. \A i \in DOMAIN actions :
         i > 1 /\ actions[i].op \notin {"ADD", "CLEAR"} => actions[i].item \in Range(services')
  BY <1>3 DEF ServicesInv, NamedIsListed
<1>11. ASSUME NEW b \in Items
       PROVE  /\ item'[b] = Free <=> b \notin Range(services') /\ ~AddPending(b)'
              /\ wanted'[b] = Free <=> item'[b] = Free
  <2>1. AddPending(b) <=> \E i \in DOMAIN actions : actions[i].op = "ADD" /\ actions[i].item = b
    BY <1>5, PendingIsAdd
  <2>2. \A i \in DOMAIN actions : i = 1 \/ i > 1
    BY <1>5
  <2>3. AddPending(b) <=> AddPending(b)'
    BY <1>2, <1>3, <2>1, <2>2
  <2>4. item[b] = Free <=> b \notin Range(services) /\ ~AddPending(b)
    BY DEF ServicesInv, OwnedOnce
  <2>5. wanted[b] = Free <=> item[b] = Free
    BY DEF ServicesInv, OwnedOnce
  <2>6. item'[b] = (IF b = a THEN e ELSE item[b])
    BY <1>7 DEF ServicesInv, ServiceTypes
  <2> QED BY <1>3, <1>6, <1>8, <2>3, <2>4, <2>5, <2>6
<1>12. IsInjective(services') /\ \A b \in Range(services') : b \in Range(services)
  BY <1>3 DEF ServicesInv, OwnedOnce
<1>13. ServicesInv'
  BY <1>1, <1>9, <1>10, <1>11, <1>12, TakeStep
<1> QED BY <1>7, <1>13 DEF e, a, x

\* Every call but an add and a removal of all is a change with its own action.
LEMMA IsChange ==
  ASSUME NEW c \in Clients, NEW name, NEW type,
         \/ PortSet(c, name, type)    \/ TxtSet(c, name, type)
         \/ TxtItemSet(c, name, type) \/ TxtItemRemove(c, name, type)
         \/ SubtypeAdd(c, name, type) \/ InstanceNameSet(c, name, type)
         \/ ServiceRemove(c, name, type)
  PROVE  \E op, arg : /\ op \notin {"ADD", "CLEAR"} /\ Change(c, op, name, type, arg)
                      /\ \A a \in Items : Act(op, a, arg) \in Actions
<1>2. CASE PortSet(c, name, type)
  <2>1. PICK p \in Values : Change(c, "PORT_SET", name, type, p)
    BY <1>2 DEF PortSet
  <2>2. \A a \in Items : Act("PORT_SET", a, p) \in Actions
    BY DEF Act, Actions
  <2> QED BY <2>1, <2>2
<1>3. CASE TxtSet(c, name, type)
  <2>1. PICK t \in Texts : Change(c, "TXT_REPLACE", name, type, t)
    BY <1>3 DEF TxtSet
  <2>2. \A a \in Items : Act("TXT_REPLACE", a, t) \in Actions
    BY DEF Act, Actions
  <2> QED BY <2>1, <2>2
<1>4. CASE TxtItemSet(c, name, type)
  <2>1. PICK k \in Keys, v \in Values :
          Change(c, "TXT_SET", name, type, [key |-> k, value |-> v])
    BY <1>4 DEF TxtItemSet
  <2>2. \A a \in Items : Act("TXT_SET", a, [key |-> k, value |-> v]) \in Actions
    BY DEF Act, Actions
  <2> QED BY <2>1, <2>2
<1>5. CASE TxtItemRemove(c, name, type)
  <2>1. PICK k \in Keys : Change(c, "TXT_DEL", name, type, k)
    BY <1>5 DEF TxtItemRemove
  <2>2. \A a \in Items : Act("TXT_DEL", a, k) \in Actions
    BY DEF Act, Actions
  <2> QED BY <2>1, <2>2
<1>6. CASE SubtypeAdd(c, name, type)
  <2>1. PICK s \in Subtypes : Change(c, "SUBTYPE_ADD", name, type, s)
    BY <1>6 DEF SubtypeAdd
  <2>2. \A a \in Items : Act("SUBTYPE_ADD", a, s) \in Actions
    BY DEF Act, Actions
  <2> QED BY <2>1, <2>2
<1>7. CASE InstanceNameSet(c, name, type)
  <2>1. PICK n \in Instances : Change(c, "INSTANCE_SET", name, type, n)
    BY <1>7 DEF InstanceNameSet
  <2>2. \A a \in Items : Act("INSTANCE_SET", a, n) \in Actions
    BY DEF Act, Actions
  <2> QED BY <2>1, <2>2
<1>8. CASE ServiceRemove(c, name, type)
  <2>1. Change(c, "DEL", name, type, None)
    BY <1>8 DEF ServiceRemove
  <2>2. \A a \in Items : Act("DEL", a, None) \in Actions
    BY DEF Act, Actions
  <2> QED BY <2>1, <2>2
<1> QED BY <1>2, <1>3, <1>4, <1>5, <1>6, <1>7, <1>8

LEMMA ServicesInvStep == Careful /\ ServicesInv /\ [Next]_vars => ServicesInv'
<1> SUFFICES ASSUME Careful, ServicesInv, [Next]_vars PROVE ServicesInv'
  OBVIOUS
<1>1. ASSUME NEW c \in Clients, Calls(c) PROVE ServicesInv'
  <2>1. ASSUME NEW name \in Instances \cup {None}, NEW type \in Types,
               \/ Add(c, name, type)
               \/ PortSet(c, name, type)    \/ TxtSet(c, name, type)
               \/ TxtItemSet(c, name, type) \/ TxtItemRemove(c, name, type)
               \/ SubtypeAdd(c, name, type) \/ InstanceNameSet(c, name, type)
               \/ ServiceRemove(c, name, type)
        PROVE  ServicesInv'
    <3>1. CASE Add(c, name, type)
      BY <3>1, AddStep
    <3>2. CASE ~Add(c, name, type)
      <4>1. PICK op, arg : /\ op \notin {"ADD", "CLEAR"} /\ Change(c, op, name, type, arg)
                           /\ \A a \in Items : Act(op, a, arg) \in Actions
        BY <2>1, <3>2, IsChange
      <4> QED BY <4>1, ChangeStep
    <3> QED BY <3>1, <3>2
  <2>2. CASE RemoveAll(c)
    BY <2>2, RemoveAllStep
  <2> QED BY <1>1, <2>1, <2>2 DEF Calls
<1>2. ASSUME NEW c \in Clients, AddGoesOn(c) PROVE ServicesInv'
  BY <1>2, AddGoesOnStep
<1>3. CASE Execute
  <2>1. \/ ServiceAdd(Head(actions)) \/ ServiceDel(Head(actions))
        \/ ServicesClear(Head(actions)) \/ ServiceChange(Head(actions))
    BY <1>3 DEF Execute
  <2> QED BY <1>3, <2>1, ServiceAddStep, ServiceDelStep, ServicesClearStep, ServiceChangeStep
<1>4. CASE UNCHANGED vars
  BY <1>4 DEF vars, ServicesInv, ServiceTypes, OwnedOnce, NamedIsListed, AddPending
<1> QED BY <1>1, <1>2, <1>3, <1>4 DEF Next

\* What the invariant says of owners: none for a free address, else one.
LEMMA OneOwnerEach ==
  ASSUME ServicesInv, NEW a \in Items
  PROVE  Cardinality(Owners(a)) = IF item[a] = Free THEN 0 ELSE 1
<1>1. actions \in Seq(Actions)
  BY DEF ServicesInv, ServiceTypes
<1>2. \A i \in DOMAIN actions :
        actions[i] = Act("ADD", a, None) => actions[i].op = "ADD" /\ actions[i].item = a
  BY DEF Act
<1> DEFINE listed == {<<"list", i>> : i \in {j \in DOMAIN services : services[j] = a}}
           waiting == {<<"action", i>> : i \in {j \in DOMAIN actions : actions[j] = Act("ADD", a, None)}}
<1>3. Owners(a) = listed \cup waiting
  BY DEF Owners
<1>4. CASE item[a] = Free
  <2>1. a \notin Range(services) /\ ~AddPending(a)
    BY <1>4 DEF ServicesInv, OwnedOnce
  <2>2. listed = {}
    BY <2>1 DEF Range
  <2>3. waiting = {}
    BY <2>1 DEF AddPending
  <2> QED BY <1>3, <1>4, <2>2, <2>3, FS_EmptySet
<1>5. CASE item[a] # Free /\ a \in Range(services)
  <2>1. PICK i \in DOMAIN services : services[i] = a
    BY <1>5 DEF Range
  <2>2. listed = {<<"list", i>>}
    BY <2>1 DEF ServicesInv, OwnedOnce, IsInjective
  <2>3. waiting = {}
    BY <1>2, <1>5 DEF ServicesInv, OwnedOnce
  <2>4. Owners(a) = {<<"list", i>>}
    BY <1>3, <2>2, <2>3
  <2> QED BY <1>5, <2>4, FS_Singleton
<1>6. CASE item[a] # Free /\ a \notin Range(services)
  <2>1. AddPending(a)
    BY <1>6 DEF ServicesInv, OwnedOnce
  <2>2. PICK i \in DOMAIN actions : actions[i] = Act("ADD", a, None)
    BY <2>1 DEF AddPending
  <2>3. waiting = {<<"action", i>>}
    BY <1>2, <2>2 DEF ServicesInv, OwnedOnce
  <2>4. listed = {}
    BY <1>6 DEF Range
  <2>5. Owners(a) = {<<"action", i>>}
    BY <1>3, <2>3, <2>4
  <2> QED BY <1>6, <2>5, FS_Singleton
<1> QED BY <1>4, <1>5, <1>6

LEMMA ServicesInvSays == ServicesInv => ItemsAreOwned
<1> SUFFICES ASSUME ServicesInv PROVE ItemsAreOwned
  OBVIOUS
<1>1. actions \in Seq(Actions)
  BY DEF ServicesInv, ServiceTypes
<1>2. TypeOK
  <2>1. \A i \in DOMAIN actions : Carries(actions[i])
    BY <1>1, ActionFields
  <2> QED BY <2>1 DEF TypeOK, ServicesInv, ServiceTypes
<1>3. OneOwner
  BY OneOwnerEach DEF OneOwner
<1>4. NamesLiveService
  <2> SUFFICES ASSUME actions # <<>>, Head(actions).op \notin {"ADD", "DEL", "CLEAR"}
               PROVE  Head(actions).item \in Range(services)
    BY DEF NamesLiveService
  <2>1. 1 \in DOMAIN actions /\ actions[1] = Head(actions)
    BY <1>1
  <2> QED BY <2>1 DEF ServicesInv, NamedIsListed
<1> QED BY <1>2, <1>3, <1>4 DEF ItemsAreOwned

\* ItemsAreOwned, when no client names a service whose removal waits.
THEOREM ItemsOwned == Careful => (Spec => []ItemsAreOwned)
<1> SUFFICES ASSUME Careful PROVE Spec => []ItemsAreOwned
  OBVIOUS
<1>1. ServicesInv /\ [Next]_vars => ServicesInv'
  BY ServicesInvStep
<1> QED BY <1>1, ServicesInvInit, ServicesInvSays, PTL DEF Spec

-----------------------------------------------------------------------------
(* Services: the calls in their order.                                     *)

\* h is what becomes of the service at a while the queue q is executed.
Becomes(q, a, h) ==
  /\ DOMAIN h = 0..Len(q)
  /\ \A i \in 1..Len(q) :
       h[i] = IF q[i].item = a THEN Effect(q[i].op, h[i - 1], q[i].arg) ELSE h[i - 1]

\* What is wanted of a service is what becomes of it.
AsWanted(a) == \E h : Becomes(actions, a, h) /\ h[0] = item[a] /\ h[Len(actions)] = wanted[a]

AsCalled == \A a \in Items : AsWanted(a)

\* One more action is executed in the end.
LEMMA BecomesMore ==
  ASSUME NEW q \in Seq(Actions), NEW x \in Actions, NEW a, NEW h, Becomes(q, a, h)
  PROVE  \E g : /\ Becomes(Append(q, x), a, g) /\ g[0] = h[0]
                /\ g[Len(Append(q, x))] =
                     IF x.item = a THEN Effect(x.op, h[Len(q)], x.arg) ELSE h[Len(q)]
<1> DEFINE n == Len(q)
           r == Append(q, x)
           g == [i \in 0..(n + 1) |->
                  IF i <= n THEN h[i]
                  ELSE IF x.item = a THEN Effect(x.op, h[n], x.arg) ELSE h[n]]
<1>1. n \in Nat /\ Len(r) = n + 1 /\ r[n + 1] = x /\ \A i \in 1..n : r[i] = q[i]
  OBVIOUS
<1>2. DOMAIN g = 0..(n + 1) /\ (\A i \in 0..n : g[i] = h[i])
      /\ g[n + 1] = IF x.item = a THEN Effect(x.op, h[n], x.arg) ELSE h[n]
  BY <1>1
<1> HIDE DEF g, r, n
<1>3. ASSUME NEW i \in 1..(n + 1)
      PROVE  g[i] = IF r[i].item = a THEN Effect(r[i].op, g[i - 1], r[i].arg) ELSE g[i - 1]
  <2>1. CASE i = n + 1
    <3>1. i - 1 = n /\ n \in 0..n
      BY <1>1, <2>1
    <3> QED BY <1>1, <1>2, <2>1, <3>1
  <2>2. CASE i \in 1..n
    <3>1. i \in 0..n /\ i - 1 \in 0..n
      BY <1>1, <2>2
    <3>2. h[i] = IF q[i].item = a THEN Effect(q[i].op, h[i - 1], q[i].arg) ELSE h[i - 1]
      BY <2>2 DEF Becomes, n
    <3> QED BY <1>1, <1>2, <2>2, <3>1, <3>2
  <2> QED BY <1>1, <2>1, <2>2
<1>4. Becomes(r, a, g)
  BY <1>1, <1>2, <1>3 DEF Becomes
<1>5. 0 \in 0..n
  BY <1>1
<1> QED BY <1>1, <1>2, <1>4, <1>5 DEF r, n

\* The first action has been executed.
LEMMA BecomesLess ==
  ASSUME NEW q \in Seq(Actions), q # <<>>, NEW a, NEW h, Becomes(q, a, h)
  PROVE  \E g : /\ Becomes(Tail(q), a, g)
                /\ g[0] = IF Head(q).item = a THEN Effect(Head(q).op, h[0], Head(q).arg) ELSE h[0]
                /\ g[Len(Tail(q))] = h[Len(q)]
<1> DEFINE n == Len(q)
           m == n - 1
           r == Tail(q)
           g == [i \in 0..m |-> h[i + 1]]
<1>1. n \in Nat /\ m \in Nat /\ n = m + 1 /\ Len(r) = m /\ q[1] = Head(q)
      /\ \A i \in 1..m : r[i] = q[i + 1]
  OBVIOUS
<1>2. DOMAIN g = 0..m /\ \A i \in 0..m : g[i] = h[i + 1]
  OBVIOUS
<1> HIDE DEF g, r, m
<1>3. \A i \in 1..n : h[i] = IF q[i].item = a THEN Effect(q[i].op, h[i - 1], q[i].arg) ELSE h[i - 1]
  BY DEF Becomes
<1> HIDE DEF n
<1>4. ASSUME NEW i \in 1..m
      PROVE  g[i] = IF r[i].item = a THEN Effect(r[i].op, g[i - 1], r[i].arg) ELSE g[i - 1]
  <2>1. i \in 0..m /\ i - 1 \in 0..m /\ i + 1 \in 1..n /\ (i - 1) + 1 = (i + 1) - 1
    BY <1>1
  <2> QED BY <1>1, <1>2, <1>3, <2>1
<1>5. Becomes(r, a, g)
  BY <1>1, <1>2, <1>4 DEF Becomes
<1>6. g[0] = IF Head(q).item = a THEN Effect(Head(q).op, h[0], Head(q).arg) ELSE h[0]
  <2>1. 0 \in 0..m /\ 0 + 1 = 1 /\ 1 \in 1..n /\ 1 - 1 = 0
    BY <1>1
  <2> QED BY <1>1, <1>2, <1>3, <2>1
<1>7. g[m] = h[n]
  BY <1>1, <1>2
<1> QED BY <1>1, <1>5, <1>6, <1>7 DEF r, n

\* No action of the queue q changes the service at a.
NoneChanges(q, a) == \A i \in DOMAIN q : q[i].item = a => q[i].op \in {"ADD", "DEL", "CLEAR"}

StaysAs(q, a, s) == \E h : Becomes(q, a, h) /\ h[0] = s /\ h[Len(q)] = s

\* A service that no action changes stays as it is.
LEMMA BecomesItself ==
  ASSUME NEW q \in Seq(Actions), NEW a, NEW s, NoneChanges(q, a)
  PROVE  StaysAs(q, a, s)
<1>0. \A i \in DOMAIN q : q[i].item = a => q[i].op \in {"ADD", "DEL", "CLEAR"}
  BY DEF NoneChanges
<1> DEFINE n == Len(q)
           h == [i \in 0..n |-> s]
<1>1. n \in Nat /\ DOMAIN q = 1..n
  OBVIOUS
<1>2. \A op \in {"ADD", "DEL", "CLEAR"} : \A arg : Effect(op, s, arg) = s
  BY DEF Effect
<1>3. DOMAIN h = 0..n /\ \A i \in 0..n : h[i] = s
  OBVIOUS
<1> HIDE DEF h
<1>4. \A i \in 1..n : h[i] = IF q[i].item = a THEN Effect(q[i].op, h[i - 1], q[i].arg) ELSE h[i - 1]
  <2> SUFFICES ASSUME NEW i \in 1..n
               PROVE  h[i] = IF q[i].item = a THEN Effect(q[i].op, h[i - 1], q[i].arg) ELSE h[i - 1]
    OBVIOUS
  <2>1. i \in 0..n /\ i - 1 \in 0..n
    BY <1>1
  <2> QED BY <1>0, <1>1, <1>2, <1>3, <2>1
<1>5. Becomes(q, a, h)
  BY <1>3, <1>4 DEF Becomes
<1>6. 0 \in 0..n /\ n \in 0..n
  BY <1>1
<1> QED BY <1>3, <1>5, <1>6 DEF StaysAs

CallsInv == ServicesInv /\ AsCalled

\* The queue, the service and what is wanted of it stay the same.
LEMMA WantedStays ==
  ASSUME NEW a, AsWanted(a), UNCHANGED actions, item'[a] = item[a], wanted'[a] = wanted[a]
  PROVE  AsWanted(a)'
BY DEF AsWanted

\* An action is posted that is part of what is wanted.
LEMMA WantedMore ==
  ASSUME actions \in Seq(Actions), NEW x \in Actions, NEW a, AsWanted(a),
         actions' = Append(actions, x), item'[a] = item[a],
         wanted'[a] = IF x.item = a THEN Effect(x.op, wanted[a], x.arg) ELSE wanted[a]
  PROVE  AsWanted(a)'
<1>1. PICK h : Becomes(actions, a, h) /\ h[0] = item[a] /\ h[Len(actions)] = wanted[a]
  BY DEF AsWanted
<1>2. \E g : /\ Becomes(Append(actions, x), a, g) /\ g[0] = h[0]
             /\ g[Len(Append(actions, x))] =
                  IF x.item = a THEN Effect(x.op, h[Len(actions)], x.arg) ELSE h[Len(actions)]
  BY <1>1, BecomesMore
<1>3. PICK g : /\ Becomes(actions', a, g) /\ g[0] = h[0]
               /\ g[Len(actions')] =
                  IF x.item = a THEN Effect(x.op, h[Len(actions)], x.arg) ELSE h[Len(actions)]
  BY <1>2
<1>4. g[0] = item'[a] /\ g[Len(actions')] = wanted'[a]
  BY <1>1, <1>3
<1> QED BY <1>3, <1>4 DEF AsWanted

\* The first action is executed.
LEMMA WantedLess ==
  ASSUME actions \in Seq(Actions), actions # <<>>, NEW a, AsWanted(a),
         actions' = Tail(actions), wanted'[a] = wanted[a],
         item'[a] = IF Head(actions).item = a
                    THEN Effect(Head(actions).op, item[a], Head(actions).arg) ELSE item[a]
  PROVE  AsWanted(a)'
<1>1. PICK h : Becomes(actions, a, h) /\ h[0] = item[a] /\ h[Len(actions)] = wanted[a]
  BY DEF AsWanted
<1>2. PICK g : /\ Becomes(actions', a, g)
               /\ g[0] = (IF Head(actions).item = a
                          THEN Effect(Head(actions).op, h[0], Head(actions).arg) ELSE h[0])
               /\ g[Len(actions')] = h[Len(actions)]
  BY <1>1, BecomesLess
<1>3. g[0] = item'[a] /\ g[Len(actions')] = wanted'[a]
  BY <1>1, <1>2
<1> QED BY <1>2, <1>3 DEF AsWanted

\* Nothing that waits changes what is at a.
LEMMA WantedAsIs ==
  ASSUME actions' \in Seq(Actions), NEW a, wanted'[a] = item'[a],
         \A i \in DOMAIN actions' :
           actions'[i].item = a => actions'[i].op \in {"ADD", "DEL", "CLEAR"}
  PROVE  AsWanted(a)'
<1>1. NoneChanges(actions', a)
  BY DEF NoneChanges
<1>2. StaysAs(actions', a, item'[a])
  BY <1>1, BecomesItself
<1> QED BY <1>2 DEF AsWanted, StaysAs

LEMMA ChangeAsCalled ==
  ASSUME CallsInv, NEW c \in Clients, NEW op, NEW name, NEW type, NEW arg,
         \A a \in Items : Act(op, a, arg) \in Actions, Change(c, op, name, type, arg)
  PROVE  AsCalled'
<1>1. PICK a \in Found(name, type) :
        /\ Post(Act(op, a, arg), Copies(op, arg))
        /\ wanted' = IF HasRoom THEN [wanted EXCEPT ![a] = Effect(op, @, arg)] ELSE wanted
  BY DEF Change
<1>2. a \in Items /\ actions \in Seq(Actions) /\ wanted \in [Items -> ServiceType \cup {Free}]
  BY FoundIsListed DEF CallsInv, ServicesInv, ServiceTypes
<1> DEFINE x == Act(op, a, arg)
<1>3. x \in Actions /\ x.op = op /\ x.item = a /\ x.arg = arg
  BY <1>2 DEF Act
<1>4. Post(x, Copies(op, arg)) /\ UNCHANGED item
  BY <1>1 DEF Change
<1> HIDE DEF x
<1> SUFFICES ASSUME NEW b \in Items PROVE AsWanted(b)'
  BY DEF AsCalled
<1>5. AsWanted(b)
  BY DEF CallsInv, AsCalled
<1>6. CASE HasRoom
  <2>1. actions' = Append(actions, x)
    BY <1>4, <1>6 DEF Post
  <2>2. wanted'[b] = IF x.item = b THEN Effect(x.op, wanted[b], x.arg) ELSE wanted[b]
    <3>1. wanted' = [wanted EXCEPT ![a] = Effect(op, wanted[a], arg)]
      BY <1>1, <1>6
    <3> QED BY <3>1, <1>2, <1>3
  <2> QED BY <1>2, <1>3, <1>4, <1>5, <2>1, <2>2, WantedMore
<1>7. CASE ~HasRoom
  <2>1. UNCHANGED <<actions, wanted>>
    BY <1>1, <1>4, <1>7 DEF Post
  <2> QED BY <1>4, <1>5, <2>1, WantedStays
<1> QED BY <1>6, <1>7

LEMMA RemoveAllAsCalled ==
  ASSUME CallsInv, NEW c \in Clients, RemoveAll(c)
  PROVE  AsCalled'
<1> DEFINE x == Act("CLEAR", None, None)
<1>1. x \in Actions /\ x.op = "CLEAR" /\ x.item = None
  BY DEF Act, Actions
<1>2. Post(x, 0) /\ UNCHANGED <<item, wanted>>
  BY DEF RemoveAll
<1> HIDE DEF x
<1> SUFFICES ASSUME NEW b \in Items PROVE AsWanted(b)'
  BY DEF AsCalled
<1>3. AsWanted(b) /\ actions \in Seq(Actions)
  BY DEF CallsInv, AsCalled, ServicesInv, ServiceTypes
<1>4. CASE HasRoom
  <2>1. actions' = Append(actions, x) /\ x.item # b
    BY <1>1, <1>2, <1>4, ServiceConstants DEF Post
  <2> QED BY <1>1, <1>2, <1>3, <2>1, WantedMore
<1>5. CASE ~HasRoom
  <2>1. UNCHANGED actions
    BY <1>2, <1>5 DEF Post
  <2> QED BY <1>2, <1>3, <2>1, WantedStays
<1> QED BY <1>4, <1>5

LEMMA AddAsCalled ==
  ASSUME CallsInv, NEW c \in Clients, NEW name \in Instances \cup {None},
         NEW type \in Types, Add(c, name, type), ServiceTypes'
  PROVE  AsCalled'
<1>0. PICK a \in Items : \E s :
        /\ item[a] = Free
        /\ Post(Act("ADD", a, None), Strings(s))
        /\ HasRoom => item' = [item EXCEPT ![a] = s] /\ wanted' = [wanted EXCEPT ![a] = s]
        /\ ~HasRoom => UNCHANGED <<item, wanted>>
  BY DEF Add
<1>1. PICK s :
        /\ item[a] = Free
        /\ Post(Act("ADD", a, None), Strings(s))
        /\ HasRoom => item' = [item EXCEPT ![a] = s] /\ wanted' = [wanted EXCEPT ![a] = s]
        /\ ~HasRoom => UNCHANGED <<item, wanted>>
  BY <1>0
<1> DEFINE x == Act("ADD", a, None)
<1>2. x \in Actions /\ x.op = "ADD" /\ x.item = a
  BY DEF Act, Actions
<1>3. Post(x, Strings(s))
  BY <1>1
<1> HIDE DEF x
<1> SUFFICES ASSUME NEW b \in Items PROVE AsWanted(b)'
  BY DEF AsCalled
<1>4. /\ AsWanted(b) /\ actions \in Seq(Actions)
      /\ item \in [Items -> ServiceType \cup {Free}] /\ wanted \in [Items -> ServiceType \cup {Free}]
  BY DEF CallsInv, AsCalled, ServicesInv, ServiceTypes
<1>5. CASE HasRoom /\ b # a
  <2>1. actions' = Append(actions, x) /\ item'[b] = item[b] /\ wanted'[b] = wanted[b]
    BY <1>1, <1>3, <1>4, <1>5 DEF Post
  <2> QED BY <1>2, <1>4, <1>5, <2>1, WantedMore
<1>6. CASE HasRoom /\ b = a
  <2>1. actions' = Append(actions, x) /\ item'[b] = s /\ wanted'[b] = s
    BY <1>1, <1>3, <1>4, <1>6 DEF Post
  <2>2. a \notin Range(services)
    BY <1>1 DEF CallsInv, ServicesInv, OwnedOnce
  <2>3. \A i \in DOMAIN actions :
          actions[i].item = a => actions[i].op \in {"ADD", "DEL", "CLEAR"}
    BY <2>2 DEF CallsInv, ServicesInv, NamedIsListed
  <2>4. /\ \A i \in DOMAIN actions' : i \in DOMAIN actions \/ i = Len(actions) + 1
        /\ \A i \in DOMAIN actions : actions'[i] = actions[i]
        /\ actions'[Len(actions) + 1] = x
    BY <1>2, <1>4, <2>1, Posted
  <2>5. \A i \in DOMAIN actions' :
          actions'[i].item = b => actions'[i].op \in {"ADD", "DEL", "CLEAR"}
    BY <1>2, <1>6, <2>3, <2>4
  <2>6. actions' \in Seq(Actions)
    BY DEF ServiceTypes
  <2> QED BY <2>1, <2>5, <2>6, WantedAsIs
<1>7. CASE ~HasRoom
  <2>1. UNCHANGED actions
    BY <1>3, <1>7 DEF Post
  <2> QED BY <1>1, <1>4, <1>7, <2>1, WantedStays
<1> QED BY <1>5, <1>6, <1>7

LEMMA ExecuteAsCalled ==
  ASSUME CallsInv, Execute, ServicesInv'
  PROVE  AsCalled'
<1> DEFINE x == Head(actions)
<1>1. actions # <<>> /\ actions' = Tail(actions)
  BY DEF Execute
<1>2. /\ actions \in Seq(Actions) /\ actions' \in Seq(Actions)
      /\ item \in [Items -> ServiceType \cup {Free}] /\ wanted \in [Items -> ServiceType \cup {Free}]
  BY DEF CallsInv, ServicesInv, ServiceTypes
<1>3. /\ x \in Actions /\ 1 \in DOMAIN actions /\ actions[1] = x
      /\ \A i \in DOMAIN actions' :
           i + 1 \in DOMAIN actions /\ i + 1 > 1 /\ actions'[i] = actions[i + 1] /\ i \in Nat
  BY <1>1, <1>2, ServiceTaken
<1>4. \A i \in DOMAIN actions' : 1 < i + 1
  BY <1>3
<1>5. \A op \in {"ADD", "DEL", "CLEAR"} : \A s : Effect(op, s, x.arg) = s
  BY DEF Effect
<1> SUFFICES ASSUME NEW b \in Items PROVE AsWanted(b)'
  BY DEF AsCalled
<1>6. AsWanted(b)
  BY DEF CallsInv, AsCalled
<1>7. CASE ServiceAdd(x)
  <2>1. x.op = "ADD" /\ UNCHANGED <<item, wanted>>
    BY <1>7 DEF ServiceAdd
  <2>2. item'[b] = IF x.item = b THEN Effect(x.op, item[b], x.arg) ELSE item[b]
    BY <1>5, <2>1
  <2> QED BY <1>1, <1>2, <1>6, <2>1, <2>2, WantedLess
\* What is removed: nothing that waits names it any more.
<1>8. ASSUME b \in Range(services), x.op = "CLEAR" \/ (x.op = "DEL" /\ x.item = b),
             item'[b] = Free, wanted'[b] = Free
      PROVE  AsWanted(b)'
  <2>1. ASSUME NEW i \in DOMAIN actions', actions'[i].item = b,
               actions'[i].op \notin {"ADD", "DEL", "CLEAR"}
        PROVE  FALSE
    BY <1>3, <1>4, <1>8, <2>1 DEF CallsInv, ServicesInv, NamedIsListed
  <2> QED BY <1>2, <1>8, <2>1, WantedAsIs
<1>9. CASE ServiceDel(x)
  <2>1. x.op = "DEL" /\ x.item \in Items
    BY <1>3, <1>9, ActionFields DEF ServiceDel
  <2>2. x.item \in Range(services)
    BY <1>3, <2>1 DEF CallsInv, ServicesInv, NamedIsListed
  <2>3. item'[b] = (IF b = x.item THEN Free ELSE item[b])
        /\ wanted'[b] = (IF b = x.item THEN Free ELSE wanted[b])
    BY <1>9, <2>2 DEF ServiceDel, FreeItems
  <2>4. CASE b = x.item
    BY <1>8, <2>1, <2>2, <2>3, <2>4
  <2>5. CASE b # x.item
    BY <1>1, <1>2, <1>6, <2>3, <2>5, WantedLess
  <2> QED BY <2>4, <2>5
<1>10. CASE ServicesClear(x)
  <2>1. x.op = "CLEAR" /\ x.item # b
    BY <1>3, <1>10, ActionFields, ServiceConstants DEF ServicesClear
  <2>2. item'[b] = (IF b \in Range(services) THEN Free ELSE item[b])
        /\ wanted'[b] = (IF b \in Range(services) THEN Free ELSE wanted[b])
    BY <1>10 DEF ServicesClear, FreeItems
  <2>3. CASE b \in Range(services)
    BY <1>8, <2>1, <2>2, <2>3
  <2>4. CASE b \notin Range(services)
    BY <1>1, <1>2, <1>6, <2>1, <2>2, <2>4, WantedLess
  <2> QED BY <2>3, <2>4
<1>11. CASE ServiceChange(x)
  <2>1. item' = [item EXCEPT ![x.item] = Effect(x.op, item[x.item], x.arg)]
    BY <1>11, ServiceChangeStep DEF CallsInv
  <2>2. item'[b] = IF x.item = b THEN Effect(x.op, item[b], x.arg) ELSE item[b]
    BY <1>2, <2>1
  <2>3. UNCHANGED wanted
    BY <1>11 DEF ServiceChange
  <2> QED BY <1>1, <1>2, <1>6, <2>2, <2>3, WantedLess
<1> QED BY <1>7, <1>9, <1>10, <1>11 DEF Execute

LEMMA CallsInvStep == Careful /\ CallsInv /\ [Next]_vars => CallsInv'
<1> SUFFICES ASSUME Careful, CallsInv, [Next]_vars PROVE CallsInv'
  OBVIOUS
<1>1. ServicesInv'
  BY ServicesInvStep DEF CallsInv
<1>2. ASSUME NEW c \in Clients, Calls(c) PROVE AsCalled'
  <2>1. ASSUME NEW name \in Instances \cup {None}, NEW type \in Types,
               \/ Add(c, name, type)
               \/ PortSet(c, name, type)    \/ TxtSet(c, name, type)
               \/ TxtItemSet(c, name, type) \/ TxtItemRemove(c, name, type)
               \/ SubtypeAdd(c, name, type) \/ InstanceNameSet(c, name, type)
               \/ ServiceRemove(c, name, type)
        PROVE  AsCalled'
    <3>1. CASE Add(c, name, type)
      BY <1>1, <3>1, AddAsCalled DEF ServicesInv
    <3>2. CASE ~Add(c, name, type)
      <4>1. PICK op, arg : /\ op \notin {"ADD", "CLEAR"} /\ Change(c, op, name, type, arg)
                           /\ \A a \in Items : Act(op, a, arg) \in Actions
        BY <2>1, <3>2, IsChange
      <4> QED BY <4>1, ChangeAsCalled
    <3> QED BY <3>1, <3>2
  <2>2. CASE RemoveAll(c)
    BY <2>2, RemoveAllAsCalled
  <2> QED BY <1>2, <2>1, <2>2 DEF Calls
<1>3. ASSUME NEW c \in Clients, AddGoesOn(c) PROVE AsCalled'
  BY <1>3, WantedStays DEF AddGoesOn, AddReturns, AddTimesOut, CallsInv, AsCalled
<1>4. ASSUME Execute PROVE AsCalled'
  BY <1>1, <1>4, ExecuteAsCalled
<1>5. ASSUME UNCHANGED vars PROVE AsCalled'
  BY <1>5, WantedStays DEF vars, CallsInv, AsCalled
<1> QED BY <1>1, <1>2, <1>3, <1>4, <1>5 DEF Next, CallsInv

LEMMA CallsInvInit == Init => CallsInv
<1> SUFFICES ASSUME Init PROVE CallsInv
  OBVIOUS
<1>1. ServicesInv
  BY ServicesInvInit
<1>2. ASSUME NEW a \in Items PROVE AsWanted(a)
  <2>1. actions = <<>> /\ wanted[a] = item[a]
    BY DEF Init
  <2>2. actions \in Seq(Actions) /\ DOMAIN actions = {}
    BY <2>1
  <2>3. NoneChanges(actions, a)
    BY <2>2 DEF NoneChanges
  <2>4. StaysAs(actions, a, item[a])
    BY <2>2, <2>3, BecomesItself
  <2> QED BY <2>1, <2>4 DEF AsWanted, StaysAs
<1> QED BY <1>1, <1>2 DEF CallsInv, AsCalled

LEMMA CallsInvSays == CallsInv => LastCallWins
<1> SUFFICES ASSUME CallsInv, actions = <<>>, NEW a \in Range(services) PROVE item[a] = wanted[a]
  BY DEF LastCallWins
<1>1. a \in Items
  BY DEF CallsInv, ServicesInv, ServiceTypes, Range
<1>2. AsWanted(a)
  BY <1>1 DEF CallsInv, AsCalled
<1>3. Len(actions) = 0
  OBVIOUS
<1> QED BY <1>2, <1>3 DEF AsWanted

\* LastCallWins: whoever adds, and whatever is renamed, the actions that wait
\* turn each service into what the accepted calls asked for.
THEOREM CallsInOrder == Careful => (Spec => []LastCallWins)
<1> SUFFICES ASSUME Careful PROVE Spec => []LastCallWins
  OBVIOUS
<1>1. CallsInv /\ [Next]_vars => CallsInv'
  BY CallsInvStep
<1> QED BY <1>1, CallsInvInit, CallsInvSays, PTL DEF Spec

-----------------------------------------------------------------------------
(* Services: one client that adds.                                         *)

\* One client adds, it waits until its service is listed, and no service is
\* given another instance name.
OneAdds == Prompt /\ (\A c, d \in Adders : c = d) /\ "INSTANCE_SET" \notin Ops

\* What waits to be added is what the client that adds waits for; nothing in the
\* list is like it, and there is room for it.
AddWaits ==
  /\ \A c \in Clients : pc[c] # Idle => c \in Adders
  /\ \A i \in DOMAIN actions : actions[i].op # "INSTANCE_SET"
  /\ \A i \in DOMAIN actions : actions[i].op = "ADD" =>
       \E c \in Adders : pc[c] # Idle /\ pc[c].item = actions[i].item
  /\ \A c \in Clients : pc[c] # Idle /\ AddPending(pc[c].item) =>
       /\ item[pc[c].item].name = pc[c].name /\ item[pc[c].item].type = pc[c].type
       /\ \A a \in Range(services) : ~Matches(item[a], pc[c].name, pc[c].type)
       /\ Len(services) < MaxServices

\* No two services of the list are alike.
AllDiffer ==
  \A a, b \in Range(services) :
    a # b /\ item[a].type = item[b].type => InstanceName(item[a].name) # InstanceName(item[b].name)

ListInv == ServicesInv /\ AddWaits /\ AllDiffer /\ WithinMaxServices

\* What is found is what matches.
LEMMA NoneIsFound ==
  ASSUME services \in Seq(Items), NEW name, NEW type
  PROVE  Found(name, type) = {} <=> \A a \in Range(services) : ~Matches(item[a], name, type)
<1>1. ASSUME NEW a \in Found(name, type) PROVE a \in Range(services) /\ Matches(item[a], name, type)
  BY FoundIsListed
<1> QED BY <1>1, FoundIsListed

\* No action but the one for it gives a service another name, none another type.
LEMMA EffectKeepsName ==
  ASSUME NEW x \in Actions, x.op # "INSTANCE_SET", NEW s \in ServiceType
  PROVE  Effect(x.op, s, x.arg).name = s.name /\ Effect(x.op, s, x.arg).type = s.type
<1>1. x.op \in {"ADD", "DEL", "CLEAR", "PORT_SET", "TXT_REPLACE", "TXT_SET", "TXT_DEL", "SUBTYPE_ADD"}
  BY ActionFields
<1>2. s = [free |-> s.free, type |-> s.type, name |-> s.name, port |-> s.port,
           text |-> s.text, subs |-> s.subs]
  BY DEF ServiceType
<1> QED BY <1>1, <1>2 DEF Effect

LEMMA ListInvInit == Init => ListInv
<1> SUFFICES ASSUME Init PROVE ListInv
  OBVIOUS
<1>1. actions = <<>> /\ services = <<>> /\ \A c \in Clients : pc[c] = Idle
  BY DEF Init
<1>2. Range(services) = {} /\ Len(services) = 0
  BY <1>1 DEF Range
<1>3. AddWaits
  BY <1>1 DEF AddWaits
<1>4. AllDiffer /\ WithinMaxServices
  BY <1>2, ServiceConstants DEF AllDiffer, WithinMaxServices
<1> QED BY <1>3, <1>4, ServicesInvInit DEF ListInv

\* An action is posted that adds nothing and renames nothing.
LEMMA ListPost ==
  ASSUME ListInv, ServicesInv', UNCHANGED <<services, item, pc>>, NEW x \in Actions,
         actions' = Append(actions, x) \/ UNCHANGED actions,
         x.op \notin {"ADD", "INSTANCE_SET"}
  PROVE  ListInv'
<1>1. actions \in Seq(Actions) /\ actions' \in Seq(Actions)
  BY DEF ListInv, ServicesInv, ServiceTypes
<1>2. \A i \in DOMAIN actions' :
        (i \in DOMAIN actions /\ actions'[i] = actions[i]) \/ actions'[i] = x
  BY <1>1
<1>3. ASSUME NEW a, AddPending(a)' PROVE AddPending(a)
  <2>1. PICK i \in DOMAIN actions' : actions'[i] = Act("ADD", a, None)
    BY <1>3 DEF AddPending
  <2>2. actions'[i] # x
    BY <2>1 DEF Act
  <2>3. i \in DOMAIN actions /\ actions'[i] = actions[i]
    BY <1>2, <2>2
  <2> QED BY <2>1, <2>3 DEF AddPending
<1>4. \A i \in DOMAIN actions' : actions'[i].op # "INSTANCE_SET"
  BY <1>2 DEF ListInv, AddWaits
<1>5. \A i \in DOMAIN actions' : actions'[i].op = "ADD" =>
        \E c \in Adders : pc'[c] # Idle /\ pc'[c].item = actions'[i].item
  BY <1>2 DEF ListInv, AddWaits
<1>6. AddWaits'
  BY <1>3, <1>4, <1>5 DEF ListInv, AddWaits
<1> QED BY <1>6 DEF ListInv, AllDiffer, WithinMaxServices

LEMMA ListChange ==
  ASSUME ListInv, OneAdds, ServicesInv', NEW c \in Clients, NEW op, NEW name, NEW type, NEW arg,
         op # "ADD", \A a \in Items : Act(op, a, arg) \in Actions,
         Change(c, op, name, type, arg)
  PROVE  ListInv'
<1>1. PICK a \in Found(name, type) : Post(Act(op, a, arg), Copies(op, arg))
  BY DEF Change
<1>2. a \in Items
  BY FoundIsListed DEF ListInv, ServicesInv, ServiceTypes
<1>3. Act(op, a, arg) \in Actions /\ Act(op, a, arg).op = op
  BY <1>2 DEF Act
<1>4. op # "INSTANCE_SET" /\ UNCHANGED <<services, item, pc>>
  BY DEF Change, OneAdds
<1>5. actions' = Append(actions, Act(op, a, arg)) \/ UNCHANGED actions
  BY <1>1 DEF Post
<1> QED BY <1>3, <1>4, <1>5, ListPost

LEMMA ListRemoveAll ==
  ASSUME ListInv, ServicesInv', NEW c \in Clients, RemoveAll(c)
  PROVE  ListInv'
<1>1. Act("CLEAR", None, None) \in Actions /\ Act("CLEAR", None, None).op = "CLEAR"
  BY DEF Act, Actions
<1>2. UNCHANGED <<services, item, pc>>
  BY DEF RemoveAll
<1>3. actions' = Append(actions, Act("CLEAR", None, None)) \/ UNCHANGED actions
  BY DEF RemoveAll, Post
<1> QED BY <1>1, <1>2, <1>3, ListPost

LEMMA ListAdd ==
  ASSUME ListInv, OneAdds, ServicesInv', NEW c \in Clients, NEW name \in Instances \cup {None},
         NEW type \in Types, Add(c, name, type)
  PROVE  ListInv'
<1>1. PICK a \in Items, p \in Values, t \in Texts :
        LET s == Service(type, name, p, t)
        IN  /\ item[a] = Free
            /\ Post(Act("ADD", a, None), Strings(s))
            /\ IF HasRoom
               THEN /\ item' = [item EXCEPT ![a] = s]
                    /\ wanted' = [wanted EXCEPT ![a] = s]
                    /\ failed' = failed \ {a}
                    /\ pc' = [pc EXCEPT ![c] =
                         [free |-> FALSE, item |-> a, name |-> name, type |-> type]]
               ELSE UNCHANGED <<item, wanted, failed, pc>>
  BY DEF Add
<1> DEFINE s == Service(type, name, p, t)
           w == [free |-> FALSE, item |-> a, name |-> name, type |-> type]
           x == Act("ADD", a, None)
<1>2. /\ item[a] = Free /\ Post(x, Strings(s))
      /\ HasRoom => item' = [item EXCEPT ![a] = s] /\ pc' = [pc EXCEPT ![c] = w]
      /\ ~HasRoom => UNCHANGED <<item, pc>>
  BY <1>1
<1>3. s.name = name /\ s.type = type
  BY ServiceIsTyped
<1>4. w # Idle /\ w.item = a /\ w.name = name /\ w.type = type
  BY DEF Idle
<1>5. x \in Actions /\ x.op = "ADD" /\ x.item = a
  BY DEF Act, Actions
<1> HIDE DEF s, w, x
<1>6. /\ c \in Adders /\ pc[c] = Idle /\ services' = services
      /\ Len(services) < MaxServices /\ Found(name, type) = {}
  BY DEF Add, Call, AddRefused, CanAddMore
<1>7. /\ services \in Seq(Items) /\ actions \in Seq(Actions)
      /\ item \in [Items -> ServiceType \cup {Free}] /\ pc \in [Clients -> Adding \cup {Idle}]
  BY DEF ListInv, ServicesInv, ServiceTypes
<1>8. a \notin Range(services)
  BY <1>2 DEF ListInv, ServicesInv, OwnedOnce
<1>9. CASE HasRoom
  <2>1. actions' = Append(actions, x)
    BY <1>2, <1>9 DEF Post
  <2>2. \A i \in DOMAIN actions' :
          (i \in DOMAIN actions /\ actions'[i] = actions[i]) \/ actions'[i] = x
    BY <1>5, <1>7, <2>1
  <2>3. \A i \in DOMAIN actions : actions[i].op # "ADD"
    BY <1>6 DEF ListInv, AddWaits, OneAdds
  <2>4. pc'[c] = w /\ \A d \in Clients : d # c => pc'[d] = pc[d]
    BY <1>2, <1>7, <1>9
  <2>5. \A d \in Clients : pc'[d] # Idle => d = c
    BY <1>6, <2>4 DEF ListInv, AddWaits, OneAdds
  <2>6. item'[a] = s /\ \A b \in Items : b # a => item'[b] = item[b]
    BY <1>2, <1>7, <1>9
  <2>7. \A b \in Range(services) : b \in Items /\ item'[b] = item[b]
    BY <1>7, <1>8, <2>6 DEF Range
  <2>8. \A b \in Range(services) : ~Matches(item'[b], name, type)
    BY <1>6, <1>7, <2>7, NoneIsFound
  <2>9. AddWaits'
    <3>1. \A i \in DOMAIN actions' : actions'[i].op # "INSTANCE_SET"
      BY <1>5, <2>2 DEF ListInv, AddWaits
    <3>2. \A i \in DOMAIN actions' : actions'[i].op = "ADD" =>
            \E d \in Adders : pc'[d] # Idle /\ pc'[d].item = actions'[i].item
      BY <1>4, <1>5, <1>6, <2>2, <2>3, <2>4
    <3>3. ASSUME NEW d \in Clients, pc'[d] # Idle
          PROVE  /\ d \in Adders
                 /\ item'[pc'[d].item].name = pc'[d].name /\ item'[pc'[d].item].type = pc'[d].type
                 /\ \A b \in Range(services') : ~Matches(item'[b], pc'[d].name, pc'[d].type)
                 /\ Len(services') < MaxServices
      BY <1>3, <1>4, <1>6, <2>4, <2>5, <2>6, <2>8, <3>3
    <3> QED BY <3>1, <3>2, <3>3 DEF AddWaits
  <2>10. AllDiffer'
    BY <1>6, <2>7 DEF ListInv, AllDiffer
  <2> QED BY <1>6, <2>9, <2>10 DEF ListInv, WithinMaxServices
<1>10. CASE ~HasRoom
  <2>1. UNCHANGED actions
    BY <1>2, <1>10 DEF Post
  <2> QED BY <1>2, <1>6, <1>10, <2>1 DEF ListInv, AddWaits, AllDiffer, WithinMaxServices, AddPending
<1> QED BY <1>9, <1>10

LEMMA ListGoesOn ==
  ASSUME ListInv, OneAdds, ServicesInv', NEW c \in Clients, AddGoesOn(c)
  PROVE  ListInv'
<1>1. UNCHANGED <<item, services, actions>> /\ pc' = [pc EXCEPT ![c] = Idle] /\ pc[c] # Idle
  BY DEF AddGoesOn, AddReturns, AddTimesOut
<1>2. /\ services \in Seq(Items) /\ actions \in Seq(Actions)
      /\ pc \in [Clients -> Adding \cup {Idle}]
  BY DEF ListInv, ServicesInv, ServiceTypes
<1>3. ~AddPending(pc[c].item)
  <2>1. CASE AddReturns(c)
    <3>1. Found(pc[c].name, pc[c].type) # {}
      BY <2>1 DEF AddReturns
    <3>2. \E a \in Range(services) : Matches(item[a], pc[c].name, pc[c].type)
      BY <1>2, <3>1, NoneIsFound
    <3> QED BY <1>1, <3>2 DEF ListInv, AddWaits
  <2>2. CASE AddTimesOut(c)
    BY <2>2 DEF AddTimesOut, OneAdds
  <2> QED BY <2>1, <2>2 DEF AddGoesOn
<1>4. pc'[c] = Idle /\ \A d \in Clients : d # c => pc'[d] = pc[d]
  BY <1>1, <1>2
<1>5. ASSUME NEW i \in DOMAIN actions, actions[i].op = "ADD"
      PROVE  \E d \in Adders : pc'[d] # Idle /\ pc'[d].item = actions[i].item
  <2>1. PICK d \in Adders : pc[d] # Idle /\ pc[d].item = actions[i].item
    BY <1>5 DEF ListInv, AddWaits
  <2>2. AddPending(pc[d].item)
    BY <1>2, <1>5, <2>1, PendingIsAdd
  <2>3. d # c
    BY <1>3, <2>2
  <2> QED BY <1>4, <2>1, <2>3, ServiceConstants
<1>6. AddWaits'
  BY <1>1, <1>4, <1>5 DEF ListInv, AddWaits, AddPending
<1> QED BY <1>1, <1>6 DEF ListInv, AllDiffer, WithinMaxServices

\* An action is executed that adds nothing: what stays in the list keeps its
\* type and name, and what waits to be added is not touched.
LEMMA ListShrinks ==
  ASSUME ListInv, ServicesInv', actions # <<>>, actions' = Tail(actions), UNCHANGED pc,
         Range(services') \subseteq Range(services), Len(services') <= Len(services),
         \A a \in Range(services') :
           item'[a].name = item[a].name /\ item'[a].type = item[a].type,
         \A a \in Items : AddPending(a) => item'[a] = item[a]
  PROVE  ListInv'
<1>1. /\ services \in Seq(Items) /\ services' \in Seq(Items) /\ actions \in Seq(Actions)
      /\ pc \in [Clients -> Adding \cup {Idle}]
  BY DEF ListInv, ServicesInv, ServiceTypes
<1>2. /\ \A i \in DOMAIN actions' :
           i + 1 \in DOMAIN actions /\ actions'[i] = actions[i + 1]
      /\ \A a : AddPending(a)' <=>
           \E i \in DOMAIN actions : i > 1 /\ actions[i].op = "ADD" /\ actions[i].item = a
  BY <1>1, ServiceTaken
<1>3. \A a : AddPending(a)' => AddPending(a)
  BY <1>1, <1>2, PendingIsAdd
<1>4. \A a \in Range(services') : \A name, type :
        Matches(item'[a], name, type) => Matches(item[a], name, type)
  BY DEF Matches
<1>5. Len(services') \in Nat /\ Len(services) \in Nat
  BY <1>1
<1>6. ASSUME NEW c \in Clients, pc'[c] # Idle, AddPending(pc[c].item)'
      PROVE  /\ item'[pc'[c].item].name = pc'[c].name /\ item'[pc'[c].item].type = pc'[c].type
             /\ \A a \in Range(services') : ~Matches(item'[a], pc'[c].name, pc'[c].type)
             /\ Len(services') < MaxServices
  <2>1. pc[c] # Idle /\ AddPending(pc[c].item) /\ pc'[c] = pc[c]
    BY <1>3, <1>6
  <2>2. pc[c].item \in Items
    BY <1>1, <2>1 DEF Adding
  <2>3. item'[pc[c].item] = item[pc[c].item]
    BY <2>1, <2>2
  <2>4. /\ item[pc[c].item].name = pc[c].name /\ item[pc[c].item].type = pc[c].type
        /\ \A a \in Range(services) : ~Matches(item[a], pc[c].name, pc[c].type)
        /\ Len(services) < MaxServices
    BY <2>1 DEF ListInv, AddWaits
  <2>5. Len(services') < MaxServices
    BY <1>5, <2>4, ServiceConstants
  <2> QED BY <1>4, <2>1, <2>3, <2>4, <2>5
<1>7. AddWaits'
  <2>1. \A i \in DOMAIN actions' : actions'[i].op # "INSTANCE_SET"
    BY <1>2 DEF ListInv, AddWaits
  <2>2. \A i \in DOMAIN actions' : actions'[i].op = "ADD" =>
          \E c \in Adders : pc'[c] # Idle /\ pc'[c].item = actions'[i].item
    BY <1>2 DEF ListInv, AddWaits
  <2>3. \A c \in Clients : pc'[c] # Idle => c \in Adders
    BY DEF ListInv, AddWaits
  <2> QED BY <1>6, <2>1, <2>2, <2>3 DEF AddWaits
<1>8. AllDiffer'
  BY DEF ListInv, AllDiffer
<1>9. WithinMaxServices'
  BY <1>5, ServiceConstants DEF ListInv, WithinMaxServices
<1> QED BY <1>7, <1>8, <1>9 DEF ListInv

LEMMA ListAdded ==
  ASSUME ListInv, OneAdds, ServicesInv', Execute, ServiceAdd(Head(actions))
  PROVE  ListInv'
<1> DEFINE a == Head(actions).item
<1>1. actions # <<>> /\ actions' = Tail(actions) /\ UNCHANGED pc
  BY DEF Execute
<1>2. Head(actions).op = "ADD" /\ services' = <<a>> \o services /\ UNCHANGED item
  BY DEF ServiceAdd
<1>3. services \in Seq(Items) /\ actions \in Seq(Actions)
  BY DEF ListInv, ServicesInv, ServiceTypes
<1>4. /\ Head(actions) \in Actions /\ 1 \in DOMAIN actions /\ actions[1] = Head(actions)
      /\ \A i \in DOMAIN actions' :
           i + 1 \in DOMAIN actions /\ i + 1 > 1 /\ actions'[i] = actions[i + 1] /\ i \in Nat
      /\ \A b : AddPending(b)' <=>
           \E i \in DOMAIN actions : i > 1 /\ actions[i].op = "ADD" /\ actions[i].item = b
  BY <1>1, <1>3, ServiceTaken
<1>5. a \in Items
  BY <1>2, <1>4, ActionFields
<1> HIDE DEF a
<1>6. PICK c \in Adders : pc[c] # Idle /\ pc[c].item = a
  BY <1>2, <1>4 DEF ListInv, AddWaits, a
<1>7. AddPending(a)
  BY <1>2, <1>3, <1>4, PendingIsAdd DEF a
<1>8. /\ item[a].name = pc[c].name /\ item[a].type = pc[c].type
      /\ \A b \in Range(services) : ~Matches(item[b], pc[c].name, pc[c].type)
      /\ Len(services) < MaxServices
  BY <1>6, <1>7, ServiceConstants DEF ListInv, AddWaits
<1>9. \A b \in Range(services) : item[b].type = item[a].type =>
        InstanceName(item[b].name) # InstanceName(item[a].name)
  BY <1>8 DEF Matches, InstanceName
<1>10. Len(services') = Len(services) + 1 /\ Range(services') \subseteq Range(services) \cup {a}
  <2>1. Len(services') = Len(services) + 1
    BY <1>2, <1>3, <1>5
  <2>2. ASSUME NEW b \in Range(services') PROVE b \in Range(services) \cup {a}
    <3>1. PICK i \in DOMAIN services' : services'[i] = b
      BY DEF Range
    <3>2. CASE i = 1
      BY <1>2, <1>3, <1>5, <3>1, <3>2
    <3>3. CASE i # 1
      <4>1. i - 1 \in DOMAIN services /\ services[i - 1] = b
        BY <1>2, <1>3, <1>5, <3>1, <3>3
      <4> QED BY <4>1 DEF Range
    <3> QED BY <3>2, <3>3
  <2> QED BY <2>1, <2>2
<1>11. AllDiffer'
  <2> SUFFICES ASSUME NEW b \in Range(services'), NEW d \in Range(services'),
                      b # d, item[b].type = item[d].type
               PROVE  InstanceName(item[b].name) # InstanceName(item[d].name)
    BY <1>2 DEF AllDiffer
  <2>1. CASE b \in Range(services) /\ d \in Range(services)
    BY <2>1 DEF ListInv, AllDiffer
  <2>2. CASE b = a
    BY <1>9, <1>10, <2>2
  <2>3. CASE d = a
    BY <1>9, <1>10, <2>3
  <2> QED BY <1>10, <2>1, <2>2, <2>3
<1>12. WithinMaxServices'
  <2>1. Len(services) \in Nat
    BY <1>3
  <2> QED BY <1>8, <1>10, <2>1, ServiceConstants DEF WithinMaxServices
<1>13. AddWaits'
  <2>1. \A i \in DOMAIN actions' : actions'[i].op # "INSTANCE_SET"
    BY <1>4 DEF ListInv, AddWaits
  <2>2. ASSUME NEW i \in DOMAIN actions', actions'[i].op = "ADD"
        PROVE  FALSE
    <3>1. i + 1 \in DOMAIN actions /\ i + 1 # 1 /\ actions[i + 1].op = "ADD"
      BY <1>4, <2>2
    <3>2. PICK d \in Adders : pc[d] # Idle /\ pc[d].item = actions[i + 1].item
      BY <3>1 DEF ListInv, AddWaits
    <3>3. actions[i + 1].item = actions[1].item
      BY <1>4, <1>6, <3>2 DEF OneAdds, a
    <3> QED BY <1>2, <1>4, <3>1, <3>3 DEF ListInv, ServicesInv, OwnedOnce
  <2>3. \A b : ~AddPending(b)'
    <3>1. actions' \in Seq(Actions)
      BY DEF ServicesInv, ServiceTypes
    <3>2. \A b : Act("ADD", b, None).op = "ADD"
      BY DEF Act
    <3> QED BY <2>2, <3>2 DEF AddPending
  <2> QED BY <1>1, <2>1, <2>2, <2>3 DEF ListInv, AddWaits
<1> QED BY <1>11, <1>12, <1>13 DEF ListInv

LEMMA ListExecute ==
  ASSUME ListInv, OneAdds, ServicesInv', Execute
  PROVE  ListInv'
<1> DEFINE x == Head(actions)
<1>1. actions # <<>> /\ actions' = Tail(actions) /\ UNCHANGED pc
  BY DEF Execute
<1>2. /\ services \in Seq(Items) /\ actions \in Seq(Actions)
      /\ item \in [Items -> ServiceType \cup {Free}]
  BY DEF ListInv, ServicesInv, ServiceTypes
<1>3. x \in Actions /\ 1 \in DOMAIN actions /\ actions[1] = x
  BY <1>1, <1>2, ServiceTaken
<1>4. \A a \in Range(services) : a \in Items /\ ~AddPending(a) /\ item[a] # Free
  <2>1. Range(services) \subseteq Items
    BY <1>2 DEF Range
  <2>2. ASSUME NEW a \in Range(services) PROVE ~AddPending(a)
    BY <1>2, PendingIsAdd DEF ListInv, ServicesInv, OwnedOnce
  <2> QED BY <2>1, <2>2 DEF ListInv, ServicesInv, OwnedOnce
<1>5. CASE ServiceAdd(x)
  BY <1>5, ListAdded
<1>6. CASE ServiceDel(x)
  <2>1. x.op = "DEL" /\ x.item \in Items
    BY <1>3, <1>6, ActionFields DEF ServiceDel
  <2>2. x.item \in Range(services)
    BY <1>3, <2>1 DEF ListInv, ServicesInv, NamedIsListed
  <2>3. /\ services' = Keep(services, Items \ {x.item})
        /\ item' = [b \in Items |-> IF b \in {x.item} THEN Free ELSE item[b]]
    BY <1>6, <2>2 DEF ServiceDel, FreeItems, Unlinked
  <2>4. Range(services') = Range(services) \cap (Items \ {x.item}) /\ Len(services') <= Len(services)
    BY <1>2, <2>3, KeepRange, KeepShort
  <2>5. \A a \in Items : a # x.item => item'[a] = item[a]
    BY <2>3
  <2>6. \A a \in Range(services') : item'[a] = item[a]
    BY <2>4, <2>5
  <2>7. \A a \in Items : AddPending(a) => item'[a] = item[a]
    BY <1>4, <2>2, <2>5
  <2>8. Range(services') \subseteq Range(services)
    BY <2>4
  <2> QED BY <1>1, <2>4, <2>6, <2>7, <2>8, ListShrinks
<1>7. CASE ServicesClear(x)
  <2>1. services' = <<>> /\ item' = [b \in Items |-> IF b \in Range(services) THEN Free ELSE item[b]]
    BY <1>7 DEF ServicesClear, FreeItems
  <2>2. Range(services') = {} /\ Len(services') <= Len(services)
    BY <1>2, <2>1 DEF Range
  <2>3. \A a \in Items : AddPending(a) => item'[a] = item[a]
    BY <1>4, <2>1
  <2> QED BY <1>1, <2>2, <2>3, ListShrinks
<1>8. CASE ServiceChange(x)
  <2>1. item' = [item EXCEPT ![x.item] = Effect(x.op, item[x.item], x.arg)]
    BY <1>8, ServiceChangeStep DEF ListInv
  <2>2. UNCHANGED services /\ x.op \notin {"ADD", "DEL", "CLEAR"}
    BY <1>8 DEF ServiceChange
  <2>3. x.item \in Range(services) /\ x.op # "INSTANCE_SET"
    BY <1>3, <2>2 DEF ListInv, ServicesInv, NamedIsListed, AddWaits
  <2>4. item[x.item] \in ServiceType
    BY <1>2, <1>4, <2>3
  <2>5. \A a \in Items : item'[a] = IF a = x.item THEN Effect(x.op, item[a], x.arg) ELSE item[a]
    BY <1>2, <2>1
  <2>6. \A a \in Range(services') : item'[a].name = item[a].name /\ item'[a].type = item[a].type
    <3>1. /\ Effect(x.op, item[x.item], x.arg).name = item[x.item].name
          /\ Effect(x.op, item[x.item], x.arg).type = item[x.item].type
      BY <1>3, <2>3, <2>4, EffectKeepsName
    <3> QED BY <1>4, <2>2, <2>5, <3>1
  <2>7. \A a \in Items : AddPending(a) => item'[a] = item[a]
    BY <1>4, <2>3, <2>5
  <2>8. Len(services') <= Len(services)
    BY <1>2, <2>2
  <2>9. Range(services') \subseteq Range(services)
    BY <2>2
  <2> QED BY <1>1, <2>6, <2>7, <2>8, <2>9, ListShrinks
<1> QED BY <1>5, <1>6, <1>7, <1>8 DEF Execute

LEMMA ListInvStep == Careful /\ OneAdds /\ ListInv /\ [Next]_vars => ListInv'
<1> SUFFICES ASSUME Careful, OneAdds, ListInv, [Next]_vars PROVE ListInv'
  OBVIOUS
<1>1. ServicesInv'
  BY ServicesInvStep DEF ListInv
<1>2. ASSUME NEW c \in Clients, Calls(c) PROVE ListInv'
  <2>1. ASSUME NEW name \in Instances \cup {None}, NEW type \in Types,
               \/ Add(c, name, type)
               \/ PortSet(c, name, type)    \/ TxtSet(c, name, type)
               \/ TxtItemSet(c, name, type) \/ TxtItemRemove(c, name, type)
               \/ SubtypeAdd(c, name, type) \/ InstanceNameSet(c, name, type)
               \/ ServiceRemove(c, name, type)
        PROVE  ListInv'
    <3>1. CASE Add(c, name, type)
      BY <1>1, <3>1, ListAdd
    <3>2. CASE ~Add(c, name, type)
      <4>1. PICK op, arg : /\ op # "ADD" /\ Change(c, op, name, type, arg)
                           /\ \A a \in Items : Act(op, a, arg) \in Actions
        BY <2>1, <3>2, IsChange
      <4> QED BY <1>1, <4>1, ListChange
    <3> QED BY <3>1, <3>2
  <2>2. CASE RemoveAll(c)
    BY <1>1, <2>2, ListRemoveAll
  <2> QED BY <1>2, <2>1, <2>2 DEF Calls
<1>3. ASSUME NEW c \in Clients, AddGoesOn(c) PROVE ListInv'
  BY <1>1, <1>3, ListGoesOn
<1>4. CASE Execute
  BY <1>1, <1>4, ListExecute
<1>5. CASE UNCHANGED vars
  BY <1>1, <1>5 DEF vars, ListInv, AddWaits, AllDiffer, WithinMaxServices, AddPending
<1> QED BY <1>2, <1>3, <1>4, <1>5 DEF Next

LEMMA ListInvSays == ListInv => NoTwins /\ WithinMaxServices
<1> SUFFICES ASSUME ListInv PROVE NoTwins
  BY DEF ListInv
<1> SUFFICES ASSUME NEW i \in DOMAIN services, NEW j \in DOMAIN services, i # j,
                    item[services[i]].type = item[services[j]].type
             PROVE  InstanceName(item[services[i]].name) # InstanceName(item[services[j]].name)
  BY DEF NoTwins
<1>1. services[i] # services[j]
  BY DEF ListInv, ServicesInv, OwnedOnce, IsInjective
<1>2. services[i] \in Range(services) /\ services[j] \in Range(services)
  BY DEF Range
<1> QED BY <1>1, <1>2 DEF ListInv, AllDiffer

\* ListIsAsCalled, for one client that adds and waits until it is done: once no
\* action waits, each service is as the calls in their order made it, none is
\* there twice, and there are not more than configured.
THEOREM ListAsCalled == Careful /\ OneAdds => (Spec => []ListIsAsCalled)
<1> SUFFICES ASSUME Careful, OneAdds PROVE Spec => []ListIsAsCalled
  OBVIOUS
<1>1. CallsInv /\ [Next]_vars => CallsInv'
  BY CallsInvStep
<1>2. ListInv /\ [Next]_vars => ListInv'
  BY ListInvStep
<1>3. CallsInv /\ ListInv => ListIsAsCalled
  BY CallsInvSays, ListInvSays DEF ListIsAsCalled
<1> QED BY <1>1, <1>2, <1>3, CallsInvInit, ListInvInit, PTL DEF Spec

-----------------------------------------------------------------------------
(* Services: the strings are counted.                                      *)

\* The strings of the services that some addresses hold, and those copied into
\* the actions of a queue.
StringsIn(h) == Total([a \in Items |-> Strings(h[a])])
CopiesWaiting(q)  == Total([i \in DOMAIN q |-> Copies(q[i].op, q[i].arg)])

\* A text has a finite number of keys.
LEMMA KeysAreFinite ==
  ASSUME NEW text
  PROVE  IsFiniteSet(KeysOf(text)) /\ Cardinality(KeysOf(text)) \in Nat
<1>1. IsFiniteSet(Keys) /\ KeysOf(text) \subseteq Keys
  BY ServicesAssumption DEF KeysOf
<1> QED BY <1>1, FS_Subset, FS_CardinalityType

LEMMA StringsAreNat ==
  /\ Strings(Free) = 0
  /\ \A s \in ServiceType \cup {Free} : Strings(s) \in Nat
<1>1. Strings(Free) = 0
  BY DEF Strings
<1>2. ASSUME NEW s \in ServiceType PROVE Strings(s) \in Nat
  <2>1. Cardinality(KeysOf(s.text)) \in Nat /\ Len(s.subs) \in Nat
    BY KeysAreFinite DEF ServiceType
  <2>2. s # Free
    BY ServiceIsNotFree
  <2> DEFINE k == Cardinality(KeysOf(s.text))
             l == Len(s.subs)
  <2> HIDE DEF k, l
  <2>3. Strings(s) = (IF s.name = None THEN 0 ELSE 1) + 2 * k + l
    BY <2>2 DEF Strings, k, l
  <2> QED BY <2>1, <2>3 DEF k, l
<1> QED BY <1>1, <1>2

LEMMA CopiesAreNat ==
  ASSUME NEW x \in Actions
  PROVE  Copies(x.op, x.arg) \in Nat
<1>1. Cardinality(KeysOf(x.arg)) \in Nat
  BY KeysAreFinite
<1> DEFINE k == Cardinality(KeysOf(x.arg))
<1> HIDE DEF k
<1>2. Copies(x.op, x.arg) \in {2 * k, 2, 1, 0}
  BY DEF Copies, k
<1> QED BY <1>1, <1>2 DEF k

\* One more action waits, and the first is taken.
LEMMA CopiesMore ==
  ASSUME NEW q \in Seq(Actions), NEW x \in Actions
  PROVE  CopiesWaiting(Append(q, x)) = CopiesWaiting(q) + Copies(x.op, x.arg) /\ CopiesWaiting(q) \in Nat
<1> DEFINE r == Append(q, x)
           n == Len(q)
           f == [i \in DOMAIN r |-> Copies(r[i].op, r[i].arg)]
           g == [i \in DOMAIN q |-> Copies(q[i].op, q[i].arg)]
<1>1. /\ n \in Nat /\ r \in Seq(Actions) /\ DOMAIN r = 1..(n + 1) /\ DOMAIN q = 1..n
      /\ r[n + 1] = x /\ \A i \in 1..n : r[i] = q[i] /\ i \in 1..(n + 1)
      /\ n + 1 \in 1..(n + 1)
  BY AppendProperties
<1>2. /\ \A i \in DOMAIN r : r[i] \in Actions
      /\ \A i \in DOMAIN q : q[i] \in Actions
  BY <1>1
<1> HIDE DEF r, n
<1>3. f \in [1..(n + 1) -> Nat] /\ g \in [1..n -> Nat]
  BY <1>1, <1>2, CopiesAreNat
<1>4. IsPart(g, f, 1..n) /\ f[n + 1] = Copies(x.op, x.arg)
  BY <1>1, <1>3 DEF IsPart
<1>5. CopiesWaiting(r) = Total(f) /\ CopiesWaiting(q) = Total(g)
  BY DEF CopiesWaiting
<1> HIDE DEF f, g
<1>6. Total(f) = Total(g) + f[n + 1] /\ Total(g) \in Nat
  BY <1>1, <1>3, <1>4, TotalLast
<1> QED BY <1>4, <1>5, <1>6 DEF r

LEMMA CopiesLess ==
  ASSUME NEW q \in Seq(Actions), q # <<>>
  PROVE  /\ CopiesWaiting(q) = Copies(Head(q).op, Head(q).arg) + CopiesWaiting(Tail(q))
         /\ CopiesWaiting(Tail(q)) \in Nat
<1> DEFINE r == Tail(q)
           n == Len(r)
           f == [i \in DOMAIN q |-> Copies(q[i].op, q[i].arg)]
           g == [i \in DOMAIN r |-> Copies(r[i].op, r[i].arg)]
<1>1. /\ n \in Nat /\ r \in Seq(Actions) /\ DOMAIN q = 1..(n + 1) /\ DOMAIN r = 1..n
      /\ Head(q) = q[1] /\ \A i \in 1..n : r[i] = q[i + 1] /\ i + 1 \in 1..(n + 1)
      /\ 1 \in 1..(n + 1)
  OBVIOUS
<1>2. /\ \A i \in DOMAIN r : r[i] \in Actions
      /\ \A i \in DOMAIN q : q[i] \in Actions
  BY <1>1
<1> HIDE DEF r, n
<1>3. f \in [1..(n + 1) -> Nat] /\ g \in [1..n -> Nat]
  BY <1>1, <1>2, CopiesAreNat
<1>4. IsRest(g, f, n) /\ f[1] = Copies(Head(q).op, Head(q).arg)
  BY <1>1, <1>3 DEF IsRest
<1>5. CopiesWaiting(q) = Total(f) /\ CopiesWaiting(r) = Total(g)
  BY DEF CopiesWaiting
<1> HIDE DEF f, g
<1>6. Total(f) = f[1] + Total(g) /\ Total(g) \in Nat
  BY <1>1, <1>3, <1>4, TotalFirst
<1> QED BY <1>4, <1>5, <1>6 DEF r

\* A service is put to an address.
LEMMA StringsChanged ==
  ASSUME NEW h \in [Items -> ServiceType \cup {Free}], NEW a \in Items,
         NEW s \in ServiceType \cup {Free}
  PROVE  /\ StringsIn([h EXCEPT ![a] = s]) = StringsIn(h) - Strings(h[a]) + Strings(s)
         /\ StringsIn(h) \in Nat
<1> DEFINE r == [h EXCEPT ![a] = s]
           f == [b \in Items |-> Strings(h[b])]
           g == [b \in Items |-> Strings(r[b])]
<1>1. r \in [Items -> ServiceType \cup {Free}] /\ r[a] = s /\ \A b \in Items \ {a} : r[b] = h[b]
  OBVIOUS
<1> HIDE DEF r
<1>2. f \in [Items -> Nat] /\ g \in [Items -> Nat]
  BY <1>1, StringsAreNat
<1>3. f[a] = Strings(h[a]) /\ g[a] = Strings(s) /\ \A b \in Items \ {a} : g[b] = f[b]
  BY <1>1
<1>4. StringsIn(h) = Total(f) /\ StringsIn(r) = Total(g)
  BY DEF StringsIn
<1> HIDE DEF f, g
<1>5. IsFiniteSet(Items)
  BY ServicesAssumption
<1>6. Total(g) = Total(f) - f[a] + g[a] /\ Total(f) \in Nat
  BY <1>2, <1>3, <1>5, TotalChanged, ThingsAreFinite
<1> QED BY <1>3, <1>4, <1>6 DEF r

\* The strings that a change frees.
LEMMA FreedIsNat ==
  ASSUME NEW op, NEW s, NEW arg
  PROVE  Freed(op, s, arg) \in Nat
<1>1. Cardinality(KeysOf(s.text)) \in Nat
  BY KeysAreFinite
<1> DEFINE k == Cardinality(KeysOf(s.text))
<1> HIDE DEF k
<1>2. Freed(op, s, arg) \in {2 * k, 3, 2, 1, 0}
  BY DEF Freed, k
<1> QED BY <1>1, <1>2 DEF k

\* The addresses that are freed.
LEMMA StringsFreed ==
  ASSUME item \in [Items -> ServiceType \cup {Free}], NEW A \in SUBSET Items
  PROVE  StringsIn([a \in Items |-> IF a \in A THEN Free ELSE item[a]])
           = StringsIn(item) - StringsOf(A) /\ StringsOf(A) \in Nat
<1> DEFINE r == [a \in Items |-> IF a \in A THEN Free ELSE item[a]]
           f == [b \in Items |-> Strings(item[b])]
           g == [b \in A |-> Strings(item[b])]
           k == [b \in Items |-> Strings(r[b])]
<1>1. /\ \A a \in A : a \in Items /\ r[a] = Free
      /\ \A a \in Items \ A : r[a] = item[a]
      /\ \A a \in Items : r[a] \in ServiceType \cup {Free} /\ item[a] \in ServiceType \cup {Free}
  OBVIOUS
<1>2. StringsIn(item) = Total(f) /\ StringsIn(r) = Total(k) /\ StringsOf(A) = Total(g)
  BY DEF StringsIn, StringsOf
<1> HIDE DEF r
<1>3. f \in [Items -> Nat] /\ k \in [Items -> Nat]
  BY <1>1, StringsAreNat
<1>4. IsPart(g, f, A)
  BY <1>1, <1>3 DEF IsPart
<1>5. IsTakenFrom(k, f, A)
  BY <1>1, StringsAreNat DEF IsTakenFrom
<1> HIDE DEF f, g, k
<1>6. IsFiniteSet(Items)
  BY ServicesAssumption
<1>7. Total(k) = Total(f) - Total(g) /\ Total(g) \in Nat
  BY <1>3, <1>4, <1>5, <1>6, TotalTaken
<1> QED BY <1>2, <1>7 DEF r

\* What a change makes of a service takes the strings it brings, but for those
\* that are freed; only the key of a text item to be removed is lost, when the
\* service has no text.
LEMMA EffectStrings ==
  ASSUME NEW x \in Actions, NEW s \in ServiceType, x.op \notin {"ADD", "DEL", "CLEAR"},
         ~ (x.op = "TXT_DEL" /\ KeysOf(s.text) = {})
  PROVE  Strings(Effect(x.op, s, x.arg))
           = Strings(s) + Copies(x.op, x.arg) - Freed(x.op, s, x.arg)
<1> DEFINE t == Effect(x.op, s, x.arg)
           named(u) == IF u.name = None THEN 0 ELSE 1
           ks == KeysOf(s.text)
           n == Cardinality(ks)
           l == Len(s.subs)
<1> SUFFICES Strings(t) = Strings(s) + Copies(x.op, x.arg) - Freed(x.op, s, x.arg)
  OBVIOUS
<1>1. /\ s.text \in [Keys -> Values \cup {None}] /\ s.subs \in Seq(Subtypes)
      /\ l \in Nat /\ n \in Nat /\ IsFiniteSet(ks)
  BY KeysAreFinite DEF ServiceType, Texts
<1>2. t \in ServiceType /\ t # Free /\ s # Free
  BY EffectIsService, ServiceIsNotFree
<1>3. /\ Strings(s) = named(s) + 2 * n + l
      /\ Strings(t) = named(t) + 2 * Cardinality(KeysOf(t.text)) + Len(t.subs)
      /\ named(s) \in Nat /\ named(t) \in Nat
  BY <1>2 DEF Strings
<1> HIDE DEF l, n, ks, t, named
<1>4. Carries(x) /\ x.op \in {"PORT_SET", "TXT_REPLACE", "TXT_SET", "TXT_DEL",
                              "SUBTYPE_ADD", "INSTANCE_SET"}
  BY ActionFields
<1>5. CASE x.op = "PORT_SET"
  <2>1. t.name = s.name /\ t.text = s.text /\ t.subs = s.subs
    BY <1>5 DEF Effect, ServiceType, t
  <2>2. Copies(x.op, x.arg) = 0 /\ Freed(x.op, s, x.arg) = 0
    BY <1>5 DEF Copies, Freed
  <2>3. named(t) = named(s)
    BY <2>1 DEF named
  <2> QED BY <1>1, <1>3, <2>1, <2>2, <2>3 DEF n, l, ks
<1>6. CASE x.op = "TXT_REPLACE"
  <2>1. t.name = s.name /\ t.text = x.arg /\ t.subs = s.subs
    BY <1>6 DEF Effect, ServiceType, t
  <2>2. Copies(x.op, x.arg) = 2 * Cardinality(KeysOf(x.arg)) /\ Freed(x.op, s, x.arg) = 2 * n
    BY <1>6 DEF Copies, Freed, n, ks
  <2>3. Cardinality(KeysOf(x.arg)) \in Nat
    BY KeysAreFinite
  <2>4. named(t) = named(s)
    BY <2>1 DEF named
  <2> QED BY <1>1, <1>3, <2>1, <2>2, <2>3, <2>4 DEF l
<1>7. CASE x.op = "TXT_SET"
  <2>1. t.name = s.name /\ t.text = [s.text EXCEPT ![x.arg.key] = x.arg.value] /\ t.subs = s.subs
    BY <1>7 DEF Effect, ServiceType, t
  <2>2. x.arg.key \in Keys /\ x.arg.value # None
    BY <1>4, <1>7, ServiceConstants DEF Carries
  <2>3. KeysOf(t.text) = ks \cup {x.arg.key}
    BY <1>1, <2>1, <2>2 DEF KeysOf, ks
  <2>4. s.text[x.arg.key] = None <=> x.arg.key \notin ks
    BY <2>2 DEF KeysOf, ks
  <2>5. Copies(x.op, x.arg) = 2 /\ Freed(x.op, s, x.arg) = IF x.arg.key \notin ks THEN 0 ELSE 2
    BY <1>7, <2>4 DEF Copies, Freed
  <2>6. Cardinality(KeysOf(t.text)) = IF x.arg.key \in ks THEN n ELSE n + 1
    BY <1>1, <2>3, FS_AddElement DEF n
  <2>7. named(t) = named(s)
    BY <2>1 DEF named
  <2>8. Len(t.subs) = l
    BY <2>1 DEF l
  <2> QED BY <1>1, <1>3, <2>5, <2>6, <2>7, <2>8
<1>8. CASE x.op = "TXT_DEL"
  <2>1. t.name = s.name /\ t.text = [s.text EXCEPT ![x.arg] = None] /\ t.subs = s.subs
    BY <1>8 DEF Effect, ServiceType, t
  <2>2. x.arg \in Keys
    BY <1>4, <1>8 DEF Carries
  <2>3. KeysOf(t.text) = ks \ {x.arg}
    BY <1>1, <2>1, <2>2 DEF KeysOf, ks
  <2>4. s.text[x.arg] = None <=> x.arg \notin ks
    BY <2>2 DEF KeysOf, ks
  <2>5. Copies(x.op, x.arg) = 1 /\ Freed(x.op, s, x.arg) = IF x.arg \notin ks THEN 1 ELSE 3
    BY <1>8, <2>4 DEF Copies, Freed, ks
  <2>6. Cardinality(KeysOf(t.text)) = IF x.arg \in ks THEN n - 1 ELSE n
    BY <1>1, <2>3, FS_RemoveElement DEF n
  <2>7. named(t) = named(s)
    BY <2>1 DEF named
  <2>8. Len(t.subs) = l
    BY <2>1 DEF l
  <2> QED BY <1>1, <1>3, <2>5, <2>6, <2>7, <2>8
<1>9. CASE x.op = "SUBTYPE_ADD"
  <2>1. t.name = s.name /\ t.text = s.text /\ t.subs = <<x.arg>> \o s.subs
    BY <1>9 DEF Effect, ServiceType, t
  <2>2. Copies(x.op, x.arg) = 1 /\ Freed(x.op, s, x.arg) = 0
    BY <1>9 DEF Copies, Freed
  <2>3. Len(t.subs) = l + 1
    BY <1>1, <2>1 DEF l
  <2>4. named(t) = named(s)
    BY <2>1 DEF named
  <2> QED BY <1>1, <1>3, <2>1, <2>2, <2>3, <2>4 DEF n, ks
<1>10. CASE x.op = "INSTANCE_SET"
  <2>1. t.name = x.arg /\ t.text = s.text /\ t.subs = s.subs
    BY <1>10 DEF Effect, ServiceType, t
  <2>2. x.arg # None
    BY <1>4, <1>10, ServiceConstants DEF Carries
  <2>3. Copies(x.op, x.arg) = 1 /\ Freed(x.op, s, x.arg) = named(s) /\ named(t) = 1
    BY <1>10, <2>1, <2>2 DEF Copies, Freed, named
  <2>4. Cardinality(KeysOf(t.text)) = n /\ Len(t.subs) = l
    BY <2>1 DEF n, l, ks
  <2> QED BY <1>1, <1>3, <2>3, <2>4
<1> QED BY <1>4, <1>5, <1>6, <1>7, <1>8, <1>9, <1>10

-----------------------------------------------------------------------------
(* Services: the steps keep the count.                                     *)

LeakInv == ServicesInv /\ NothingLeaks

\* A text item is about to be removed from a service that has none.
RemovesNothing ==
  /\ actions # <<>>
  /\ Head(actions).op = "TXT_DEL"
  /\ KeysOf(item[Head(actions).item].text) = {}

LEMMA LeakIs ==
  /\ NothingLeaks <=> blocks = StringsIn(item) + CopiesWaiting(actions)
  /\ NothingLeaks' <=> blocks' = StringsIn(item') + CopiesWaiting(actions')
BY DEF NothingLeaks, StringsOf, StringsIn, CopiesWaiting

\* What is counted is a number.
LEMMA CountsAreNat ==
  ASSUME ServicesInv
  PROVE  StringsIn(item) \in Nat /\ CopiesWaiting(actions) \in Nat
<1>1. item \in [Items -> ServiceType \cup {Free}] /\ actions \in Seq(Actions)
  BY DEF ServicesInv, ServiceTypes
<1>2. CopiesWaiting(actions) \in Nat
  <2>1. Act("CLEAR", None, None) \in Actions
    BY DEF Act, Actions
  <2> QED BY <1>1, <2>1, CopiesMore
<1>3. StringsIn(item) \in Nat
  <2> DEFINE f == [b \in Items |-> Strings(item[b])]
  <2>1. f \in [Items -> Nat]
    BY <1>1, StringsAreNat
  <2>2. StringsIn(item) = Total(f)
    BY DEF StringsIn
  <2> HIDE DEF f
  <2> QED BY <2>1, <2>2, ThingsAreFinite, ServicesAssumption
<1> QED BY <1>2, <1>3

\* A call posts its copies, or frees them again.
LEMMA LeakPost ==
  ASSUME LeakInv, NEW x \in Actions, Post(x, Copies(x.op, x.arg)), UNCHANGED item
  PROVE  NothingLeaks'
<1>1. actions \in Seq(Actions)
  BY DEF LeakInv, ServicesInv, ServiceTypes
<1>2. blocks = StringsIn(item) + CopiesWaiting(actions)
  BY LeakIs DEF LeakInv
<1>3. StringsIn(item) \in Nat /\ CopiesWaiting(actions) \in Nat /\ Copies(x.op, x.arg) \in Nat
  BY CountsAreNat, CopiesAreNat DEF LeakInv
<1>4. CASE HasRoom
  <2>1. actions' = Append(actions, x) /\ blocks' = blocks + Copies(x.op, x.arg)
    BY <1>4 DEF Post
  <2>2. CopiesWaiting(actions') = CopiesWaiting(actions) + Copies(x.op, x.arg)
    BY <1>1, <2>1, CopiesMore
  <2> QED BY <1>2, <1>3, <2>1, <2>2, LeakIs
<1>5. CASE ~HasRoom
  BY <1>2, <1>5, LeakIs DEF Post
<1> QED BY <1>4, <1>5

\* The service to be added brings the strings.
LEMMA LeakAdd ==
  ASSUME LeakInv, NEW c \in Clients, NEW name \in Instances \cup {None}, NEW type \in Types,
         Add(c, name, type)
  PROVE  NothingLeaks'
<1>1. PICK a \in Items, p \in Values, t \in Texts :
        LET s == Service(type, name, p, t)
        IN  /\ item[a] = Free
            /\ Post(Act("ADD", a, None), Strings(s))
            /\ item' = IF HasRoom THEN [item EXCEPT ![a] = s] ELSE item
  BY DEF Add
<1> DEFINE s == Service(type, name, p, t)
           x == Act("ADD", a, None)
<1>2. actions \in Seq(Actions) /\ item \in [Items -> ServiceType \cup {Free}]
  BY DEF LeakInv, ServicesInv, ServiceTypes
<1>3. blocks = StringsIn(item) + CopiesWaiting(actions)
  BY LeakIs DEF LeakInv
<1>4. s \in ServiceType
  BY ServiceIsTyped
<1>5. x \in Actions /\ Copies(x.op, x.arg) = 0
  BY DEF Act, Actions, Copies
<1>6. StringsIn(item) \in Nat /\ CopiesWaiting(actions) \in Nat /\ Strings(s) \in Nat
  BY <1>4, CountsAreNat, StringsAreNat DEF LeakInv
<1> HIDE DEF s, x
<1>7. CASE HasRoom
  <2>1. actions' = Append(actions, x) /\ blocks' = blocks + Strings(s) /\ item' = [item EXCEPT ![a] = s]
    BY <1>1, <1>7 DEF Post, s, x
  <2>2. CopiesWaiting(actions') = CopiesWaiting(actions)
    BY <1>2, <1>5, <1>6, <2>1, CopiesMore
  <2>3. StringsIn(item') = StringsIn(item) + Strings(s)
    <3>1. StringsIn([item EXCEPT ![a] = s]) = StringsIn(item) - Strings(item[a]) + Strings(s)
      BY <1>2, <1>4, StringsChanged
    <3>2. Strings(item[a]) = 0
      BY <1>1, StringsAreNat
    <3> QED BY <1>6, <2>1, <3>1, <3>2
  <2> QED BY <1>3, <1>6, <2>1, <2>2, <2>3, LeakIs
<1>8. CASE ~HasRoom
  <2>1. UNCHANGED <<actions, blocks, item>>
    BY <1>1, <1>8 DEF Post
  <2> QED BY <1>3, <2>1, LeakIs
<1> QED BY <1>7, <1>8

\* An action that is executed gives its copies to the service or frees them,
\* with the strings of what is removed.
LEMMA LeakExecute ==
  ASSUME LeakInv, ~RemovesNothing, Execute
  PROVE  NothingLeaks'
<1> DEFINE x == Head(actions)
<1>1. actions # <<>> /\ actions' = Tail(actions)
  BY DEF Execute
<1>2. /\ services \in Seq(Items) /\ actions \in Seq(Actions)
      /\ item \in [Items -> ServiceType \cup {Free}]
  BY DEF LeakInv, ServicesInv, ServiceTypes
<1>3. x \in Actions /\ 1 \in DOMAIN actions /\ actions[1] = x
  BY <1>1, <1>2, ServiceTaken
<1>4. blocks = StringsIn(item) + CopiesWaiting(actions)
  BY LeakIs DEF LeakInv
<1>5. CopiesWaiting(actions) = Copies(x.op, x.arg) + CopiesWaiting(actions')
  BY <1>1, <1>2, CopiesLess
<1>6. StringsIn(item) \in Nat /\ CopiesWaiting(actions') \in Nat /\ Copies(x.op, x.arg) \in Nat
  BY <1>1, <1>2, <1>3, CountsAreNat, CopiesLess, CopiesAreNat DEF LeakInv
<1>7. x.op \in {"ADD", "DEL", "CLEAR"} => Copies(x.op, x.arg) = 0
  BY DEF Copies
<1> HIDE DEF x
<1>8. ASSUME NEW A \in SUBSET Items, FreeItems(A), Copies(x.op, x.arg) = 0 PROVE NothingLeaks'
  <2>1. /\ item' = [a \in Items |-> IF a \in A THEN Free ELSE item[a]]
        /\ blocks' = blocks - StringsOf(A)
    BY <1>8 DEF FreeItems
  <2>2. StringsIn(item') = StringsIn(item) - StringsOf(A) /\ StringsOf(A) \in Nat
    BY <1>2, <2>1, StringsFreed
  <2> QED BY <1>4, <1>5, <1>6, <1>8, <2>1, <2>2, LeakIs
<1>9. CASE UNCHANGED <<item, blocks>> /\ Copies(x.op, x.arg) = 0
  BY <1>4, <1>5, <1>6, <1>9, LeakIs
<1>10. CASE ServiceAdd(x)
  BY <1>7, <1>9, <1>10 DEF ServiceAdd
<1>11. CASE ServiceDel(x)
  <2>1. x.op = "DEL" /\ x.item \in Items
    BY <1>3, <1>11, ActionFields DEF ServiceDel
  <2>2. FreeItems({x.item}) \/ UNCHANGED <<item, blocks>>
    BY <1>11 DEF ServiceDel
  <2>3. {x.item} \in SUBSET Items
    BY <2>1
  <2> QED BY <1>7, <1>8, <1>9, <2>1, <2>2, <2>3
<1>12. CASE ServicesClear(x)
  <2>1. x.op = "CLEAR" /\ FreeItems(Range(services))
    BY <1>12 DEF ServicesClear
  <2>2. Range(services) \in SUBSET Items
    BY <1>2 DEF Range
  <2> QED BY <1>7, <1>8, <2>1, <2>2
<1>13. CASE ServiceChange(x)
  <2> DEFINE s == item[x.item]
             t == Effect(x.op, s, x.arg)
  <2>1. x.op \notin {"ADD", "DEL", "CLEAR"}
    BY <1>13 DEF ServiceChange
  <2>2. x.item \in Range(services) /\ x.item \in Items
    BY <1>2, <1>3, <2>1, ActionFields DEF LeakInv, ServicesInv, NamedIsListed
  <2>3. s # Free /\ s \in ServiceType
    <3>1. s # Free
      BY <2>2 DEF LeakInv, ServicesInv, OwnedOnce
    <3> QED BY <1>2, <2>2, <3>1
  <2>4. item' = [item EXCEPT ![x.item] = t] /\ blocks' = blocks - Freed(x.op, s, x.arg)
    BY <1>13, <2>3 DEF ServiceChange
  <2>5. t \in ServiceType
    BY <1>3, <2>3, EffectIsService
  <2>6. ~ (x.op = "TXT_DEL" /\ KeysOf(s.text) = {})
    BY <1>1 DEF RemovesNothing, x
  <2>7. Strings(t) = Strings(s) + Copies(x.op, x.arg) - Freed(x.op, s, x.arg)
    BY <1>3, <2>1, <2>3, <2>6, EffectStrings
  <2>8. StringsIn(item') = StringsIn(item) - Strings(s) + Strings(t)
    BY <1>2, <2>2, <2>4, <2>5, StringsChanged
  <2>9. Strings(s) \in Nat /\ Strings(t) \in Nat /\ Freed(x.op, s, x.arg) \in Int
    <3>1. Strings(s) \in Nat /\ Strings(t) \in Nat
      BY <2>3, <2>5, StringsAreNat
    <3> QED BY <3>1, <2>3, FreedIsNat
  <2> HIDE DEF s, t
  <2> QED BY <1>4, <1>5, <1>6, <2>4, <2>7, <2>8, <2>9, LeakIs
<1> QED BY <1>10, <1>11, <1>12, <1>13 DEF Execute, x

LEMMA LeakInvStep ==
  Careful /\ LeakInv /\ ~RemovesNothing /\ [Next]_vars => LeakInv'
<1> SUFFICES ASSUME Careful, LeakInv, ~RemovesNothing, [Next]_vars PROVE NothingLeaks'
  BY ServicesInvStep DEF LeakInv
<1>1. services \in Seq(Items)
  BY DEF LeakInv, ServicesInv, ServiceTypes
<1>2. ASSUME NEW c \in Clients, Calls(c) PROVE NothingLeaks'
  <2>1. ASSUME NEW name \in Instances \cup {None}, NEW type \in Types,
               \/ Add(c, name, type)
               \/ PortSet(c, name, type)    \/ TxtSet(c, name, type)
               \/ TxtItemSet(c, name, type) \/ TxtItemRemove(c, name, type)
               \/ SubtypeAdd(c, name, type) \/ InstanceNameSet(c, name, type)
               \/ ServiceRemove(c, name, type)
        PROVE  NothingLeaks'
    <3>1. CASE Add(c, name, type)
      BY <3>1, LeakAdd
    <3>2. CASE ~Add(c, name, type)
      <4>1. PICK op, arg : /\ op # "ADD" /\ Change(c, op, name, type, arg)
                           /\ \A a \in Items : Act(op, a, arg) \in Actions
        BY <2>1, <3>2, IsChange
      <4>2. PICK a \in Found(name, type) : Post(Act(op, a, arg), Copies(op, arg))
        BY <4>1 DEF Change
      <4>3. a \in Items
        BY <1>1, FoundIsListed
      <4> DEFINE x == Act(op, a, arg)
      <4>4. x \in Actions /\ x.op = op /\ x.arg = arg /\ UNCHANGED item
        BY <4>1, <4>3 DEF Act, Change
      <4>5. Post(x, Copies(x.op, x.arg))
        BY <4>2, <4>4
      <4> HIDE DEF x
      <4> QED BY <4>4, <4>5, LeakPost
    <3> QED BY <3>1, <3>2
  <2>2. CASE RemoveAll(c)
    <3> DEFINE x == Act("CLEAR", None, None)
    <3>1. x \in Actions /\ Copies(x.op, x.arg) = 0
      BY DEF Act, Actions, Copies
    <3>2. Post(x, 0) /\ UNCHANGED item
      BY <2>2 DEF RemoveAll
    <3> HIDE DEF x
    <3> QED BY <3>1, <3>2, LeakPost
  <2> QED BY <1>2, <2>1, <2>2 DEF Calls
<1>3. ASSUME NEW c \in Clients, AddGoesOn(c) PROVE NothingLeaks'
  <2>1. UNCHANGED <<item, actions, blocks>>
    BY <1>3 DEF AddGoesOn, AddReturns, AddTimesOut
  <2> QED BY <2>1, LeakIs DEF LeakInv
<1>4. CASE Execute
  BY <1>4, LeakExecute
<1>5. CASE UNCHANGED vars
  BY <1>5, LeakIs DEF vars, LeakInv
<1> QED BY <1>2, <1>3, <1>4, <1>5 DEF Next

LEMMA LeakInvInit == Init => LeakInv
<1> SUFFICES ASSUME Init PROVE NothingLeaks
  BY ServicesInvInit DEF LeakInv
<1>1. item = [a \in Items |-> Free] /\ actions = <<>> /\ blocks = 0
  BY DEF Init
<1> DEFINE f == [a \in Items |-> Strings(item[a])]
           g == [i \in DOMAIN actions |-> Copies(actions[i].op, actions[i].arg)]
<1>2. f \in [Items -> Nat] /\ \A a \in Items : f[a] = 0
  BY <1>1, StringsAreNat
<1>3. DOMAIN actions = {}
  BY <1>1
<1>4. g \in [{} -> Nat]
  BY <1>3
<1>5. StringsIn(item) = Total(f) /\ CopiesWaiting(actions) = Total(g)
  BY DEF StringsIn, CopiesWaiting
<1> HIDE DEF f, g
<1>6. Total(f) = 0 /\ Total(g) = 0
  BY <1>2, <1>4, TotalNone
<1> QED BY <1>1, <1>5, <1>6, LeakIs

\* NothingLeaks, for careful clients that remove no text item from a service
\* that has none: that loses the key, and nothing else loses a string or frees
\* one twice.
THEOREM StringsAreKept == Careful => (Spec /\ [](~RemovesNothing) => []NothingLeaks)
<1> SUFFICES ASSUME Careful PROVE Spec /\ [](~RemovesNothing) => []NothingLeaks
  OBVIOUS
<1>1. LeakInv /\ ~RemovesNothing /\ [Next]_vars => LeakInv'
  BY LeakInvStep
<1>2. LeakInv => NothingLeaks
  BY DEF LeakInv
<1> QED BY <1>1, <1>2, LeakInvInit, PTL DEF Spec
==============================================================================
