------------------------------ MODULE MdnsHosts --------------------------------
(***************************************************************************)
(* The host names of the mDNS component (mdns.c): its own, set by a client *)
(* that waits on a binary semaphore until the service task has set it, or  *)
(* changed by the task itself when another host disputes it; and those     *)
(* delegated to it.  Every service has the name of its host.  Services are *)
(* all of one type here, and only added once there is a host name, as      *)
(* mdns.h requires.  Memory always suffices.                               *)
(***************************************************************************)
EXTENDS Integers, Sequences, FiniteSets, SequencesExt, Lists

CONSTANTS
  HostClients,  \* the tasks that call the API
  Setters,      \* those that set the host name
  Names,        \* host names
  Separate,     \* TRUE: the host name is never set to one that is delegated
  Disputed,     \* TRUE: other hosts dispute the name
  Settled,      \* TRUE: no service is added while its host is set or removed
  Addresses,    \* the numbers of addresses delegated hosts are given
  HostQueueLen, \* MDNS_ACTION_QUEUE_LEN
  MaxHosted,    \* MDNS_MAX_SERVICES
  MaxHostCalls  \* bound: the calls of clients

NoName == "none"

ASSUME HostsAssumption ==
  /\ Setters \subseteq HostClients
  /\ NoName \notin Names /\ IsFiniteSet(Names)
  /\ {Separate, Disputed, Settled} \subseteq BOOLEAN
  /\ Addresses \subseteq Nat
  /\ {HostQueueLen, MaxHosted, MaxHostCalls} \subseteq Nat

VARIABLES
  hostname,     \* _mdns_server->hostname and _mdns_self_host
  instance,     \* TRUE once there is a default instance name
  delegated,    \* _mdns_host_list: the number of addresses of each, or NoAddresses
  hostServices, \* _mdns_server->services: the host name of each
  scheduled,    \* the delegated hosts that packets in the tx queue refer to
  hostActions,  \* action_queue
  sema,         \* action_sema, binary
  hostPc,       \* what each client waits for
  hostBlocks,   \* the names and addresses allocated and not freed
  hostCalls     \* the calls so far

hostVars == <<hostname, instance, delegated, hostServices, scheduled,
              hostActions, sema, hostPc, hostBlocks, hostCalls>>

NoAddresses == -1
HostIdle == [op |-> "idle", name |-> NoName]

HostsInit ==
  /\ hostname = NoName
  /\ instance = FALSE
  /\ delegated = [n \in Names |-> NoAddresses]
  /\ hostServices = <<>>
  /\ scheduled = {}
  /\ hostActions = <<>>
  /\ sema = 0
  /\ hostPc = [c \in HostClients |-> HostIdle]
  /\ hostBlocks = 0
  /\ hostCalls = 0

Delegated == {n \in Names : delegated[n] # NoAddresses}

\* _hostname_is_ours.
IsOurs(n) == n = hostname \/ n \in Delegated

-----------------------------------------------------------------------------
(* The API.                                                                *)

HostsHaveRoom == Len(hostActions) < HostQueueLen

HostAct(op, name, addrs) == [op |-> op, name |-> name, addrs |-> addrs]

Waits(op) == \E i \in DOMAIN hostActions : hostActions[i].op = op

\* An action is posted with a copy of the name and, for a delegated host, of
\* its addresses; only the name is freed when the queue is full.
PostAction(op, name, addrs) ==
  IF HostsHaveRoom
  THEN /\ hostActions' = Append(hostActions, HostAct(op, name, addrs))
       /\ hostBlocks' = hostBlocks + 1 + addrs
  ELSE hostActions' = hostActions /\ hostBlocks' = hostBlocks + addrs

HostCall(c) ==
  /\ hostPc[c] = HostIdle /\ hostCalls < MaxHostCalls
  /\ hostCalls' = hostCalls + 1
  /\ UNCHANGED <<hostname, instance, delegated, hostServices, scheduled, sema>>

WaitIfPosted(c, op, name) ==
  hostPc' = IF HostsHaveRoom THEN [hostPc EXCEPT ![c] = [op |-> op, name |-> name]]
            ELSE hostPc

HostnameSet(c, n) ==
  /\ c \in Setters
  /\ Separate => n \notin Delegated /\ ~Waits("DELEGATE_ADD")
  /\ HostCall(c)
  /\ PostAction("HOSTNAME_SET", n, 0)
  /\ WaitIfPosted(c, "set", n)

\* Mutant: the client does not wait.
ReturnsAtOnce(c) ==
  /\ hostPc[c].op = "set"
  /\ sema' = 0
  /\ hostPc' = [hostPc EXCEPT ![c] = HostIdle]
  /\ UNCHANGED <<hostname, instance, delegated, hostServices, scheduled,
                 hostActions, hostBlocks, hostCalls>>

\* The semaphore says that some host name has been set.
HostnameSetReturns(c) ==
  /\ hostPc[c].op = "set"
  /\ sema = 1
  /\ sema' = 0
  /\ hostPc' = [hostPc EXCEPT ![c] = HostIdle]
  /\ UNCHANGED <<hostname, instance, delegated, hostServices, scheduled,
                 hostActions, hostBlocks, hostCalls>>

DefaultInstanceSet(c) ==
  /\ hostname # NoName
  /\ HostCall(c)
  /\ PostAction("INSTANCE_SET", NoName, 0)
  /\ UNCHANGED hostPc

DelegateAdd(c, n) ==
  /\ Separate => ~Waits("HOSTNAME_SET")
  /\ HostCall(c)
  /\ \E k \in Addresses : PostAction("DELEGATE_ADD", n, k)
  /\ UNCHANGED hostPc

DelegateSetAddress(c, n) ==
  /\ HostCall(c)
  /\ \E k \in Addresses : PostAction("DELEGATE_SET", n, k)
  /\ UNCHANGED hostPc

DelegateRemove(c, n) ==
  /\ HostCall(c)
  /\ PostAction("DELEGATE_REMOVE", n, 0)
  /\ UNCHANGED hostPc

\* mdns_service_add for the host name read now, or for a delegated host; the
\* client waits (see MdnsServices).
HostServiceAdd(c, n) ==
  /\ hostname # NoName /\ IsOurs(n)
  /\ Len(hostServices) < MaxHosted
  /\ Settled => ~Waits("HOSTNAME_SET") /\ ~Waits("DELEGATE_REMOVE")
  /\ HostCall(c)
  /\ PostAction("SERVICE_ADD", n, 0)
  /\ WaitIfPosted(c, "add", n)

HostServiceAddReturns(c) ==
  /\ hostPc[c].op = "add"
  /\ ~Waits("SERVICE_ADD")
  /\ hostPc' = [hostPc EXCEPT ![c] = HostIdle]
  /\ UNCHANGED <<hostname, instance, delegated, hostServices, scheduled,
                 hostActions, sema, hostBlocks, hostCalls>>

HostRequests(c) ==
  \/ DefaultInstanceSet(c)
  \/ \E n \in Names :
       \/ HostnameSet(c, n)    \/ HostServiceAdd(c, n)
       \/ DelegateAdd(c, n)    \/ DelegateSetAddress(c, n)
       \/ DelegateRemove(c, n)

\* mdns_lookup_selfhosted_service and mdns_lookup_delegated_service: nothing
\* is found when the host of one service found has no addresses.
Hosted(selfhost) == {i \in DOMAIN hostServices : (hostServices[i] = hostname) = selfhost}

Lookup(selfhost) ==
  LET matching == Hosted(selfhost)
  IN  IF ~selfhost /\ \E i \in matching :
           hostServices[i] \notin Delegated \/ delegated[hostServices[i]] = 0
      THEN {} ELSE matching

-----------------------------------------------------------------------------
(* The service task.                                                       *)

One(exists) == IF exists THEN 1 ELSE 0

\* Mutant: the services keep the old name.
NotRemapped(old, new) == hostServices

\* _mdns_remap_self_service_hostname.
Remapped(old, new) ==
  [i \in DOMAIN hostServices |-> IF hostServices[i] = old THEN new ELSE hostServices[i]]

ExecuteHostnameSet(a) ==
  /\ a.op = "HOSTNAME_SET"
  /\ hostServices' = Remapped(hostname, a.name)
  /\ hostBlocks' = hostBlocks - One(hostname # NoName)
  /\ hostname' = a.name
  /\ sema' = 1
  /\ UNCHANGED <<instance, delegated, scheduled>>

ExecuteInstanceSet(a) ==
  /\ a.op = "INSTANCE_SET"
  /\ hostBlocks' = hostBlocks - One(instance)
  /\ instance' = TRUE
  /\ UNCHANGED <<hostname, delegated, hostServices, scheduled, sema>>

ExecuteServiceAdd(a) ==
  /\ a.op = "SERVICE_ADD"
  /\ hostServices' = <<a.name>> \o hostServices
  /\ UNCHANGED <<hostname, instance, delegated, scheduled, sema, hostBlocks>>

\* _mdns_delegate_hostname_add; what it does not take is freed.
ExecuteDelegateAdd(a) ==
  /\ a.op = "DELEGATE_ADD"
  /\ IF IsOurs(a.name)
     THEN hostBlocks' = hostBlocks - 1 - a.addrs /\ UNCHANGED delegated
     ELSE delegated' = [delegated EXCEPT ![a.name] = a.addrs] /\ UNCHANGED hostBlocks
  /\ UNCHANGED <<hostname, instance, hostServices, scheduled, sema>>

ExecuteDelegateSet(a) ==
  /\ a.op = "DELEGATE_SET"
  /\ IF a.name = hostname \/ a.name \notin Delegated
     THEN hostBlocks' = hostBlocks - 1 - a.addrs /\ UNCHANGED delegated
     ELSE /\ delegated' = [delegated EXCEPT ![a.name] = a.addrs]
          /\ hostBlocks' = hostBlocks - 1 - delegated[a.name]
  /\ UNCHANGED <<hostname, instance, hostServices, scheduled, sema>>

\* _mdns_delegate_hostname_remove: first the services of the host.
ExecuteDelegateRemove(a) ==
  LET left == Keep(hostServices, Names \ {a.name})
      gone == a.name \in Delegated
  IN  /\ a.op = "DELEGATE_REMOVE"
      /\ hostServices' = left
      /\ delegated' = [delegated EXCEPT ![a.name] = NoAddresses]
      /\ hostBlocks' = hostBlocks - 1 - (Len(hostServices) - Len(left))
                     - (IF gone THEN 1 + delegated[a.name] ELSE 0)
      /\ UNCHANGED <<hostname, instance, scheduled, sema>>

ExecuteHosts ==
  /\ hostActions # <<>>
  /\ hostActions' = Tail(hostActions)
  /\ LET a == Head(hostActions)
     IN  \/ ExecuteHostnameSet(a) \/ ExecuteInstanceSet(a) \/ ExecuteServiceAdd(a)
         \/ ExecuteDelegateAdd(a) \/ ExecuteDelegateSet(a)
         \/ ExecuteDelegateRemove(a)
  /\ UNCHANGED <<hostPc, hostCalls>>

\* A packet that disputes the host name while it is probed for: the name is
\* changed, with that of its services.
Mangle ==
  /\ Disputed
  /\ hostname # NoName
  /\ \E n \in Names \ {hostname} :
       hostname' = n /\ hostServices' = Remapped(hostname, n)
  /\ UNCHANGED <<instance, delegated, scheduled, hostActions, sema, hostPc,
                 hostBlocks, hostCalls>>

\* Answers and announcements refer to the hosts of the services they tell of.
Schedules ==
  /\ scheduled' = scheduled \cup (Range(hostServices) \cap Delegated)
  /\ UNCHANGED <<hostname, instance, delegated, hostServices, hostActions, sema,
                 hostPc, hostBlocks, hostCalls>>

Sent ==
  /\ scheduled' = {}
  /\ UNCHANGED <<hostname, instance, delegated, hostServices, hostActions, sema,
                 hostPc, hostBlocks, hostCalls>>

HostsNext ==
  \/ \E c \in HostClients :
       HostRequests(c) \/ HostnameSetReturns(c) \/ HostServiceAddReturns(c)
  \/ ExecuteHosts \/ Mangle \/ Schedules \/ Sent

HostsSpec == HostsInit /\ [][HostsNext]_hostVars

\* The service task runs, and a client that can take the semaphore does.
HostsFairSpec ==
  /\ HostsSpec
  /\ WF_hostVars(ExecuteHosts)
  /\ \A c \in HostClients : WF_hostVars(HostnameSetReturns(c))

-----------------------------------------------------------------------------
(* Properties.                                                             *)

HostNames == Names \cup {NoName}

HostActions ==
  [op : {"HOSTNAME_SET", "SERVICE_ADD", "DELEGATE_REMOVE"}, name : Names, addrs : {0}]
    \cup [op : {"DELEGATE_ADD", "DELEGATE_SET"}, name : Names, addrs : Addresses]
    \cup [op : {"INSTANCE_SET"}, name : {NoName}, addrs : {0}]

HostsTypeOK ==
  /\ hostname \in HostNames /\ instance \in BOOLEAN
  /\ delegated \in [Names -> Nat \cup {NoAddresses}]
  /\ hostServices \in Seq(Names)
  /\ scheduled \subseteq Names
  /\ hostActions \in Seq(HostActions) /\ Len(hostActions) <= HostQueueLen
  /\ sema \in 0..1
  /\ hostPc \in [HostClients -> [op : {"idle", "set", "add"}, name : HostNames]]
  /\ hostBlocks \in Int
  /\ hostCalls \in 0..MaxHostCalls

\* The host of every service is this one or delegated to it: a service follows
\* the host name when it changes, and goes with the delegated host.
ServiceHostIsOurs == \A i \in DOMAIN hostServices : IsOurs(hostServices[i])

\* The name of this host is not delegated as well.
OwnIsNotDelegated == hostname \notin Delegated

\* A client that returns from setting the host name finds it set.
SetReturns ==
  \A c \in HostClients :
    hostPc[c].op = "set" /\ hostPc'[c] = HostIdle => hostname = hostPc[c].name

ReturnMeansSet == [][SetReturns]_hostVars

\* Every call that sets the host name returns.
SettersReturn == \A c \in Setters : hostPc[c].op = "set" ~> hostPc[c] = HostIdle

\* The names and addresses that were allocated are in use or wait in an action.
Owned ==
  One(hostname # NoName) + One(instance) + Len(hostServices)
    + Total([n \in Names |-> IF n \in Delegated THEN 1 + delegated[n] ELSE 0])
    + Total([i \in DOMAIN hostActions |-> 1 + hostActions[i].addrs])

HostsLeakNothing == hostBlocks = Owned

\* No packet that waits to be sent refers to a delegated host that is freed.
ScheduledHostIsLive == scheduled \subseteq Delegated

\* The two lookups together find every service.
LookupFindsAll == Lookup(TRUE) \cup Lookup(FALSE) = DOMAIN hostServices

\* All of these: every service has a host, whose name is its own or delegated
\* but not both, and a lookup finds it.
ServicesHaveHosts ==
  HostsTypeOK /\ ServiceHostIsOurs /\ OwnIsNotDelegated /\ LookupFindsAll
=============================================================================
