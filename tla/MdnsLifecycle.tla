---------------------------- MODULE MdnsLifecycle ----------------------------
(***************************************************************************)
(* Starting and stopping the mDNS component (mdns.c): mdns_init and        *)
(* mdns_free in the task that owns the component, against the service      *)
(* task, the callback of the periodic timer and the network, which all use *)
(* the lists, the action queue and the mutex that mdns_free destroys.  An  *)
(* object is an address, used again after it is freed.  Searches do not    *)
(* end here, and of what an action does only the objects that it lists,    *)
(* allocates and frees are kept; memory always suffices.                   *)
(***************************************************************************)
EXTENDS Naturals, Sequences

CONSTANTS
  Services, Hosts, Searches, Packets, Received, \* the objects of each kind
  QueueLen, \* MDNS_ACTION_QUEUE_LEN
  Reserve,  \* slots of the action queue that are free when mdns_free is called
  Prompt,   \* TRUE: the timer task preempts the owner, on the same core
  Calm,     \* TRUE: no callback waits for the mutex when the timer is stopped
  Settled,  \* TRUE: mdns_free is called when what was added has been executed
  StartFails  \* TRUE: memory may be short while the component starts

ASSUME SizesAssumption ==
  /\ QueueLen \in Nat \ {0} /\ Reserve \in 0..QueueLen
ASSUME ModesAssumption ==
  {Prompt, Calm, Settled, StartFails} \subseteq BOOLEAN

VARIABLES
  owner,    \* where the owner is in mdns_init and mdns_free
  mutex,    \* _mdns_service_semaphore: "none", "free" or held by the "service"
            \* task or the "owner"
  task,     \* _mdns_service_task
  current,  \* the action the service task has received
  armed,    \* the timer is started
  callback, \* _mdns_timer_cb: "no", or which of its two halves comes next
  actions,  \* action_queue
  listed,   \* what services, _mdns_host_list, search_once and the tx queue hold
  queued,   \* the packets whose queued flag is set
  heap,     \* for each object: "free", "live", or "twice" if freed when free
  named     \* history: what an action of those mdns_free drained named only

vars == <<owner, mutex, task, current, armed, callback, actions, listed, queued,
          heap, named>>

Objects == Services \cup Hosts \cup Searches \cup Packets \cup Received

ASSUME KindsAssumption ==
  /\ "none" \notin Objects
  /\ Services \cap (Hosts \cup Searches \cup Packets \cup Received) = {}
  /\ Hosts \cap (Searches \cup Packets \cup Received) = {}
  /\ Searches \cap (Packets \cup Received) = {}
  /\ Packets \cap Received = {}

Act(op, arg) == [op |-> op, arg |-> arg]
NoAction == Act("NONE", "none")
SystemEvent == Act("SYSTEM_EVENT", "none")
ServicesClear == Act("SERVICES_CLEAR", "none")
TaskStop == Act("TASK_STOP", "none")

Init ==
  /\ owner = "down" /\ mutex = "none"
  /\ task = "none" /\ current = NoAction
  /\ armed = FALSE /\ callback = "no"
  /\ actions = <<>> /\ listed = {} /\ queued = {}
  /\ heap = [o \in Objects |-> "free"]
  /\ named = {}

Freed(h, os) ==
  [o \in Objects |-> IF o \notin os THEN h[o]
                     ELSE IF h[o] = "live" THEN "free" ELSE "twice"]

Alloc(h, os) == [o \in Objects |-> IF o \in os THEN "live" ELSE h[o]]

IsFree(o) == heap[o] = "free"

HasRoom == Len(actions) < QueueLen

Post(a) == HasRoom /\ Len(actions) + Reserve < QueueLen /\ actions' = Append(actions, a)

-----------------------------------------------------------------------------
(* The owner.                                                              *)

\* With Prompt the owner waits for a callback, unless that waits for the mutex.
OwnerRuns == Prompt => (callback = "no" \/ mutex # "free")

At(from, to) == owner = from /\ OwnerRuns /\ owner' = to

\* mdns_init up to the start of the task; packets are received from here on.
InitServer ==
  /\ At("down", "starting")
  /\ UNCHANGED <<mutex, task, current, armed, callback, actions, listed, queued, heap, named>>

\* _mdns_service_task_start, whose parts fail when memory is short.  A mutex that
\* an earlier start has left is used.
TakeMutex ==
  /\ \/ At("starting", "locked") /\ mutex' = "owner"
     \/ StartFails /\ mutex = "none" /\ At("starting", "failed") /\ UNCHANGED mutex
  /\ UNCHANGED <<task, current, armed, callback, actions, listed, queued, heap, named>>

\* If the timer does not start the mutex stays.
StartTimer ==
  /\ \/ At("locked", "timed") /\ armed' = TRUE /\ UNCHANGED mutex
     \/ StartFails /\ At("locked", "failed") /\ mutex' = "free" /\ UNCHANGED armed
  /\ UNCHANGED <<task, current, callback, actions, listed, queued, heap, named>>

CreateTask ==
  /\ \/ At("timed", "up") /\ task' = "idle" /\ UNCHANGED armed
     \/ StartFails /\ At("timed", "unlocked") /\ armed' = FALSE /\ UNCHANGED task
  /\ mutex' = "free"
  /\ UNCHANGED <<current, callback, actions, listed, queued, heap, named>>

StartDeletesMutex ==
  /\ At("unlocked", "failed")
  /\ mutex' = "none"
  /\ UNCHANGED <<task, current, armed, callback, actions, listed, queued, heap, named>>

\* mdns_init closes the pcbs and deletes the queue with what was received.
InitFails ==
  /\ At("failed", "down")
  /\ actions' = <<>>
  /\ UNCHANGED <<mutex, task, current, armed, callback, listed, queued, heap, named>>

\* Calls that allocate an object and post it; nothing waits for the host, and
\* for the service only two seconds.
Call(objects, op) ==
  /\ owner = "up" /\ OwnerRuns
  /\ \E o \in objects :
       /\ IsFree(o)
       /\ Post(Act(op, o))
       /\ heap' = Alloc(heap, {o})
  /\ UNCHANGED <<owner, mutex, task, current, armed, callback, listed, queued, named>>

ServiceAdd == Call(Services, "SERVICE_ADD")
DelegateHostnameAdd == Call(Hosts, "DELEGATE_HOSTNAME_ADD")
QueryAsyncNew == Call(Searches, "SEARCH_ADD")

Adds(a) == a.op \in {"SERVICE_ADD", "DELEGATE_HOSTNAME_ADD", "SEARCH_ADD"}

IsSettled == ~Adds(current) /\ \A i \in DOMAIN actions : ~Adds(actions[i])

\* mdns_free unregisters the event handlers and calls mdns_service_remove_all,
\* which ignores a full queue.
FreeBegins ==
  /\ Settled => IsSettled
  /\ At("up", "hosts")
  /\ actions' = IF listed \cap Services # {} /\ HasRoom
                THEN Append(actions, ServicesClear) ELSE actions
  /\ UNCHANGED <<mutex, task, current, armed, callback, listed, queued, heap, named>>

\* free_delegated_hostnames.
FreeHosts ==
  /\ At("hosts", "timer")
  /\ heap' = Freed(heap, listed \cap Hosts)
  /\ listed' = listed \ Hosts
  /\ UNCHANGED <<mutex, task, current, armed, callback, actions, queued, named>>

\* _mdns_stop_timer does not wait for a callback that has begun.
StopTimer ==
  /\ Calm => callback = "no"
  /\ At("timer", "task")
  /\ armed' = FALSE
  /\ UNCHANGED <<mutex, task, current, callback, actions, listed, queued, heap, named>>

\* Mutants: the task is told to stop but not waited for; it is waited for although
\* it could not be told.
StopTaskOnly ==
  /\ At("task", "destroy")
  /\ actions' = IF HasRoom THEN Append(actions, TaskStop) ELSE actions
  /\ UNCHANGED <<mutex, task, current, armed, callback, listed, queued, heap, named>>

StopTaskWaits ==
  /\ At("task", "wait")
  /\ actions' = IF HasRoom THEN Append(actions, TaskStop) ELSE actions
  /\ UNCHANGED <<mutex, task, current, armed, callback, listed, queued, heap, named>>

\* With the queue full the task is deleted where it stands, with the action it
\* has and the mutex it may hold.
StopTask ==
  /\ At("task", "wait")
  /\ \/ /\ HasRoom
        /\ actions' = Append(actions, TaskStop)
        /\ UNCHANGED <<task, current>>
     \/ /\ ~HasRoom
        /\ task' = "none"
        /\ current' = NoAction
        /\ UNCHANGED actions
  /\ UNCHANGED <<mutex, armed, callback, listed, queued, heap, named>>

TaskStopped ==
  /\ task = "none"
  /\ At("wait", "destroy")
  /\ UNCHANGED <<mutex, task, current, armed, callback, actions, listed, queued, heap, named>>

\* The mutex is deleted and the pcbs are closed.
DeleteMutex ==
  /\ At("destroy", "drain")
  /\ mutex' = "none"
  /\ UNCHANGED <<task, current, armed, callback, actions, listed, queued, heap, named>>

\* _mdns_free_action.
DataOf(a) == {a.arg} \cap Objects

\* Actions that name what a list holds.
Names(a) == a.op \in {"TX_HANDLE", "SEARCH_SEND"}

Carriers(o) == {i \in DOMAIN actions : o \in DataOf(actions[i])}

Drain ==
  /\ At("drain", "lists")
  /\ heap' = [o \in Objects |->
       IF Carriers(o) = {} THEN heap[o]
       ELSE IF heap[o] = "live" /\ \A i, j \in Carriers(o) : i = j THEN "free"
       ELSE "twice"]
  /\ named' = named \cup {o \in Objects : \E i \in Carriers(o) : Names(actions[i])}
  /\ actions' = <<>>
  /\ UNCHANGED <<mutex, task, current, armed, callback, listed, queued>>

\* Packets and searches are freed; services and hosts are not freed again.
FreeLists ==
  /\ At("lists", "down")
  /\ heap' = Freed(heap, listed \cap (Packets \cup Searches))
  /\ listed' = listed \ (Packets \cup Searches \cup Services)
  /\ queued' = {}
  /\ UNCHANGED <<mutex, task, current, armed, callback, actions, named>>

Owner ==
  \/ InitServer \/ TakeMutex \/ StartTimer \/ CreateTask
  \/ StartDeletesMutex \/ InitFails
  \/ ServiceAdd \/ DelegateHostnameAdd \/ QueryAsyncNew
  \/ FreeBegins \/ FreeHosts \/ StopTimer \/ StopTask \/ TaskStopped
  \/ DeleteMutex \/ Drain \/ FreeLists

-----------------------------------------------------------------------------
(* The network, while the pcbs are open, and the events.                   *)

Receive ==
  /\ owner \notin {"down", "failed", "drain", "lists"}
  /\ \E r \in Received :
       /\ IsFree(r)
       /\ Post(Act("RX_HANDLE", r))
       /\ heap' = Alloc(heap, {r})
  /\ UNCHANGED <<owner, mutex, task, current, armed, callback, listed, queued, named>>

HandleSystemEvent ==
  /\ owner \in {"starting", "locked", "timed", "unlocked", "failed", "up"}
  /\ Post(SystemEvent)
  /\ UNCHANGED <<owner, mutex, task, current, armed, callback, listed, queued, heap, named>>

-----------------------------------------------------------------------------
(* The timer.                                                              *)

Fire ==
  /\ armed /\ callback = "no"
  /\ callback' = "scheduler"
  /\ UNCHANGED <<owner, mutex, task, current, armed, actions, listed, queued, heap, named>>

\* Both halves take the mutex.
SchedulerRun ==
  /\ callback = "scheduler" /\ mutex = "free"
  /\ callback' = "searches"
  /\ \/ \E p \in (listed \cap Packets) \ queued :
          /\ Post(Act("TX_HANDLE", p))
          /\ queued' = queued \cup {p}
     \/ UNCHANGED <<actions, queued>>
  /\ UNCHANGED <<owner, mutex, task, current, armed, listed, heap, named>>

SearchRun ==
  /\ callback = "searches" /\ mutex = "free"
  /\ callback' = "no"
  /\ \/ \E s \in listed \cap Searches : Post(Act("SEARCH_SEND", s))
     \/ UNCHANGED actions
  /\ UNCHANGED <<owner, mutex, task, current, armed, listed, queued, heap, named>>

-----------------------------------------------------------------------------
(* The service task.                                                       *)

Take ==
  /\ task = "idle" /\ actions # <<>>
  /\ actions' = Tail(actions)
  /\ IF Head(actions) = TaskStop
     THEN task' = "none" /\ UNCHANGED current
     ELSE task' = "has" /\ current' = Head(actions)
  /\ UNCHANGED <<owner, mutex, armed, callback, listed, queued, heap, named>>

Lock ==
  /\ task = "has" /\ mutex = "free"
  /\ task' = "locked"
  /\ mutex' = "service"
  /\ UNCHANGED <<owner, current, armed, callback, actions, listed, queued, heap, named>>

\* Packets that wait to be sent are freed, whether an action names them or not:
\* those of a pcb that begins to probe or is disabled, those of what is removed.
\* Answers, probes and announcements are scheduled, in memory just freed perhaps.
Reschedules(h, l) ==
  \E cleared \in SUBSET (l \cap Packets) :
    LET left == Freed(h, cleared)
    IN  \E new \in SUBSET {p \in Packets : left[p] = "free"} :
          /\ heap' = Alloc(left, new)
          /\ listed' = (l \ cleared) \cup new
          /\ queued' = queued \ cleared

\* Mutants: the packet stays in the transmit queue; the packet is sent as the
\* action names it, be it queued or not.
SendKeepsListed(p) ==
  /\ heap' = Freed(heap, {p})
  /\ queued' = queued \ {p}
  /\ UNCHANGED listed

SendUnchecked(p) ==
  /\ heap' = Freed(heap, {p})
  /\ listed' = listed \ {p}
  /\ queued' = queued \ {p}

\* ACTION_TX_HANDLE skips a packet that is not queued or not the first.  A packet
\* sent is freed, scheduled again, or followed by an announcement.
Send(p) ==
  \/ /\ p \notin queued \/ listed \cap Packets # {p}
     /\ UNCHANGED <<heap, listed, queued>>
  \/ /\ p \in queued
     /\ queued' = queued \ {p}
     /\ \/ UNCHANGED <<heap, listed>>
        \/ /\ heap' = Freed(heap, {p})
           /\ listed' = listed \ {p}
        \/ \E a \in Packets \ {p} :
             /\ IsFree(a)
             /\ heap' = Alloc(Freed(heap, {p}), {a})
             /\ listed' = (listed \ {p}) \cup {a}

Execute ==
  /\ task = "locked"
  /\ task' = "idle" /\ mutex' = "free" /\ current' = NoAction
  /\ \/ /\ current.op = "SERVICE_ADD"
        /\ Reschedules(heap, listed \cup {current.arg})
     \/ /\ current.op \in {"DELEGATE_HOSTNAME_ADD", "SEARCH_ADD"}
        /\ listed' = listed \cup {current.arg}
        /\ UNCHANGED <<heap, queued>>
     \/ /\ current.op = "DELEGATE_HOSTNAME_ADD" \* the name is there already
        /\ heap' = Freed(heap, {current.arg})
        /\ UNCHANGED <<listed, queued>>
     \/ /\ current = ServicesClear
        /\ Reschedules(Freed(heap, listed \cap Services), listed \ Services)
     \/ /\ current.op = "RX_HANDLE"
        /\ Reschedules(Freed(heap, {current.arg}), listed)
     \/ current = SystemEvent /\ Reschedules(heap, listed)
     \/ current.op = "TX_HANDLE" /\ Send(current.arg)
     \/ current.op = "SEARCH_SEND" /\ UNCHANGED <<heap, listed, queued>>
  /\ UNCHANGED <<owner, armed, callback, actions, named>>

Next ==
  \/ Owner
  \/ Receive \/ HandleSystemEvent
  \/ Fire \/ SchedulerRun \/ SearchRun
  \/ Take \/ Lock \/ Execute

Spec == Init /\ [][Next]_vars

\* The owner goes on once it has called mdns_free, although callbacks keep
\* interrupting it: each is shorter than the period.  A task that waits for
\* the mutex gets it in the end.
Stopping == FreeHosts \/ StopTimer \/ StopTask \/ TaskStopped \/ DeleteMutex
            \/ Drain \/ FreeLists

FairSpec ==
  /\ Spec
  /\ SF_vars(Stopping)
  /\ WF_vars(Take) /\ SF_vars(Lock) /\ WF_vars(Execute)
  /\ SF_vars(SchedulerRun) /\ SF_vars(SearchRun)

-----------------------------------------------------------------------------
(* Properties.                                                             *)

TypeOK ==
  /\ owner \in {"down", "starting", "locked", "timed", "unlocked", "failed", "up",
                "hosts", "timer", "task", "wait", "destroy", "drain", "lists"}
  /\ mutex \in {"none", "free", "service", "owner"}
  /\ task \in {"none", "idle", "has", "locked"}
  /\ armed \in BOOLEAN /\ callback \in {"no", "scheduler", "searches"}
  /\ Len(actions) <= QueueLen
  /\ listed \subseteq Objects /\ queued \subseteq listed \cap Packets
  /\ heap \in [Objects -> {"free", "live", "twice"}]
  /\ named \subseteq Packets \cup Searches

\* No object is freed twice: what is in a list and what an action carries have
\* one owner each, also when the task is stopped with actions waiting.
FreedOnce == \A o \in Objects : heap[o] # "twice"

\* Whatever the queue holds and wherever the task and the callback stand when
\* mdns_free empties it, nothing is freed twice but what was in a list and was
\* named by an action that nobody had executed.
TwiceOnlyIfNamed == \A o \in Objects : heap[o] = "twice" => o \in named

\* After mdns_free nothing of the component is allocated, and nothing of it is
\* left in the list of delegated hosts for the next mdns_init.
NothingLeaks ==
  owner = "down" => (listed = {} /\ \A o \in Objects : heap[o] # "live")

\* mdns_free frees all there is, and each object once.
EachIsFreedOnce == TypeOK /\ FreedOnce /\ NothingLeaks

\* Nothing runs on what mdns_free, or an mdns_init that fails, has destroyed.
DestroyedIsUnused ==
  owner \in {"failed", "drain", "lists", "down"} => task = "none" /\ callback = "no"

\* mdns_free returns.
FreeReturns == owner = "hosts" ~> owner = "down"
=============================================================================
