------------------------- MODULE MdnsLifecycle_proofs ------------------------
(***************************************************************************)
(* For any queue and any number of objects: mdns_free, and an mdns_init    *)
(* that fails, destroy nothing that the service task or the timer callback *)
(* still uses, provided the timer task preempts the owner and two slots of *)
(* the action queue are free when mdns_free is called; whatever the modes, *)
(* only what an action named that was drained is freed twice; mdns_free    *)
(* frees every object, once, with those two slots, if no start fails, no   *)
(* callback is at work when it stops the timer, and all that was added has *)
(* been executed when it is called.                                        *)
(***************************************************************************)
EXTENDS MdnsLifecycle, TLAPS

Ops == {"SERVICE_ADD", "DELEGATE_HOSTNAME_ADD", "SEARCH_ADD", "SERVICES_CLEAR",
        "SYSTEM_EVENT", "TASK_STOP", "TX_HANDLE", "SEARCH_SEND", "RX_HANDLE"}

Action == [op : Ops, arg : Objects \cup {"none"}]

LEMMA ActionTypes ==
  /\ {SystemEvent, ServicesClear, TaskStop} \subseteq Action
  /\ \A op \in Ops, o \in Objects : Act(op, o) \in Action
BY DEF Act, SystemEvent, ServicesClear, TaskStop, Action, Ops

LEMMA EmptyQueue == <<>> \in Seq(Action) /\ Len(<<>>) = 0
OBVIOUS

\* One slot for the action that clears the services, one for the stop.
Assumed == Prompt /\ Reserve >= 2

Phases == {"down", "starting", "locked", "timed", "unlocked", "failed", "up",
           "hosts", "timer", "task", "wait", "destroy", "drain", "lists"}

\* The owner is in mdns_init, before it has the mutex and after.
Starting == {"starting", "locked", "timed", "unlocked", "failed"}

ThreadsInv ==
  /\ owner \in Phases
  /\ mutex \in {"none", "free", "service", "owner"}
  /\ task \in {"none", "idle", "has", "locked"}
  /\ armed \in BOOLEAN
  /\ callback \in {"no", "scheduler", "searches"}
  /\ task = "locked" <=> mutex = "service"

\* What exists in each phase.  A start that fails may leave its mutex.
PhaseInv ==
  /\ owner \in {"down", "starting", "failed", "drain", "lists"} =>
       mutex \in {"none", "free"} /\ ~armed /\ callback = "no"
  /\ owner \in Starting \cup {"down", "destroy", "drain", "lists"} => task = "none"
  /\ owner = "locked" => ~armed /\ callback = "no"
  /\ owner \in {"locked", "timed"} <=> mutex = "owner"
  /\ owner = "unlocked" => mutex = "free" /\ ~armed
  /\ owner \in {"up", "hosts", "timer", "task", "wait", "destroy"} => mutex # "none"
  /\ owner \in {"task", "wait", "destroy"} => ~armed

\* Until the task is told to stop there is a slot to tell it.
RoomInv ==
  /\ actions \in Seq(Action)
  /\ owner \in Starting \cup {"down", "up"} => Len(actions) + 2 <= QueueLen
  /\ owner \in {"hosts", "timer", "task"} => Len(actions) + 1 <= QueueLen

IInv == Assumed /\ ThreadsInv /\ PhaseInv /\ RoomInv /\ (owner = "lists" => actions = <<>>)

LEMMA Sizes == Assumed => QueueLen \in Nat /\ Reserve \in Nat /\ QueueLen >= 2
BY SizesAssumption DEF Assumed

LEMMA IInit == Assumed /\ Init => IInv
<1>1. Init => ThreadsInv /\ PhaseInv
  BY DEF Init, ThreadsInv, PhaseInv, Phases, Starting
<1>2. Assumed /\ Init => RoomInv
  BY Sizes, EmptyQueue DEF Init, RoomInv, Starting
<1> QED BY <1>1, <1>2 DEF IInv, Init

\* A posting other than those of mdns_free leaves two slots.
LEMMA PostKeepsRoom ==
  ASSUME IInv, NEW a \in Action, Post(a)
  PROVE  /\ actions' \in Seq(Action)
         /\ Len(actions') + 2 <= QueueLen
<1>1. actions' = Append(actions, a) /\ Len(actions) + Reserve < QueueLen
  BY DEF Post
<1>2. Len(actions') = Len(actions) + 1 /\ Len(actions) \in Nat
  BY <1>1 DEF IInv, RoomInv
<1>3. Len(actions) + 2 < QueueLen
  BY <1>1, <1>2, Sizes DEF IInv, Assumed
<1>4. actions' \in Seq(Action)
  BY <1>1 DEF IInv, RoomInv
<1> QED BY <1>2, <1>3, <1>4, Sizes DEF IInv

\* Actions that post or leave the queue, and change nothing else of what the
\* invariant is about.
LEMMA PostStep ==
  ASSUME IInv, NEW a \in Action,
         Post(a) \/ UNCHANGED actions, owner # "lists",
         ThreadsInv', PhaseInv', UNCHANGED owner
  PROVE  IInv'
<1>1. CASE Post(a)
  <2>1. RoomInv'
    BY <1>1, PostKeepsRoom, Sizes DEF RoomInv, IInv
  <2> QED BY <2>1 DEF IInv, Assumed
<1>2. CASE UNCHANGED actions
  <2>1. RoomInv'
    BY <1>2 DEF IInv, RoomInv
  <2> QED BY <2>1 DEF IInv, Assumed
<1> QED BY <1>1, <1>2

LEMMA OwnerStep == IInv /\ Owner => IInv'
<1> SUFFICES ASSUME IInv, Owner PROVE IInv'
  OBVIOUS
<1> USE DEF IInv, Assumed, ThreadsInv, PhaseInv, Phases, Starting
<1>1. CASE InitServer
  BY <1>1 DEF InitServer, At, RoomInv
<1>2. CASE TakeMutex
  BY <1>2 DEF TakeMutex, At, RoomInv
<1>3. ASSUME NEW objects, NEW op \in Ops, objects \subseteq Objects, Call(objects, op)
      PROVE  IInv'
  <2>1. PICK o \in objects : Post(Act(op, o))
    BY <1>3 DEF Call
  <2>2. Act(op, o) \in Action
    BY <1>3, ActionTypes
  <2>3. UNCHANGED <<owner, mutex, task, armed, callback>> /\ owner = "up"
    BY <1>3 DEF Call
  <2>4. ThreadsInv' /\ PhaseInv'
    BY <2>3
  <2> QED BY <2>1, <2>2, <2>3, <2>4, PostStep
<1>4. CASE ServiceAdd \/ DelegateHostnameAdd \/ QueryAsyncNew
  <2>1. {"SERVICE_ADD", "DELEGATE_HOSTNAME_ADD", "SEARCH_ADD"} \subseteq Ops
    BY DEF Ops
  <2>2. Services \subseteq Objects /\ Hosts \subseteq Objects /\ Searches \subseteq Objects
    BY DEF Objects
  <2> QED BY <1>3, <1>4, <2>1, <2>2 DEF ServiceAdd, DelegateHostnameAdd, QueryAsyncNew
<1>5. CASE FreeBegins
  <2>1. actions' = actions \/ actions' = Append(actions, ServicesClear)
    BY <1>5 DEF FreeBegins
  <2>2. ServicesClear \in Action
    BY ActionTypes
  <2>3. RoomInv'
    BY <1>5, <2>1, <2>2, Sizes DEF FreeBegins, At, RoomInv
  <2> QED BY <1>5, <2>3 DEF FreeBegins, At
<1>6. CASE FreeHosts
  BY <1>6 DEF FreeHosts, At, RoomInv
<1>7. CASE StopTimer
  BY <1>7 DEF StopTimer, At, RoomInv
<1>8. CASE StopTask
  <2>1. HasRoom
    BY <1>8, Sizes DEF StopTask, At, RoomInv, HasRoom
  <2>2. actions' = Append(actions, TaskStop) /\ task' = task
    BY <1>8, <2>1 DEF StopTask
  <2>3. TaskStop \in Action
    BY ActionTypes
  <2>4. RoomInv'
    BY <1>8, <2>2, <2>3 DEF StopTask, At, RoomInv
  <2> QED BY <1>8, <2>2, <2>4 DEF StopTask, At
<1>9. CASE TaskStopped
  BY <1>9 DEF TaskStopped, At, RoomInv
<1>10. CASE DeleteMutex
  <2>1. callback = "no"
    BY <1>10 DEF DeleteMutex, At, OwnerRuns
  <2> QED BY <1>10, <2>1 DEF DeleteMutex, At, RoomInv
<1>11. CASE Drain
  BY <1>11, Sizes, EmptyQueue DEF Drain, At, RoomInv
<1>12. CASE FreeLists
  BY <1>12, Sizes DEF FreeLists, At, RoomInv
<1>13. CASE CreateTask
  BY <1>13 DEF CreateTask, At, RoomInv
<1>14. CASE StartDeletesMutex
  <2>1. callback = "no"
    BY <1>14 DEF StartDeletesMutex, At, OwnerRuns
  <2> QED BY <1>14, <2>1 DEF StartDeletesMutex, At, RoomInv
<1>15. CASE InitFails
  BY <1>15, Sizes, EmptyQueue DEF InitFails, At, RoomInv
<1>16. CASE StartTimer
  <2>1. owner = "locked" /\ UNCHANGED <<task, callback, actions>>
    BY <1>16 DEF StartTimer, At
  <2>2. \/ owner' = "timed" /\ armed' = TRUE /\ mutex' = "owner"
        \/ owner' = "failed" /\ armed' = FALSE /\ mutex' = "free"
    BY <1>16 DEF StartTimer, At
  <2>3. RoomInv'
    BY <2>1, <2>2 DEF RoomInv
  <2> QED BY <2>1, <2>2, <2>3
<1> QED
  BY <1>1, <1>2, <1>4, <1>5, <1>6, <1>7, <1>8, <1>9, <1>10, <1>11, <1>12, <1>13,
     <1>14, <1>15, <1>16 DEF Owner

LEMMA EnvironmentStep == IInv /\ (Receive \/ HandleSystemEvent) => IInv'
<1> SUFFICES ASSUME IInv, Receive \/ HandleSystemEvent PROVE IInv'
  OBVIOUS
<1>1. UNCHANGED <<owner, mutex, task, armed, callback>> /\ owner # "lists"
  BY DEF Receive, HandleSystemEvent
<1>2. ThreadsInv' /\ PhaseInv'
  BY <1>1 DEF IInv, ThreadsInv, PhaseInv
<1>3. \E a \in Action : Post(a)
  <2>1. "RX_HANDLE" \in Ops /\ Received \subseteq Objects
    BY DEF Ops, Objects
  <2> QED BY <2>1, ActionTypes DEF Receive, HandleSystemEvent
<1> QED BY <1>1, <1>2, <1>3, PostStep

LEMMA TimerStep == IInv /\ (Fire \/ SchedulerRun \/ SearchRun) => IInv'
<1> SUFFICES ASSUME IInv, Fire \/ SchedulerRun \/ SearchRun PROVE IInv'
  OBVIOUS
<1>1. UNCHANGED <<owner, mutex, task, armed>> /\ owner # "lists"
  BY DEF Fire, SchedulerRun, SearchRun, IInv, PhaseInv
<1>2. ThreadsInv' /\ PhaseInv'
  BY <1>1 DEF Fire, SchedulerRun, SearchRun, IInv, ThreadsInv, PhaseInv, Phases
<1>3. SystemEvent \in Action
  BY ActionTypes
<1>4. \E a \in Action : Post(a) \/ UNCHANGED actions
  <2>1. /\ {"TX_HANDLE", "SEARCH_SEND"} \subseteq Ops
        /\ Packets \subseteq Objects /\ Searches \subseteq Objects
    BY DEF Ops, Objects
  <2> QED BY <1>3, <2>1, ActionTypes DEF Fire, SchedulerRun, SearchRun
<1> QED BY <1>1, <1>2, <1>4, PostStep

LEMMA ServiceStep == IInv /\ (Take \/ Lock \/ Execute) => IInv'
<1> SUFFICES ASSUME IInv, Take \/ Lock \/ Execute PROVE IInv'
  OBVIOUS
<1> USE DEF IInv, Assumed, ThreadsInv, PhaseInv, Phases, Starting
<1>1. CASE Take
  <2>1. actions' = Tail(actions) /\ actions # <<>> /\ task' \in {"none", "has"} /\ task = "idle"
    BY <1>1 DEF Take
  <2>2. UNCHANGED <<owner, mutex, armed, callback>>
    BY <1>1 DEF Take
  <2>3. /\ actions' \in Seq(Action)
        /\ Len(actions') + 1 = Len(actions) /\ Len(actions') \in Nat
    BY <2>1 DEF RoomInv
  <2>4. RoomInv'
    BY <2>2, <2>3, Sizes DEF RoomInv
  <2> QED BY <2>1, <2>2, <2>4
<1>2. CASE Lock
  BY <1>2 DEF Lock, RoomInv
<1>3. CASE Execute
  BY <1>3 DEF Execute, RoomInv
<1> QED BY <1>1, <1>2, <1>3

LEMMA IStep == IInv /\ [Next]_vars => IInv'
<1>1. IInv /\ UNCHANGED vars => IInv'
  BY DEF vars, IInv, Assumed, ThreadsInv, PhaseInv, RoomInv
<1> QED BY <1>1, OwnerStep, EnvironmentStep, TimerStep, ServiceStep DEF Next

\* What mdns_free destroys is not used any more, by the task or the callback.
THEOREM StoppedBeforeDestroyed == Assumed /\ Spec => []DestroyedIsUnused
<1>1. IInv => DestroyedIsUnused
  BY DEF IInv, PhaseInv, Starting, DestroyedIsUnused
<1> QED BY <1>1, IInit, IStep, PTL DEF Spec
-----------------------------------------------------------------------------
(* Who owns an object: a list, an action that waits, or the one the task   *)
(* has.  The owner of what an action gives is the action until it is done. *)

Gives(a) ==
  a.op \in {"SERVICE_ADD", "DELEGATE_HOSTNAME_ADD", "SEARCH_ADD", "RX_HANDLE"}

\* What the actions of each kind carry.
Typed(a) ==
  /\ a.op = "SERVICE_ADD" => a.arg \in Services
  /\ a.op = "DELEGATE_HOSTNAME_ADD" => a.arg \in Hosts
  /\ a.op = "SEARCH_ADD" => a.arg \in Searches
  /\ a.op = "RX_HANDLE" => a.arg \in Received
  /\ a.op = "TX_HANDLE" => a.arg \in Packets
  /\ a.op \in {"SYSTEM_EVENT", "SERVICES_CLEAR", "TASK_STOP"} => a.arg = "none"

TypedAction == {a \in Action : Typed(a)}

Waits(o, q) == \E i \in DOMAIN q : Gives(q[i]) /\ q[i].arg = o

Has(o, c) == Gives(c) /\ c.arg = o

\* Of a heap, the lists, the queue and the action at hand, but for what was named:
\* what has an owner is allocated and has no other owner.
Owned(h, l, q, c, n) ==
  /\ h \in [Objects -> {"free", "live", "twice"}]
  /\ l \subseteq Objects \ Received
  /\ q \in Seq(TypedAction)
  /\ c \in TypedAction \cup {NoAction}
  /\ \A o \in Objects \ n :
       /\ h[o] # "twice"
       /\ o \in l \/ Waits(o, q) \/ Has(o, c) => h[o] = "live"
       /\ ~(o \in l /\ Waits(o, q))
       /\ ~(o \in l /\ Has(o, c))
       /\ ~(Waits(o, q) /\ Has(o, c))
  /\ \A i, j \in DOMAIN q :
       Gives(q[i]) /\ Gives(q[j]) /\ q[i].arg = q[j].arg /\ q[i].arg \notin n => i = j

\* What is allocated has an owner.
NoneLost(h, l, q, c) ==
  \A o \in Objects : h[o] = "live" => (o \in l \/ Waits(o, q) \/ Has(o, c))

\* Where there is no task.
NoTask == Starting \cup {"down", "destroy", "drain", "lists"}

OwnInv ==
  /\ Owned(heap, listed, actions, current, named)
  /\ queued \subseteq listed \cap Packets
  /\ task \in {"none", "idle"} => current = NoAction
  /\ task \in {"has", "locked"} => current \in TypedAction
  /\ owner \in NoTask => task = "none"

-----------------------------------------------------------------------------
(* A queue that grows by one action, or loses its first.                   *)

LEMMA Posted ==
  ASSUME NEW S, NEW q \in Seq(S), NEW a \in S
  PROVE  LET r == Append(q, a)
         IN  /\ r \in Seq(S) /\ Len(q) \in Nat /\ Len(q) + 1 \notin DOMAIN q
             /\ \A i \in DOMAIN q : i \in DOMAIN r /\ r[i] = q[i] /\ i < Len(q) + 1
             /\ r[Len(q) + 1] = a /\ Len(q) + 1 \in DOMAIN r
             /\ \A i \in DOMAIN r : i \in DOMAIN q \/ i = Len(q) + 1
OBVIOUS

LEMMA Taken ==
  ASSUME NEW S, NEW q \in Seq(S), q # <<>>
  PROVE  LET r == Tail(q)
         IN  /\ Head(q) \in S /\ 1 \in DOMAIN q /\ Head(q) = q[1]
             /\ r \in Seq(S)
             /\ \A i \in DOMAIN r : i + 1 \in DOMAIN q /\ i + 1 > 1 /\ r[i] = q[i + 1] /\ i \in Nat
             /\ \A i \in DOMAIN q : i = 1 \/ (i - 1 \in DOMAIN r /\ r[i - 1] = q[i])
OBVIOUS

-----------------------------------------------------------------------------
(* A heap of which something is freed or allocated.                        *)

Heaps == [Objects -> {"free", "live", "twice"}]

LEMMA FreedWhere ==
  ASSUME NEW h \in Heaps, NEW x
  PROVE  /\ Freed(h, x) \in Heaps
         /\ \A o \in Objects : o \notin x => Freed(h, x)[o] = h[o]
         /\ \A o \in Objects : o \in x /\ h[o] = "live" => Freed(h, x)[o] = "free"
         /\ \A o \in Objects : Freed(h, x)[o] = "live" => h[o] = "live" /\ o \notin x
BY DEF Freed, Heaps

LEMMA AllocWhere ==
  ASSUME NEW h \in Heaps, NEW x
  PROVE  /\ Alloc(h, x) \in Heaps
         /\ \A o \in Objects : Alloc(h, x)[o] = IF o \in x THEN "live" ELSE h[o]
BY DEF Alloc, Heaps

-----------------------------------------------------------------------------
(* The steps of the program on the owners: with none lost, none is lost.   *)

\* What an action gives is an object.
LEMMA GivenIsObject ==
  ASSUME NEW a \in TypedAction, Gives(a)
  PROVE  a.arg \in Objects
BY DEF TypedAction, Typed, Gives, Objects

LEMMA NothingHeld == \A o : ~Has(o, NoAction)
BY DEF Has, Gives, NoAction, Act

\* An action that gives nothing joins the queue.
LEMMA OwnedPost ==
  ASSUME NEW h, NEW l, NEW q, NEW c, NEW n, Owned(h, l, q, c, n),
         NEW a \in TypedAction, ~Gives(a)
  PROVE  /\ Owned(h, l, Append(q, a), c, n)
         /\ NoneLost(h, l, q, c) => NoneLost(h, l, Append(q, a), c)
<1>1. q \in Seq(TypedAction)
  BY DEF Owned
<1>2. \A o : Waits(o, Append(q, a)) <=> Waits(o, q)
  BY <1>1, Posted DEF Waits
<1>3. \A i, j \in DOMAIN Append(q, a) :
        /\ Gives(Append(q, a)[i]) /\ Gives(Append(q, a)[j])
        /\ Append(q, a)[i].arg = Append(q, a)[j].arg
        /\ Append(q, a)[i].arg \notin n
        => i = j
  BY <1>1, Posted DEF Owned
<1>4. Append(q, a) \in Seq(TypedAction)
  BY <1>1
<1>5. NoneLost(h, l, q, c) => NoneLost(h, l, Append(q, a), c)
  BY <1>2 DEF NoneLost
<1> QED BY <1>2, <1>3, <1>4, <1>5 DEF Owned

\* An action that gives a new object joins the queue.
LEMMA OwnedGive ==
  ASSUME NEW h, NEW l, NEW q, NEW c, NEW n, Owned(h, l, q, c, n),
         NEW a \in TypedAction, Gives(a), h[a.arg] = "free"
  PROVE  /\ Owned(Alloc(h, {a.arg}), l, Append(q, a), c, n)
         /\ NoneLost(h, l, q, c) => NoneLost(Alloc(h, {a.arg}), l, Append(q, a), c)
<1>1. q \in Seq(TypedAction) /\ h \in Heaps
  BY DEF Owned, Heaps
<1>2. a.arg \in Objects
  BY GivenIsObject
<1>3. a.arg \notin n => ~(a.arg \in l) /\ ~Waits(a.arg, q) /\ ~Has(a.arg, c)
  BY <1>2 DEF Owned
<1>4. \A o : Waits(o, Append(q, a)) <=> (Waits(o, q) \/ o = a.arg)
  BY <1>1, Posted DEF Waits
<1>5. \A i, j \in DOMAIN Append(q, a) :
        /\ Gives(Append(q, a)[i]) /\ Gives(Append(q, a)[j])
        /\ Append(q, a)[i].arg = Append(q, a)[j].arg
        /\ Append(q, a)[i].arg \notin n
        => i = j
  BY <1>1, <1>3, Posted DEF Owned, Waits
<1>6. Append(q, a) \in Seq(TypedAction)
  BY <1>1
<1>7. /\ Alloc(h, {a.arg}) \in Heaps
      /\ \A x \in Objects : Alloc(h, {a.arg})[x] = IF x = a.arg THEN "live" ELSE h[x]
  BY <1>1, AllocWhere
<1>8. NoneLost(h, l, q, c) => NoneLost(Alloc(h, {a.arg}), l, Append(q, a), c)
  BY <1>4, <1>7 DEF NoneLost
<1> HIDE DEF Gives
<1> QED BY <1>2, <1>3, <1>4, <1>5, <1>6, <1>7, <1>8 DEF Owned, Heaps

\* The task takes an action; with the one that stops it, it ends.
LEMMA OwnedTake ==
  ASSUME NEW h, NEW l, NEW q, NEW n, Owned(h, l, q, NoAction, n), q # <<>>
  PROVE  /\ Owned(h, l, Tail(q), Head(q), n)
         /\ ~Gives(Head(q)) => Owned(h, l, Tail(q), NoAction, n)
         /\ NoneLost(h, l, q, NoAction) =>
              /\ NoneLost(h, l, Tail(q), Head(q))
              /\ ~Gives(Head(q)) => NoneLost(h, l, Tail(q), NoAction)
<1>1. q \in Seq(TypedAction) /\ ~Gives(NoAction)
  BY DEF Owned, Gives, NoAction, Act
<1>2. \A o : Waits(o, q) <=> (Waits(o, Tail(q)) \/ Has(o, Head(q)))
  <2>1. \A o : Waits(o, Tail(q)) => Waits(o, q)
    BY <1>1, Taken DEF Waits
  <2>2. \A o : Has(o, Head(q)) => Waits(o, q)
    BY <1>1, Taken DEF Waits, Has
  <2>3. ASSUME NEW o, Waits(o, q), ~Has(o, Head(q)) PROVE Waits(o, Tail(q))
    <3>1. PICK i \in DOMAIN q : Gives(q[i]) /\ q[i].arg = o
      BY <2>3 DEF Waits
    <3>2. i # 1
      BY <1>1, <2>3, <3>1, Taken DEF Has
    <3>3. i - 1 \in DOMAIN Tail(q) /\ Tail(q)[i - 1] = q[i]
      BY <1>1, <3>2, Taken
    <3> QED BY <3>1, <3>3 DEF Waits
  <2> QED BY <2>1, <2>2, <2>3
<1>3. \A o \in Objects \ n : ~(Waits(o, Tail(q)) /\ Has(o, Head(q)))
  <2> SUFFICES ASSUME NEW o \in Objects \ n, Waits(o, Tail(q)), Has(o, Head(q))
               PROVE  FALSE
    OBVIOUS
  <2>1. PICK i \in DOMAIN Tail(q) : Gives(Tail(q)[i]) /\ Tail(q)[i].arg = o
    BY DEF Waits
  <2>2. Gives(q[i + 1]) /\ q[i + 1].arg = o /\ i + 1 \in DOMAIN q /\ i + 1 > 1
    BY <1>1, <2>1, Taken
  <2>3. Gives(q[1]) /\ q[1].arg = o /\ 1 \in DOMAIN q
    BY <1>1, Taken DEF Has
  <2> QED BY <2>2, <2>3 DEF Owned
<1>4. \A i, j \in DOMAIN Tail(q) :
        /\ Gives(Tail(q)[i]) /\ Gives(Tail(q)[j]) /\ Tail(q)[i].arg = Tail(q)[j].arg
        /\ Tail(q)[i].arg \notin n
        => i = j
  <2> SUFFICES ASSUME NEW i \in DOMAIN Tail(q), NEW j \in DOMAIN Tail(q),
                      Gives(Tail(q)[i]), Gives(Tail(q)[j]),
                      Tail(q)[i].arg = Tail(q)[j].arg, Tail(q)[i].arg \notin n
               PROVE  i = j
    OBVIOUS
  <2>1. /\ i + 1 \in DOMAIN q /\ Tail(q)[i] = q[i + 1] /\ i \in Nat
        /\ j + 1 \in DOMAIN q /\ Tail(q)[j] = q[j + 1] /\ j \in Nat
    BY <1>1, Taken
  <2>2. i + 1 = j + 1
    BY <2>1 DEF Owned
  <2> QED BY <2>1, <2>2
<1>5. Tail(q) \in Seq(TypedAction) /\ Head(q) \in TypedAction
  BY <1>1, Taken
<1>6. \A o : ~Has(o, NoAction)
  BY <1>1 DEF Has
<1>7. ~Gives(Head(q)) => \A o : ~Has(o, Head(q))
  BY DEF Has
<1>8. NoneLost(h, l, q, NoAction) =>
        /\ NoneLost(h, l, Tail(q), Head(q))
        /\ ~Gives(Head(q)) => NoneLost(h, l, Tail(q), NoAction)
  BY <1>2, <1>6, <1>7 DEF NoneLost
<1> QED BY <1>2, <1>3, <1>4, <1>5, <1>6, <1>7, <1>8 DEF Owned

\* The task is done with an action, or deleted with it.
LEMMA OwnedDone ==
  ASSUME NEW h, NEW l, NEW q, NEW c, NEW n, Owned(h, l, q, c, n)
  PROVE  /\ Owned(h, l, q, NoAction, n)
         /\ ~Gives(c) /\ NoneLost(h, l, q, c) => NoneLost(h, l, q, NoAction)
<1>1. ~Gives(c) => \A o : ~Has(o, c)
  BY DEF Has
<1> QED BY <1>1, NothingHeld DEF Owned, NoneLost

\* What an action gives enters a list.
LEMMA OwnedListed ==
  ASSUME NEW h, NEW l, NEW q, NEW c, NEW n, Owned(h, l, q, c, n),
         Gives(c), c.op # "RX_HANDLE"
  PROVE  /\ Owned(h, l \cup {c.arg}, q, NoAction, n)
         /\ NoneLost(h, l, q, c) => NoneLost(h, l \cup {c.arg}, q, NoAction)
<1>1. c \in TypedAction
  BY DEF Owned, Gives, NoAction, Act
<1>2. c.arg \in Objects \ Received
  BY <1>1, GivenIsObject, KindsAssumption DEF TypedAction, Typed, Gives
<1>3. \A o : Has(o, c) <=> o = c.arg
  BY DEF Has
<1> QED BY <1>2, <1>3, NothingHeld DEF Owned, NoneLost

\* What an action gives is freed when it has been handled.
LEMMA OwnedHandled ==
  ASSUME NEW h, NEW l, NEW q, NEW c, NEW n, Owned(h, l, q, c, n), Gives(c)
  PROVE  /\ Owned(Freed(h, {c.arg}), l, q, NoAction, n)
         /\ NoneLost(h, l, q, c) => NoneLost(Freed(h, {c.arg}), l, q, NoAction)
<1>1. c \in TypedAction
  BY DEF Owned, Gives, NoAction, Act
<1>2. c.arg \in Objects
  BY <1>1, GivenIsObject
<1>3. \A o : Has(o, c) <=> o = c.arg
  BY DEF Has
<1>4. h \in Heaps /\ (c.arg \notin n => h[c.arg] = "live")
  BY <1>2, <1>3 DEF Owned, Heaps
<1>5. /\ Freed(h, {c.arg}) \in Heaps
      /\ \A o \in Objects : o # c.arg => Freed(h, {c.arg})[o] = h[o]
      /\ c.arg \notin n => Freed(h, {c.arg})[c.arg] = "free"
      /\ \A o \in Objects : Freed(h, {c.arg})[o] = "live" => h[o] = "live" /\ o # c.arg
  <2> DEFINE x == {c.arg}
  <2>1. \A o : o \in x <=> o = c.arg
    OBVIOUS
  <2> HIDE DEF x
  <2>2. /\ Freed(h, x) \in Heaps
        /\ \A o \in Objects : o \notin x => Freed(h, x)[o] = h[o]
        /\ \A o \in Objects : o \in x /\ h[o] = "live" => Freed(h, x)[o] = "free"
        /\ \A o \in Objects : Freed(h, x)[o] = "live" => h[o] = "live" /\ o \notin x
    BY <1>4, FreedWhere
  <2> QED BY <1>2, <1>4, <2>1, <2>2 DEF x
<1> DEFINE f == Freed(h, {c.arg})
<1>6. c.arg \notin n => ~(c.arg \in l) /\ ~Waits(c.arg, q)
  BY <1>2, <1>3 DEF Owned
<1>7. ASSUME NEW o \in Objects \ n
      PROVE  /\ f[o] # "twice"
             /\ o \in l \/ Waits(o, q) \/ Has(o, NoAction) => f[o] = "live"
             /\ ~(o \in l /\ Waits(o, q))
  <2>1. CASE o = c.arg
    BY <1>5, <1>6, <2>1, NothingHeld
  <2>2. CASE o # c.arg
    BY <1>5, <2>2, NothingHeld DEF Owned
  <2> QED BY <2>1, <2>2
<1>8. NoneLost(h, l, q, c) => NoneLost(f, l, q, NoAction)
  BY <1>3, <1>5 DEF NoneLost
<1> HIDE DEF f
<1> QED BY <1>5, <1>7, <1>8, NothingHeld DEF Owned, Heaps, f

\* What leaves a list is freed, or some of it.
LEMMA OwnedFree ==
  ASSUME NEW h, NEW l, NEW q, NEW c, NEW n, Owned(h, l, q, c, n),
         NEW x \in SUBSET l, NEW y \in SUBSET l, x \subseteq y
  PROVE  /\ Owned(Freed(h, x), l \ y, q, c, n)
         /\ x = y /\ NoneLost(h, l, q, c) => NoneLost(Freed(h, x), l \ y, q, c)
<1>1. x \subseteq Objects /\ h \in Heaps /\ \A o \in x \ n : h[o] = "live"
  BY DEF Owned, Heaps
<1>2. /\ Freed(h, x) \in Heaps
      /\ \A o \in Objects : o \notin x => Freed(h, x)[o] = h[o]
      /\ \A o \in Objects : o \in x \ n => Freed(h, x)[o] = "free"
      /\ \A o \in Objects : Freed(h, x)[o] = "live" => h[o] = "live" /\ o \notin x
  BY <1>1, FreedWhere
<1> QED BY <1>1, <1>2 DEF Owned, NoneLost, Heaps

\* Packets are made and listed.
LEMMA OwnedSchedule ==
  ASSUME NEW h, NEW l, NEW q, NEW c, NEW n, Owned(h, l, q, c, n),
         NEW x \in SUBSET {p \in Packets : h[p] = "free"}
  PROVE  /\ Owned(Alloc(h, x), l \cup x, q, c, n)
         /\ NoneLost(h, l, q, c) => NoneLost(Alloc(h, x), l \cup x, q, c)
<1>1. x \subseteq Objects \ Received /\ h \in Heaps
  BY KindsAssumption DEF Owned, Objects, Heaps
<1>2. /\ Alloc(h, x) \in Heaps
      /\ \A o \in Objects : Alloc(h, x)[o] = IF o \in x THEN "live" ELSE h[o]
  BY <1>1, AllocWhere
<1>3. \A p \in x : p \notin n => ~(p \in l) /\ ~Waits(p, q) /\ ~Has(p, c)
  BY <1>1 DEF Owned
<1> QED BY <1>1, <1>2, <1>3 DEF Owned, NoneLost, Heaps

\* The queue is deleted with what it holds.
LEMMA OwnedEmptied ==
  ASSUME NEW h, NEW l, NEW q, NEW c, NEW n, Owned(h, l, q, c, n)
  PROVE  Owned(h, l, <<>>, c, n)
<1>1. \A o : ~Waits(o, <<>>)
  BY DEF Waits
<1>2. <<>> \in Seq(TypedAction) /\ \A i : i \notin DOMAIN <<>>
  OBVIOUS
<1> QED BY <1>1, <1>2 DEF Owned

\* What an action carries it gives or names.
LEMMA CarriesWhat ==
  ASSUME NEW a \in TypedAction, NEW o \in DataOf(a)
  PROVE  o \in Objects /\ a.arg = o /\ (Gives(a) \/ Names(a))
<1>1. o \in Objects /\ a.arg = o /\ a.arg # "none"
  BY KindsAssumption DEF DataOf
<1>2. a.op \notin {"SYSTEM_EVENT", "SERVICES_CLEAR", "TASK_STOP"}
  BY <1>1 DEF TypedAction, Typed
<1> QED BY <1>1, <1>2 DEF TypedAction, Action, Ops, Gives, Names

\* What mdns_free finds in the queue is freed with it; what an action names there
\* is not accounted for any more.
LEMMA OwnedDrain ==
  ASSUME NEW h, NEW l, NEW q, NEW c, NEW n, Owned(h, l, q, c, n),
         NEW f, f \in [Objects -> {"free", "live", "twice"}],
         \A o \in Objects :
           LET C == {i \in DOMAIN q : o \in DataOf(q[i])}
           IN  f[o] = IF C = {} THEN h[o]
                      ELSE IF h[o] = "live" /\ \A i, j \in C : i = j THEN "free"
                      ELSE "twice",
         NEW m, n \subseteq m,
         \A o \in Objects, i \in DOMAIN q : o \in DataOf(q[i]) /\ Names(q[i]) => o \in m
  PROVE  /\ Owned(f, l, <<>>, c, m)
         /\ NoneLost(h, l, q, c) => NoneLost(f, l, <<>>, c)
<1>1. q \in Seq(TypedAction)
  BY DEF Owned
<1>2. \A i \in DOMAIN q : q[i] \in TypedAction
  BY <1>1
<1>3. ASSUME NEW o \in Objects
      PROVE  /\ Waits(o, q) => f[o] # "live"
             /\ ~Waits(o, q) /\ o \notin m => f[o] = h[o]
             /\ Waits(o, q) /\ o \notin m => f[o] = "free"
             /\ f[o] = "live" => h[o] = "live"
  <2> DEFINE C == {i \in DOMAIN q : o \in DataOf(q[i])}
  <2>1. f[o] = IF C = {} THEN h[o]
               ELSE IF h[o] = "live" /\ \A i, j \in C : i = j THEN "free"
               ELSE "twice"
    OBVIOUS
  <2>2. Waits(o, q) => C # {}
    BY DEF Waits, DataOf
  <2>3. o \notin m => \A i \in C : Gives(q[i]) /\ q[i].arg = o
    BY <1>2, CarriesWhat
  <2>4. o \notin m /\ C # {} => Waits(o, q)
    BY <2>3 DEF Waits
  <2>5. o \notin m => \A i, j \in C : i = j
    BY <2>3 DEF Owned
  <2>6. Waits(o, q) /\ o \notin m => h[o] = "live"
    BY DEF Owned
  <2> HIDE DEF C
  <2> QED BY <2>1, <2>2, <2>4, <2>5, <2>6
<1>4. \A o : ~Waits(o, <<>>)
  BY DEF Waits
<1>5. <<>> \in Seq(TypedAction) /\ \A i : i \notin DOMAIN <<>>
  OBVIOUS
<1>6. NoneLost(h, l, q, c) => NoneLost(f, l, <<>>, c)
  BY <1>3 DEF NoneLost
<1>7. ASSUME NEW o \in Objects \ m
      PROVE  /\ f[o] # "twice"
             /\ o \in l \/ Waits(o, <<>>) \/ Has(o, c) => f[o] = "live"
             /\ ~(o \in l /\ Has(o, c))
  BY <1>3, <1>4 DEF Owned
<1> QED BY <1>4, <1>5, <1>6, <1>7 DEF Owned

LEMMA ActionsTyped ==
  /\ {SystemEvent, ServicesClear, TaskStop} \subseteq TypedAction
  /\ \A o \in Services : Act("SERVICE_ADD", o) \in TypedAction
  /\ \A o \in Hosts : Act("DELEGATE_HOSTNAME_ADD", o) \in TypedAction
  /\ \A o \in Searches : Act("SEARCH_ADD", o) \in TypedAction
  /\ \A o \in Searches : Act("SEARCH_SEND", o) \in TypedAction
  /\ \A o \in Packets : Act("TX_HANDLE", o) \in TypedAction
  /\ \A o \in Received : Act("RX_HANDLE", o) \in TypedAction
BY DEF TypedAction, Typed, Action, Ops, Act, SystemEvent, ServicesClear, TaskStop, Objects

\* Scheduled packets are freed and made: the lists and the heap stay sound.
LEMMA ReschedulesOwned ==
  ASSUME NEW h, NEW l, NEW q, NEW c, NEW n, Owned(h, l, q, c, n),
         queued \subseteq l \cap Packets, Reschedules(h, l)
  PROVE  /\ Owned(heap', listed', q, c, n)
         /\ NoneLost(h, l, q, c) => NoneLost(heap', listed', q, c)
         /\ queued' \subseteq listed' \cap Packets
         /\ \A o : o \notin Packets => (o \in listed' <=> o \in l)
<1>1. PICK cleared \in SUBSET (l \cap Packets) :
        \E new \in SUBSET {p \in Packets : Freed(h, cleared)[p] = "free"} :
          /\ heap' = Alloc(Freed(h, cleared), new)
          /\ listed' = (l \ cleared) \cup new
          /\ queued' = queued \ cleared
  BY DEF Reschedules
<1>2. PICK new \in SUBSET {p \in Packets : Freed(h, cleared)[p] = "free"} :
          /\ heap' = Alloc(Freed(h, cleared), new)
          /\ listed' = (l \ cleared) \cup new
          /\ queued' = queued \ cleared
  BY <1>1
<1>3. /\ Owned(Freed(h, cleared), l \ cleared, q, c, n)
      /\ NoneLost(h, l, q, c) => NoneLost(Freed(h, cleared), l \ cleared, q, c)
  BY OwnedFree
<1>4. /\ Owned(heap', listed', q, c, n)
      /\ NoneLost(h, l, q, c) => NoneLost(heap', listed', q, c)
  BY <1>2, <1>3, OwnedSchedule
<1> QED BY <1>2, <1>4

-----------------------------------------------------------------------------
(* What the steps of the program do to the owners, however mdns_free comes *)
(* upon the queue, the task and the callback.                              *)

NoneIsLost == NoneLost(heap, listed, actions, current)

\* The steps that may lose something: the queue of an mdns_init that fails, the
\* action of a task that is deleted, and services that nobody has removed.
Loses ==
  \/ InitFails
  \/ StopTask /\ ~HasRoom
  \/ FreeLists /\ listed \cap Services # {}

OwnKept == OwnInv' /\ (NoneIsLost /\ ~Loses => NoneIsLost')

LEMMA OwnInit == Init => OwnInv /\ NoneIsLost
<1> SUFFICES ASSUME Init PROVE OwnInv /\ NoneIsLost
  OBVIOUS
<1>1. actions = <<>> /\ \A i : i \notin DOMAIN actions
  BY DEF Init
<1>2. \A o : ~Waits(o, actions) /\ ~Has(o, current)
  BY <1>1, NothingHeld DEF Waits, Init
<1>3. actions \in Seq(TypedAction)
  BY <1>1
<1> QED BY <1>1, <1>2, <1>3 DEF Init, OwnInv, Owned, NoneIsLost, NoneLost

\* The steps that touch neither lists nor actions.
LEMMA OwnGoesOn ==
  ASSUME OwnInv,
         \/ InitServer \/ TakeMutex \/ StartTimer \/ CreateTask \/ StartDeletesMutex
         \/ StopTimer \/ TaskStopped \/ DeleteMutex \/ Fire \/ Lock \/ UNCHANGED vars
  PROVE  OwnKept
<1>1. UNCHANGED <<current, actions, listed, queued, heap, named>>
  BY DEF InitServer, TakeMutex, StartTimer, CreateTask, StartDeletesMutex,
         StopTimer, TaskStopped, DeleteMutex, Fire, Lock, vars
<1>2. NoneIsLost => NoneIsLost'
  BY <1>1 DEF NoneIsLost
<1>3. CASE UNCHANGED <<owner, task>>
  BY <1>1, <1>2, <1>3 DEF OwnKept, OwnInv
<1>4. CASE InitServer \/ TakeMutex \/ StartTimer \/ StartDeletesMutex \/ StopTimer
           \/ TaskStopped \/ DeleteMutex
  <2>1. /\ UNCHANGED task
        /\ owner' \in NoTask => owner \in NoTask \/ task = "none"
    BY <1>4 DEF InitServer, TakeMutex, StartTimer, StartDeletesMutex, StopTimer,
                TaskStopped, DeleteMutex, At, NoTask, Starting
  <2> QED BY <1>1, <1>2, <2>1 DEF OwnKept, OwnInv
<1>5. CASE CreateTask
  <2>1. task = "none" /\ task' \in {"none", "idle"}
    BY <1>5 DEF CreateTask, At, OwnInv, NoTask, Starting
  <2>2. owner' \in NoTask => task' = "none"
    BY <1>5, <2>1 DEF CreateTask, At, NoTask, Starting
  <2> QED BY <1>1, <1>2, <2>1, <2>2 DEF OwnKept, OwnInv
<1>6. CASE Lock
  BY <1>1, <1>2, <1>6 DEF OwnKept, OwnInv, Lock
<1>7. Fire \/ UNCHANGED vars => UNCHANGED <<owner, task>>
  BY DEF Fire, vars
<1> QED BY <1>3, <1>4, <1>5, <1>6, <1>7

\* An action is posted that gives what is new, or gives nothing.
LEMMA OwnPost ==
  ASSUME OwnInv, NEW a \in TypedAction, actions' = Append(actions, a),
         \/ Gives(a) /\ IsFree(a.arg) /\ heap' = Alloc(heap, {a.arg})
         \/ ~Gives(a) /\ UNCHANGED heap,
         UNCHANGED <<task, current, listed, named>>,
         queued' \subseteq listed \cap Packets,
         owner' \in NoTask => owner \in NoTask
  PROVE  OwnKept
<1>1. Owned(heap, listed, actions, current, named)
  BY DEF OwnInv
<1>2. /\ Owned(heap', listed, Append(actions, a), current, named)
      /\ NoneIsLost => NoneLost(heap', listed, Append(actions, a), current)
  BY <1>1, OwnedGive, OwnedPost DEF IsFree, NoneIsLost
<1>3. OwnInv'
  BY <1>2 DEF OwnInv
<1> QED BY <1>2, <1>3 DEF OwnKept, NoneIsLost

\* The calls, what is received and the events.
LEMMA OwnCalls ==
  ASSUME OwnInv,
         ServiceAdd \/ DelegateHostnameAdd \/ QueryAsyncNew \/ Receive \/ HandleSystemEvent
  PROVE  OwnKept
<1>1. UNCHANGED <<owner, task, current, listed, queued, named>>
  BY DEF ServiceAdd, DelegateHostnameAdd, QueryAsyncNew, Call, Receive, HandleSystemEvent
<1>2. queued' \subseteq listed \cap Packets
  BY <1>1 DEF OwnInv
<1>3. ASSUME ServiceAdd \/ DelegateHostnameAdd \/ QueryAsyncNew \/ Receive
      PROVE  \E a \in TypedAction : /\ Gives(a) /\ IsFree(a.arg)
                                    /\ actions' = Append(actions, a)
                                    /\ heap' = Alloc(heap, {a.arg})
  BY <1>3, ActionsTyped
     DEF ServiceAdd, DelegateHostnameAdd, QueryAsyncNew, Call, Receive, Post, Gives, Act
<1>4. ASSUME HandleSystemEvent
      PROVE  /\ SystemEvent \in TypedAction /\ ~Gives(SystemEvent)
             /\ actions' = Append(actions, SystemEvent) /\ UNCHANGED heap
  BY <1>4, ActionsTyped DEF HandleSystemEvent, Post, SystemEvent, Gives, Act
<1> QED BY <1>1, <1>2, <1>3, <1>4, OwnPost

\* The two halves of the callback.
LEMMA OwnCallback ==
  ASSUME OwnInv, SchedulerRun \/ SearchRun
  PROVE  OwnKept
<1>1. UNCHANGED <<owner, task, current, listed, heap, named>>
  BY DEF SchedulerRun, SearchRun
<1>2. CASE UNCHANGED <<actions, queued>>
  BY <1>1, <1>2 DEF OwnKept, OwnInv, NoneIsLost
<1>3. CASE \E p \in (listed \cap Packets) \ queued :
             Post(Act("TX_HANDLE", p)) /\ queued' = queued \cup {p}
  <2>1. PICK p \in (listed \cap Packets) \ queued :
          Post(Act("TX_HANDLE", p)) /\ queued' = queued \cup {p}
    BY <1>3
  <2>2. Act("TX_HANDLE", p) \in TypedAction /\ ~Gives(Act("TX_HANDLE", p))
    BY ActionsTyped DEF Gives, Act
  <2>3. queued' \subseteq listed \cap Packets
    BY <2>1 DEF OwnInv
  <2>4. actions' = Append(actions, Act("TX_HANDLE", p))
    BY <2>1 DEF Post
  <2> QED BY <1>1, <2>2, <2>3, <2>4, OwnPost
<1>4. CASE (\E s \in listed \cap Searches : Post(Act("SEARCH_SEND", s))) /\ UNCHANGED queued
  <2>1. PICK s \in listed \cap Searches : Post(Act("SEARCH_SEND", s))
    BY <1>4
  <2>2. Act("SEARCH_SEND", s) \in TypedAction /\ ~Gives(Act("SEARCH_SEND", s))
    BY ActionsTyped DEF Gives, Act
  <2>3. queued' \subseteq listed \cap Packets
    BY <1>4 DEF OwnInv
  <2>4. actions' = Append(actions, Act("SEARCH_SEND", s))
    BY <2>1 DEF Post
  <2> QED BY <1>1, <2>2, <2>3, <2>4, OwnPost
<1> QED BY <1>2, <1>3, <1>4 DEF SchedulerRun, SearchRun

\* mdns_free posts two actions, or finds no room for them.
LEMMA OwnStops ==
  ASSUME OwnInv, FreeBegins \/ StopTask
  PROVE  OwnKept
<1>1. UNCHANGED <<listed, queued, heap, named>> /\ owner' \in {"hosts", "wait"}
  BY DEF FreeBegins, StopTask, At
<1>2. owner' \notin NoTask /\ queued' \subseteq listed \cap Packets
  BY <1>1 DEF NoTask, Starting, OwnInv
<1>3. CASE UNCHANGED <<task, current>>
  <2>1. /\ {ServicesClear, TaskStop} \subseteq TypedAction
        /\ ~Gives(ServicesClear) /\ ~Gives(TaskStop)
    BY ActionsTyped DEF Gives, ServicesClear, TaskStop, Act
  <2>2. \/ UNCHANGED actions
        \/ \E a \in {ServicesClear, TaskStop} : actions' = Append(actions, a)
    BY DEF FreeBegins, StopTask
  <2>3. CASE UNCHANGED actions
    BY <1>1, <1>2, <1>3, <2>3 DEF OwnKept, OwnInv, NoneIsLost
  <2> QED BY <1>1, <1>2, <1>3, <2>1, <2>2, <2>3, OwnPost
<1>4. CASE /\ StopTask /\ ~HasRoom
           /\ task' = "none" /\ current' = NoAction /\ UNCHANGED actions
  <2>1. Owned(heap, listed, actions, NoAction, named)
    BY OwnedDone DEF OwnInv
  <2>2. OwnInv'
    BY <1>1, <1>2, <1>4, <2>1 DEF OwnInv
  <2> QED BY <1>4, <2>2 DEF OwnKept, Loses
<1> QED BY <1>3, <1>4 DEF FreeBegins, StopTask

\* mdns_free frees what is left, and an mdns_init that fails drops the queue.
LEMMA OwnFrees ==
  ASSUME OwnInv, FreeHosts \/ FreeLists \/ InitFails
  PROVE  OwnKept
<1>1. /\ UNCHANGED <<task, current, named>>
      /\ owner' \in NoTask => owner \in NoTask
  BY DEF FreeHosts, FreeLists, InitFails, At, NoTask, Starting
<1>2. Owned(heap, listed, actions, current, named) /\ queued \subseteq listed \cap Packets
  BY DEF OwnInv
<1>3. CASE FreeHosts
  <2> DEFINE x == listed \cap Hosts
  <2>1. /\ heap' = Freed(heap, x) /\ listed' = listed \ x
        /\ UNCHANGED <<actions, queued>>
    BY <1>3 DEF FreeHosts
  <2>2. /\ Owned(Freed(heap, x), listed \ x, actions, current, named)
        /\ NoneIsLost => NoneLost(Freed(heap, x), listed \ x, actions, current)
    BY <1>2, OwnedFree DEF NoneIsLost
  <2>3. queued' \subseteq listed' \cap Packets
    BY <1>2, <2>1, KindsAssumption
  <2> HIDE DEF x
  <2>4. OwnInv'
    BY <1>1, <2>1, <2>2, <2>3 DEF OwnInv
  <2> QED BY <1>1, <2>1, <2>2, <2>4 DEF OwnKept, NoneIsLost
<1>4. CASE FreeLists
  <2> DEFINE x == listed \cap (Packets \cup Searches)
             y == listed \cap (Packets \cup Searches \cup Services)
  <2>1. /\ heap' = Freed(heap, x) /\ listed' = listed \ y /\ queued' = {}
        /\ UNCHANGED actions
    BY <1>4 DEF FreeLists
  <2>2. listed \cap Services = {} => x = y
    OBVIOUS
  <2>3. /\ Owned(Freed(heap, x), listed \ y, actions, current, named)
        /\ x = y /\ NoneIsLost => NoneLost(Freed(heap, x), listed \ y, actions, current)
    BY <1>2, OwnedFree DEF NoneIsLost
  <2> HIDE DEF x, y
  <2>4. OwnInv'
    BY <1>1, <2>1, <2>3 DEF OwnInv
  <2> QED BY <1>1, <1>4, <2>1, <2>2, <2>3, <2>4 DEF OwnKept, NoneIsLost, Loses
<1>5. CASE InitFails
  <2>1. actions' = <<>> /\ UNCHANGED <<listed, queued, heap>>
    BY <1>5 DEF InitFails
  <2>2. Owned(heap, listed, <<>>, current, named)
    BY <1>2, OwnedEmptied
  <2>3. OwnInv'
    BY <1>1, <2>1, <2>2 DEF OwnInv
  <2> QED BY <1>5, <2>3 DEF OwnKept, Loses
<1> QED BY <1>3, <1>4, <1>5

LEMMA OwnDrain ==
  ASSUME OwnInv, Drain
  PROVE  OwnKept
<1>1. /\ owner = "drain" /\ owner' = "lists" /\ actions' = <<>>
      /\ UNCHANGED <<task, current, listed, queued>>
  BY DEF Drain, At
<1>2. heap' = [o \in Objects |->
        IF Carriers(o) = {} THEN heap[o]
        ELSE IF heap[o] = "live" /\ \A i, j \in Carriers(o) : i = j THEN "free"
        ELSE "twice"]
  BY DEF Drain
<1>3. named' = named \cup {o \in Objects : \E i \in Carriers(o) : Names(actions[i])}
  BY DEF Drain
<1>4. Owned(heap, listed, actions, current, named)
  BY DEF OwnInv
<1>5. /\ heap' \in [Objects -> {"free", "live", "twice"}]
      /\ \A o \in Objects :
           LET C == {i \in DOMAIN actions : o \in DataOf(actions[i])}
           IN  heap'[o] = IF C = {} THEN heap[o]
                          ELSE IF heap[o] = "live" /\ \A i, j \in C : i = j THEN "free"
                          ELSE "twice"
  BY <1>2, <1>4 DEF Carriers, Owned
<1>6. /\ named \subseteq named'
      /\ \A o \in Objects, i \in DOMAIN actions :
           o \in DataOf(actions[i]) /\ Names(actions[i]) => o \in named'
  BY <1>3 DEF Carriers
<1>7. /\ Owned(heap', listed, <<>>, current, named')
      /\ NoneIsLost => NoneLost(heap', listed, <<>>, current)
  BY <1>4, <1>5, <1>6, OwnedDrain DEF NoneIsLost
<1>8. OwnInv'
  BY <1>1, <1>7 DEF OwnInv, NoTask
<1> QED BY <1>1, <1>7, <1>8 DEF OwnKept, NoneIsLost

LEMMA OwnTake ==
  ASSUME OwnInv, Take
  PROVE  OwnKept
<1>1. /\ task = "idle" /\ actions # <<>> /\ actions' = Tail(actions)
      /\ UNCHANGED <<owner, listed, queued, heap, named>>
  BY DEF Take
<1>2. /\ current = NoAction /\ Owned(heap, listed, actions, NoAction, named)
      /\ owner \notin NoTask
  BY <1>1 DEF OwnInv
<1>3. /\ Owned(heap, listed, Tail(actions), Head(actions), named)
      /\ ~Gives(Head(actions)) => Owned(heap, listed, Tail(actions), NoAction, named)
      /\ NoneIsLost =>
           /\ NoneLost(heap, listed, Tail(actions), Head(actions))
           /\ ~Gives(Head(actions)) => NoneLost(heap, listed, Tail(actions), NoAction)
  BY <1>1, <1>2, OwnedTake DEF NoneIsLost
<1>4. CASE Head(actions) = TaskStop
  <2>1. task' = "none" /\ current' = NoAction
    BY <1>2, <1>4 DEF Take
  <2>2. ~Gives(Head(actions))
    BY <1>4 DEF Gives, TaskStop, Act
  <2>3. OwnInv'
    BY <1>1, <1>2, <1>3, <2>1, <2>2 DEF OwnInv
  <2> QED BY <1>1, <1>3, <2>1, <2>2, <2>3 DEF OwnKept, NoneIsLost
<1>5. CASE Head(actions) # TaskStop
  <2>1. task' = "has" /\ current' = Head(actions)
    BY <1>5 DEF Take
  <2>2. Head(actions) \in TypedAction
    BY <1>1, <1>2, Taken DEF Owned
  <2>3. OwnInv'
    BY <1>1, <1>2, <1>3, <2>1, <2>2 DEF OwnInv
  <2> QED BY <1>1, <1>3, <2>1, <2>3 DEF OwnKept, NoneIsLost
<1> QED BY <1>4, <1>5

\* What the execution of an action does to the lists.
Executed ==
  /\ Owned(heap', listed', actions, NoAction, named)
  /\ NoneIsLost => NoneLost(heap', listed', actions, NoAction)
  /\ queued' \subseteq listed' \cap Packets
  /\ listed' \cap Hosts # {} =>
       listed \cap Hosts # {} \/ current.op = "DELEGATE_HOSTNAME_ADD"
  /\ listed' \cap Services # {} =>
       \/ current.op = "SERVICE_ADD"
       \/ listed \cap Services # {} /\ current # ServicesClear

LEMMA ExecuteOwned ==
  ASSUME OwnInv, Execute
  PROVE  Executed
<1>1. /\ Owned(heap, listed, actions, current, named) /\ queued \subseteq listed \cap Packets
      /\ current \in TypedAction /\ task = "locked"
  BY DEF OwnInv, Execute
<1>2. ASSUME ~Gives(current)
      PROVE  /\ Owned(heap, listed, actions, NoAction, named)
             /\ NoneIsLost => NoneLost(heap, listed, actions, NoAction)
  BY <1>1, <1>2, OwnedDone DEF NoneIsLost
<1>3. CASE current.op = "SERVICE_ADD" /\ Reschedules(heap, listed \cup {current.arg})
  <2> DEFINE l == listed \cup {current.arg}
  <2>1. /\ Owned(heap, l, actions, NoAction, named)
        /\ NoneIsLost => NoneLost(heap, l, actions, NoAction)
    BY <1>1, <1>3, OwnedListed DEF Gives, NoneIsLost
  <2>2. queued \subseteq l \cap Packets
    BY <1>1
  <2> HIDE DEF l
  <2>3. /\ Owned(heap', listed', actions, NoAction, named)
        /\ NoneLost(heap, l, actions, NoAction) => NoneLost(heap', listed', actions, NoAction)
        /\ queued' \subseteq listed' \cap Packets
        /\ \A o : o \notin Packets => (o \in listed' <=> o \in l)
    BY <1>3, <2>1, <2>2, ReschedulesOwned DEF l
  <2>4. current.arg \in Services
    BY <1>1, <1>3 DEF TypedAction, Typed
  <2> QED BY <1>3, <2>1, <2>3, <2>4, KindsAssumption DEF Executed, l
<1>4. CASE current.op \in {"DELEGATE_HOSTNAME_ADD", "SEARCH_ADD"}
           /\ listed' = listed \cup {current.arg} /\ UNCHANGED <<heap, queued>>
  <2>1. /\ Owned(heap, listed', actions, NoAction, named)
        /\ NoneIsLost => NoneLost(heap, listed', actions, NoAction)
    BY <1>1, <1>4, OwnedListed DEF Gives, NoneIsLost
  <2>2. /\ current.op = "DELEGATE_HOSTNAME_ADD" => current.arg \in Hosts
        /\ current.op = "SEARCH_ADD" => current.arg \in Searches
        /\ current # ServicesClear
    BY <1>1, <1>4 DEF TypedAction, Typed, ServicesClear, Act
  <2> QED BY <1>1, <1>4, <2>1, <2>2, KindsAssumption DEF Executed
<1>5. CASE current.op = "DELEGATE_HOSTNAME_ADD" /\ heap' = Freed(heap, {current.arg})
           /\ UNCHANGED <<listed, queued>>
  <2>1. /\ Owned(heap', listed, actions, NoAction, named)
        /\ NoneIsLost => NoneLost(heap', listed, actions, NoAction)
    BY <1>1, <1>5, OwnedHandled DEF Gives, NoneIsLost
  <2> QED BY <1>1, <1>5, <2>1 DEF Executed, ServicesClear, Act
<1>6. CASE current = ServicesClear
           /\ Reschedules(Freed(heap, listed \cap Services), listed \ Services)
  <2> DEFINE x == listed \cap Services
             l == listed \ x
             h == Freed(heap, x)
  <2>1. ~Gives(current) /\ current.op # "SERVICE_ADD"
    BY <1>6 DEF Gives, ServicesClear, Act
  <2>2. l = listed \ Services /\ queued \subseteq l \cap Packets
    BY <1>1, KindsAssumption
  <2>3. /\ Owned(h, l, actions, NoAction, named)
        /\ NoneIsLost => NoneLost(h, l, actions, NoAction)
    BY <1>2, <2>1, OwnedFree
  <2>4. Reschedules(h, l)
    BY <1>6, <2>2
  <2> HIDE DEF l, h
  <2>5. /\ Owned(heap', listed', actions, NoAction, named)
        /\ NoneLost(h, l, actions, NoAction) => NoneLost(heap', listed', actions, NoAction)
        /\ queued' \subseteq listed' \cap Packets
        /\ \A o : o \notin Packets => (o \in listed' <=> o \in l)
    BY <2>2, <2>3, <2>4, ReschedulesOwned
  <2> QED BY <2>2, <2>3, <2>5, KindsAssumption DEF Executed
<1>7. CASE current.op = "RX_HANDLE" /\ Reschedules(Freed(heap, {current.arg}), listed)
  <2> DEFINE h == Freed(heap, {current.arg})
  <2>1. /\ Owned(h, listed, actions, NoAction, named)
        /\ NoneIsLost => NoneLost(h, listed, actions, NoAction)
    BY <1>1, <1>7, OwnedHandled DEF Gives, NoneIsLost
  <2> HIDE DEF h
  <2>2. /\ Owned(heap', listed', actions, NoAction, named)
        /\ NoneLost(h, listed, actions, NoAction) => NoneLost(heap', listed', actions, NoAction)
        /\ queued' \subseteq listed' \cap Packets
        /\ \A o : o \notin Packets => (o \in listed' <=> o \in listed)
    BY <1>1, <1>7, <2>1, ReschedulesOwned DEF h
  <2> QED BY <1>7, <2>1, <2>2, KindsAssumption DEF Executed, ServicesClear, Act
<1>8. CASE current = SystemEvent /\ Reschedules(heap, listed)
  <2>1. ~Gives(current) /\ current # ServicesClear
    BY <1>8 DEF Gives, SystemEvent, ServicesClear, Act
  <2>2. /\ Owned(heap', listed', actions, NoAction, named)
        /\ NoneIsLost => NoneLost(heap', listed', actions, NoAction)
        /\ queued' \subseteq listed' \cap Packets
        /\ \A o : o \notin Packets => (o \in listed' <=> o \in listed)
    BY <1>1, <1>2, <1>8, <2>1, ReschedulesOwned
  <2> QED BY <2>1, <2>2, KindsAssumption DEF Executed
<1>9. CASE current.op = "TX_HANDLE" /\ Send(current.arg)
  <2> DEFINE p == current.arg
             h == Freed(heap, {p})
             l == listed \ {p}
  <2>1. ~Gives(current) /\ current # ServicesClear
    BY <1>9 DEF Gives, ServicesClear, Act
  <2>2. CASE UNCHANGED <<heap, listed>> /\ queued' \subseteq queued
    BY <1>1, <1>2, <2>1, <2>2 DEF Executed
  <2>3. ASSUME p \in queued
        PROVE  /\ Owned(h, l, actions, NoAction, named)
               /\ NoneIsLost => NoneLost(h, l, actions, NoAction)
               /\ queued \ {p} \subseteq l \cap Packets
    BY <1>1, <1>2, <2>1, <2>3, OwnedFree
  <2>4. CASE p \in queued /\ queued' = queued \ {p} /\ heap' = h /\ listed' = l
    BY <2>1, <2>3, <2>4 DEF Executed
  <2>5. CASE /\ p \in queued /\ queued' = queued \ {p}
             /\ \E a \in Packets \ {p} :
                  /\ IsFree(a) /\ heap' = Alloc(h, {a}) /\ listed' = l \cup {a}
    <3>1. PICK a \in Packets \ {p} :
            IsFree(a) /\ heap' = Alloc(h, {a}) /\ listed' = l \cup {a}
      BY <2>5
    <3>2. h[a] = "free"
      BY <3>1 DEF IsFree, Freed, Objects
    <3> HIDE DEF h, l
    <3>3. /\ Owned(heap', listed', actions, NoAction, named)
          /\ NoneIsLost => NoneLost(heap', listed', actions, NoAction)
      BY <2>3, <2>5, <3>1, <3>2, OwnedSchedule
    <3> QED BY <2>1, <2>3, <2>5, <3>1, <3>3, KindsAssumption DEF Executed, l
  <2> QED BY <1>9, <2>2, <2>4, <2>5 DEF Send
<1>10. CASE current.op = "SEARCH_SEND" /\ UNCHANGED <<heap, listed, queued>>
  <2>1. ~Gives(current) /\ current # ServicesClear
    BY <1>10 DEF Gives, ServicesClear, Act
  <2> QED BY <1>1, <1>2, <1>10, <2>1 DEF Executed
<1> QED BY <1>3, <1>4, <1>5, <1>6, <1>7, <1>8, <1>9, <1>10 DEF Execute

LEMMA OwnExecute ==
  ASSUME OwnInv, Execute
  PROVE  OwnKept
<1>1. /\ task' = "idle" /\ current' = NoAction /\ task = "locked"
      /\ UNCHANGED <<owner, actions, named>>
  BY DEF Execute
<1>2. Executed
  BY ExecuteOwned
<1>3. OwnInv'
  BY <1>1, <1>2 DEF OwnInv, Executed
<1> QED BY <1>1, <1>2, <1>3 DEF OwnKept, Executed, NoneIsLost

LEMMA OwnStep == OwnInv /\ [Next]_vars => OwnKept
BY OwnGoesOn, OwnCalls, OwnCallback, OwnStops, OwnFrees, OwnDrain, OwnTake, OwnExecute
   DEF Next, Owner

\* Whatever the queue holds and wherever the task and the callback stand when
\* mdns_free comes, only what an action named that nobody executed is freed twice.
THEOREM NamedOnlyTwice == Spec => []TwiceOnlyIfNamed
<1>1. OwnInv => TwiceOnlyIfNamed
  BY DEF OwnInv, Owned, TwiceOnlyIfNamed
<1>2. OwnInv /\ [Next]_vars => OwnInv'
  BY OwnStep DEF OwnKept
<1> QED BY <1>1, <1>2, OwnInit, PTL DEF Spec

-----------------------------------------------------------------------------
(* How far mdns_free has come.                                             *)

OnlyReceived(q) == \A i \in DOMAIN q : q[i].op = "RX_HANDLE"

NotStopped(q) == \A i \in DOMAIN q : q[i] # TaskStop

\* The task is told to stop, and behind that only packets were received.
ToldToStop(q) ==
  \E i \in DOMAIN q :
    /\ q[i] = TaskStop
    /\ \A j \in DOMAIN q : j < i => q[j] # TaskStop
    /\ \A j \in DOMAIN q : j > i => q[j].op = "RX_HANDLE"

ClearWaits(q, c) ==
  c = ServicesClear \/ \E i \in DOMAIN q : q[i] = ServicesClear

Stopped == {"task", "wait", "destroy", "drain", "lists", "down"}

\* The actions that are still there.
QueueInv ==
  /\ Len(actions) <= QueueLen
  /\ owner = "down" => actions = <<>>
  /\ owner \in {"hosts", "timer"} \cup Stopped => IsSettled
  /\ owner \notin {"wait", "destroy", "drain"} => NotStopped(actions)
  /\ owner = "wait" /\ task # "none" => ToldToStop(actions)
  /\ owner = "wait" /\ task = "none" => OnlyReceived(actions)
  /\ owner \in {"destroy", "drain"} => OnlyReceived(actions)

\* The threads that are still there.
WorkInv ==
  /\ owner \notin {"unlocked", "failed"}
  /\ owner \in Stopped => callback = "no"
  /\ owner \in {"up", "hosts", "timer", "task"} => task # "none"
  /\ task \in {"none", "idle"} => current = NoAction
  /\ task \in {"has", "locked"} => current # NoAction
  /\ current # TaskStop

\* The lists that mdns_free has emptied, and those it counts on being emptied.
ListsInv ==
  /\ owner \in {"timer"} \cup Stopped => listed \cap Hosts = {}
  /\ owner \in {"hosts", "timer", "task", "wait"} /\ listed \cap Services # {} =>
       ClearWaits(actions, current)
  /\ owner \in {"destroy", "drain", "lists", "down"} => listed \cap Services = {}
  /\ owner = "down" => listed = {}

\* What the third theorem needs: see the configuration Mdns_lifelate for Calm.
Quiet == Assumed /\ Calm /\ Settled /\ ~StartFails

FreeInv ==
  /\ Quiet /\ IInv /\ OwnInv
  /\ NoneIsLost /\ named = {}
  /\ QueueInv /\ WorkInv /\ ListsInv

-----------------------------------------------------------------------------
(* What is known of a queue that grows or shrinks.                         *)

NoAdds(q) == \A i \in DOMAIN q : ~Adds(q[i])

LEMMA SettledWhen == IsSettled <=> (~Adds(current) /\ NoAdds(actions))
BY DEF IsSettled, NoAdds

LEMMA QueueGrows ==
  ASSUME NEW q \in Seq(TypedAction), NEW a \in TypedAction
  PROVE  /\ NoAdds(q) /\ ~Adds(a) => NoAdds(Append(q, a))
         /\ OnlyReceived(q) /\ a.op = "RX_HANDLE" => OnlyReceived(Append(q, a))
         /\ NotStopped(q) /\ a # TaskStop => NotStopped(Append(q, a))
         /\ ToldToStop(q) /\ a.op = "RX_HANDLE" => ToldToStop(Append(q, a))
         /\ NotStopped(q) /\ a = TaskStop => ToldToStop(Append(q, a))
         /\ \A c : ClearWaits(q, c) => ClearWaits(Append(q, a), c)
         /\ a = ServicesClear => \A c : ClearWaits(Append(q, a), c)
<1>1. NoAdds(q) /\ ~Adds(a) => NoAdds(Append(q, a))
  BY Posted DEF NoAdds
<1>2. OnlyReceived(q) /\ a.op = "RX_HANDLE" => OnlyReceived(Append(q, a))
  BY Posted DEF OnlyReceived
<1>3. NotStopped(q) /\ a # TaskStop => NotStopped(Append(q, a))
  BY Posted DEF NotStopped
<1>4. ASSUME ToldToStop(q), a.op = "RX_HANDLE"
      PROVE  ToldToStop(Append(q, a))
  <2>1. PICK i \in DOMAIN q :
          /\ q[i] = TaskStop
          /\ \A j \in DOMAIN q : j < i => q[j] # TaskStop
          /\ \A j \in DOMAIN q : j > i => q[j].op = "RX_HANDLE"
    BY <1>4 DEF ToldToStop
  <2>2. i \in DOMAIN Append(q, a) /\ Append(q, a)[i] = TaskStop /\ i < Len(q) + 1
    BY <2>1, Posted
  <2>3. \A j \in DOMAIN Append(q, a) : j < i => Append(q, a)[j] # TaskStop
    BY <2>1, <2>2
  <2>4. \A j \in DOMAIN Append(q, a) : j > i => Append(q, a)[j].op = "RX_HANDLE"
    BY <1>4, <2>1, Posted
  <2> QED BY <2>2, <2>3, <2>4 DEF ToldToStop
<1>5. ASSUME NotStopped(q), a = TaskStop
      PROVE  ToldToStop(Append(q, a))
  <2> DEFINE k == Len(q) + 1
  <2>1. k \in DOMAIN Append(q, a) /\ Append(q, a)[k] = TaskStop
    BY <1>5, Posted
  <2>2. \A j \in DOMAIN Append(q, a) : j < k => Append(q, a)[j] # TaskStop
    BY <1>5, Posted DEF NotStopped
  <2>3. \A j \in DOMAIN Append(q, a) : ~(j > k)
    OBVIOUS
  <2> QED BY <2>1, <2>2, <2>3 DEF ToldToStop
<1>6. \A c : ClearWaits(q, c) => ClearWaits(Append(q, a), c)
  BY Posted DEF ClearWaits
<1>7. a = ServicesClear => \A c : ClearWaits(Append(q, a), c)
  BY Posted DEF ClearWaits
<1> QED BY <1>1, <1>2, <1>3, <1>4, <1>5, <1>6, <1>7

LEMMA QueueShrinks ==
  ASSUME NEW q \in Seq(TypedAction), q # <<>>
  PROVE  /\ NoAdds(q) => NoAdds(Tail(q)) /\ ~Adds(Head(q))
         /\ OnlyReceived(q) => OnlyReceived(Tail(q)) /\ Head(q) # TaskStop
         /\ NotStopped(q) => NotStopped(Tail(q)) /\ Head(q) # TaskStop
         /\ ToldToStop(q) /\ Head(q) = TaskStop => OnlyReceived(Tail(q))
         /\ ToldToStop(q) /\ Head(q) # TaskStop => ToldToStop(Tail(q))
         /\ ClearWaits(q, NoAction) => ClearWaits(Tail(q), Head(q))
         /\ ToldToStop(q) /\ Head(q) = TaskStop => ~ClearWaits(q, NoAction)
<1>1. NoAdds(q) => NoAdds(Tail(q)) /\ ~Adds(Head(q))
  BY Taken DEF NoAdds
<1>2. OnlyReceived(q) => OnlyReceived(Tail(q)) /\ Head(q) # TaskStop
  BY Taken DEF OnlyReceived, TaskStop, Act
<1>3. NotStopped(q) => NotStopped(Tail(q)) /\ Head(q) # TaskStop
  BY Taken DEF NotStopped
<1>4. ASSUME ToldToStop(q)
      PROVE  /\ Head(q) = TaskStop => OnlyReceived(Tail(q))
             /\ Head(q) # TaskStop => ToldToStop(Tail(q))
             /\ Head(q) = TaskStop => ~ClearWaits(q, NoAction)
  <2>1. PICK i \in DOMAIN q :
          /\ q[i] = TaskStop
          /\ \A j \in DOMAIN q : j < i => q[j] # TaskStop
          /\ \A j \in DOMAIN q : j > i => q[j].op = "RX_HANDLE"
    BY <1>4 DEF ToldToStop
  <2>2. /\ 1 \in DOMAIN q /\ Head(q) = q[1]
        /\ \A k \in DOMAIN q : k \in Nat /\ k >= 1
    BY Taken
  <2>3. Head(q) = TaskStop => i = 1
    BY <2>1, <2>2
  <2>4. Head(q) = TaskStop => OnlyReceived(Tail(q))
    BY <2>1, <2>3, Taken DEF OnlyReceived
  <2>5. Head(q) = TaskStop => ~ClearWaits(q, NoAction)
    <3> SUFFICES ASSUME Head(q) = TaskStop, ClearWaits(q, NoAction) PROVE FALSE
      OBVIOUS
    <3>1. PICK j \in DOMAIN q : q[j] = ServicesClear
      BY DEF ClearWaits, ServicesClear, NoAction, Act
    <3>2. j # 1 /\ j > 1
      BY <2>2, <3>1 DEF ServicesClear, TaskStop, Act
    <3>3. q[j].op = "RX_HANDLE"
      BY <2>1, <2>3, <3>2
    <3> QED BY <3>1, <3>3 DEF ServicesClear, Act
  <2>6. ASSUME Head(q) # TaskStop PROVE ToldToStop(Tail(q))
    <3>1. i # 1 /\ i - 1 \in DOMAIN Tail(q) /\ Tail(q)[i - 1] = TaskStop
      BY <2>1, <2>2, <2>6, Taken
    <3>2. \A j \in DOMAIN Tail(q) : j < i - 1 => Tail(q)[j] # TaskStop
      BY <2>1, <2>2, Taken
    <3>3. \A j \in DOMAIN Tail(q) : j > i - 1 => Tail(q)[j].op = "RX_HANDLE"
      BY <2>1, <2>2, Taken
    <3> QED BY <3>1, <3>2, <3>3 DEF ToldToStop
  <2> QED BY <2>4, <2>5, <2>6
<1>5. ASSUME ClearWaits(q, NoAction) PROVE ClearWaits(Tail(q), Head(q))
  <2>1. PICK j \in DOMAIN q : q[j] = ServicesClear
    BY <1>5 DEF ClearWaits, ServicesClear, NoAction, Act
  <2>2. j = 1 \/ (j - 1 \in DOMAIN Tail(q) /\ Tail(q)[j - 1] = q[j])
    BY Taken
  <2>3. Head(q) = q[1]
    BY Taken
  <2> QED BY <2>1, <2>2, <2>3 DEF ClearWaits
<1> QED BY <1>1, <1>2, <1>3, <1>4, <1>5

-----------------------------------------------------------------------------
(* The steps.                                                              *)

LEMMA Kept ==
  FreeInv => /\ actions \in Seq(TypedAction) /\ current \in TypedAction \cup {NoAction}
             /\ Len(actions) \in Nat /\ QueueLen \in Nat
BY Sizes DEF FreeInv, OwnInv, Owned, Quiet

LEMMA FreeInvInit == Quiet /\ Init => FreeInv
<1> SUFFICES ASSUME Quiet, Init PROVE FreeInv
  OBVIOUS
<1>1. IInv
  BY IInit DEF Quiet
<1>2. actions = <<>> /\ \A i : i \notin DOMAIN actions
  BY DEF Init
<1>3. QueueInv
  <2>1. Len(actions) = 0
    BY <1>2
  <2> QED BY <1>2, <2>1, Sizes
        DEF Init, QueueInv, IsSettled, NotStopped, Adds, NoAction, Act, Quiet
<1>4. WorkInv /\ ListsInv
  BY DEF Init, WorkInv, ListsInv, Stopped, NoAction, TaskStop, Act
<1>5. named = {}
  BY DEF Init
<1> QED BY <1>1, <1>3, <1>4, <1>5, OwnInit DEF FreeInv

\* An action that is posted while the owner stands still.
LEMMA PostedInv ==
  ASSUME FreeInv, NEW a \in TypedAction, Post(a),
         UNCHANGED <<owner, task, current, listed>>,
         a # TaskStop, owner # "down", Adds(a) => owner = "up",
         owner \in {"wait", "destroy", "drain"} => a.op = "RX_HANDLE"
  PROVE  QueueInv' /\ ListsInv'
<1>1. actions' = Append(actions, a) /\ Len(actions) < QueueLen
  BY DEF Post, HasRoom
<1>2. actions \in Seq(TypedAction) /\ Len(actions) \in Nat /\ QueueLen \in Nat
  BY Kept
<1>3. Len(actions') <= QueueLen
  BY <1>1, <1>2
<1>4. /\ NoAdds(actions) /\ ~Adds(a) => NoAdds(actions)'
      /\ OnlyReceived(actions) /\ a.op = "RX_HANDLE" => OnlyReceived(actions)'
      /\ NotStopped(actions) /\ a # TaskStop => NotStopped(actions)'
      /\ ToldToStop(actions) /\ a.op = "RX_HANDLE" => ToldToStop(actions)'
      /\ ClearWaits(actions, current) => ClearWaits(actions, current)'
  BY <1>1, <1>2, QueueGrows
<1>5. IsSettled /\ ~Adds(a) => IsSettled'
  BY <1>4, SettledWhen DEF IsSettled, NoAdds
<1>6. QueueInv'
  BY <1>3, <1>4, <1>5 DEF QueueInv, FreeInv, Stopped
<1>7. ListsInv'
  BY <1>4 DEF ListsInv, FreeInv
<1> QED BY <1>6, <1>7

\* The steps of the owner that touch neither lists nor actions.
LEMMA OwnerGoesOn ==
  ASSUME FreeInv,
         InitServer \/ TakeMutex \/ StartTimer \/ CreateTask \/ StartDeletesMutex
         \/ InitFails \/ StopTimer \/ TaskStopped \/ DeleteMutex
  PROVE  QueueInv' /\ WorkInv' /\ ListsInv'
<1> USE DEF FreeInv, Quiet
<1>1. /\ ~StartFails /\ Calm /\ Prompt
      /\ owner # "failed" /\ owner # "unlocked"
  BY DEF WorkInv, Assumed
<1>2. UNCHANGED <<current, actions, listed, queued, heap>>
  BY <1>1 DEF InitServer, TakeMutex, StartTimer, CreateTask, StartDeletesMutex,
     InitFails, StopTimer, TaskStopped, DeleteMutex, At
<1>3. IsSettled' <=> IsSettled
  BY <1>2 DEF IsSettled
<1>4. CASE InitServer \/ TakeMutex \/ StartTimer
  <2>1. /\ owner \in {"down", "starting", "locked"}
        /\ owner' \in {"starting", "locked", "timed"}
        /\ UNCHANGED <<task, callback>>
    BY <1>1, <1>4 DEF InitServer, TakeMutex, StartTimer, At
  <2> QED BY <1>2, <1>3, <2>1 DEF QueueInv, WorkInv, ListsInv, Stopped
<1>5. CASE CreateTask
  <2>1. owner = "timed" /\ owner' = "up" /\ task' = "idle" /\ UNCHANGED callback
    BY <1>1, <1>5 DEF CreateTask, At
  <2>2. task = "none"
    BY <2>1 DEF IInv, PhaseInv, Starting
  <2> QED BY <1>2, <1>3, <2>1, <2>2 DEF QueueInv, WorkInv, ListsInv, Stopped
<1>6. CASE StopTimer
  <2>1. /\ owner = "timer" /\ owner' = "task" /\ callback = "no"
        /\ UNCHANGED <<task, callback>>
    BY <1>1, <1>6 DEF StopTimer, At
  <2> QED BY <1>2, <1>3, <2>1 DEF QueueInv, WorkInv, ListsInv, Stopped
<1>7. CASE TaskStopped
  <2>1. /\ owner = "wait" /\ owner' = "destroy" /\ task = "none"
        /\ UNCHANGED <<task, callback>>
    BY <1>1, <1>7 DEF TaskStopped, At
  <2>2. OnlyReceived(actions) /\ current = NoAction
    BY <2>1 DEF QueueInv, WorkInv
  <2>3. ~ClearWaits(actions, current)
    BY <2>2 DEF ClearWaits, OnlyReceived, ServicesClear, NoAction, Act
  <2> QED BY <1>2, <1>3, <2>1, <2>2, <2>3 DEF QueueInv, WorkInv, ListsInv, Stopped
<1>8. CASE DeleteMutex
  <2>1. /\ owner = "destroy" /\ owner' = "drain"
        /\ UNCHANGED <<task, callback>>
    BY <1>1, <1>8 DEF DeleteMutex, At
  <2> QED BY <1>2, <1>3, <2>1 DEF QueueInv, WorkInv, ListsInv, Stopped
<1>9. ~StartDeletesMutex /\ ~InitFails
  BY <1>1 DEF StartDeletesMutex, InitFails, At
<1> QED BY <1>4, <1>5, <1>6, <1>7, <1>8, <1>9

LEMMA PostsOnly ==
  ASSUME FreeInv, NEW a \in TypedAction, Post(a), a # TaskStop,
         UNCHANGED <<owner, task, current, callback, listed>>,
         owner # "down", Adds(a) => owner = "up",
         owner \in {"wait", "destroy", "drain"} => a.op = "RX_HANDLE"
  PROVE  QueueInv' /\ WorkInv' /\ ListsInv'
<1>1. QueueInv' /\ ListsInv'
  BY PostedInv
<1> QED BY <1>1 DEF WorkInv, FreeInv

LEMMA CallsPost ==
  ASSUME FreeInv, ServiceAdd \/ DelegateHostnameAdd \/ QueryAsyncNew
  PROVE  QueueInv' /\ WorkInv' /\ ListsInv'
<1>1. owner = "up" /\ UNCHANGED <<owner, task, current, callback, listed>>
  BY DEF ServiceAdd, DelegateHostnameAdd, QueryAsyncNew, Call
<1>2. \E a \in TypedAction : Post(a) /\ a # TaskStop
  BY ActionsTyped
     DEF ServiceAdd, DelegateHostnameAdd, QueryAsyncNew, Call, TaskStop, Act
<1> QED BY <1>1, <1>2, PostsOnly

LEMMA ReceivePosts ==
  ASSUME FreeInv, Receive
  PROVE  QueueInv' /\ WorkInv' /\ ListsInv'
<1>1. /\ owner \notin {"down", "failed", "drain", "lists"}
      /\ UNCHANGED <<owner, task, current, callback, listed>>
  BY DEF Receive
<1>2. \E a \in TypedAction :
        Post(a) /\ a.op = "RX_HANDLE" /\ ~Adds(a) /\ a # TaskStop
  BY ActionsTyped DEF Receive, Act, Adds, TaskStop
<1> QED BY <1>1, <1>2, PostsOnly

LEMMA EventPosts ==
  ASSUME FreeInv, HandleSystemEvent
  PROVE  QueueInv' /\ WorkInv' /\ ListsInv'
<1>1. /\ owner \in {"starting", "locked", "timed", "unlocked", "failed", "up"}
      /\ Post(SystemEvent)
      /\ UNCHANGED <<owner, task, current, callback, listed>>
  BY DEF HandleSystemEvent
<1>2. SystemEvent \in TypedAction /\ ~Adds(SystemEvent) /\ SystemEvent # TaskStop
  BY ActionsTyped DEF SystemEvent, Act, Adds, TaskStop
<1> QED BY <1>1, <1>2, PostsOnly

\* The timer has been stopped when the task is, so that a callback finds the
\* owner elsewhere.
LEMMA CallbackPosts ==
  ASSUME FreeInv, Fire \/ SchedulerRun \/ SearchRun
  PROVE  QueueInv' /\ WorkInv' /\ ListsInv'
<1>1. UNCHANGED <<owner, task, current, listed>>
  BY DEF Fire, SchedulerRun, SearchRun
<1>2. owner \notin Stopped
  BY DEF Fire, SchedulerRun, SearchRun, FreeInv, WorkInv, IInv, PhaseInv, Stopped
<1>3. WorkInv'
  BY <1>1, <1>2 DEF WorkInv, FreeInv
<1>4. CASE UNCHANGED actions
  <2>1. ListsInv'
    BY <1>1, <1>4 DEF FreeInv, ListsInv
  <2>2. QueueInv'
    BY <1>1, <1>4 DEF FreeInv, QueueInv, IsSettled
  <2> QED BY <1>3, <2>1, <2>2
<1>5. CASE \E a \in TypedAction : Post(a) /\ ~Adds(a) /\ a # TaskStop
  BY <1>1, <1>2, <1>3, <1>5, PostedInv DEF Stopped
<1>6. UNCHANGED actions \/ \E a \in TypedAction : Post(a) /\ ~Adds(a) /\ a # TaskStop
  BY ActionsTyped DEF Fire, SchedulerRun, SearchRun, Adds, TaskStop, Act
<1> QED BY <1>4, <1>5, <1>6

\* The queue had two free slots while the component was up.
LEMMA FreeBeginsInv ==
  ASSUME FreeInv, FreeBegins
  PROVE  QueueInv' /\ WorkInv' /\ ListsInv'
<1> USE DEF FreeInv, Quiet
<1>1. /\ owner = "up" /\ owner' = "hosts" /\ IsSettled
      /\ UNCHANGED <<task, current, callback, listed>>
  BY DEF FreeBegins, At
<1>2. actions \in Seq(TypedAction) /\ Len(actions) \in Nat /\ QueueLen \in Nat
  BY Kept
<1>3. Len(actions) + 2 <= QueueLen
  BY <1>1 DEF IInv, RoomInv
<1>4. HasRoom
  BY <1>2, <1>3 DEF HasRoom
<1>5. /\ ServicesClear \in TypedAction
      /\ ~Adds(ServicesClear) /\ ServicesClear # TaskStop
  BY ActionsTyped DEF ServicesClear, Adds, TaskStop, Act
<1>6. WorkInv'
  BY <1>1 DEF WorkInv, Stopped
<1>7. NotStopped(actions) /\ NoAdds(actions) /\ ~Adds(current)
  BY <1>1, SettledWhen DEF QueueInv
<1>8. CASE listed \cap Services # {}
  <2>1. actions' = Append(actions, ServicesClear)
    BY <1>4, <1>8 DEF FreeBegins
  <2>2. NotStopped(actions)' /\ NoAdds(actions)' /\ ClearWaits(actions, current)'
    BY <1>2, <1>5, <1>7, <2>1, QueueGrows
  <2>3. Len(actions') <= QueueLen
    BY <1>2, <1>3, <2>1
  <2>4. IsSettled'
    BY <1>1, <1>7, <2>2 DEF IsSettled, NoAdds
  <2>5. QueueInv' /\ ListsInv'
    BY <1>1, <2>2, <2>3, <2>4 DEF QueueInv, ListsInv, Stopped
  <2> QED BY <1>6, <2>5
<1>9. CASE listed \cap Services = {}
  <2>1. UNCHANGED actions
    BY <1>9 DEF FreeBegins
  <2>2. IsSettled'
    BY <1>1, <2>1 DEF IsSettled
  <2>3. QueueInv' /\ ListsInv'
    BY <1>1, <1>9, <2>1, <2>2 DEF QueueInv, ListsInv, Stopped
  <2> QED BY <1>6, <2>3
<1> QED BY <1>8, <1>9

LEMMA FreeHostsInv ==
  ASSUME FreeInv, FreeHosts
  PROVE  QueueInv' /\ WorkInv' /\ ListsInv'
<1>1. /\ owner = "hosts" /\ owner' = "timer" /\ listed' = listed \ Hosts
      /\ UNCHANGED <<task, current, callback, actions>>
  BY DEF FreeHosts, At
<1>2. IsSettled' <=> IsSettled
  BY <1>1 DEF IsSettled
<1>3. listed' \cap Services = listed \cap Services /\ listed' \cap Hosts = {}
  BY <1>1, KindsAssumption
<1> QED BY <1>1, <1>2, <1>3 DEF FreeInv, QueueInv, WorkInv, ListsInv, Stopped

LEMMA StopTaskInv ==
  ASSUME FreeInv, StopTask
  PROVE  QueueInv' /\ WorkInv' /\ ListsInv'
<1> USE DEF FreeInv, Quiet
<1>1. actions \in Seq(TypedAction) /\ Len(actions) \in Nat /\ QueueLen \in Nat
  BY Kept
<1>2. owner = "task" /\ owner' = "wait"
  BY DEF StopTask, At
<1>3. Len(actions) + 1 <= QueueLen
  BY <1>2 DEF IInv, RoomInv
<1>4. HasRoom
  BY <1>1, <1>3 DEF HasRoom
<1>5. /\ actions' = Append(actions, TaskStop)
      /\ UNCHANGED <<task, current, callback, listed>>
  BY <1>4 DEF StopTask
<1>6. TaskStop \in TypedAction /\ ~Adds(TaskStop)
  BY ActionsTyped DEF TaskStop, Adds, Act
<1>7. NotStopped(actions) /\ NoAdds(actions) /\ ~Adds(current) /\ task # "none"
  BY <1>2, SettledWhen DEF QueueInv, WorkInv, Stopped
<1>8. /\ ToldToStop(actions)' /\ NoAdds(actions)'
      /\ ClearWaits(actions, current) => ClearWaits(actions, current)'
  BY <1>1, <1>5, <1>6, <1>7, QueueGrows
<1>9. Len(actions') <= QueueLen
  BY <1>1, <1>3, <1>5
<1>10. IsSettled'
  BY <1>5, <1>7, <1>8 DEF IsSettled, NoAdds
<1>11. QueueInv'
  BY <1>2, <1>5, <1>7, <1>8, <1>9, <1>10 DEF QueueInv
<1>12. WorkInv' /\ ListsInv'
  BY <1>2, <1>5, <1>8 DEF WorkInv, ListsInv, Stopped
<1> QED BY <1>11, <1>12

LEMMA DrainInv ==
  ASSUME FreeInv, Drain
  PROVE  QueueInv' /\ WorkInv' /\ ListsInv' /\ named' = {}
<1> USE DEF FreeInv
<1>1. /\ owner = "drain" /\ owner' = "lists" /\ actions' = <<>>
      /\ UNCHANGED <<task, current, callback, listed>>
  BY DEF Drain, At
<1>2. OnlyReceived(actions) /\ current = NoAction
  BY <1>1 DEF QueueInv, IInv, PhaseInv, WorkInv
<1>3. \A i \in DOMAIN actions : ~Names(actions[i])
  BY <1>2 DEF OnlyReceived, Names
<1>4. named' = {}
  BY <1>3 DEF Drain, Carriers
<1>5. Len(actions') <= QueueLen /\ NotStopped(actions)' /\ IsSettled'
  <2>1. Len(<<>>) = 0 /\ \A i : i \notin DOMAIN <<>>
    OBVIOUS
  <2>2. QueueLen \in Nat
    BY Kept
  <2> QED BY <1>1, <1>2, <2>1, <2>2 DEF NotStopped, IsSettled, Adds, NoAction, Act
<1> QED BY <1>1, <1>4, <1>5 DEF QueueInv, WorkInv, ListsInv, Stopped

LEMMA FreeListsInv ==
  ASSUME FreeInv, FreeLists
  PROVE  QueueInv' /\ WorkInv' /\ ListsInv'
<1> USE DEF FreeInv
<1>1. /\ owner = "lists" /\ owner' = "down"
      /\ listed' = listed \ (Packets \cup Searches \cup Services)
      /\ UNCHANGED <<task, current, callback, actions>>
  BY DEF FreeLists, At
<1>2. listed \cap Hosts = {} /\ listed \subseteq Objects \ Received
  BY <1>1 DEF ListsInv, OwnInv, Owned, Stopped
<1>3. listed' = {}
  BY <1>1, <1>2 DEF Objects
<1>4. actions = <<>>
  BY <1>1 DEF IInv
<1>5. IsSettled' <=> IsSettled
  BY <1>1 DEF IsSettled
<1> QED BY <1>1, <1>3, <1>4, <1>5 DEF QueueInv, WorkInv, ListsInv, Stopped

LEMMA TakeInv ==
  ASSUME FreeInv, Take
  PROVE  QueueInv' /\ WorkInv' /\ ListsInv'
<1> USE DEF FreeInv
<1>1. /\ task = "idle" /\ actions # <<>> /\ actions' = Tail(actions)
      /\ UNCHANGED <<owner, callback, listed>>
  BY DEF Take
<1>2. current = NoAction
  BY <1>1 DEF WorkInv
<1>3. owner \in {"up", "hosts", "timer", "task", "wait"}
  BY <1>1 DEF IInv, PhaseInv, ThreadsInv, Phases, Starting
<1>4. actions \in Seq(TypedAction) /\ Len(actions) \in Nat /\ QueueLen \in Nat
  BY Kept
<1>5. Head(actions) \in TypedAction /\ Len(actions') <= Len(actions) /\ Len(actions') \in Nat
  BY <1>1, <1>4
<1>6. Len(actions') <= QueueLen
  BY <1>4, <1>5 DEF QueueInv
<1>7. /\ NoAdds(actions) => NoAdds(actions)' /\ ~Adds(Head(actions))
      /\ NotStopped(actions) => NotStopped(actions)' /\ Head(actions) # TaskStop
      /\ ToldToStop(actions) /\ Head(actions) = TaskStop => OnlyReceived(actions)'
      /\ ToldToStop(actions) /\ Head(actions) # TaskStop => ToldToStop(actions)'
      /\ ClearWaits(actions, NoAction) => ClearWaits(Tail(actions), Head(actions))
      /\ ToldToStop(actions) /\ Head(actions) = TaskStop => ~ClearWaits(actions, NoAction)
  BY <1>1, <1>4, QueueShrinks
<1>8. ~Adds(NoAction)
  BY DEF Adds, NoAction, Act
<1>9. CASE Head(actions) = TaskStop
  <2>1. task' = "none" /\ current' = NoAction
    BY <1>2, <1>9 DEF Take
  <2>2. owner = "wait" /\ ToldToStop(actions)
    BY <1>1, <1>3, <1>7, <1>9 DEF QueueInv
  <2>3. listed \cap Services = {} /\ OnlyReceived(actions)'
    BY <1>2, <1>7, <1>9, <2>2 DEF ListsInv
  <2>4. IsSettled'
    BY <1>7, <1>8, <2>1, <2>2, SettledWhen DEF QueueInv, Stopped, IsSettled, NoAdds
  <2>5. WorkInv' /\ ListsInv'
    BY <1>1, <1>2, <2>1, <2>2, <2>3 DEF WorkInv, ListsInv, Stopped, NoAction, TaskStop, Act
  <2>6. QueueInv'
    BY <1>1, <1>6, <2>1, <2>2, <2>3, <2>4 DEF QueueInv
  <2> QED BY <2>5, <2>6
<1>10. CASE Head(actions) # TaskStop
  <2>1. task' = "has" /\ current' = Head(actions)
    BY <1>10 DEF Take
  <2>2. IsSettled => IsSettled'
    BY <1>7, <2>1, SettledWhen DEF IsSettled, NoAdds
  <2>3. ClearWaits(actions, current) => ClearWaits(actions, current)'
    BY <1>1, <1>2, <1>7, <2>1
  <2>4. Head(actions) # NoAction
    BY <1>5 DEF TypedAction, Action, Ops, NoAction, Act
  <2>5. WorkInv'
    BY <1>1, <1>10, <2>1, <2>4 DEF WorkInv
  <2>6. ListsInv'
    BY <1>1, <2>3 DEF ListsInv
  <2>7. QueueInv'
    BY <1>1, <1>3, <1>6, <1>7, <1>10, <2>1, <2>2 DEF QueueInv
  <2> QED BY <2>5, <2>6, <2>7
<1> QED BY <1>9, <1>10

LEMMA LockInv ==
  ASSUME FreeInv, Lock
  PROVE  QueueInv' /\ WorkInv' /\ ListsInv'
<1>1. /\ task = "has" /\ task' = "locked"
      /\ UNCHANGED <<owner, current, callback, actions, listed>>
  BY DEF Lock
<1>2. IsSettled' <=> IsSettled
  BY <1>1 DEF IsSettled
<1> QED BY <1>1, <1>2 DEF FreeInv, QueueInv, WorkInv, ListsInv

LEMMA ExecuteInv ==
  ASSUME FreeInv, Execute
  PROVE  QueueInv' /\ WorkInv' /\ ListsInv'
<1> USE DEF FreeInv
<1>1. /\ task = "locked" /\ task' = "idle" /\ current' = NoAction
      /\ UNCHANGED <<owner, callback, actions>>
  BY DEF Execute
<1>2. /\ listed' \cap Hosts # {} =>
           listed \cap Hosts # {} \/ current.op = "DELEGATE_HOSTNAME_ADD"
      /\ listed' \cap Services # {} =>
           \/ current.op = "SERVICE_ADD"
           \/ listed \cap Services # {} /\ current # ServicesClear
  BY ExecuteOwned DEF Executed
<1>3. ~Adds(NoAction) /\ NoAction # TaskStop
  BY DEF Adds, NoAction, TaskStop, Act
<1>4. IsSettled => IsSettled'
  BY <1>1, <1>3 DEF IsSettled
<1>5. QueueInv' /\ WorkInv'
  BY <1>1, <1>3, <1>4 DEF QueueInv, WorkInv
<1>6. owner \in {"up", "hosts", "timer", "task", "wait"}
  BY <1>1 DEF IInv, PhaseInv, ThreadsInv, Phases, Starting
<1>7. owner # "up" => current.op # "SERVICE_ADD" /\ current.op # "DELEGATE_HOSTNAME_ADD"
  BY <1>6 DEF QueueInv, IsSettled, Adds, Stopped
<1>8. ClearWaits(actions, current) /\ current # ServicesClear => ClearWaits(actions, current)'
  BY <1>1 DEF ClearWaits
<1>9. ListsInv'
  BY <1>1, <1>2, <1>6, <1>7, <1>8 DEF ListsInv, Stopped
<1> QED BY <1>5, <1>9

\* With room in the queue and a start that does not fail, nothing is lost.
LEMMA LosesNothing == FreeInv => ~Loses
<1> SUFFICES ASSUME FreeInv PROVE ~Loses
  OBVIOUS
<1>1. ~InitFails
  BY DEF FreeInv, WorkInv, InitFails, At
<1>2. ~(StopTask /\ ~HasRoom)
  <2>1. owner = "task" => Len(actions) + 1 <= QueueLen
    BY DEF FreeInv, IInv, RoomInv
  <2> QED BY <2>1, Kept DEF StopTask, At, HasRoom
<1>3. ~(FreeLists /\ listed \cap Services # {})
  BY DEF FreeInv, ListsInv, FreeLists, At
<1> QED BY <1>1, <1>2, <1>3 DEF Loses

LEMMA FreeInvStep == FreeInv /\ [Next]_vars => FreeInv'
<1> SUFFICES ASSUME FreeInv, [Next]_vars PROVE FreeInv'
  OBVIOUS
<1>1. IInv' /\ Quiet'
  BY IStep DEF FreeInv, Quiet, Assumed
<1>2. OwnInv' /\ NoneIsLost'
  BY OwnStep, LosesNothing DEF FreeInv, OwnKept
<1>3. CASE UNCHANGED vars
  <2>1. IsSettled' <=> IsSettled
    BY <1>3 DEF IsSettled, vars
  <2> QED BY <1>1, <1>2, <1>3, <2>1 DEF vars, FreeInv, QueueInv, WorkInv, ListsInv
<1>4. ASSUME Next PROVE QueueInv' /\ WorkInv' /\ ListsInv'
  BY <1>4, OwnerGoesOn, CallsPost, ReceivePosts, EventPosts, CallbackPosts,
     FreeBeginsInv, FreeHostsInv, StopTaskInv, DrainInv, FreeListsInv, TakeInv,
     LockInv, ExecuteInv
     DEF Next, Owner
<1>5. ASSUME Next PROVE named' = {}
  <2>1. Drain \/ UNCHANGED named
    BY <1>5 DEF Next, Owner, InitServer, TakeMutex, StartTimer, CreateTask,
       StartDeletesMutex, InitFails, ServiceAdd, DelegateHostnameAdd, QueryAsyncNew,
       Call, FreeBegins, FreeHosts, StopTimer, StopTask, TaskStopped, DeleteMutex,
       FreeLists, Receive, HandleSystemEvent, Fire, SchedulerRun, SearchRun, Take,
       Lock, Execute
  <2> QED BY <2>1, DrainInv DEF FreeInv
<1> QED BY <1>1, <1>2, <1>3, <1>4, <1>5 DEF FreeInv

\* With room for two actions, a start that does not fail, no callback at work when
\* the timer is stopped and what was added executed, mdns_free leaves nothing and
\* frees each object once: what was received behind the stop is freed with its
\* action, and what is in a list is not named by any.
THEOREM FreedOnceEach == Quiet => (Spec => []EachIsFreedOnce)
<1>1. FreeInv => EachIsFreedOnce
  <2> SUFFICES ASSUME FreeInv PROVE EachIsFreedOnce
    OBVIOUS
  <2>1. Owned(heap, listed, actions, current, {}) /\ queued \subseteq listed \cap Packets
    BY DEF FreeInv, OwnInv
  <2>2. FreedOnce
    BY <2>1 DEF FreedOnce, Owned
  <2>3. NothingLeaks
    <3> SUFFICES ASSUME owner = "down"
                 PROVE  listed = {} /\ \A o \in Objects : heap[o] # "live"
      BY DEF NothingLeaks
    <3>1. listed = {} /\ actions = <<>> /\ current = NoAction
      BY DEF FreeInv, ListsInv, QueueInv, WorkInv, IInv, PhaseInv
    <3>2. \A o : ~Waits(o, actions) /\ ~Has(o, current)
      BY <3>1, NothingHeld DEF Waits
    <3> QED BY <3>1, <3>2 DEF FreeInv, NoneIsLost, NoneLost
  <2>4. /\ owner \in Phases /\ mutex \in {"none", "free", "service", "owner"}
        /\ task \in {"none", "idle", "has", "locked"}
        /\ armed \in BOOLEAN /\ callback \in {"no", "scheduler", "searches"}
        /\ Len(actions) <= QueueLen /\ named = {}
    BY DEF FreeInv, QueueInv, IInv, ThreadsInv
  <2>5. TypeOK
    BY <2>1, <2>4 DEF Owned, Phases, TypeOK
  <2> QED BY <2>2, <2>3, <2>5 DEF EachIsFreedOnce
<1>2. Quiet /\ Spec => []EachIsFreedOnce
  BY <1>1, FreeInvInit, FreeInvStep, PTL DEF Spec
<1> QED BY <1>2
=============================================================================
