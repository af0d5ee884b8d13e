---------------------------- MODULE MdnsServices -------------------------------
(***************************************************************************)
(* The services of the mDNS component (mdns.c): client tasks call the API, *)
(* which looks a service up without a lock, copies what it was given and   *)
(* posts an action with the address of the service; the service task       *)
(* executes the actions in order.  Only mdns_service_add waits, polling    *)
(* until the service is listed.  An item is an address, used again after   *)
(* it is freed.  A lookup and its post are one step here: what might come  *)
(* between them, a removal, is what Careful rules out.  What the pcbs do   *)
(* is in MdnsPcb; memory always suffices.                                  *)
(***************************************************************************)
EXTENDS Integers, Sequences, FiniteSets, SequencesExt, Lists

CONSTANTS
  Clients,     \* the tasks that call the API
  Adders,      \* those that add services
  Careful,     \* TRUE: no client names a service while its removal is pending
  Prompt,      \* TRUE: no add takes the two seconds it waits at most
  Ops,         \* the operations the clients use
  Items,       \* the addresses of the service items
  Types,       \* the types (and protocols) of services
  Instances,   \* the instance names clients give
  Default,     \* the instance name of a service added with none
  Values,      \* ports and values of text items
  Keys,        \* keys of text items
  Subtypes,
  MaxServices, \* MDNS_MAX_SERVICES
  QueueLen,    \* MDNS_ACTION_QUEUE_LEN
  MaxCalls     \* bound: the calls clients make

None == "none"

ASSUME ServicesAssumption ==
  /\ Adders \subseteq Clients
  /\ {Careful, Prompt} \subseteq BOOLEAN
  /\ Default \in Instances
  /\ None \notin Items \cup Instances \cup Values
  /\ IsFiniteSet(Items) /\ IsFiniteSet(Keys)
  /\ {MaxServices, QueueLen, MaxCalls} \subseteq Nat

VARIABLES
  item,     \* what each address holds: a service, or Free
  services, \* _mdns_server->services
  actions,  \* action_queue
  pc,       \* the add each client waits for, or Idle
  blocks,   \* the strings allocated and not freed
  wanted,   \* history: each service as the accepted calls make it
  failed,   \* history: the addresses of services whose add has failed
  calls     \* the calls so far

vars == <<item, services, actions, pc, blocks, wanted, failed, calls>>

Free == [free |-> TRUE]
Idle == [free |-> TRUE]

Init ==
  /\ item = [a \in Items |-> Free]
  /\ services = <<>>
  /\ actions = <<>>
  /\ pc = [c \in Clients |-> Idle]
  /\ blocks = 0
  /\ wanted = item
  /\ failed = {}
  /\ calls = 0

-----------------------------------------------------------------------------
(* Services.                                                               *)

\* Texts: the function of the keys a service has.
Texts    == [Keys -> Values \cup {None}]
KeysOf(text) == {k \in Keys : text[k] # None}

Service(type, name, port, text) ==
  [free |-> FALSE, type |-> type, name |-> name, port |-> port, text |-> text,
   subs |-> <<>>]

\* The strings a service has besides type, protocol and host name.
Strings(s) ==
  IF s = Free THEN 0
  ELSE (IF s.name = None THEN 0 ELSE 1) + 2 * Cardinality(KeysOf(s.text))
       + Len(s.subs)

\* The instance name, the default one if there is none.
InstanceName(name) == IF name = None THEN Default ELSE name

\* _mdns_service_match_instance, _mdns_service_match if no name is given.
Matches(s, name, type) ==
  s.type = type /\ (name # None => InstanceName(s.name) = name)

\* _mdns_get_service_item_instance: the first that matches.
Found(name, type) ==
  {services[i] : i \in {j \in DOMAIN services :
     /\ Matches(item[services[j]], name, type)
     /\ \A k \in 1..(j - 1) : ~Matches(item[services[k]], name, type)}}

\* _mdns_can_add_more_services.
CanAddMore == Len(services) < MaxServices

-----------------------------------------------------------------------------
(* Actions and their effect on the service they name.                      *)

Act(op, a, arg) == [op |-> op, item |-> a, arg |-> arg]

\* The strings copied into an action.
Copies(op, arg) ==
  CASE op = "TXT_REPLACE"  -> 2 * Cardinality(KeysOf(arg))
    [] op = "TXT_SET"      -> 2
    [] op \in {"TXT_DEL", "SUBTYPE_ADD", "INSTANCE_SET"} -> 1
    [] OTHER               -> 0

Effect(op, s, arg) ==
  CASE op = "PORT_SET"     -> [s EXCEPT !.port = arg]
    [] op = "TXT_REPLACE"  -> [s EXCEPT !.text = arg]
    [] op = "TXT_SET"      -> [s EXCEPT !.text[arg.key] = arg.value]
    [] op = "TXT_DEL"      -> [s EXCEPT !.text[arg] = None]
    [] op = "SUBTYPE_ADD"  -> [s EXCEPT !.subs = <<arg>> \o @]
    [] op = "INSTANCE_SET" -> [s EXCEPT !.name = arg]
    [] OTHER               -> s

\* The strings freed when the action is executed: those replaced, the key of
\* an item that is set again, the key that named the item removed.
Freed(op, s, arg) ==
  CASE op = "TXT_REPLACE"  -> 2 * Cardinality(KeysOf(s.text))
    [] op = "TXT_SET"      -> IF s.text[arg.key] = None THEN 0 ELSE 2
    [] op = "TXT_DEL"      -> IF KeysOf(s.text) = {} THEN 0
                              ELSE IF s.text[arg] = None THEN 1 ELSE 3
    [] op = "INSTANCE_SET" -> IF s.name = None THEN 0 ELSE 1
    [] OTHER               -> 0

-----------------------------------------------------------------------------
(* The API.                                                                *)

Call(c) == pc[c] = Idle /\ calls < MaxCalls /\ calls' = calls + 1

HasRoom == Len(actions) < QueueLen

\* What is copied is freed again when the queue is full.
Post(action, copies) ==
  IF HasRoom THEN actions' = Append(actions, action) /\ blocks' = blocks + copies
             ELSE UNCHANGED <<actions, blocks>>

\* A removal of the service is pending.
Removing(a) ==
  \E i \in DOMAIN actions :
    \/ actions[i].op = "DEL" /\ actions[i].item = a
    \/ actions[i].op = "CLEAR"

\* All calls that change a service: nothing happens if it is not found.
Change(c, op, name, type, arg) ==
  /\ op \in Ops
  /\ Call(c)
  /\ \E a \in Found(name, type) :
       /\ Careful => ~Removing(a)
       /\ Post(Act(op, a, arg), Copies(op, arg))
       /\ wanted' = IF HasRoom THEN [wanted EXCEPT ![a] = Effect(op, @, arg)]
                               ELSE wanted
  /\ UNCHANGED <<item, services, pc, failed>>

PortSet(c, name, type) == \E p \in Values : Change(c, "PORT_SET", name, type, p)
TxtSet(c, name, type) == \E t \in Texts : Change(c, "TXT_REPLACE", name, type, t)
TxtItemSet(c, name, type) ==
  \E k \in Keys, v \in Values :
    Change(c, "TXT_SET", name, type, [key |-> k, value |-> v])
TxtItemRemove(c, name, type) ==
  \E k \in Keys : Change(c, "TXT_DEL", name, type, k)
SubtypeAdd(c, name, type) ==
  \E s \in Subtypes : Change(c, "SUBTYPE_ADD", name, type, s)
InstanceNameSet(c, name, type) ==
  \E n \in Instances : Change(c, "INSTANCE_SET", name, type, n)
ServiceRemove(c, name, type) == Change(c, "DEL", name, type, None)

RemoveAll(c) ==
  /\ "CLEAR" \in Ops
  /\ services # <<>>
  /\ Call(c)
  /\ Post(Act("CLEAR", None, None), 0)
  /\ UNCHANGED <<item, services, pc, wanted, failed>>

AddRefused(name, type) == ~CanAddMore \/ Found(name, type) # {}

Add(c, name, type) ==
  /\ c \in Adders
  /\ ~AddRefused(name, type)
  /\ Call(c)
  /\ \E a \in Items, p \in Values, t \in Texts :
       LET s == Service(type, name, p, t)
       IN  /\ item[a] = Free
           /\ Post(Act("ADD", a, None), Strings(s))
           /\ IF HasRoom
              THEN /\ item' = [item EXCEPT ![a] = s]
                   /\ wanted' = [wanted EXCEPT ![a] = s]
                   /\ failed' = failed \ {a}
                   /\ pc' = [pc EXCEPT ![c] =
                        [free |-> FALSE, item |-> a, name |-> name, type |-> type]]
              ELSE UNCHANGED <<item, wanted, failed, pc>>
  /\ UNCHANGED services

\* The poll that finds the service.
AddReturns(c) ==
  /\ pc[c] # Idle
  /\ Found(pc[c].name, pc[c].type) # {}
  /\ pc' = [pc EXCEPT ![c] = Idle]
  /\ UNCHANGED <<item, services, actions, blocks, wanted, failed, calls>>

AddPending(a) == \E i \in DOMAIN actions : actions[i] = Act("ADD", a, None)

AddTimesOut(c) ==
  /\ pc[c] # Idle
  /\ Prompt => ~AddPending(pc[c].item)
  /\ Found(pc[c].name, pc[c].type) = {}
  /\ pc' = [pc EXCEPT ![c] = Idle]
  /\ failed' = failed \cup (IF AddPending(pc[c].item) THEN {pc[c].item} ELSE {})
  /\ UNCHANGED <<item, services, actions, blocks, wanted, calls>>

AddGoesOn(c) == AddReturns(c) \/ AddTimesOut(c)

Calls(c) ==
  \/ \E name \in Instances \cup {None}, type \in Types :
       \/ Add(c, name, type)
       \/ PortSet(c, name, type)    \/ TxtSet(c, name, type)
       \/ TxtItemSet(c, name, type) \/ TxtItemRemove(c, name, type)
       \/ SubtypeAdd(c, name, type) \/ InstanceNameSet(c, name, type)
       \/ ServiceRemove(c, name, type)
  \/ RemoveAll(c)

-----------------------------------------------------------------------------
(* The service task: _mdns_execute_action.                                 *)

\* The strings of the services at some addresses.
StringsOf(as) == Total([a \in as |-> Strings(item[a])])

FreeItems(as) ==
  /\ item' = [a \in Items |-> IF a \in as THEN Free ELSE item[a]]
  /\ wanted' = [a \in Items |-> IF a \in as THEN Free ELSE wanted[a]]
  /\ blocks' = blocks - StringsOf(as)

ServiceAdd(action) ==
  /\ action.op = "ADD"
  /\ services' = <<action.item>> \o services
  /\ UNCHANGED <<item, wanted, blocks>>

\* Mutant: the head of the list is not looked at.
UnlinkedFromSecond(a) ==
  IF services = <<>> THEN <<>>
  ELSE <<Head(services)>> \o Keep(Tail(services), Items \ {a})

Unlinked(a) == Keep(services, Items \ {a})

\* The address is only compared with those in the list.
ServiceDel(action) ==
  /\ action.op = "DEL"
  /\ IF action.item \in Range(services)
     THEN services' = Unlinked(action.item) /\ FreeItems({action.item})
     ELSE UNCHANGED <<services, item, wanted, blocks>>

ServicesClear(action) ==
  /\ action.op = "CLEAR"
  /\ services' = <<>>
  /\ FreeItems(Range(services))

\* Mutant: the new text items are added to the old ones.
ServiceChangeAddsTexts(action) ==
  LET a == action.item
      s == item[a]
  IN  /\ action.op \notin {"ADD", "DEL", "CLEAR"}
      /\ IF s = Free THEN UNCHANGED item
         ELSE item' = [item EXCEPT ![a] =
           IF action.op # "TXT_REPLACE" THEN Effect(action.op, s, action.arg)
           ELSE [s EXCEPT !.text = [k \in Keys |->
                  IF action.arg[k] = None THEN s.text[k] ELSE action.arg[k]]]]
      /\ UNCHANGED <<services, wanted, blocks>>

\* The others write to the address: to whatever is there by now.
ServiceChange(action) ==
  LET s == item[action.item]
  IN  /\ action.op \notin {"ADD", "DEL", "CLEAR"}
      /\ IF s = Free THEN UNCHANGED <<item, blocks>>
         ELSE /\ item' = [item EXCEPT ![action.item] =
                           Effect(action.op, s, action.arg)]
              /\ blocks' = blocks - Freed(action.op, s, action.arg)
      /\ UNCHANGED <<services, wanted>>

Execute ==
  /\ actions # <<>>
  /\ actions' = Tail(actions)
  /\ LET action == Head(actions)
     IN  ServiceAdd(action) \/ ServiceDel(action) \/ ServicesClear(action)
           \/ ServiceChange(action)
  /\ UNCHANGED <<pc, failed, calls>>

Next ==
  \/ \E c \in Clients : Calls(c) \/ AddGoesOn(c)
  \/ Execute

Spec == Init /\ [][Next]_vars

\* The service task runs, and a client that waits goes on polling.
FairSpec ==
  /\ Spec
  /\ WF_vars(Execute)
  /\ \A c \in Clients : WF_vars(AddGoesOn(c))

-----------------------------------------------------------------------------
(* Properties.                                                             *)

ServiceType ==
  [free : {FALSE}, type : Types, name : Instances \cup {None}, port : Values,
   text : Texts, subs : Seq(Subtypes)]

\* What an action carries, by its operation.
Carries(action) ==
  CASE action.op = "CLEAR"        -> action.item = None
    [] action.op \in {"ADD", "DEL"} -> action.item \in Items /\ action.arg = None
    [] action.op = "PORT_SET"     -> action.item \in Items /\ action.arg \in Values
    [] action.op = "TXT_REPLACE"  -> action.item \in Items /\ action.arg \in Texts
    [] action.op = "TXT_SET"      -> /\ action.item \in Items
                                     /\ action.arg.key \in Keys /\ action.arg.value \in Values
    [] action.op = "TXT_DEL"      -> action.item \in Items /\ action.arg \in Keys
    [] action.op = "SUBTYPE_ADD"  -> action.item \in Items /\ action.arg \in Subtypes
    [] action.op = "INSTANCE_SET" -> action.item \in Items /\ action.arg \in Instances

Adding == [free : {FALSE}, item : Items, name : Instances \cup {None}, type : Types]

\* (NothingLeaks says what blocks is.)
TypeOK ==
  /\ item \in [Items -> ServiceType \cup {Free}]
  /\ wanted \in [Items -> ServiceType \cup {Free}]
  /\ services \in Seq(Items)
  /\ Len(actions) <= QueueLen
  /\ \A i \in DOMAIN actions : Carries(actions[i])
  /\ pc \in [Clients -> Adding \cup {Idle}]
  /\ failed \subseteq Items /\ calls \in 0..MaxCalls

\* Every service has one owner: the list, once, or the action that will add
\* it; what has none has been freed.
Owners(a) ==
  {<<"list", i>> : i \in {j \in DOMAIN services : services[j] = a}} \cup
  {<<"action", i>> : i \in {j \in DOMAIN actions : actions[j] = Act("ADD", a, None)}}

OneOwner ==
  \A a \in Items : Cardinality(Owners(a)) = IF item[a] = Free THEN 0 ELSE 1

\* The strings that were allocated are those of the services and of the
\* actions that wait: none is lost, none is freed twice.
NothingLeaks ==
  blocks = StringsOf(Items)
           + Total([i \in DOMAIN actions |-> Copies(actions[i].op, actions[i].arg)])

\* The service an action names is still there when the action is executed:
\* a service removed before it would have been answered with "not found".
NamesLiveService ==
  actions # <<>> =>
    LET a == Head(actions)
    IN  a.op \notin {"ADD", "DEL", "CLEAR"} => a.item \in Range(services)

\* Once no action waits, each service is as the calls, in their order, made it.
LastCallWins ==
  actions = <<>> => \A a \in Range(services) : item[a] = wanted[a]

\* There are never more services than configured.
WithinMaxServices == Len(services) <= MaxServices

\* No two services have the same type and instance name.
NoTwins ==
  \A i, j \in DOMAIN services :
    LET s == item[services[i]]
        t == item[services[j]]
    IN  i # j /\ s.type = t.type => InstanceName(s.name) # InstanceName(t.name)

\* Both of these: every service has one owner, and no action names a service
\* that is gone.
ItemsAreOwned == TypeOK /\ OneOwner /\ NamesLiveService

\* All of these: the services are as the calls made them, none is there twice,
\* and there is room for them.
ListIsAsCalled == LastCallWins /\ NoTwins /\ WithinMaxServices

\* A service whose add has failed does not appear later.
FailedIsNotAdded == failed \cap Range(services) = {}

\* Every add returns.
AddsReturn == \A c \in Adders : pc[c] # Idle ~> pc[c] = Idle
=============================================================================
