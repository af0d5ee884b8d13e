------------------------------ MODULE MdnsSearch -------------------------------
(***************************************************************************)
(* The searches of the mDNS component (mdns.c).  A client allocates a      *)
(* search, posts it to the service task and waits for its semaphore, or    *)
(* polls it; the timer asks for it again each second and posts its end     *)
(* when the time is up; the parser adds what is answered and ends it when  *)
(* it has enough.  A search is an address, freed by the client that made   *)
(* it.  All searches are for one name here, and the addresses found for an *)
(* instance are left out; memory always suffices.                          *)
(***************************************************************************)
EXTENDS Integers, Sequences, FiniteSets, SequencesExt, Lists

CONSTANTS
  Clients,    \* the tasks that search, one search at a time each
  Searches,   \* the addresses of searches
  Types,      \* the types searched for
  Records,    \* the types of the records received
  Clean,      \* TRUE: packets are authoritative and not malformed
  Patient,    \* TRUE: a search is deleted after its results were fetched
  Requested,  \* the maxima of results clients ask for
  Byte,       \* a maximum and a number of results are kept modulo Byte
  Responders, \* the hosts that answer
  Interfaces,
  W,          \* the clock is unsigned, modulo W
  Start,      \* the clock when the observation starts
  Timeout,    \* the time a search takes at most
  Horizon,    \* bound: no search starts that would end after Start + Horizon
  QueueLen,   \* MDNS_ACTION_QUEUE_LEN
  MaxReceived \* bound: the packets received

ASSUME SearchAssumption ==
  /\ Clean \in BOOLEAN /\ Patient \in BOOLEAN
  /\ Requested \subseteq Nat /\ Byte \in Nat \ {0} /\ W \in Nat \ {0}
  /\ {Start, Timeout, Horizon, QueueLen, MaxReceived} \subseteq Nat

VARIABLES
  search,   \* what each address holds: a search, or Free
  list,     \* _mdns_server->search_once
  actions,  \* action_queue
  pc,       \* the search of each client and what it does with it
  texts,    \* the texts (items and lengths) allocated for each one's results
  elapsed,  \* the time since the start of the observation
  received  \* the packets received so far

vars == <<search, list, actions, pc, texts, elapsed, received>>

Free == [state |-> "FREE"]
Idle == [op |-> "idle"]

Init ==
  /\ search = [s \in Searches |-> Free]
  /\ list = <<>>
  /\ actions = <<>>
  /\ pc = [c \in Clients |-> Idle]
  /\ texts = [s \in Searches |-> 0]
  /\ elapsed = 0
  /\ received = 0

now == (Start + elapsed) % W

Act(op, arg) == [op |-> op, arg |-> arg]

HasRoom == Len(actions) < QueueLen

IsListed(s) == s \in Range(list)

-----------------------------------------------------------------------------
(* Clients.                                                                *)

\* _mdns_search_init.
NewSearch(type, max) ==
  [state |-> "INIT", type |-> type, requested |-> max, max |-> max % Byte,
   num |-> 0, startedAt |-> now, elapsed |-> elapsed, result |-> <<>>,
   done |-> FALSE]

\* mdns_query_generic and mdns_query_async_new: refused when the queue is full.
Query(c, op) ==
  /\ pc[c] = Idle
  /\ elapsed + Timeout + 1 < Horizon
  /\ HasRoom
  /\ \E s \in Searches, type \in Types, max \in Requested :
       /\ search[s] = Free
       /\ search' = [search EXCEPT ![s] = NewSearch(type, max)]
       /\ pc' = [pc EXCEPT ![c] = [op |-> op, search |-> s]]
       /\ actions' = Append(actions, Act("SEARCH_ADD", s))
  /\ UNCHANGED <<list, texts, elapsed, received>>

QueryGeneric(c)  == Query(c, "query")
QueryAsyncNew(c) == Query(c, "async")

TextsOf(results) == Cardinality({i \in DOMAIN results : results[i].text})

\* mdns_query_results_free.
TextsFreed(results) == 2 * TextsOf(results)

\* The client frees the results it has fetched.
FreeSearch(c, fetched) ==
  LET s == pc[c].search
  IN  /\ search' = [search EXCEPT ![s] = Free]
      /\ texts' = IF fetched THEN [texts EXCEPT ![s] = @ - TextsFreed(search[s].result)]
                  ELSE texts
      /\ pc' = [pc EXCEPT ![c] = Idle]

QueryReturns(c) ==
  /\ pc[c].op = "query"
  /\ search[pc[c].search].done
  /\ FreeSearch(c, TRUE)
  /\ UNCHANGED <<list, actions, elapsed, received>>

\* mdns_query_async_get_results takes the semaphore.
GetResults(c) ==
  /\ pc[c].op = "async"
  /\ search[pc[c].search].done
  /\ search' = [search EXCEPT ![pc[c].search].done = FALSE]
  /\ pc' = [pc EXCEPT ![c].op = "fetched"]
  /\ UNCHANGED <<list, actions, texts, elapsed, received>>

\* mdns_query_async_delete refuses a search whose state is not off.
QueryAsyncDelete(c) ==
  /\ pc[c].op = "fetched" \/ (~Patient /\ pc[c].op = "async")
  /\ search[pc[c].search].state = "OFF"
  /\ FreeSearch(c, pc[c].op = "fetched")
  /\ UNCHANGED <<list, actions, elapsed, received>>

-----------------------------------------------------------------------------
(* The timer.                                                              *)

Tick ==
  /\ elapsed < Horizon
  /\ elapsed' = elapsed + 1
  /\ UNCHANGED <<search, list, actions, pc, texts, received>>

IsOver(s) == now > (search[s].startedAt + Timeout) % W

\* Mutant: a search whose end was posted keeps running.
PostEndRunning(s) ==
  /\ search' = [search EXCEPT ![s].state = "RUNNING"]
  /\ actions' = IF HasRoom THEN Append(actions, Act("SEARCH_END", s)) ELSE actions

\* The end of a search is posted once; with the queue full it is tried again.
PostEnd(s) ==
  /\ search' = [search EXCEPT ![s].state = IF HasRoom THEN "OFF" ELSE "RUNNING"]
  /\ actions' = IF HasRoom THEN Append(actions, Act("SEARCH_END", s)) ELSE actions

\* A new search is asked for at once, and again after a second (here after any
\* time).
PostSend(s) ==
  /\ search' = [search EXCEPT ![s].state = "RUNNING"]
  /\ actions' = IF HasRoom THEN Append(actions, Act("SEARCH_SEND", s)) ELSE actions

\* One turn of the loop of _mdns_search_run.
SearchRun(s) ==
  /\ IsListed(s)
  /\ search[s].state \in {"INIT", "RUNNING"}
  /\ \/ IsOver(s)  /\ PostEnd(s)
     \/ ~IsOver(s) /\ PostSend(s)
  /\ UNCHANGED <<list, pc, texts, elapsed, received>>

-----------------------------------------------------------------------------
(* Packets received: one record each.                                      *)

Receive ==
  /\ received < MaxReceived
  /\ HasRoom
  /\ received' = received + 1
  /\ \E r \in Records, h \in Responders, i \in Interfaces,
        authoritative \in BOOLEAN, malformed \in BOOLEAN :
       /\ Clean => authoritative /\ ~malformed
       /\ actions' = Append(actions, Act("RX_HANDLE",
            [record |-> r, host |-> h, itf |-> i, finishes |-> authoritative /\ ~malformed]))
  /\ UNCHANGED <<search, list, pc, texts, elapsed>>

\* _mdns_search_find_from: the searches a record may answer.
Answers(record, type) ==
  CASE record = "PTR" -> type = "PTR"
    [] record = "SRV" -> type \in {"PTR", "SRV"}
    [] record = "TXT" -> type \in {"PTR", "TXT"}
    [] record = "A"   -> type = "A"

Matching(record) ==
  {i \in DOMAIN list : /\ search[list[i]].state # "OFF"
                       /\ Answers(record, search[list[i]].type)}

\* The first search that matches; an address is for all of them.
Answered(record) ==
  {list[i] : i \in {j \in Matching(record) :
     record = "A" \/ \A k \in Matching(record) : j <= k}}

\* The results of a search for a host or a text differ by interface only.
Key(type, p) ==
  IF type \in {"A", "TXT"} THEN [host |-> "any", itf |-> p.itf]
                           ELSE [host |-> p.host, itf |-> p.itf]

\* Mutant: the maximum is not looked at.
MayAddAlways(q) == TRUE

HasResult(q, p) == {i \in DOMAIN q.result : q.result[i].key = Key(q.type, p)}

MayAdd(q) == q.max = 0 \/ q.num < q.max

\* _mdns_search_result_add_ptr, _srv, _ip and _txt.
WithResult(q, p) ==
  LET text == p.record = "TXT"
      at   == HasResult(q, p)
  IN  IF at # {}
      THEN [q EXCEPT !.result = [i \in DOMAIN @ |->
             IF i \in at /\ text THEN [@[i] EXCEPT !.text = TRUE] ELSE @[i]]]
      ELSE IF MayAdd(q)
      THEN [q EXCEPT !.result = <<[key |-> Key(q.type, p), text |-> text]>> \o @,
                     !.num = (@ + 1) % Byte]
      ELSE q

\* The text for a PTR search is only made for a result that has none; that for
\* a TXT search is made first, and of one not kept only the items are freed,
\* or nothing when there are results enough.
TextsMade(q, p) ==
  LET at   == HasResult(q, p)
      kept == TextsOf(WithResult(q, p).result) - TextsOf(q.result)
  IN  IF p.record # "TXT" THEN 0
      ELSE IF q.type = "PTR" \/ kept = 1 THEN 2 * kept
      ELSE IF at # {} THEN 1 ELSE 2

\* _mdns_search_finish_done and _mdns_search_finish.
Enough(q) == q.max # 0 /\ q.num >= q.max

Finished(q) == [q EXCEPT !.state = "OFF", !.done = TRUE]

Parse(p) ==
  LET hit     == Answered(p.record)
      after    == [s \in Searches |->
                    IF s \in hit THEN WithResult(search[s], p) ELSE search[s]]
      enough  == {s \in Range(list) : p.finishes /\ Enough(after[s])}
  IN  /\ search' = [s \in Searches |-> IF s \in enough THEN Finished(after[s]) ELSE after[s]]
      /\ list' = Keep(list, Searches \ enough)
      /\ texts' = [s \in Searches |->
           IF s \in hit THEN texts[s] + TextsMade(search[s], p) ELSE texts[s]]

-----------------------------------------------------------------------------
(* The service task.                                                       *)

SearchAdd(s) ==
  /\ list' = <<s>> \o list
  /\ UNCHANGED <<search, texts>>

\* A search that is no longer in the list is not asked for; what is sent
\* changes nothing here.
SearchSend(s) == UNCHANGED <<search, list, texts>>

\* Mutant: the semaphore of the search is not given.
SearchEndSilent(s) ==
  /\ search' = [search EXCEPT ![s] = IF @ = Free THEN @ ELSE [@ EXCEPT !.state = "OFF"]]
  /\ list' = Keep(list, Searches \ {s})
  /\ UNCHANGED texts

SearchEnd(s) ==
  /\ search' = [search EXCEPT ![s] = IF @ = Free THEN @ ELSE Finished(@)]
  /\ list' = Keep(list, Searches \ {s})
  /\ UNCHANGED texts

Execute ==
  /\ actions # <<>>
  /\ actions' = Tail(actions)
  /\ LET a == Head(actions)
     IN  \/ a.op = "SEARCH_ADD"  /\ SearchAdd(a.arg)
         \/ a.op = "SEARCH_SEND" /\ SearchSend(a.arg)
         \/ a.op = "SEARCH_END"  /\ SearchEnd(a.arg)
         \/ a.op = "RX_HANDLE"   /\ Parse(a.arg)
  /\ UNCHANGED <<pc, elapsed, received>>

Next ==
  \/ \E c \in Clients : \/ QueryGeneric(c) \/ QueryReturns(c)
                        \/ QueryAsyncNew(c) \/ GetResults(c) \/ QueryAsyncDelete(c)
  \/ Tick
  \/ \E s \in Searches : SearchRun(s)
  \/ Receive
  \/ Execute

Spec == Init /\ [][Next]_vars

\* Time passes; the timer and the service task run; a client that can take
\* the semaphore does.
FairSpec ==
  /\ Spec
  /\ WF_vars(Tick) /\ WF_vars(Execute)
  /\ \A s \in Searches : WF_vars(SearchRun(s))
  /\ \A c \in Clients : WF_vars(QueryReturns(c))

-----------------------------------------------------------------------------
(* Properties.                                                             *)

ResultType ==
  [key : [host : Responders \cup {"any"}, itf : Interfaces], text : BOOLEAN]

SearchType ==
  [state : {"INIT", "RUNNING", "OFF"}, type : Types, requested : Requested,
   max : 0..(Byte - 1), num : 0..(Byte - 1), startedAt : 0..(W - 1),
   elapsed : 0..Horizon, result : Seq(ResultType), done : BOOLEAN]

Actions ==
  [op : {"SEARCH_ADD", "SEARCH_SEND", "SEARCH_END"}, arg : Searches]
    \cup [op : {"RX_HANDLE"}, arg : [record : Records, host : Responders,
                                    itf : Interfaces, finishes : BOOLEAN]]

ClientType ==
  {Idle} \cup [op : {"query", "async", "fetched"}, search : Searches]

TypeOK ==
  /\ search \in [Searches -> SearchType \cup {Free}]
  /\ pc \in [Clients -> ClientType]
  /\ list \in Seq(Searches)
  /\ actions \in Seq(Actions) /\ Len(actions) <= QueueLen
  /\ texts \in [Searches -> Int]
  /\ elapsed \in 0..Horizon /\ received \in 0..MaxReceived

\* The end of a search that waits to be executed is of a search that is still
\* there, in the list and not yet finished: none is finished twice or after
\* its client has freed it.
EndIsOfListed ==
  \A i \in DOMAIN actions : actions[i].op = "SEARCH_END" =>
    /\ IsListed(actions[i].arg)
    /\ search[actions[i].arg].state = "OFF"

\* The list holds each search once, and none that has been freed.
ListIsLive == IsInjective(list) /\ \A s \in Range(list) : search[s] # Free

\* All of these: the end of a search is executed once, while the search is in
\* the list, and the list holds no search twice or freed.
SearchesEndOnce == TypeOK /\ EndIsOfListed /\ ListIsLive

\* A search has no more results than its client asked for, if it gave a number.
ResultsWithinMax ==
  \A s \in Searches : search[s] # Free /\ search[s].requested # 0 =>
    Len(search[s].result) <= search[s].requested

\* One result for each instance and interface, whichever record comes first.
NoResultTwice ==
  \A s \in Searches : search[s] # Free =>
    IsInjective([i \in DOMAIN search[s].result |-> search[s].result[i].key])

\* Each text belongs to a result.
NothingLeaks ==
  \A s \in Searches :
    texts[s] = IF search[s] = Free THEN 0 ELSE 2 * TextsOf(search[s].result)

\* A search holds no more results than asked for, none twice, and all that was
\* allocated for them.
ResultsAreKept == TypeOK /\ ResultsWithinMax /\ NoResultTwice /\ NothingLeaks

\* A search is ended by the timer only when its time is over.
EndsInTime ==
  \A s \in Searches :
    /\ search[s].state \in {"INIT", "RUNNING"} /\ search'[s].state = "OFF"
    /\ actions' = Append(actions, Act("SEARCH_END", s))
    => elapsed - search[s].elapsed > Timeout

NotCutShort == [][EndsInTime]_vars

\* A client that waits for its search gets an answer.
QueriesReturn == \A c \in Clients : pc[c].op = "query" ~> pc[c] = Idle
=============================================================================
