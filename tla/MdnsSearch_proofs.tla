--------------------------- MODULE MdnsSearch_proofs ---------------------------
(***************************************************************************)
(* Proofs about the searches of the mDNS component: the end of a search is *)
(* executed once and while the search is listed, and its results are those *)
(* asked for, none twice, with nothing allocated that no result holds.     *)
(***************************************************************************)
EXTENDS MdnsSearch, Lists_proofs


\* The constants, one by one.
LEMMA Constants ==
  /\ Clean \in BOOLEAN /\ Patient \in BOOLEAN
  /\ \A m \in Requested : m \in Nat
  /\ Byte \in Nat /\ Byte > 0 /\ W \in Nat /\ W > 0
  /\ Start \in Nat /\ Timeout \in Nat /\ Horizon \in Nat
  /\ QueueLen \in Nat /\ MaxReceived \in Nat
BY SearchAssumption

-----------------------------------------------------------------------------
(* Single searches.                                                        *)

\* The fields of a search; none is a freed address.
LEMMA Fields ==
  ASSUME NEW q \in SearchType
  PROVE  /\ q # Free
         /\ q.state \in {"INIT", "RUNNING", "OFF"} /\ q.type \in Types
         /\ q.requested \in Requested /\ q.max \in 0..(Byte - 1)
         /\ q.num \in 0..(Byte - 1) /\ q.result \in Seq(ResultType)
         /\ q.startedAt \in 0..(W - 1) /\ q.elapsed \in 0..Horizon
         /\ q.done \in BOOLEAN
<1>1. /\ q.state \in {"INIT", "RUNNING", "OFF"} /\ q.type \in Types
      /\ q.requested \in Requested /\ q.max \in 0..(Byte - 1)
      /\ q.num \in 0..(Byte - 1) /\ q.result \in Seq(ResultType)
      /\ q.startedAt \in 0..(W - 1) /\ q.elapsed \in 0..Horizon
      /\ q.done \in BOOLEAN
  BY DEF SearchType
<1>2. Free.state = "FREE"
  BY DEF Free
<1> QED BY <1>1, <1>2

\* q and r differ in their state and in whether they are done, at most.
SameResults(q, r) ==
  /\ r.type = q.type /\ r.requested = q.requested /\ r.max = q.max
  /\ r.num = q.num /\ r.result = q.result
  /\ r.startedAt = q.startedAt /\ r.elapsed = q.elapsed

\* A search may get another state.
LEMMA StateSet ==
  ASSUME NEW q \in SearchType, NEW state \in {"INIT", "RUNNING", "OFF"}
  PROVE  LET r == [q EXCEPT !.state = state]
         IN  r \in SearchType /\ SameResults(q, r) /\ r.state = state /\ r.done = q.done
BY DEF SearchType, SameResults

\* Its semaphore may be taken.
LEMMA SemaphoreTaken ==
  ASSUME NEW q \in SearchType
  PROVE  LET r == [q EXCEPT !.done = FALSE]
         IN  r \in SearchType /\ SameResults(q, r) /\ r.state = q.state /\ r.done = FALSE
BY DEF SearchType, SameResults

\* It may be finished.
LEMMA FinishedIs ==
  ASSUME NEW q \in SearchType
  PROVE  /\ Finished(q) \in SearchType /\ SameResults(q, Finished(q))
         /\ Finished(q).state = "OFF" /\ Finished(q).done = TRUE
BY DEF SearchType, SameResults, Finished

\* A packet that was received.
Packet ==
  [record : Records, host : Responders, itf : Interfaces, finishes : BOOLEAN]

\* The result that a packet makes, if it makes one.
NewResult(q, p) == [key |-> Key(q.type, p), text |-> p.record = "TXT"]

\* The results of which those that a packet is about have a text.
Marked(q, p) ==
  [i \in DOMAIN q.result |->
    IF i \in HasResult(q, p) /\ p.record = "TXT" THEN [q.result[i] EXCEPT !.text = TRUE]
    ELSE q.result[i]]

\* A new result is a result, and so are the marked ones, with the same keys.
LEMMA ResultsTyped ==
  ASSUME NEW q \in SearchType, NEW p \in Packet
  PROVE  /\ NewResult(q, p) \in ResultType
         /\ Marked(q, p) \in Seq(ResultType) /\ Len(Marked(q, p)) = Len(q.result)
         /\ \A i \in DOMAIN q.result : Marked(q, p)[i].key = q.result[i].key
<1>1. p.host \in Responders /\ p.itf \in Interfaces
  BY DEF Packet
<1>2. NewResult(q, p) \in ResultType
  BY <1>1 DEF NewResult, ResultType, Key
<1>3. q.result \in Seq(ResultType)
  BY Fields
<1>4. \A x \in ResultType : [x EXCEPT !.text = TRUE] \in ResultType
                           /\ [x EXCEPT !.text = TRUE].key = x.key
  BY DEF ResultType
<1>5. \A i \in DOMAIN q.result : Marked(q, p)[i] \in ResultType
                               /\ Marked(q, p)[i].key = q.result[i].key
  <2> SUFFICES ASSUME NEW i \in DOMAIN q.result
               PROVE  Marked(q, p)[i] \in ResultType /\ Marked(q, p)[i].key = q.result[i].key
    OBVIOUS
  <2>1. q.result[i] \in ResultType
    BY <1>3
  <2>2. Marked(q, p)[i] = IF i \in HasResult(q, p) /\ p.record = "TXT"
                          THEN [q.result[i] EXCEPT !.text = TRUE] ELSE q.result[i]
    BY DEF Marked
  <2> QED BY <2>1, <2>2, <1>4
<1>6. DOMAIN Marked(q, p) = 1..Len(q.result) /\ Len(q.result) \in Nat
  BY <1>3 DEF Marked
<1>7. Marked(q, p) \in [1..Len(q.result) -> ResultType]
  <2>1. Marked(q, p) = [i \in 1..Len(q.result) |-> Marked(q, p)[i]]
    BY <1>6 DEF Marked
  <2> QED BY <2>1, <1>5, <1>6
<1>8. Marked(q, p) \in Seq(ResultType) /\ Len(Marked(q, p)) = Len(q.result)
  BY <1>6, <1>7
<1> QED BY <1>2, <1>5, <1>8

\* What a packet makes of a search: its results are marked, or one is added,
\* or it stays.
LEMMA WithResultIs ==
  ASSUME NEW q \in SearchType, NEW p \in Packet
  PROVE  LET r == WithResult(q, p)
         IN  /\ r \in SearchType /\ r.state = q.state /\ r.done = q.done
             /\ r.type = q.type /\ r.requested = q.requested /\ r.max = q.max
             /\ r.startedAt = q.startedAt /\ r.elapsed = q.elapsed
             /\ \/ /\ HasResult(q, p) # {}
                   /\ r.num = q.num /\ r.result = Marked(q, p)
                \/ /\ HasResult(q, p) = {} /\ MayAdd(q)
                   /\ r.num = (q.num + 1) % Byte
                   /\ r.result = <<NewResult(q, p)>> \o q.result
                \/ /\ HasResult(q, p) = {} /\ ~MayAdd(q)
                   /\ r = q
<1>1. CASE HasResult(q, p) # {}
  <2>1. WithResult(q, p) = [q EXCEPT !.result = Marked(q, p)]
    BY <1>1 DEF WithResult, Marked
  <2>2. Marked(q, p) \in Seq(ResultType)
    BY ResultsTyped
  <2> QED BY <1>1, <2>1, <2>2 DEF SearchType
<1>2. CASE HasResult(q, p) = {} /\ MayAdd(q)
  <2> DEFINE more == <<NewResult(q, p)>> \o q.result
             num  == (q.num + 1) % Byte
  <2>1. WithResult(q, p) = [q EXCEPT !.result = more, !.num = num]
    BY <1>2 DEF WithResult, NewResult
  <2>2. more \in Seq(ResultType)
    BY ResultsTyped, Fields
  <2>3. num \in 0..(Byte - 1)
    BY Fields, Constants
  <2> HIDE DEF more, num
  <2>4. /\ WithResult(q, p) \in SearchType
        /\ WithResult(q, p).num = num /\ WithResult(q, p).result = more
        /\ WithResult(q, p).state = q.state /\ WithResult(q, p).done = q.done
        /\ WithResult(q, p).type = q.type /\ WithResult(q, p).requested = q.requested
        /\ WithResult(q, p).max = q.max
        /\ WithResult(q, p).startedAt = q.startedAt /\ WithResult(q, p).elapsed = q.elapsed
    BY <2>1, <2>2, <2>3 DEF SearchType
  <2> QED BY <1>2, <2>4 DEF more, num
<1>3. CASE HasResult(q, p) = {} /\ ~MayAdd(q)
  BY <1>3 DEF WithResult
<1> QED BY <1>1, <1>2, <1>3

\* The texts of a search's results are some number of texts.
LEMMA TextsAreFinite ==
  ASSUME NEW results \in Seq(ResultType)
  PROVE  /\ IsFiniteSet({i \in DOMAIN results : results[i].text})
         /\ TextsOf(results) \in Nat
<1>1. Len(results) \in Nat /\ DOMAIN results = 1..Len(results)
  OBVIOUS
<1>2. IsFiniteSet(1..Len(results))
  BY <1>1, FS_Interval
<1>3. IsFiniteSet({i \in DOMAIN results : results[i].text})
  BY <1>1, <1>2, FS_Subset
<1> QED BY <1>3, FS_CardinalityType DEF TextsOf

LEMMA TextsMadeIs ==
  ASSUME NEW q \in SearchType, NEW p \in Packet
  PROVE  TextsMade(q, p) \in Int
<1>1. TextsOf(q.result) \in Nat /\ TextsOf(WithResult(q, p).result) \in Nat
  BY WithResultIs, Fields, TextsAreFinite
<1> QED BY <1>1 DEF TextsMade

-----------------------------------------------------------------------------
(* The inductive invariant of the ends.                                    *)

\* An asked-for addition or end of a search waits once.
WaitsOnce ==
  \A i, j \in DOMAIN actions :
    actions[i].op \in {"SEARCH_ADD", "SEARCH_END"} /\ actions[i] = actions[j] => i = j

\* A search that waits to be added is new.
IsNew(s) ==
  /\ search[s] # Free /\ search[s].state = "INIT"
  /\ ~search[s].done /\ search[s].num = 0
  /\ ~IsListed(s)

\* What each waiting action is about.
Waiting(a) ==
  /\ a.op = "SEARCH_ADD" => IsNew(a.arg)
  /\ a.op = "SEARCH_END" => IsListed(a.arg) /\ search[a.arg].state = "OFF"
  /\ a.op = "RX_HANDLE" => a.arg.finishes

ActionsWait == \A i \in DOMAIN actions : Waiting(actions[i])

\* A listed search is neither finished nor does it have enough.
ListedRun ==
  \A s \in Range(list) : search[s] # Free /\ ~search[s].done /\ ~Enough(search[s])

\* A search that is held is not free, and held by one client.
Held ==
  /\ \A c \in Clients : pc[c] # Idle => search[pc[c].search] # Free
  /\ \A c, d \in Clients : pc[c] # Idle /\ pc[d] # Idle /\ pc[c].search = pc[d].search => c = d

\* A search whose results were fetched is over.
IsOut(s) == ~IsListed(s) /\ \A i \in DOMAIN actions : actions[i] # Act("SEARCH_ADD", s)

FetchedIsOut == \A c \in Clients : pc[c].op = "fetched" => IsOut(pc[c].search)

EndInv ==
  TypeOK /\ WaitsOnce /\ ActionsWait /\ IsInjective(list) /\ ListedRun /\ Held /\ FetchedIsOut

\* The actions: one about a search, or a packet.
LEMMA ActionFields ==
  ASSUME NEW a \in Actions
  PROVE  /\ a.op \in {"SEARCH_ADD", "SEARCH_SEND", "SEARCH_END", "RX_HANDLE"}
         /\ a.op # "RX_HANDLE" => a.arg \in Searches /\ a = Act(a.op, a.arg)
         /\ a.op = "RX_HANDLE" => a.arg \in Packet
BY DEF Actions, Act, Packet

LEMMA ActIs ==
  ASSUME NEW op \in {"SEARCH_ADD", "SEARCH_SEND", "SEARCH_END"}, NEW s \in Searches
  PROVE  Act(op, s) \in Actions /\ Act(op, s).op = op /\ Act(op, s).arg = s
BY DEF Actions, Act

\* A queue with one more action, and one without its first.
LEMMA Posted ==
  ASSUME NEW S, NEW q \in Seq(S), NEW a \in S
  PROVE  LET r == Append(q, a)
         IN  /\ r \in Seq(S) /\ Len(r) = Len(q) + 1 /\ DOMAIN r = 1..(Len(q) + 1)
             /\ DOMAIN q = 1..Len(q) /\ Len(q) \in Nat
             /\ \A i \in DOMAIN q : i \in DOMAIN r /\ r[i] = q[i]
             /\ r[Len(q) + 1] = a
             /\ \A i \in DOMAIN r : i \in DOMAIN q \/ i = Len(q) + 1
OBVIOUS

LEMMA Taken ==
  ASSUME NEW S, NEW q \in Seq(S), q # <<>>
  PROVE  LET r == Tail(q)
         IN  /\ Head(q) \in S /\ 1 \in DOMAIN q /\ Head(q) = q[1]
             /\ r \in Seq(S) /\ Len(r) <= Len(q)
             /\ \A i \in DOMAIN r : i + 1 \in DOMAIN q /\ i + 1 # 1 /\ r[i] = q[i + 1] /\ i \in Nat
OBVIOUS

\* The client that holds a search.
LEMMA HolderIs ==
  ASSUME EndInv, NEW c \in Clients, pc[c] # Idle
  PROVE  /\ pc[c].op \in {"query", "async", "fetched"}
         /\ pc[c].search \in Searches /\ search[pc[c].search] \in SearchType
<1>1. pc[c] \in [op : {"query", "async", "fetched"}, search : Searches]
  BY DEF EndInv, TypeOK, ClientType
<1>2. pc[c].op \in {"query", "async", "fetched"} /\ pc[c].search \in Searches
  BY <1>1
<1>3. search[pc[c].search] # Free
  BY DEF EndInv, Held
<1> QED BY <1>2, <1>3 DEF EndInv, TypeOK

\* An idle client has no search.
LEMMA IdleIs == Idle.op = "idle" /\ \A op : op # "idle" => \A s : [op |-> op, search |-> s] # Idle
<1>1. Idle.op = "idle"
  BY DEF Idle
<1>2. ASSUME NEW op, op # "idle", NEW s PROVE [op |-> op, search |-> s] # Idle
  <2>1. [op |-> op, search |-> s].op = op
    OBVIOUS
  <2> QED BY <1>1, <1>2, <2>1
<1> QED BY <1>1, <1>2

\* The initial state.
LEMMA EndInvInit == Init => EndInv
<1> SUFFICES ASSUME Init PROVE EndInv
  OBVIOUS
<1>1. TypeOK
  BY Constants DEF Init, TypeOK, ClientType, Idle
<1>2. WaitsOnce /\ ActionsWait /\ IsInjective(list)
  BY DEF Init, WaitsOnce, ActionsWait, IsInjective
<1>3. Range(list) = {}
  BY DEF Init, Range
<1>4. ListedRun
  BY <1>3 DEF ListedRun
<1>5. Held /\ FetchedIsOut
  BY IdleIs DEF Init, Held, FetchedIsOut
<1> QED BY <1>1, <1>2, <1>4, <1>5 DEF EndInv

-----------------------------------------------------------------------------
(* Clients keep it.                                                        *)

\* A new search.
LEMMA NewSearchIs ==
  ASSUME TypeOK, NEW type \in Types, NEW max \in Requested
  PROVE  LET q == NewSearch(type, max)
         IN  /\ q \in SearchType /\ q.state = "INIT" /\ q.done = FALSE /\ q.num = 0
             /\ q.result = <<>> /\ q.requested = max /\ q.max = max % Byte
             /\ q.startedAt = now /\ q.elapsed = elapsed
<1>1. now \in 0..(W - 1)
  BY Constants DEF TypeOK, now
<1>2. max % Byte \in 0..(Byte - 1) /\ 0 \in 0..(Byte - 1)
  BY Constants
<1>3. elapsed \in 0..Horizon
  BY DEF TypeOK
<1>4. <<>> \in Seq(ResultType)
  OBVIOUS
<1> QED BY <1>1, <1>2, <1>3, <1>4 DEF NewSearch, SearchType

LEMMA QueryStep ==
  ASSUME EndInv, NEW c \in Clients, NEW op \in {"query", "async"}, Query(c, op)
  PROVE  EndInv'
<1> USE DEF EndInv
<1>1. PICK s \in Searches, type \in Types, max \in Requested :
       /\ search[s] = Free
       /\ search' = [search EXCEPT ![s] = NewSearch(type, max)]
       /\ pc' = [pc EXCEPT ![c] = [op |-> op, search |-> s]]
       /\ actions' = Append(actions, Act("SEARCH_ADD", s))
  BY DEF Query
<1> DEFINE a == Act("SEARCH_ADD", s)
           q == NewSearch(type, max)
<1>2. /\ list' = list /\ texts' = texts /\ elapsed' = elapsed /\ received' = received
      /\ Len(actions) < QueueLen
  BY DEF Query, HasRoom
<1>3. a \in Actions /\ a.op = "SEARCH_ADD" /\ a.arg = s
  BY ActIs
<1>4. q \in SearchType /\ q # Free /\ q.state = "INIT" /\ q.done = FALSE /\ q.num = 0
  BY NewSearchIs, Fields
<1> HIDE DEF a, q
<1>5. /\ search' \in [Searches -> SearchType \cup {Free}]
      /\ search'[s] = q /\ \A r \in Searches : r # s => search'[r] = search[r]
  BY <1>1, <1>4 DEF TypeOK, q
<1>6. /\ actions' \in Seq(Actions) /\ Len(actions') = Len(actions) + 1
      /\ \A i \in DOMAIN actions : i \in DOMAIN actions' /\ actions'[i] = actions[i]
      /\ actions'[Len(actions) + 1] = a
      /\ \A i \in DOMAIN actions' : i \in DOMAIN actions \/ i = Len(actions) + 1
      /\ Len(actions) \in Nat
  BY <1>1, <1>3, Posted DEF TypeOK, a
<1>7. /\ pc' \in [Clients -> ClientType]
      /\ pc'[c] = [op |-> op, search |-> s] /\ \A d \in Clients : d # c => pc'[d] = pc[d]
  BY <1>1 DEF TypeOK, ClientType
<1>8. TypeOK'
  BY <1>2, <1>5, <1>6, <1>7, Constants DEF TypeOK
\* The address is free: nothing is about it yet.
<1>9. ~IsListed(s)
  BY <1>1 DEF ListedRun, IsListed
<1>10. \A i \in DOMAIN actions : actions[i].op \in {"SEARCH_ADD", "SEARCH_END"} => actions[i].arg # s
  BY <1>1, <1>9 DEF ActionsWait, Waiting, IsNew
<1>11. \A d \in Clients : pc[d] # Idle => pc[d].search # s
  BY <1>1 DEF Held
<1>12. WaitsOnce'
  BY <1>3, <1>6, <1>10 DEF WaitsOnce
<1>13. ActionsWait'
  <2> SUFFICES ASSUME NEW i \in DOMAIN actions' PROVE Waiting(actions[i])'
    BY DEF ActionsWait
  <2>1. CASE i \in DOMAIN actions
    <3>1. Waiting(actions[i]) /\ actions'[i] = actions[i] /\ actions[i] \in Actions
      BY <1>6, <2>1 DEF ActionsWait, TypeOK
    <3>2. actions[i].op \in {"SEARCH_ADD", "SEARCH_END"} =>
            actions[i].arg \in Searches /\ search'[actions[i].arg] = search[actions[i].arg]
      BY <1>5, <1>10, <2>1, <3>1, ActionFields
    <3> QED BY <1>2, <3>1, <3>2 DEF Waiting, IsNew, IsListed
  <2>2. CASE i = Len(actions) + 1
    <3>1. actions'[i] = a
      BY <1>6, <2>2
    <3> QED BY <1>2, <1>3, <1>4, <1>5, <1>9, <3>1 DEF Waiting, IsNew, IsListed
  <2> QED BY <1>6, <2>1, <2>2
<1>14. IsInjective(list)'
  BY <1>2 DEF IsInjective
<1>15. ListedRun'
  <2> SUFFICES ASSUME NEW r \in Range(list)
               PROVE  search'[r] # Free /\ ~search'[r].done /\ ~Enough(search'[r])
    BY <1>2 DEF ListedRun
  <2>1. r \in Searches /\ r # s
    BY <1>9 DEF TypeOK, Range, IsListed
  <2> QED BY <1>5, <2>1 DEF ListedRun
<1>16. Held'
  BY <1>4, <1>5, <1>7, <1>11, HolderIs DEF Held
<1>17. FetchedIsOut'
  <2> SUFFICES ASSUME NEW d \in Clients, pc'[d].op = "fetched"
               PROVE  IsOut(pc[d].search)'
    BY DEF FetchedIsOut
  <2>1. d # c /\ pc'[d] = pc[d] /\ pc[d] # Idle
    BY <1>7, IdleIs
  <2>2. pc[d].search # s /\ IsOut(pc[d].search)
    BY <1>11, <2>1 DEF FetchedIsOut
  <2>3. a # Act("SEARCH_ADD", pc[d].search)
    BY <2>2, <1>3 DEF Act
  <2> QED BY <1>2, <1>6, <2>1, <2>2, <2>3 DEF IsOut, IsListed
<1> QED BY <1>8, <1>12, <1>13, <1>14, <1>15, <1>16, <1>17

\* A client gives up a search that is neither listed nor waiting to be.
LEMMA FreeStep ==
  ASSUME EndInv, NEW c \in Clients, pc[c] # Idle, NEW fetched \in BOOLEAN,
         FreeSearch(c, fetched), IsOut(pc[c].search),
         UNCHANGED <<list, actions, elapsed, received>>
  PROVE  EndInv'
<1> DEFINE s == pc[c].search
<1> USE DEF EndInv
<1>1. s \in Searches /\ search[s] \in SearchType
  BY HolderIs
<1> HIDE DEF s
<1>2. /\ search' \in [Searches -> SearchType \cup {Free}]
      /\ search'[s] = Free /\ \A r \in Searches : r # s => search'[r] = search[r]
  BY <1>1 DEF TypeOK, FreeSearch, s
<1>3. /\ pc' \in [Clients -> ClientType]
      /\ pc'[c] = Idle /\ \A d \in Clients : d # c => pc'[d] = pc[d]
  BY DEF TypeOK, FreeSearch, ClientType
<1>4. texts' \in [Searches -> Int]
  <2>1. TextsOf(search[s].result) \in Nat
    BY <1>1, Fields, TextsAreFinite
  <2>2. TextsFreed(search[s].result) \in Int
    BY <2>1 DEF TextsFreed
  <2> QED BY <1>1, <2>2 DEF TypeOK, FreeSearch, s
<1>5. TypeOK'
  BY <1>2, <1>3, <1>4 DEF TypeOK
<1>6. ~IsListed(s) /\ \A i \in DOMAIN actions : actions[i] # Act("SEARCH_ADD", s)
  BY DEF IsOut, s
<1>7. \A d \in Clients : d # c /\ pc[d] # Idle => pc[d].search # s
  BY DEF Held, s
<1>8. ActionsWait'
  <2> SUFFICES ASSUME NEW i \in DOMAIN actions PROVE Waiting(actions[i])'
    BY DEF ActionsWait
  <2>1. Waiting(actions[i]) /\ actions[i] \in Actions
    BY DEF ActionsWait, TypeOK
  <2>2. actions[i].op = "SEARCH_ADD" => actions[i].arg \in Searches /\ actions[i].arg # s
    BY <1>6, <2>1, ActionFields
  <2>3. actions[i].op = "SEARCH_END" => actions[i].arg \in Searches /\ actions[i].arg # s
    BY <1>6, <2>1, ActionFields DEF Waiting
  <2> QED BY <1>2, <2>1, <2>2, <2>3 DEF Waiting, IsNew, IsListed
<1>9. ListedRun'
  <2> SUFFICES ASSUME NEW r \in Range(list)
               PROVE  search'[r] # Free /\ ~search'[r].done /\ ~Enough(search'[r])
    BY DEF ListedRun
  <2>1. r \in Searches /\ r # s
    BY <1>6 DEF TypeOK, Range, IsListed
  <2> QED BY <1>2, <2>1 DEF ListedRun
<1>10. Held'
  <2>1. \A d \in Clients : pc'[d] # Idle =>
          d # c /\ pc'[d] = pc[d] /\ pc[d] # Idle /\ pc[d].search # s /\ pc[d].search \in Searches
    BY <1>3, <1>7, HolderIs
  <2> QED BY <1>2, <2>1 DEF Held
<1>11. FetchedIsOut'
  <2>1. \A d \in Clients : pc'[d].op = "fetched" => pc'[d] = pc[d]
    BY <1>3, IdleIs
  <2> QED BY <2>1 DEF FetchedIsOut, IsOut, IsListed
<1> QED BY <1>5, <1>8, <1>9, <1>10, <1>11 DEF WaitsOnce, IsInjective

\* A search that is done is neither listed nor waiting to be.
LEMMA DoneIsOut ==
  ASSUME EndInv, NEW s \in Searches, search[s].done
  PROVE  IsOut(s)
<1>1. ~IsListed(s)
  BY DEF EndInv, ListedRun, IsListed
<1>2. ASSUME NEW i \in DOMAIN actions PROVE actions[i] # Act("SEARCH_ADD", s)
  <2>1. Act("SEARCH_ADD", s).op = "SEARCH_ADD" /\ Act("SEARCH_ADD", s).arg = s
    BY DEF Act
  <2> QED BY <1>2, <2>1 DEF EndInv, ActionsWait, Waiting, IsNew
<1> QED BY <1>1, <1>2 DEF IsOut

LEMMA GetResultsStep ==
  ASSUME EndInv, NEW c \in Clients, GetResults(c)
  PROVE  EndInv'
<1> DEFINE s == pc[c].search
<1> USE DEF EndInv
<1>1. pc[c].op = "async" /\ pc[c] # Idle
  BY IdleIs DEF GetResults
<1>2. s \in Searches /\ search[s] \in SearchType /\ search[s].done
  BY <1>1, HolderIs DEF GetResults
<1>3. IsOut(s)
  BY <1>2, DoneIsOut
<1> DEFINE q == [search[s] EXCEPT !.done = FALSE]
<1>4. q \in SearchType /\ SameResults(search[s], q) /\ q.state = search[s].state /\ q # Free
  BY <1>2, SemaphoreTaken, Fields
<1> HIDE DEF q
<1>5. /\ search' \in [Searches -> SearchType \cup {Free}]
      /\ search'[s] = q /\ \A r \in Searches : r # s => search'[r] = search[r]
  BY <1>2, <1>4 DEF TypeOK, GetResults, q
<1>6. /\ pc' \in [Clients -> ClientType]
      /\ pc'[c].op = "fetched" /\ pc'[c].search = s
      /\ \A d \in Clients : d # c => pc'[d] = pc[d]
  <2>1. pc[c] \in [op : {"query", "async", "fetched"}, search : Searches]
    BY <1>1 DEF TypeOK, ClientType
  <2>2. pc' = [pc EXCEPT ![c] = [pc[c] EXCEPT !.op = "fetched"]]
    BY DEF GetResults
  <2>3. [pc[c] EXCEPT !.op = "fetched"] \in ClientType
    BY <2>1 DEF ClientType
  <2>4. pc'[c] = [pc[c] EXCEPT !.op = "fetched"]
    BY <2>2 DEF TypeOK
  <2>5. pc'[c].op = "fetched" /\ pc'[c].search = pc[c].search
    BY <2>1, <2>4
  <2> QED BY <2>2, <2>3, <2>5 DEF TypeOK
<1>7. UNCHANGED <<list, actions, texts, elapsed, received>>
  BY DEF GetResults
<1>8. TypeOK'
  BY <1>5, <1>6, <1>7 DEF TypeOK
<1> HIDE DEF s
<1>9. ActionsWait'
  <2> SUFFICES ASSUME NEW i \in DOMAIN actions PROVE Waiting(actions[i])'
    BY <1>7 DEF ActionsWait
  <2>1. Waiting(actions[i]) /\ actions[i] \in Actions
    BY DEF ActionsWait, TypeOK
  <2>2. actions[i].op = "SEARCH_ADD" => actions[i].arg \in Searches /\ actions[i].arg # s
    BY <1>3, <2>1, ActionFields DEF IsOut
  <2>3. actions[i].op = "SEARCH_END" => actions[i].arg \in Searches /\ actions[i].arg # s
    BY <1>3, <2>1, ActionFields DEF Waiting, IsOut
  <2> QED BY <1>5, <1>7, <2>1, <2>2, <2>3 DEF Waiting, IsNew, IsListed
<1>10. ListedRun'
  <2> SUFFICES ASSUME NEW r \in Range(list)
               PROVE  search'[r] # Free /\ ~search'[r].done /\ ~Enough(search'[r])
    BY <1>7 DEF ListedRun
  <2>1. r \in Searches /\ r # s
    BY <1>3 DEF TypeOK, Range, IsListed, IsOut
  <2> QED BY <1>5, <2>1 DEF ListedRun
<1>11. \A d \in Clients : (pc'[d] # Idle => pc[d] # Idle /\ pc[d].search \in Searches)
                         /\ (d # c => pc'[d] = pc[d])
  BY <1>1, <1>6, HolderIs
<1>12. pc[c].search = s
  BY DEF s
<1>13. Held'
  <2>1. \A d \in Clients : pc'[d] # Idle => pc'[d].search = pc[d].search
    BY <1>6, <1>12
  <2>2. \A r \in Searches : search[r] # Free => search'[r] # Free
    BY <1>4, <1>5
  <2> QED BY <1>11, <2>1, <2>2 DEF Held
<1>14. FetchedIsOut'
  <2> SUFFICES ASSUME NEW d \in Clients, pc'[d].op = "fetched"
               PROVE  IsOut(pc[d].search)'
    BY DEF FetchedIsOut
  <2>1. IsOut(pc'[d].search)
    BY <1>3, <1>6, <1>11 DEF FetchedIsOut
  <2> QED BY <2>1, <1>7 DEF IsOut, IsListed
<1> QED BY <1>7, <1>8, <1>9, <1>10, <1>13, <1>14 DEF WaitsOnce, IsInjective

-----------------------------------------------------------------------------
(* The timer and the receiver keep it.                                     *)

\* An action is posted that is no addition, and the state of a listed search
\* changes at most.
LEMMA PostStep ==
  ASSUME EndInv, HasRoom, NEW a \in Actions,
         a.op \in {"SEARCH_END", "SEARCH_SEND", "RX_HANDLE"},
         NEW s, NEW state \in {"INIT", "RUNNING", "OFF"},
         s \in Searches => IsListed(s) /\ search[s].state # "OFF",
         s \in Searches => search' = [search EXCEPT ![s].state = state],
         s \notin Searches => search' = search,
         a.op = "RX_HANDLE" => a.arg.finishes,
         a.op = "SEARCH_END" => a.arg = s /\ state = "OFF" /\ s \in Searches,
         actions' = Append(actions, a), received' \in 0..MaxReceived,
         UNCHANGED <<list, pc, texts, elapsed>>
  PROVE  EndInv'
<1> USE DEF EndInv
<1>1. s \in Searches =>
        /\ search[s] \in SearchType
        /\ search'[s] = [search[s] EXCEPT !.state = state]
  BY DEF TypeOK, IsListed, ListedRun
<1>2. s \in Searches =>
        /\ search'[s] \in SearchType /\ SameResults(search[s], search'[s])
        /\ search'[s].state = state /\ search'[s].done = search[s].done /\ search'[s] # Free
  <2> SUFFICES ASSUME s \in Searches
               PROVE  /\ search'[s] \in SearchType /\ SameResults(search[s], search'[s])
                      /\ search'[s].state = state /\ search'[s].done = search[s].done
                      /\ search'[s] # Free
    OBVIOUS
  <2> DEFINE q == search[s]
             r == [q EXCEPT !.state = state]
  <2>1. q \in SearchType /\ search'[s] = r
    BY <1>1
  <2> HIDE DEF q
  <2>2. r \in SearchType /\ SameResults(q, r) /\ r.state = state /\ r.done = q.done
    BY <2>1, StateSet
  <2> HIDE DEF r
  <2>3. r # Free
    BY <2>2, Fields
  <2> QED BY <2>1, <2>2, <2>3 DEF q
<1>3. \A r \in Searches : r # s => search'[r] = search[r]
  BY DEF TypeOK
<1>4. search' \in [Searches -> SearchType \cup {Free}]
  BY <1>1, <1>2 DEF TypeOK
<1>5. /\ actions' \in Seq(Actions) /\ Len(actions') = Len(actions) + 1
      /\ \A i \in DOMAIN actions : i \in DOMAIN actions' /\ actions'[i] = actions[i]
      /\ actions'[Len(actions) + 1] = a
      /\ \A i \in DOMAIN actions' : i \in DOMAIN actions \/ i = Len(actions) + 1
      /\ Len(actions) \in Nat
  BY Posted DEF TypeOK
<1>6. TypeOK'
  BY <1>4, <1>5, Constants DEF TypeOK, HasRoom
\* No addition and no end of s waits.
<1>7. s \in Searches =>
        \A i \in DOMAIN actions : actions[i].op \in {"SEARCH_ADD", "SEARCH_END"} => actions[i].arg # s
  BY DEF ActionsWait, Waiting, IsNew
<1>8. WaitsOnce'
  BY <1>5, <1>7 DEF WaitsOnce
<1>9. ActionsWait'
  <2> SUFFICES ASSUME NEW i \in DOMAIN actions' PROVE Waiting(actions[i])'
    BY DEF ActionsWait
  <2>1. CASE i \in DOMAIN actions
    <3>1. Waiting(actions[i]) /\ actions'[i] = actions[i] /\ actions[i] \in Actions
      BY <1>5, <2>1 DEF ActionsWait, TypeOK
    <3>2. actions[i].op \in {"SEARCH_ADD", "SEARCH_END"} =>
            actions[i].arg \in Searches /\ search'[actions[i].arg] = search[actions[i].arg]
      BY <1>3, <1>7, <2>1, <3>1, ActionFields
    <3> QED BY <3>1, <3>2 DEF Waiting, IsNew, IsListed
  <2>2. CASE i = Len(actions) + 1
    BY <1>2, <1>5, <2>2 DEF Waiting, IsListed
  <2> QED BY <1>5, <2>1, <2>2
<1>10. ListedRun'
  <2> SUFFICES ASSUME NEW r \in Range(list)
               PROVE  search'[r] # Free /\ ~search'[r].done /\ ~Enough(search'[r])
    BY DEF ListedRun
  <2>1. r \in Searches
    BY DEF TypeOK, Range
  <2>2. search[r] # Free /\ ~search[r].done /\ ~Enough(search[r])
    BY DEF ListedRun
  <2>3. CASE r = s
    BY <1>2, <2>1, <2>2, <2>3 DEF SameResults, Enough
  <2>4. CASE r # s
    BY <1>3, <2>1, <2>2, <2>4
  <2> QED BY <2>3, <2>4
<1>11. \A r \in Searches : search[r] # Free => search'[r] # Free
  BY <1>2, <1>3
<1>12. Held'
  BY <1>11, HolderIs DEF Held
<1>13. FetchedIsOut'
  <2> SUFFICES ASSUME NEW d \in Clients, pc[d].op = "fetched"
               PROVE  IsOut(pc[d].search)'
    BY DEF FetchedIsOut
  <2>1. IsOut(pc[d].search)
    BY DEF FetchedIsOut
  <2>2. a # Act("SEARCH_ADD", pc[d].search)
    BY DEF Act
  <2> QED BY <1>5, <2>1, <2>2 DEF IsOut, IsListed
<1> QED BY <1>6, <1>8, <1>9, <1>10, <1>12, <1>13 DEF IsInjective

\* The state of a listed search changes, and nothing is posted.
LEMMA FullStep ==
  ASSUME EndInv, NEW s \in Searches, IsListed(s), search[s].state # "OFF",
         search' = [search EXCEPT ![s].state = "RUNNING"],
         UNCHANGED <<list, actions, pc, texts, elapsed, received>>
  PROVE  EndInv'
<1> USE DEF EndInv
<1>1. search[s] \in SearchType /\ search'[s] = [search[s] EXCEPT !.state = "RUNNING"]
  BY DEF TypeOK, IsListed, ListedRun
<1>2. /\ search'[s] \in SearchType /\ SameResults(search[s], search'[s])
      /\ search'[s].state = "RUNNING" /\ search'[s].done = search[s].done /\ search'[s] # Free
  <2> DEFINE q == search[s]
             r == [q EXCEPT !.state = "RUNNING"]
  <2>1. q \in SearchType /\ search'[s] = r
    BY <1>1
  <2> HIDE DEF q
  <2>2. r \in SearchType /\ SameResults(q, r) /\ r.state = "RUNNING" /\ r.done = q.done
    BY <2>1, StateSet
  <2> HIDE DEF r
  <2>3. r # Free
    BY <2>2, Fields
  <2> QED BY <2>1, <2>2, <2>3 DEF q
<1>3. \A r \in Searches : r # s => search'[r] = search[r]
  BY DEF TypeOK
<1>4. TypeOK'
  BY <1>1, <1>2 DEF TypeOK
<1>5. ActionsWait'
  <2> SUFFICES ASSUME NEW i \in DOMAIN actions PROVE Waiting(actions[i])'
    BY DEF ActionsWait
  <2>1. Waiting(actions[i]) /\ actions[i] \in Actions
    BY DEF ActionsWait, TypeOK
  <2>2. actions[i].op \in {"SEARCH_ADD", "SEARCH_END"} =>
          actions[i].arg \in Searches /\ search'[actions[i].arg] = search[actions[i].arg]
    BY <1>3, <2>1, ActionFields DEF Waiting, IsNew
  <2> QED BY <2>1, <2>2 DEF Waiting, IsNew, IsListed
<1>6. ListedRun'
  <2> SUFFICES ASSUME NEW r \in Range(list)
               PROVE  search'[r] # Free /\ ~search'[r].done /\ ~Enough(search'[r])
    BY DEF ListedRun
  <2>1. r \in Searches /\ search[r] # Free /\ ~search[r].done /\ ~Enough(search[r])
    BY DEF TypeOK, Range, ListedRun
  <2>2. CASE r = s
    BY <1>2, <2>1, <2>2 DEF SameResults, Enough
  <2>3. CASE r # s
    BY <1>3, <2>1, <2>3
  <2> QED BY <2>2, <2>3
<1>7. Held'
  <2>1. \A r \in Searches : search[r] # Free => search'[r] # Free
    BY <1>2, <1>3
  <2> QED BY <2>1, HolderIs DEF Held
<1> QED BY <1>4, <1>5, <1>6, <1>7 DEF WaitsOnce, IsInjective, FetchedIsOut, IsOut, IsListed

LEMMA SearchRunStep ==
  ASSUME EndInv, NEW s \in Searches, SearchRun(s)
  PROVE  EndInv'
<1>1. /\ IsListed(s) /\ search[s].state # "OFF"
      /\ UNCHANGED <<list, pc, texts, elapsed, received>> /\ received' \in 0..MaxReceived
  BY DEF SearchRun, EndInv, TypeOK
<1>2. CASE ~HasRoom
  <2>1. search' = [search EXCEPT ![s].state = "RUNNING"] /\ actions' = actions
    BY <1>2 DEF SearchRun, PostEnd, PostSend
  <2> QED BY <1>1, <2>1, FullStep
<1>3. CASE HasRoom /\ PostEnd(s)
  <2> DEFINE a == Act("SEARCH_END", s)
  <2>1. a \in Actions /\ a.op = "SEARCH_END" /\ a.arg = s
    BY ActIs
  <2>2. search' = [search EXCEPT ![s].state = "OFF"] /\ actions' = Append(actions, a)
    BY <1>3 DEF PostEnd
  <2> HIDE DEF a
  <2> QED BY <1>1, <1>3, <2>1, <2>2, PostStep
<1>4. CASE HasRoom /\ PostSend(s)
  <2> DEFINE a == Act("SEARCH_SEND", s)
  <2>1. a \in Actions /\ a.op = "SEARCH_SEND" /\ a.arg = s
    BY ActIs
  <2>2. search' = [search EXCEPT ![s].state = "RUNNING"] /\ actions' = Append(actions, a)
    BY <1>4 DEF PostSend
  <2> HIDE DEF a
  <2> QED BY <1>1, <1>4, <2>1, <2>2, PostStep
<1> QED BY <1>2, <1>3, <1>4 DEF SearchRun

LEMMA ReceiveStep ==
  ASSUME Clean, EndInv, Receive
  PROVE  EndInv'
<1>1. PICK p \in Packet : p.finishes /\ actions' = Append(actions, Act("RX_HANDLE", p))
  <2>1. PICK r \in Records, h \in Responders, i \in Interfaces,
             authoritative \in BOOLEAN, malformed \in BOOLEAN :
       /\ Clean => authoritative /\ ~malformed
       /\ actions' = Append(actions, Act("RX_HANDLE",
            [record |-> r, host |-> h, itf |-> i, finishes |-> authoritative /\ ~malformed]))
    BY DEF Receive
  <2> DEFINE p == [record |-> r, host |-> h, itf |-> i, finishes |-> authoritative /\ ~malformed]
  <2>2. (authoritative /\ ~malformed) = TRUE
    BY <2>1
  <2>3. p \in Packet /\ p.finishes
    BY <2>2 DEF Packet
  <2> QED BY <2>1, <2>3
<1> DEFINE a == Act("RX_HANDLE", p)
<1>2. a \in Actions /\ a.op = "RX_HANDLE" /\ a.arg = p
  BY DEF Actions, Act, Packet
<1>3. actions' = Append(actions, a)
  BY <1>1
<1> HIDE DEF a
<1>4. /\ HasRoom /\ search' = search /\ UNCHANGED <<list, pc, texts, elapsed>>
      /\ received' \in 0..MaxReceived
  BY Constants DEF Receive, EndInv, TypeOK
<1>5. \E s : s \notin Searches
  <2>1. (CHOOSE s : s \notin Searches) \notin Searches
    BY NoSetContainsEverything, Zenon
  <2> QED BY <2>1
<1>6. PICK s : s \notin Searches
  BY <1>5
<1> QED BY <1>1, <1>2, <1>3, <1>4, <1>6, PostStep

-----------------------------------------------------------------------------
(* The service task keeps it.                                              *)

\* The first action is executed: what has to be shown of what it does.
LEMMA ServeStep ==
  ASSUME EndInv, actions # <<>>, actions' = Tail(actions),
         search' \in [Searches -> SearchType \cup {Free}],
         list' \in Seq(Searches), IsInjective(list'), texts' \in [Searches -> Int],
         UNCHANGED <<pc, elapsed, received>>,
         ListedRun',
         \A r \in Searches : search[r] # Free => search'[r] # Free,
         \A b \in Actions :
           Waiting(b) /\ (b.op \in {"SEARCH_ADD", "SEARCH_END"} => b # Head(actions)) => Waiting(b)',
         \A r \in Searches : IsOut(r) => r \notin Range(list')
  PROVE  EndInv'
<1> USE DEF EndInv
<1>1. /\ 1 \in DOMAIN actions /\ Head(actions) = actions[1]
      /\ actions' \in Seq(Actions) /\ Len(actions') <= Len(actions)
      /\ \A i \in DOMAIN actions' :
           i + 1 \in DOMAIN actions /\ i + 1 # 1 /\ actions'[i] = actions[i + 1] /\ i \in Nat
  BY Taken DEF TypeOK
<1>2. TypeOK'
  <2>1. Len(actions) <= QueueLen /\ Len(actions) \in Nat /\ Len(actions') \in Nat
    BY <1>1 DEF TypeOK
  <2>2. Len(actions') <= QueueLen
    BY <1>1, <2>1, Constants
  <2> QED BY <1>1, <2>2 DEF TypeOK
<1>3. WaitsOnce'
  <2> SUFFICES ASSUME NEW i \in DOMAIN actions', NEW j \in DOMAIN actions',
                      actions'[i].op \in {"SEARCH_ADD", "SEARCH_END"}, actions'[i] = actions'[j]
               PROVE  i = j
    BY DEF WaitsOnce
  <2>1. i + 1 = j + 1
    BY <1>1 DEF WaitsOnce
  <2> QED BY <1>1, <2>1
<1>4. ActionsWait'
  <2> SUFFICES ASSUME NEW i \in DOMAIN actions' PROVE Waiting(actions[i])'
    BY DEF ActionsWait
  <2> DEFINE b == actions[i + 1]
  <2>1. b \in Actions /\ Waiting(b)
    BY <1>1 DEF ActionsWait, TypeOK
  <2>2. b.op \in {"SEARCH_ADD", "SEARCH_END"} => b # Head(actions)
    BY <1>1 DEF WaitsOnce
  <2>3. actions'[i] = b
    BY <1>1
  <2>4. PICK x \in Actions : x = b
    BY <2>1
  <2>5. Waiting(x)'
    BY <2>1, <2>2, <2>4
  <2> QED BY <2>3, <2>4, <2>5 DEF Waiting, IsNew, IsListed
<1>5. Held'
  BY HolderIs DEF Held
<1>6. FetchedIsOut'
  <2> SUFFICES ASSUME NEW d \in Clients, pc[d].op = "fetched"
               PROVE  IsOut(pc[d].search)'
    BY DEF FetchedIsOut
  <2>1. IsOut(pc[d].search) /\ pc[d].search \in Searches
    BY IdleIs, HolderIs DEF FetchedIsOut
  <2> QED BY <1>1, <2>1 DEF IsOut, IsListed
<1> QED BY <1>2, <1>3, <1>4, <1>5, <1>6

LEMMA SearchAddStep ==
  ASSUME EndInv, Execute, Head(actions).op = "SEARCH_ADD", SearchAdd(Head(actions).arg)
  PROVE  EndInv'
<1> DEFINE s == Head(actions).arg
<1> USE DEF EndInv
<1>1. /\ actions # <<>> /\ actions' = Tail(actions) /\ UNCHANGED <<pc, elapsed, received>>
      /\ search' = search /\ texts' = texts /\ list' = <<s>> \o list
  BY DEF Execute, SearchAdd
<1>2. Head(actions) \in Actions /\ 1 \in DOMAIN actions /\ Head(actions) = actions[1]
  BY <1>1, Taken DEF TypeOK
<1>3. s \in Searches /\ Head(actions) = Act("SEARCH_ADD", s) /\ IsNew(s)
  BY <1>2, ActionFields DEF ActionsWait, Waiting
<1> HIDE DEF s
<1>4. list \in Seq(Searches) /\ list' \in Seq(Searches) /\ s \notin Range(list)
  BY <1>1, <1>3 DEF TypeOK, IsNew, IsListed
<1>5. Range(list') = {s} \cup Range(list) /\ IsInjective(list')
  <2>1. /\ DOMAIN list' = 1..(Len(list) + 1) /\ list'[1] = s /\ Len(list) \in Nat
        /\ DOMAIN list = 1..Len(list)
        /\ \A i \in 1..Len(list) : list'[i + 1] = list[i]
        /\ \A i \in 1..(Len(list) + 1) : i = 1 \/ (i - 1 \in 1..Len(list) /\ list'[i] = list[i - 1])
    BY <1>1, <1>3, <1>4
  <2>2. \A i \in 1..Len(list) : list[i] # s
    BY <1>4, <2>1 DEF Range
  <2>3. Range(list') \subseteq {s} \cup Range(list)
    BY <2>1 DEF Range
  <2>4. \A i \in 1..Len(list) : list[i] \in Range(list')
    <3>1. \A i \in 1..Len(list) : i + 1 \in DOMAIN list'
      BY <2>1
    <3> QED BY <2>1, <3>1 DEF Range
  <2>5. s \in Range(list')
    <3>1. 1 \in DOMAIN list'
      BY <2>1
    <3> QED BY <2>1, <3>1 DEF Range
  <2>6. \A i, j \in 1..Len(list) : list[i] = list[j] => i = j
    BY <2>1 DEF IsInjective
  <2>7. \A i, j \in 1..(Len(list) + 1) : list'[i] = list'[j] => i = j
    BY <2>1, <2>2, <2>6
  <2>8. IsInjective(list')
    BY <2>1, <2>7 DEF IsInjective
  <2>9. Range(list) \subseteq Range(list')
    BY <2>1, <2>4 DEF Range
  <2> QED BY <2>3, <2>5, <2>8, <2>9
<1>6. ListedRun'
  <2>1. search[s] \in SearchType
    BY <1>3 DEF TypeOK, IsNew
  <2>2. ~Enough(search[s])
    BY <1>3, <2>1, Fields, Constants DEF IsNew, Enough
  <2> QED BY <1>1, <1>3, <1>5, <2>2 DEF ListedRun, IsNew
<1>7. ASSUME NEW b \in Actions, Waiting(b),
             b.op \in {"SEARCH_ADD", "SEARCH_END"} => b # Head(actions)
      PROVE  Waiting(b)'
  <2>1. b.op = "SEARCH_ADD" => b.arg # s
    BY <1>3, <1>7, ActionFields
  <2> QED BY <1>1, <1>5, <1>7, <2>1 DEF Waiting, IsNew, IsListed
<1>8. \A r \in Searches : IsOut(r) => r \notin Range(list')
  BY <1>2, <1>3, <1>5 DEF IsOut, IsListed
<1>9. \A r \in Searches : search[r] # Free => search'[r] # Free
  BY <1>1
<1>10. search' \in [Searches -> SearchType \cup {Free}] /\ texts' \in [Searches -> Int]
  BY <1>1 DEF TypeOK
<1> QED BY <1>1, <1>4, <1>5, <1>6, <1>7, <1>8, <1>9, <1>10, ServeStep

LEMMA SearchSendStep ==
  ASSUME EndInv, Execute, SearchSend(Head(actions).arg)
  PROVE  EndInv'
<1> USE DEF EndInv
<1>1. /\ actions # <<>> /\ actions' = Tail(actions)
      /\ UNCHANGED <<search, list, texts, pc, elapsed, received>>
  BY DEF Execute, SearchSend
<1>2. /\ search' \in [Searches -> SearchType \cup {Free}] /\ list' \in Seq(Searches)
      /\ IsInjective(list') /\ texts' \in [Searches -> Int]
  BY <1>1 DEF TypeOK
<1>3. ListedRun'
  BY <1>1 DEF ListedRun
<1>4. \A b \in Actions : Waiting(b) => Waiting(b)'
  BY <1>1 DEF Waiting, IsNew, IsListed
<1>5. \A r \in Searches : IsOut(r) => r \notin Range(list')
  BY <1>1 DEF IsOut, IsListed
<1>6. \A r \in Searches : search[r] # Free => search'[r] # Free
  BY <1>1
<1> QED BY <1>1, <1>2, <1>3, <1>4, <1>5, <1>6, ServeStep

\* Listed searches are finished and unlisted.
LEMMA EndsStep ==
  ASSUME EndInv, actions # <<>>, actions' = Tail(actions),
         NEW after \in [Searches -> SearchType \cup {Free}], NEW enough \in SUBSET Searches,
         search' = [s \in Searches |-> IF s \in enough THEN Finished(after[s]) ELSE after[s]],
         list' = Keep(list, Searches \ enough), texts' \in [Searches -> Int],
         UNCHANGED <<pc, elapsed, received>>,
         \A s \in enough : IsListed(s),
         \A s \in Searches : IF search[s] = Free \/ ~IsListed(s) THEN after[s] = search[s]
                             ELSE /\ after[s] # Free /\ after[s].state = search[s].state
                                  /\ after[s].done = search[s].done,
         \A s \in Range(list) : s \notin enough => ~Enough(after[s]),
         \A b \in Actions : Waiting(b) /\ b.op = "SEARCH_END" /\ b # Head(actions) => b.arg \notin enough
  PROVE  EndInv'
<1> USE DEF EndInv
<1>1. list \in Seq(Searches) /\ IsInjective(list) /\ Range(list) \subseteq Searches
  BY RangeOfSeq DEF TypeOK, Range
<1>2. /\ list' \in Seq(Searches) /\ Range(list') = Range(list) \cap (Searches \ enough)
      /\ IsInjective(list')
  BY <1>1, KeepRange
<1>3. \A s \in enough : after[s] \in SearchType
  BY DEF ListedRun, IsListed
<1>4. \A s \in enough : Finished(after[s]) \in SearchType /\ Finished(after[s]) # Free
  BY <1>3, FinishedIs, Fields
<1>5. search' \in [Searches -> SearchType \cup {Free}]
  BY <1>4
<1>6. /\ \A s \in enough : search'[s] # Free
      /\ \A s \in Searches \ enough : search'[s] = after[s]
  BY <1>4
<1>7. ListedRun'
  BY <1>1, <1>2, <1>6 DEF ListedRun, IsListed
<1>8. ASSUME NEW b \in Actions, Waiting(b),
             b.op \in {"SEARCH_ADD", "SEARCH_END"} => b # Head(actions)
      PROVE  Waiting(b)'
  <2>1. b.op \in {"SEARCH_ADD", "SEARCH_END"} => b.arg \in Searches /\ b.arg \notin enough
    BY <1>8, ActionFields DEF Waiting, IsNew
  <2>2. b.op \in {"SEARCH_ADD", "SEARCH_END"} => search'[b.arg] = after[b.arg]
    BY <1>6, <2>1
  <2>3. b.op = "SEARCH_ADD" => search'[b.arg] = search[b.arg]
    BY <1>8, <2>1, <2>2 DEF Waiting, IsNew
  <2>4. b.op = "SEARCH_END" => IsListed(b.arg)' /\ search'[b.arg].state = "OFF"
    BY <1>2, <1>8, <2>1, <2>2 DEF Waiting, IsListed, ListedRun
  <2> QED BY <1>2, <1>8, <2>1, <2>3, <2>4 DEF Waiting, IsNew, IsListed
<1>9. \A r \in Searches : IsOut(r) => r \notin Range(list')
  BY <1>2 DEF IsOut, IsListed
<1>10. \A r \in Searches : search[r] # Free => search'[r] # Free
  BY <1>6
<1> QED BY <1>2, <1>5, <1>7, <1>8, <1>9, <1>10, ServeStep

LEMMA SearchEndStep ==
  ASSUME EndInv, Execute, Head(actions).op = "SEARCH_END", SearchEnd(Head(actions).arg)
  PROVE  EndInv'
<1> DEFINE s == Head(actions).arg
<1> USE DEF EndInv
<1>1. /\ actions # <<>> /\ actions' = Tail(actions) /\ UNCHANGED <<pc, elapsed, received>>
      /\ search' = [search EXCEPT ![s] = IF @ = Free THEN @ ELSE Finished(@)]
      /\ list' = Keep(list, Searches \ {s}) /\ texts' = texts
  BY DEF Execute, SearchEnd
<1>2. Head(actions) \in Actions /\ 1 \in DOMAIN actions /\ Head(actions) = actions[1]
  BY <1>1, Taken DEF TypeOK
<1>3. s \in Searches /\ Head(actions) = Act("SEARCH_END", s) /\ IsListed(s)
  BY <1>2, ActionFields DEF ActionsWait, Waiting
<1> HIDE DEF s
<1>4. search[s] # Free
  BY <1>3 DEF ListedRun, IsListed
<1>5. search' = [r \in Searches |-> IF r \in {s} THEN Finished(search[r]) ELSE search[r]]
  BY <1>1, <1>3, <1>4 DEF TypeOK
<1>6. \A b \in Actions : Waiting(b) /\ b.op = "SEARCH_END" /\ b # Head(actions) => b.arg \notin {s}
  BY <1>3, ActionFields
<1>7. search \in [Searches -> SearchType \cup {Free}] /\ texts' \in [Searches -> Int]
  BY <1>1 DEF TypeOK
<1>8. \A r \in Range(list) : r \notin {s} => ~Enough(search[r])
  BY DEF ListedRun
<1>9. \A r \in Searches : IF search[r] = Free \/ ~IsListed(r) THEN search[r] = search[r]
                          ELSE /\ search[r] # Free /\ search[r].state = search[r].state
                               /\ search[r].done = search[r].done
  OBVIOUS
<1>10. {s} \in SUBSET Searches /\ \A r \in {s} : IsListed(r)
  BY <1>3
<1> QED BY <1>1, <1>5, <1>6, <1>7, <1>8, <1>9, <1>10, EndsStep

\* The searches that are answered are listed and not off.
LEMMA AnsweredIs ==
  ASSUME TypeOK, NEW record
  PROVE  \A s \in Answered(record) :
           s \in Searches /\ IsListed(s) /\ search[s].state # "OFF" /\ Answers(record, search[s].type)
BY DEF Answered, Matching, TypeOK, IsListed, Range

\* What a packet makes of all searches.
LEMMA AfterIs ==
  ASSUME EndInv, NEW p \in Packet
  PROVE  LET after == [s \in Searches |->
                        IF s \in Answered(p.record) THEN WithResult(search[s], p) ELSE search[s]]
         IN  /\ after \in [Searches -> SearchType \cup {Free}]
             /\ \A s \in Searches :
                  IF search[s] = Free \/ ~IsListed(s) THEN after[s] = search[s]
                  ELSE /\ after[s] # Free /\ after[s].state = search[s].state
                       /\ after[s].done = search[s].done
<1> DEFINE after == [s \in Searches |->
             IF s \in Answered(p.record) THEN WithResult(search[s], p) ELSE search[s]]
<1> USE DEF EndInv
<1>1. ASSUME NEW s \in Answered(p.record)
      PROVE  /\ s \in Searches /\ IsListed(s) /\ search[s] \in SearchType /\ search[s] # Free
             /\ after[s] \in SearchType /\ after[s] # Free
             /\ after[s].state = search[s].state /\ after[s].done = search[s].done
  <2>1. s \in Searches /\ IsListed(s)
    BY <1>1, AnsweredIs
  <2>2. search[s] \in SearchType
    BY <2>1 DEF TypeOK, ListedRun, IsListed
  <2>3. after[s] = WithResult(search[s], p)
    BY <1>1, <2>1
  <2> HIDE DEF after
  <2>4. /\ WithResult(search[s], p) \in SearchType
        /\ WithResult(search[s], p).state = search[s].state
        /\ WithResult(search[s], p).done = search[s].done
    BY <2>2, WithResultIs
  <2> QED BY <2>1, <2>2, <2>3, <2>4, Fields
<1>2. \A s \in Searches : s \notin Answered(p.record) => after[s] = search[s]
  OBVIOUS
<1>3. after \in [Searches -> SearchType \cup {Free}]
  <2>1. \A s \in Searches : after[s] \in SearchType \cup {Free}
    <3> HIDE DEF after
    <3> QED BY <1>1, <1>2 DEF TypeOK
  <2> QED BY <2>1
<1> HIDE DEF after
<1>4. ASSUME NEW s \in Searches
      PROVE  IF search[s] = Free \/ ~IsListed(s) THEN after[s] = search[s]
             ELSE /\ after[s] # Free /\ after[s].state = search[s].state
                  /\ after[s].done = search[s].done
  BY <1>1, <1>2
<1> QED BY <1>3, <1>4 DEF after

LEMMA ParseStep ==
  ASSUME EndInv, Execute, Head(actions).op = "RX_HANDLE", Parse(Head(actions).arg)
  PROVE  EndInv'
<1> DEFINE p == Head(actions).arg
           after == [s \in Searches |->
             IF s \in Answered(p.record) THEN WithResult(search[s], p) ELSE search[s]]
           enough == {s \in Range(list) : p.finishes /\ Enough(after[s])}
<1> USE DEF EndInv
<1>1. /\ actions # <<>> /\ actions' = Tail(actions) /\ UNCHANGED <<pc, elapsed, received>>
      /\ search' = [s \in Searches |-> IF s \in enough THEN Finished(after[s]) ELSE after[s]]
      /\ list' = Keep(list, Searches \ enough)
      /\ texts' = [s \in Searches |->
           IF s \in Answered(p.record) THEN texts[s] + TextsMade(search[s], p) ELSE texts[s]]
  BY DEF Execute, Parse
<1>2. Head(actions) \in Actions /\ 1 \in DOMAIN actions /\ Head(actions) = actions[1]
  BY <1>1, Taken DEF TypeOK
<1>3. p \in Packet /\ p.finishes
  BY <1>2, ActionFields DEF ActionsWait, Waiting
<1> HIDE DEF p
<1>4. /\ after \in [Searches -> SearchType \cup {Free}]
      /\ \A s \in Searches :
           IF search[s] = Free \/ ~IsListed(s) THEN after[s] = search[s]
           ELSE /\ after[s] # Free /\ after[s].state = search[s].state
                /\ after[s].done = search[s].done
  BY <1>3, AfterIs
<1>5. \A s \in Searches : s \notin Answered(p.record) => after[s] = search[s]
  OBVIOUS
<1> HIDE DEF after
<1>6. enough \in SUBSET Searches /\ \A s \in enough : IsListed(s)
  BY DEF TypeOK, Range, IsListed
<1>7. \A s \in Range(list) : s \notin enough => ~Enough(after[s])
  BY <1>3
\* A search whose end waits is off, so it is not answered.
<1>8. \A s \in enough : search[s].state # "OFF"
  <2> SUFFICES ASSUME NEW s \in enough, search[s].state = "OFF" PROVE FALSE
    OBVIOUS
  <2>1. s \notin Answered(p.record)
    BY AnsweredIs
  <2>2. after[s] = search[s] /\ s \in Range(list) /\ Enough(after[s])
    BY <1>5, <1>6, <2>1
  <2> QED BY <2>2 DEF ListedRun
<1> HIDE DEF enough
<1>9. \A b \in Actions : Waiting(b) /\ b.op = "SEARCH_END" => b.arg \notin enough
  BY <1>8 DEF Waiting
<1>10. texts' \in [Searches -> Int]
  <2> SUFFICES ASSUME NEW s \in Searches
               PROVE  (IF s \in Answered(p.record) THEN texts[s] + TextsMade(search[s], p)
                       ELSE texts[s]) \in Int
    BY <1>1
  <2>1. texts[s] \in Int
    BY DEF TypeOK
  <2>2. CASE s \in Answered(p.record)
    <3>1. search[s] \in SearchType
      BY <2>2, AnsweredIs DEF TypeOK, ListedRun, IsListed
    <3>2. TextsMade(search[s], p) \in Int
      BY <1>3, <3>1, TextsMadeIs
    <3> QED BY <2>1, <2>2, <3>2
  <2> QED BY <2>1, <2>2
<1> QED BY <1>1, <1>4, <1>6, <1>7, <1>9, <1>10, EndsStep

\* Every step keeps it, when packets end what they complete and clients delete
\* no search before they have its results.
LEMMA EndInvStep ==
  ASSUME Clean, Patient, EndInv, [Next]_vars
  PROVE  EndInv'
<1>1. ASSUME NEW c \in Clients, QueryGeneric(c) \/ QueryAsyncNew(c) PROVE EndInv'
  BY <1>1, QueryStep DEF QueryGeneric, QueryAsyncNew
<1>2. ASSUME NEW c \in Clients, QueryReturns(c) PROVE EndInv'
  <2>1. pc[c] # Idle /\ search[pc[c].search].done /\ FreeSearch(c, TRUE)
    BY <1>2, IdleIs DEF QueryReturns
  <2>2. IsOut(pc[c].search)
    BY <2>1, HolderIs, DoneIsOut
  <2> QED BY <1>2, <2>1, <2>2, FreeStep DEF QueryReturns
<1>3. ASSUME NEW c \in Clients, GetResults(c) PROVE EndInv'
  BY <1>3, GetResultsStep
<1>4. ASSUME NEW c \in Clients, QueryAsyncDelete(c) PROVE EndInv'
  <2>1. pc[c].op = "fetched" /\ pc[c] # Idle /\ FreeSearch(c, TRUE)
    <3>1. pc[c].op = "fetched"
      BY <1>4 DEF QueryAsyncDelete
    <3>2. FreeSearch(c, pc[c].op = "fetched")
      BY <1>4 DEF QueryAsyncDelete
    <3>3. (pc[c].op = "fetched") = TRUE
      BY <3>1
    <3>4. pc[c] # Idle
      BY <3>1, IdleIs
    <3>5. FreeSearch(c, TRUE)
      BY <3>2, <3>3
    <3> QED BY <3>1, <3>4, <3>5
  <2>2. IsOut(pc[c].search)
    BY <2>1 DEF EndInv, FetchedIsOut
  <2> QED BY <1>4, <2>1, <2>2, FreeStep DEF QueryAsyncDelete
<1>5. CASE Tick
  <2>1. elapsed' \in 0..Horizon /\ UNCHANGED <<search, list, actions, pc, texts, received>>
    BY <1>5, Constants DEF Tick, EndInv, TypeOK
  <2> QED BY <2>1 DEF EndInv, TypeOK, WaitsOnce, ActionsWait, Waiting, IsNew, IsListed,
                      IsInjective, ListedRun, Held, FetchedIsOut, IsOut
<1>6. ASSUME NEW s \in Searches, SearchRun(s) PROVE EndInv'
  BY <1>6, SearchRunStep
<1>7. CASE Receive
  BY <1>7, ReceiveStep
<1>8. CASE Execute
  <2>1. \/ Head(actions).op = "SEARCH_ADD" /\ SearchAdd(Head(actions).arg)
        \/ Head(actions).op = "SEARCH_SEND" /\ SearchSend(Head(actions).arg)
        \/ Head(actions).op = "SEARCH_END" /\ SearchEnd(Head(actions).arg)
        \/ Head(actions).op = "RX_HANDLE" /\ Parse(Head(actions).arg)
    BY <1>8 DEF Execute
  <2> QED BY <1>8, <2>1, SearchAddStep, SearchSendStep, SearchEndStep, ParseStep
<1>9. CASE UNCHANGED vars
  BY <1>9 DEF vars, EndInv, TypeOK, WaitsOnce, ActionsWait, Waiting, IsNew, IsListed,
              IsInjective, ListedRun, Held, FetchedIsOut, IsOut
<1> QED BY <1>1, <1>2, <1>3, <1>4, <1>5, <1>6, <1>7, <1>8, <1>9 DEF Next

\* It says that an end that waits is of a search in the list.
LEMMA EndInvSays == EndInv => SearchesEndOnce
BY DEF EndInv, SearchesEndOnce, EndIsOfListed, ListIsLive, ActionsWait, Waiting, ListedRun

LEMMA EndInvAlways == Clean /\ Patient => (Spec => []EndInv)
<1> SUFFICES ASSUME Clean, Patient PROVE Spec => []EndInv
  OBVIOUS
<1>1. EndInv /\ [Next]_vars => EndInv'
  BY EndInvStep
<1> QED BY EndInvInit, <1>1, PTL DEF Spec

\* The end of a search is executed once, while it is in the list, and the list
\* holds no search twice and none that was freed (mdns.c:4019, _mdns_search_run
\* and _mdns_search_finish), as long as packets are answers that parse, and no
\* search is deleted before its results were fetched.
THEOREM SearchesEnd == Clean /\ Patient => (Spec => []SearchesEndOnce)
<1> SUFFICES ASSUME Clean, Patient PROVE Spec => []SearchesEndOnce
  OBVIOUS
<1>1. Spec => []EndInv
  BY EndInvAlways
<1> QED BY <1>1, EndInvSays, PTL

-----------------------------------------------------------------------------
(* The results.                                                            *)

\* What makes the results those asked for: they are counted, and differ.
Counted(q) ==
  /\ q.requested # 0 =>
       /\ q.max = q.requested /\ q.num = Len(q.result) /\ Len(q.result) <= q.requested
  /\ \A i, j \in DOMAIN q.result : q.result[i].key = q.result[j].key => i = j

\* The texts allocated are those of the results, n of them for search q.
Accounted(q, n) == n = IF q = Free THEN 0 ELSE 2 * TextsOf(q.result)

ResultInv ==
  \A s \in Searches :
    /\ search[s] # Free => Counted(search[s])
    /\ Accounted(search[s], texts[s])

\* Each client can count to the maximum it asks for.
CanCount == \A m \in Requested : m < Byte

\* A packet leaves the results of a search counted and different.
LEMMA WithResultCounted ==
  ASSUME CanCount, NEW q \in SearchType, NEW p \in Packet, Counted(q)
  PROVE  Counted(WithResult(q, p))
<1> DEFINE r == WithResult(q, p)
           n == Len(q.result)
<1>1. /\ q.requested \in Nat /\ q.requested < Byte /\ q.num \in Nat /\ q.max \in Nat
      /\ q.result \in Seq(ResultType) /\ n \in Nat /\ DOMAIN q.result = 1..n
  BY Fields, Constants DEF CanCount
<1>2. r.requested = q.requested /\ r.max = q.max
  BY WithResultIs
<1>3. CASE r.num = q.num /\ r.result = Marked(q, p)
  <2>1. /\ Len(r.result) = n /\ DOMAIN r.result = DOMAIN q.result
        /\ \A i \in DOMAIN q.result : r.result[i].key = q.result[i].key
    BY <1>3, ResultsTyped DEF Marked
  <2> HIDE DEF r
  <2>2. r.requested # 0 =>
          r.max = r.requested /\ r.num = Len(r.result) /\ Len(r.result) <= r.requested
    BY <1>2, <1>3, <2>1 DEF Counted
  <2>3. \A i, j \in DOMAIN r.result : r.result[i].key = r.result[j].key => i = j
    BY <2>1 DEF Counted
  <2>4. Counted(r)
    BY <2>2, <2>3 DEF Counted
  <2> QED BY <2>4 DEF r
<1>4. CASE /\ HasResult(q, p) = {} /\ MayAdd(q)
           /\ r.num = (q.num + 1) % Byte
           /\ r.result = <<NewResult(q, p)>> \o q.result
  <2>1. /\ Len(r.result) = n + 1 /\ DOMAIN r.result = 1..(n + 1)
        /\ r.result[1] = NewResult(q, p)
        /\ \A i \in 1..(n + 1) : i = 1 \/ (i - 1 \in 1..n /\ r.result[i] = q.result[i - 1])
    BY <1>1, <1>4, ResultsTyped
  <2>2. \A i \in 1..n : q.result[i].key # NewResult(q, p).key
    BY <1>1, <1>4 DEF HasResult, NewResult
  <2>3. \A i, j \in 1..n : q.result[i].key = q.result[j].key => i = j
    BY <1>1 DEF Counted
  <2> HIDE DEF r
  <2>4. ASSUME NEW i \in 1..(n + 1), NEW j \in 1..(n + 1), r.result[i].key = r.result[j].key
        PROVE  i = j
    <3>1. CASE i = 1 /\ j # 1
      BY <1>1, <2>1, <2>2, <2>4, <3>1
    <3>2. CASE i # 1 /\ j = 1
      BY <1>1, <2>1, <2>2, <2>4, <3>2
    <3>3. CASE i # 1 /\ j # 1
      <4>1. /\ i - 1 \in 1..n /\ r.result[i] = q.result[i - 1]
            /\ j - 1 \in 1..n /\ r.result[j] = q.result[j - 1]
        BY <2>1, <3>3
      <4>2. q.result[i - 1].key = q.result[j - 1].key
        BY <2>4, <4>1
      <4>3. i - 1 = j - 1
        BY <2>3, <4>1, <4>2
      <4> QED BY <1>1, <4>3
    <3> QED BY <3>1, <3>2, <3>3
  <2>5. ASSUME q.requested # 0
        PROVE  r.num = Len(r.result) /\ Len(r.result) <= q.requested
    <3>1. q.num = n /\ q.max = q.requested /\ q.num < q.max
      BY <1>4, <2>5 DEF Counted, MayAdd
    <3>2. q.num + 1 \in 0..(Byte - 1)
      BY <1>1, <3>1, Constants
    <3>3. (q.num + 1) % Byte = q.num + 1
      BY <3>2, Constants
    <3> QED BY <1>1, <1>4, <2>1, <3>1, <3>3
  <2>6. r.requested # 0 => r.max = r.requested
    BY <1>2 DEF Counted
  <2>7. \A i, j \in DOMAIN r.result : r.result[i].key = r.result[j].key => i = j
    BY <2>1, <2>4
  <2>8. r.requested # 0 => r.num = Len(r.result) /\ Len(r.result) <= r.requested
    BY <1>2, <2>5
  <2>9. Counted(r)
    BY <2>6, <2>7, <2>8 DEF Counted
  <2> QED BY <2>9 DEF r
<1>5. CASE r = q
  BY <1>5
<1> QED BY <1>3, <1>4, <1>5, WithResultIs

\* A result without a text, put first, is no more text.
LEMMA TextsShifted ==
  ASSUME NEW results \in Seq(ResultType), NEW x \in ResultType, ~x.text
  PROVE  TextsOf(<<x>> \o results) = TextsOf(results)
<1> DEFINE n == Len(results)
           more == <<x>> \o results
           S == {i \in 1..n : results[i].text}
           T == {i \in 1..(n + 1) : more[i].text}
<1>1. /\ n \in Nat /\ DOMAIN results = 1..n /\ DOMAIN more = 1..(n + 1) /\ more[1] = x
      /\ \A i \in 1..n : more[i + 1] = results[i] /\ i + 1 \in 1..(n + 1)
      /\ \A i \in 1..(n + 1) : i = 1 \/ (i - 1 \in 1..n /\ more[i] = results[i - 1])
  OBVIOUS
<1>2. TextsOf(results) = Cardinality(S) /\ TextsOf(more) = Cardinality(T)
  BY <1>1 DEF TextsOf
<1>3. IsFiniteSet(S)
  BY <1>1, TextsAreFinite
<1> HIDE DEF more
<1> DEFINE f == [i \in S |-> i + 1]
<1>4. f \in [S -> T]
  BY <1>1
<1>5. \A i, j \in S : f[i] = f[j] => i = j
  BY <1>1
<1>6. \A k \in T : \E i \in S : f[i] = k
  <2> SUFFICES ASSUME NEW k \in T PROVE \E i \in S : f[i] = k
    OBVIOUS
  <2>1. k # 1 /\ k - 1 \in S /\ (k - 1) + 1 = k
    BY <1>1
  <2>2. f[k - 1] = k
    BY <2>1
  <2> QED BY <2>1, <2>2
<1> HIDE DEF f, S, T
<1>7. f \in Bijection(S, T)
  BY <1>4, <1>5, <1>6 DEF Bijection, Injection, Surjection, IsInjective
<1>8. Cardinality(T) = Cardinality(S)
  BY <1>3, <1>7, FS_Bijection DEF ExistsBijection
<1> QED BY <1>2, <1>8 DEF more

\* A search for anything but texts gets what its results hold.
LEMMA WithResultAccounted ==
  ASSUME NEW q \in SearchType, NEW p \in Packet, q.type # "TXT",
         Answers(p.record, q.type) \/ p.record # "TXT",
         NEW n, Accounted(q, n)
  PROVE  Accounted(WithResult(q, p), n + TextsMade(q, p))
<1> DEFINE r == WithResult(q, p)
<1>1. n = 2 * TextsOf(q.result) /\ TextsOf(q.result) \in Nat
  BY Fields, TextsAreFinite DEF Accounted
<1>2. r \in SearchType /\ TextsOf(r.result) \in Nat /\ r # Free
  BY WithResultIs, Fields, TextsAreFinite
<1>3. CASE p.record = "TXT"
  <2>1. q.type = "PTR"
    BY <1>3 DEF Answers
  <2>2. TextsMade(q, p) = 2 * (TextsOf(r.result) - TextsOf(q.result))
    BY <1>3, <2>1 DEF TextsMade
  <2> QED BY <1>1, <1>2, <2>2 DEF Accounted
<1>4. CASE p.record # "TXT"
  <2>1. TextsMade(q, p) = 0
    BY <1>4 DEF TextsMade
  <2>2. TextsOf(r.result) = TextsOf(q.result)
    <3>1. CASE r.result = Marked(q, p)
      <4>1. DOMAIN r.result = DOMAIN q.result /\ \A i \in DOMAIN q.result : r.result[i] = q.result[i]
        BY <1>4, <3>1 DEF Marked
      <4>2. {i \in DOMAIN r.result : r.result[i].text} = {i \in DOMAIN q.result : q.result[i].text}
        BY <4>1
      <4> QED BY <4>2 DEF TextsOf
    <3>2. CASE r.result = <<NewResult(q, p)>> \o q.result
      <4>1. NewResult(q, p) \in ResultType /\ ~NewResult(q, p).text
        BY <1>4, ResultsTyped DEF NewResult
      <4> QED BY <3>2, <4>1, TextsShifted, Fields
    <3>3. CASE r = q
      BY <3>3
    <3> QED BY <3>1, <3>2, <3>3, WithResultIs
  <2> QED BY <1>1, <1>2, <2>1, <2>2 DEF Accounted
<1> QED BY <1>3, <1>4

\* Searches that keep their results keep the invariant.
LEMMA ResultsStay ==
  ASSUME EndInv, ResultInv, NEW s \in Searches, texts'[s] = texts[s],
         \/ search'[s] = search[s]
         \/ search[s] # Free /\ search'[s] # Free /\ SameResults(search[s], search'[s])
  PROVE  /\ search'[s] # Free => Counted(search'[s])
         /\ Accounted(search'[s], texts'[s])
BY DEF ResultInv, Counted, Accounted, SameResults

\* A new search has no results.
LEMMA QueryKeepsResults ==
  ASSUME CanCount, EndInv, ResultInv, NEW c \in Clients, NEW op, Query(c, op)
  PROVE  ResultInv'
<1> USE DEF EndInv
<1>1. PICK s \in Searches, type \in Types, max \in Requested :
         search[s] = Free /\ search' = [search EXCEPT ![s] = NewSearch(type, max)]
  BY DEF Query
<1>2. texts' = texts
  BY DEF Query
<1> DEFINE q == NewSearch(type, max)
<1>3. q \in SearchType /\ q.num = 0 /\ q.result = <<>> /\ q.requested = max /\ q.max = max % Byte
  BY NewSearchIs
<1>4. search'[s] = q /\ \A r \in Searches : r # s => search'[r] = search[r]
  BY <1>1 DEF TypeOK
<1> HIDE DEF q
<1>5. max \in Nat /\ max < Byte
  BY Constants DEF CanCount
<1>6. max % Byte = max
  BY <1>5, Constants
<1>7. DOMAIN q.result = {} /\ Len(q.result) = 0
  BY <1>3
<1>8. Counted(q)
  BY <1>3, <1>5, <1>6, <1>7 DEF Counted
<1>9. Accounted(q, texts[s])
  <2>1. texts[s] = 0
    BY <1>1 DEF ResultInv, Accounted
  <2>2. {i \in DOMAIN q.result : q.result[i].text} = {}
    BY <1>7
  <2>3. TextsOf(q.result) = 0
    BY <2>2, FS_EmptySet DEF TextsOf
  <2> QED BY <2>1, <2>3, <1>3, Fields DEF Accounted
<1>10. \A r \in Searches : r # s =>
         /\ search'[r] # Free => Counted(search'[r])
         /\ Accounted(search'[r], texts'[r])
  BY <1>2, <1>4, ResultsStay
<1> QED BY <1>2, <1>4, <1>8, <1>9, <1>10 DEF ResultInv

\* A client that has its results frees what was allocated for them.
LEMMA FreeKeepsResults ==
  ASSUME EndInv, ResultInv, NEW c \in Clients, pc[c] # Idle, FreeSearch(c, TRUE)
  PROVE  ResultInv'
<1> DEFINE s == pc[c].search
<1>1. s \in Searches /\ search[s] \in SearchType /\ search[s] # Free
  BY HolderIs, Fields
<1>2. /\ search' = [search EXCEPT ![s] = Free]
      /\ texts' = [texts EXCEPT ![s] = @ - TextsFreed(search[s].result)]
  BY DEF FreeSearch
<1> HIDE DEF s
<1>3. /\ search'[s] = Free /\ texts'[s] = texts[s] - TextsFreed(search[s].result)
      /\ \A r \in Searches : r # s => search'[r] = search[r] /\ texts'[r] = texts[r]
  BY <1>1, <1>2 DEF EndInv, TypeOK
<1>4. TextsOf(search[s].result) \in Nat
  BY <1>1, Fields, TextsAreFinite
<1>5. texts'[s] = 0
  BY <1>1, <1>3, <1>4 DEF ResultInv, Accounted, TextsFreed
<1> QED BY <1>3, <1>5, ResultsStay DEF ResultInv, Accounted

\* A packet adds to the searches it answers what it allocates for them.
LEMMA ParseKeepsResults ==
  ASSUME CanCount, "TXT" \notin Types, EndInv, ResultInv, NEW p \in Packet, Parse(p)
  PROVE  ResultInv'
<1> DEFINE after == [s \in Searches |->
             IF s \in Answered(p.record) THEN WithResult(search[s], p) ELSE search[s]]
           enough == {s \in Range(list) : p.finishes /\ Enough(after[s])}
<1> USE DEF EndInv
<1>1. /\ search' = [s \in Searches |-> IF s \in enough THEN Finished(after[s]) ELSE after[s]]
      /\ texts' = [s \in Searches |->
           IF s \in Answered(p.record) THEN texts[s] + TextsMade(search[s], p) ELSE texts[s]]
  BY DEF Parse
<1> SUFFICES ASSUME NEW s \in Searches
             PROVE  /\ search'[s] # Free => Counted(search'[s])
                    /\ Accounted(search'[s], texts'[s])
  BY DEF ResultInv
<1>2. /\ after[s] # Free => after[s] \in SearchType /\ Counted(after[s])
      /\ Accounted(after[s], texts'[s])
      /\ s \in Range(list) => after[s] # Free
  <2>1. CASE s \in Answered(p.record)
    <3>1. search[s] \in SearchType /\ search[s] # Free /\ Answers(p.record, search[s].type)
      BY <2>1, AnsweredIs DEF TypeOK, ListedRun, IsListed
    <3>2. search[s].type # "TXT"
      BY <3>1, Fields
    <3>3. after[s] = WithResult(search[s], p) /\ texts'[s] = texts[s] + TextsMade(search[s], p)
      BY <1>1, <2>1
    <3> HIDE DEF after
    <3>4. Counted(WithResult(search[s], p))
      BY <3>1, WithResultCounted DEF ResultInv
    <3>5. Accounted(WithResult(search[s], p), texts[s] + TextsMade(search[s], p))
      BY <3>1, <3>2, WithResultAccounted DEF ResultInv
    <3>6. WithResult(search[s], p) \in SearchType
      BY <3>1, WithResultIs
    <3> QED BY <3>3, <3>4, <3>5, <3>6, Fields
  <2>2. CASE s \notin Answered(p.record)
    <3>1. after[s] = search[s] /\ texts'[s] = texts[s]
      BY <1>1, <2>2
    <3> HIDE DEF after
    <3> QED BY <3>1 DEF ResultInv, TypeOK, ListedRun
  <2> QED BY <2>1, <2>2
<1> HIDE DEF after
<1>3. CASE s \in enough
  <2> DEFINE q == after[s]
  <2>1. q \in SearchType /\ q # Free /\ search'[s] = Finished(q)
    BY <1>1, <1>2, <1>3
  <2>2. Counted(q) /\ Accounted(q, texts'[s])
    BY <1>2, <2>1
  <2> HIDE DEF q
  <2>3. SameResults(q, Finished(q)) /\ Finished(q) # Free
    BY <2>1, FinishedIs, Fields
  <2>4. Counted(Finished(q)) /\ Accounted(Finished(q), texts'[s])
    BY <2>1, <2>2, <2>3 DEF Counted, Accounted, SameResults
  <2> QED BY <2>1, <2>4
<1>4. CASE s \notin enough
  <2>1. search'[s] = after[s]
    BY <1>1, <1>4
  <2> QED BY <1>2, <2>1
<1> QED BY <1>3, <1>4

LEMMA ResultInvStep ==
  ASSUME CanCount, "TXT" \notin Types, Patient, EndInv, ResultInv, [Next]_vars
  PROVE  ResultInv'
<1> USE DEF EndInv
<1>1. ASSUME NEW c \in Clients, QueryGeneric(c) \/ QueryAsyncNew(c) PROVE ResultInv'
  BY <1>1, QueryKeepsResults DEF QueryGeneric, QueryAsyncNew
<1>2. ASSUME NEW c \in Clients, QueryReturns(c) PROVE ResultInv'
  BY <1>2, IdleIs, FreeKeepsResults DEF QueryReturns
<1>3. ASSUME NEW c \in Clients, GetResults(c) PROVE ResultInv'
  <2> DEFINE s == pc[c].search
  <2>1. s \in Searches /\ search[s] \in SearchType /\ texts' = texts
    BY <1>3, IdleIs, HolderIs DEF GetResults
  <2>2. search' = [search EXCEPT ![s] = [search[s] EXCEPT !.done = FALSE]]
    BY <1>3 DEF GetResults
  <2> HIDE DEF s
  <2> DEFINE q == search[s]
             r == [q EXCEPT !.done = FALSE]
  <2>3. search'[s] = r /\ \A x \in Searches : x # s => search'[x] = search[x]
    BY <2>1, <2>2 DEF TypeOK
  <2>4. q \in SearchType
    BY <2>1
  <2> HIDE DEF q
  <2>5. r \in SearchType /\ SameResults(q, r)
    BY <2>4, SemaphoreTaken
  <2> HIDE DEF r
  <2>6. q # Free /\ r # Free
    BY <2>4, <2>5, Fields
  <2>7. \A x \in Searches :
          (search'[x] = search[x]) \/
          (search[x] # Free /\ search'[x] # Free /\ SameResults(search[x], search'[x]))
    <3>1. search[s] = q
      BY DEF q
    <3> QED BY <2>3, <2>5, <2>6, <3>1
  <2> QED BY <2>1, <2>7, ResultsStay DEF ResultInv
<1>4. ASSUME NEW c \in Clients, QueryAsyncDelete(c) PROVE ResultInv'
  <2>1. pc[c].op = "fetched" /\ FreeSearch(c, pc[c].op = "fetched")
    BY <1>4 DEF QueryAsyncDelete
  <2>2. (pc[c].op = "fetched") = TRUE
    BY <2>1
  <2>3. FreeSearch(c, TRUE)
    BY <2>1, <2>2
  <2> QED BY <2>1, <2>3, IdleIs, FreeKeepsResults
<1>5. CASE UNCHANGED <<search, texts>>
  BY <1>5, ResultsStay DEF ResultInv
<1>6. ASSUME NEW s \in Searches, SearchRun(s) PROVE ResultInv'
  <2>1. PICK state \in {"RUNNING", "OFF"} : search' = [search EXCEPT ![s].state = state]
    BY <1>6 DEF SearchRun, PostEnd, PostSend
  <2> DEFINE q == search[s]
             r == [q EXCEPT !.state = state]
  <2>2. q \in SearchType /\ texts' = texts
    BY <1>6 DEF SearchRun, TypeOK, ListedRun, IsListed
  <2>3. search'[s] = r /\ \A x \in Searches : x # s => search'[x] = search[x]
    BY <2>1 DEF TypeOK
  <2> HIDE DEF q
  <2>4. r \in SearchType /\ SameResults(q, r)
    BY <2>2, StateSet
  <2> HIDE DEF r
  <2>5. q # Free /\ r # Free
    BY <2>2, <2>4, Fields
  <2>6. \A x \in Searches :
          (search'[x] = search[x]) \/
          (search[x] # Free /\ search'[x] # Free /\ SameResults(search[x], search'[x]))
    <3>1. search[s] = q
      BY DEF q
    <3> QED BY <2>3, <2>4, <2>5, <3>1
  <2> QED BY <2>2, <2>6, ResultsStay DEF ResultInv
<1>7. CASE Execute
  <2>1. Head(actions) \in Actions
    BY <1>7, Taken DEF Execute, TypeOK
  <2>2. CASE UNCHANGED <<search, texts>>
    BY <2>2, <1>5
  <2>3. CASE Head(actions).op = "SEARCH_END" /\ SearchEnd(Head(actions).arg)
    <3> DEFINE s == Head(actions).arg
               q == search[s]
    <3>1. /\ search' = [search EXCEPT ![s] = IF @ = Free THEN @ ELSE Finished(@)]
          /\ texts' = texts
      BY <2>3 DEF SearchEnd
    <3>2. s \in Searches
      BY <2>1, <2>3, ActionFields
    <3> HIDE DEF s
    <3>3. /\ search'[s] = IF q = Free THEN q ELSE Finished(q)
          /\ \A x \in Searches : x # s => search'[x] = search[x]
          /\ q # Free => q \in SearchType
      BY <3>1, <3>2 DEF TypeOK
    <3> HIDE DEF q
    <3>4. q # Free => SameResults(q, Finished(q)) /\ Finished(q) # Free
      BY <3>3, FinishedIs, Fields
    <3>5. \A x \in Searches :
          (search'[x] = search[x]) \/
          (search[x] # Free /\ search'[x] # Free /\ SameResults(search[x], search'[x]))
      <4>1. search[s] = q
        BY DEF q
      <4> QED BY <3>3, <3>4, <4>1
    <3> QED BY <3>1, <3>5, ResultsStay DEF ResultInv
  <2>4. CASE Head(actions).op = "RX_HANDLE" /\ Parse(Head(actions).arg)
    BY <2>1, <2>4, ActionFields, ParseKeepsResults
  <2> QED BY <1>7, <2>2, <2>3, <2>4 DEF Execute, SearchAdd, SearchSend
<1> QED BY <1>1, <1>2, <1>3, <1>4, <1>5, <1>6, <1>7 DEF Next, vars, Tick, Receive

LEMMA ResultInvInit == Init => ResultInv
BY DEF Init, ResultInv, Accounted

LEMMA ResultInvSays == EndInv /\ ResultInv => ResultsAreKept
<1> SUFFICES ASSUME EndInv, ResultInv PROVE ResultsAreKept
  OBVIOUS
<1>1. ResultsWithinMax
  BY DEF ResultInv, Counted, ResultsWithinMax
<1>2. NoResultTwice
  BY DEF ResultInv, Counted, NoResultTwice, IsInjective
<1>3. NothingLeaks
  BY DEF ResultInv, Accounted, NothingLeaks
<1> QED BY <1>1, <1>2, <1>3 DEF EndInv, ResultsAreKept

\* A search holds no more results than asked for, none twice, and all that was
\* allocated for them is freed with them (mdns.c:4280,
\* _mdns_search_result_add_ptr and its relatives), as long as the maximum fits
\* a byte, none searches for texts, packets are answers that parse, and no
\* search is deleted before its results were fetched.
THEOREM ResultsKept ==
  Clean /\ Patient /\ CanCount /\ "TXT" \notin Types => (Spec => []ResultsAreKept)
<1> SUFFICES ASSUME Clean, Patient, CanCount, "TXT" \notin Types
             PROVE  Spec => []ResultsAreKept
  OBVIOUS
<1>1. Spec => []EndInv
  BY EndInvAlways
<1>2. EndInv /\ ResultInv /\ [Next]_vars => ResultInv'
  BY ResultInvStep
<1> QED BY <1>1, <1>2, ResultInvInit, ResultInvSays, PTL DEF Spec

-----------------------------------------------------------------------------
(* The time a search takes.                                                *)

\* The clock does not wrap around while it is observed.
NoWrap == Start + Horizon <= W

\* The start of a search is the time it was made, and its end is before the
\* last time that is observed.
Timed(q) ==
  /\ q.startedAt = Start + q.elapsed
  /\ q.elapsed + Timeout + 1 < Horizon

ClockInv == \A s \in Searches : search[s] # Free => Timed(search[s])

SameTime(q, r) == r.startedAt = q.startedAt /\ r.elapsed = q.elapsed

LEMMA TimesStay ==
  ASSUME ClockInv,
         \A s \in Searches :
           \/ search'[s] = Free \/ search'[s] = search[s]
           \/ search[s] # Free /\ SameTime(search[s], search'[s])
  PROVE  ClockInv'
BY DEF ClockInv, Timed, SameTime

LEMMA QueryTimed ==
  ASSUME NoWrap, TypeOK, ClockInv, NEW c, NEW op, Query(c, op)
  PROVE  ClockInv'
<1>1. PICK s \in Searches, type \in Types, max \in Requested :
         search[s] = Free /\ search' = [search EXCEPT ![s] = NewSearch(type, max)]
  BY DEF Query
<1> DEFINE q == NewSearch(type, max)
<1>2. q.startedAt = now /\ q.elapsed = elapsed
  BY NewSearchIs
<1>3. search'[s] = q /\ \A r \in Searches : r # s => search'[r] = search[r]
  BY <1>1 DEF TypeOK
<1> HIDE DEF q
<1>4. elapsed \in 0..Horizon /\ elapsed + Timeout + 1 < Horizon
  BY DEF Query, TypeOK
<1>5. now = Start + elapsed
  <2>1. Start + elapsed \in 0..(W - 1) /\ W \in Nat \ {0}
    BY <1>4, Constants DEF NoWrap
  <2>2. \A x \in 0..(W - 1) : x % W = x
    BY <2>1
  <2> QED BY <2>1, <2>2 DEF now
<1>6. Timed(q)
  BY <1>2, <1>4, <1>5 DEF Timed
<1> QED BY <1>3, <1>6 DEF ClockInv

\* A search whose state, or semaphore, is set keeps its time.
LEMMA OneTimed ==
  ASSUME TypeOK, ClockInv, NEW s \in Searches, NEW r, search' = [search EXCEPT ![s] = r],
         r = Free \/ r = search[s] \/ (search[s] # Free /\ SameTime(search[s], r))
  PROVE  ClockInv'
<1>1. search'[s] = r /\ \A x \in Searches : x # s => search'[x] = search[x]
  BY DEF TypeOK
<1> QED BY <1>1, TimesStay

LEMMA ParseTimed ==
  ASSUME EndInv, ClockInv, NEW p \in Packet, Parse(p)
  PROVE  ClockInv'
<1> DEFINE after == [s \in Searches |->
             IF s \in Answered(p.record) THEN WithResult(search[s], p) ELSE search[s]]
           enough == {s \in Range(list) : p.finishes /\ Enough(after[s])}
<1>1. search' = [s \in Searches |-> IF s \in enough THEN Finished(after[s]) ELSE after[s]]
  BY DEF Parse
<1>2. ASSUME NEW s \in Searches
      PROVE  /\ s \in Range(list) => after[s] \in SearchType
             /\ after[s] = search[s] \/ (search[s] # Free /\ SameTime(search[s], after[s]))
  <2>1. CASE s \in Answered(p.record)
    <3>1. search[s] \in SearchType /\ search[s] # Free
      BY <2>1, AnsweredIs DEF EndInv, TypeOK, ListedRun, IsListed
    <3>2. after[s] = WithResult(search[s], p)
      BY <2>1
    <3>3. /\ WithResult(search[s], p) \in SearchType
          /\ WithResult(search[s], p).startedAt = search[s].startedAt
          /\ WithResult(search[s], p).elapsed = search[s].elapsed
      BY <3>1, WithResultIs
    <3> HIDE DEF after
    <3> QED BY <3>1, <3>2, <3>3 DEF SameTime
  <2>2. CASE s \notin Answered(p.record)
    <3>1. after[s] = search[s]
      BY <2>2
    <3> HIDE DEF after
    <3> QED BY <3>1 DEF EndInv, TypeOK, ListedRun
  <2> QED BY <2>1, <2>2
<1> HIDE DEF after
<1>3. ASSUME NEW s \in Searches
      PROVE  \/ search'[s] = search[s]
             \/ search[s] # Free /\ SameTime(search[s], search'[s])
  <2>1. CASE s \notin enough
    BY <1>1, <1>2, <2>1
  <2>2. CASE s \in enough
    <3> DEFINE q == after[s]
    <3>1. q \in SearchType /\ search'[s] = Finished(q) /\ search[s] # Free
      <4>1. s \in Range(list) /\ search[s] # Free
        BY <2>2 DEF EndInv, ListedRun
      <4> QED BY <1>1, <1>2, <2>2, <4>1
    <3>2. SameTime(search[s], q)
      BY <1>2 DEF SameTime
    <3> HIDE DEF q
    <3>3. SameResults(q, Finished(q))
      BY <3>1, FinishedIs
    <3> QED BY <3>1, <3>2, <3>3 DEF SameTime, SameResults
  <2> QED BY <2>1, <2>2
<1> QED BY <1>3, TimesStay

LEMMA ClockInvStep ==
  ASSUME NoWrap, EndInv, ClockInv, [Next]_vars
  PROVE  ClockInv'
<1>0. TypeOK
  BY DEF EndInv
<1>1. ASSUME NEW c \in Clients, QueryGeneric(c) \/ QueryAsyncNew(c) PROVE ClockInv'
  BY <1>0, <1>1, QueryTimed DEF QueryGeneric, QueryAsyncNew
<1>2. ASSUME NEW c \in Clients, QueryReturns(c) \/ QueryAsyncDelete(c) PROVE ClockInv'
  <2>1. \E fetched : FreeSearch(c, fetched)
    BY <1>2 DEF QueryReturns, QueryAsyncDelete
  <2>2. pc[c] # Idle
    BY <1>2, IdleIs DEF QueryReturns, QueryAsyncDelete
  <2>3. search' = [search EXCEPT ![pc[c].search] = Free] /\ pc[c].search \in Searches
    BY <2>1, <2>2, HolderIs DEF FreeSearch
  <2> QED BY <1>0, <2>3, OneTimed
<1>3. ASSUME NEW c \in Clients, GetResults(c) PROVE ClockInv'
  <2> DEFINE s == pc[c].search
             q == search[s]
             r == [q EXCEPT !.done = FALSE]
  <2>1. s \in Searches /\ q \in SearchType /\ q # Free
    BY <1>3, IdleIs, HolderIs, Fields DEF GetResults
  <2>2. search' = [search EXCEPT ![s] = r]
    BY <1>3 DEF GetResults
  <2> HIDE DEF q
  <2>3. SameTime(q, r)
    BY <2>1, SemaphoreTaken DEF SameResults, SameTime
  <2> HIDE DEF r, s
  <2>4. search[s] = q
    BY DEF q
  <2> QED BY <1>0, <2>1, <2>2, <2>3, <2>4, OneTimed
<1>4. ASSUME NEW s \in Searches, SearchRun(s) PROVE ClockInv'
  <2>1. PICK state \in {"RUNNING", "OFF"} : search' = [search EXCEPT ![s].state = state]
    BY <1>4 DEF SearchRun, PostEnd, PostSend
  <2> DEFINE q == search[s]
             r == [q EXCEPT !.state = state]
  <2>2. q \in SearchType /\ q # Free
    BY <1>0, <1>4, Fields DEF SearchRun, EndInv, TypeOK, ListedRun, IsListed
  <2>3. search' = [search EXCEPT ![s] = r]
    BY <2>1
  <2> HIDE DEF q
  <2>4. SameTime(q, r)
    BY <2>2, StateSet DEF SameResults, SameTime
  <2> HIDE DEF r
  <2>5. search[s] = q
    BY DEF q
  <2> QED BY <1>0, <2>2, <2>3, <2>4, <2>5, OneTimed
<1>5. CASE Execute
  <2>1. Head(actions) \in Actions
    BY <1>0, <1>5, Taken DEF Execute, TypeOK
  <2>2. CASE search' = search
    BY <2>2, TimesStay
  <2>3. CASE Head(actions).op = "SEARCH_END" /\ SearchEnd(Head(actions).arg)
    <3> DEFINE s == Head(actions).arg
               q == search[s]
    <3>1. search' = [search EXCEPT ![s] = IF q = Free THEN q ELSE Finished(q)]
      BY <2>3 DEF SearchEnd
    <3>2. s \in Searches
      BY <2>1, <2>3, ActionFields
    <3>3. q # Free => q \in SearchType
      BY <1>0, <3>2 DEF TypeOK
    <3> HIDE DEF q, s
    <3>4. q # Free => SameTime(q, Finished(q))
      BY <3>3, FinishedIs DEF SameResults, SameTime
    <3>5. search[s] = q
      BY DEF q
    <3> DEFINE r == IF q = Free THEN q ELSE Finished(q)
    <3>6. search' = [search EXCEPT ![s] = r] /\ (r = q \/ (q # Free /\ SameTime(q, r)))
      BY <3>1, <3>4
    <3> HIDE DEF r
    <3> QED BY <1>0, <3>2, <3>5, <3>6, OneTimed
  <2>4. CASE Head(actions).op = "RX_HANDLE" /\ Parse(Head(actions).arg)
    BY <2>1, <2>4, ActionFields, ParseTimed
  <2> QED BY <1>5, <2>2, <2>3, <2>4 DEF Execute, SearchAdd, SearchSend
<1>6. CASE search' = search
  BY <1>6, TimesStay
<1> QED BY <1>1, <1>2, <1>3, <1>4, <1>5, <1>6 DEF Next, vars, Tick, Receive

\* The timer sees that the time is over only when it is.
LEMMA OverIsOver ==
  ASSUME NoWrap, TypeOK, ClockInv, NEW s \in Searches, search[s] # Free, IsOver(s)
  PROVE  elapsed - search[s].elapsed > Timeout
<1> DEFINE e == search[s].elapsed
<1>1. search[s] \in SearchType
  BY DEF TypeOK
<1>2. e \in 0..Horizon /\ search[s].startedAt = Start + e /\ e + Timeout + 1 < Horizon
  BY <1>1, Fields DEF ClockInv, Timed
<1>3. elapsed \in 0..Horizon
  BY DEF TypeOK
<1>4. W \in Nat \ {0} /\ Start \in Nat /\ Timeout \in Nat /\ Horizon \in Nat
  BY Constants
<1> HIDE DEF e
<1>5. \A x \in 0..(W - 1) : x % W = x
  BY <1>4
<1>6. (Start + e + Timeout) % W = Start + e + Timeout
  BY <1>2, <1>4, <1>5 DEF NoWrap
<1>7. now > Start + e + Timeout
  BY <1>2, <1>6 DEF IsOver
<1>8. now <= Start + elapsed
  <2>1. CASE Start + elapsed < W
    BY <1>3, <1>4, <1>5, <2>1 DEF now
  <2>2. CASE Start + elapsed = W
    <3>1. W % W = 0
      BY <1>4
    <3> QED BY <1>4, <2>2, <3>1 DEF now
  <2> QED BY <1>3, <1>4, <2>1, <2>2 DEF NoWrap
<1>9. now \in Nat
  BY <1>3, <1>4 DEF now
<1>10. elapsed - e > Timeout
  BY <1>2, <1>3, <1>4, <1>7, <1>8, <1>9
<1> QED BY <1>10 DEF e

\* Only the timer posts the end of a search.
LEMMA EndsInTimeStep ==
  ASSUME NoWrap, EndInv, ClockInv, [Next]_vars
  PROVE  EndsInTime
<1>0. TypeOK
  BY DEF EndInv
<1> SUFFICES ASSUME NEW s \in Searches, search[s].state \in {"INIT", "RUNNING"},
                    search'[s].state = "OFF",
                    actions' = Append(actions, Act("SEARCH_END", s))
             PROVE  elapsed - search[s].elapsed > Timeout
  BY DEF EndsInTime
<1>1. actions \in Seq(Actions) /\ Act("SEARCH_END", s) \in Actions
  BY <1>0, ActIs DEF TypeOK
<1>2. Len(actions') = Len(actions) + 1 /\ Len(actions) \in Nat
  BY <1>1
<1>3. PICK x \in Searches : SearchRun(x)
  <2>1. ~Execute
    <3> SUFFICES ASSUME Execute PROVE FALSE
      OBVIOUS
    <3>1. actions' = Tail(actions) /\ actions # <<>>
      BY DEF Execute
    <3>2. Len(actions') = Len(actions) - 1
      BY <1>1, <3>1
    <3> QED BY <1>2, <3>2
  <2>2. actions' # actions
    BY <1>2
  <2>3. search' # search
    OBVIOUS
  <2>4. ASSUME NEW c \in Clients, NEW op, Query(c, op) PROVE FALSE
    <3>1. PICK x \in Searches, type \in Types, max \in Requested :
            search' = [search EXCEPT ![x] = NewSearch(type, max)]
      BY <2>4 DEF Query
    <3>2. NewSearch(type, max).state = "INIT"
      BY <1>0, NewSearchIs
    <3> QED BY <1>0, <3>1, <3>2 DEF TypeOK
  <2> QED BY <2>1, <2>2, <2>3, <2>4
          DEF Next, vars, Tick, Receive, QueryGeneric, QueryAsyncNew, QueryReturns,
              GetResults, QueryAsyncDelete
<1>4. x = s /\ IsOver(s)
  <2>1. PICK state \in {"RUNNING", "OFF"} :
          /\ search' = [search EXCEPT ![x].state = state]
          /\ state = "OFF" => IsOver(x)
    BY <1>3 DEF SearchRun, PostEnd, PostSend
  <2>2. x = s
    BY <1>0, <2>1 DEF TypeOK
  <2>3. search[s] \in SearchType
    BY <1>3, <2>2 DEF SearchRun, EndInv, TypeOK, ListedRun, IsListed
  <2>4. search'[s].state = state
    <3>1. search'[s] = [search[s] EXCEPT !.state = state]
      BY <1>0, <2>1, <2>2 DEF TypeOK
    <3> QED BY <2>3, <3>1, StateSet
  <2> QED BY <2>1, <2>2, <2>4
<1>5. search[s] # Free
  <2>1. search[s] \in SearchType
    BY <1>3, <1>4 DEF SearchRun, EndInv, TypeOK, ListedRun, IsListed
  <2> QED BY <2>1, Fields
<1> QED BY <1>0, <1>4, <1>5, OverIsOver

\* The timer ends a search no sooner than its time is up (mdns.c:5211,
\* _mdns_search_run), as long as the clock does not wrap around, packets are
\* answers that parse, and no search is deleted before its results were
\* fetched.
THEOREM SearchesNotCutShort == Clean /\ Patient /\ NoWrap => (Spec => NotCutShort)
<1> SUFFICES ASSUME Clean, Patient, NoWrap PROVE Spec => NotCutShort
  OBVIOUS
<1>1. Init => ClockInv
  BY DEF Init, ClockInv
<1>2. EndInv /\ [Next]_vars => EndInv'
  BY EndInvStep
<1>3. EndInv /\ ClockInv /\ [Next]_vars => ClockInv'
  BY ClockInvStep
<1>4. EndInv /\ ClockInv /\ [Next]_vars => [EndsInTime]_vars
  BY EndsInTimeStep
<1> QED BY EndInvInit, <1>1, <1>2, <1>3, <1>4, PTL DEF Spec, NotCutShort
=============================================================================
