------------------------------ MODULE MCSearch -------------------------------
(***************************************************************************)
(* Small instances of the searches of the mDNS component: two clients that *)
(* search at the same time, and one client with all kinds of records from  *)
(* two hosts on two interfaces, malformed ones included.  The first state  *)
(* chooses the one that runs.                                              *)
(***************************************************************************)
EXTENDS MdnsSearch

VARIABLES
  scenario,                                                \* which one runs
  search1, list1, actions1, pc1, texts1, elapsed1, received1

One == INSTANCE MdnsSearch WITH
  Clients <- {"c1"}, Searches <- {"s1"}, Types <- {"PTR", "A"},
  Records <- {"PTR", "SRV", "TXT", "A"}, Clean <- FALSE, Patient <- TRUE,
  Requested <- {0, 2}, Byte <- 4, Responders <- {"h1", "h2"},
  Interfaces <- {"sta", "ap"}, W <- 16, Start <- 0, Timeout <- 1, Horizon <- 3,
  QueueLen <- 2, MaxReceived <- 3,
  search <- search1, list <- list1, actions <- actions1, pc <- pc1, texts <- texts1,
  elapsed <- elapsed1, received <- received1

oneVars == <<search1, list1, actions1, pc1, texts1, elapsed1, received1>>

SearchInit == Init /\ One!Init /\ scenario \in {"two", "one"}

SearchNext ==
  \/ scenario = "two" /\ Next /\ UNCHANGED <<scenario, oneVars>>
  \/ scenario = "one" /\ One!Next /\ UNCHANGED <<scenario, vars>>

Fairness ==
  /\ WF_vars(scenario = "two" /\ Tick)
  /\ WF_vars(scenario = "two" /\ Execute)
  /\ \A s \in Searches : WF_vars(scenario = "two" /\ SearchRun(s))
  /\ \A c \in Clients : WF_vars(scenario = "two" /\ QueryReturns(c))

SearchSpec == SearchInit /\ [][SearchNext]_<<scenario, vars, oneVars>> /\ Fairness

-----------------------------------------------------------------------------

\* The single client: its search holds no more results than asked for, none
\* twice, and all that was allocated for them.
OneKeepsResults == One!ResultsAreKept

\* A client that waits for its search gets an answer, and the timer ends the
\* search no sooner than its time is up.
QueriesReturnInTime == QueriesReturn /\ NotCutShort
=============================================================================
