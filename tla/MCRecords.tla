------------------------------ MODULE MCRecords ------------------------------
(***************************************************************************)
(* Small instances of the records of the mDNS component: its services with *)
(* all their calls, the text items of services with more keys and values,  *)
(* and the host names, as clients alone change them and as other hosts     *)
(* dispute them.  The first state chooses the one that runs, and each has  *)
(* variables of its own.                                                   *)
(***************************************************************************)
EXTENDS MdnsServices, MdnsHosts

VARIABLES
  scenario,                                                \* which one runs
  item1, services1, actions1, pc1, blocks1, wanted1, failed1, calls1,
  hostname1, instance1, delegated1, hostServices1, scheduled1, hostActions1, sema1,
  hostPc1, hostBlocks1, hostCalls1

TextsRun == INSTANCE MdnsServices WITH
  Clients <- {"c1"}, Adders <- {"c1"}, Careful <- TRUE, Prompt <- TRUE,
  Ops <- {"TXT_SET", "TXT_DEL", "INSTANCE_SET"},
  Items <- {"i1", "i2"}, Types <- {"http"}, Instances <- {"a", "b"},
  Default <- "a", Values <- {"v1", "v2"}, Keys <- {"k", "l"},
  Subtypes <- {"print"}, MaxServices <- 2, QueueLen <- 2, MaxCalls <- 4,
  item <- item1, services <- services1, actions <- actions1, pc <- pc1,
  blocks <- blocks1, wanted <- wanted1, failed <- failed1, calls <- calls1

\* Other hosts dispute the host name at any time.
Dispute == INSTANCE MdnsHosts WITH
  HostClients <- {"c1", "c2"}, Setters <- {"c1"}, Names <- {"n", "m"},
  Separate <- TRUE, Disputed <- TRUE, Settled <- FALSE, Addresses <- {1, 2},
  HostQueueLen <- 4, MaxHosted <- 2, MaxHostCalls <- 4,
  hostname <- hostname1, instance <- instance1, delegated <- delegated1,
  hostServices <- hostServices1, scheduled <- scheduled1, hostActions <- hostActions1,
  sema <- sema1, hostPc <- hostPc1, hostBlocks <- hostBlocks1, hostCalls <- hostCalls1

textVars == <<item1, services1, actions1, pc1, blocks1, wanted1, failed1, calls1>>
disputeVars == <<hostname1, instance1, delegated1, hostServices1, scheduled1,
                 hostActions1, sema1, hostPc1, hostBlocks1, hostCalls1>>

RecordsInit ==
  /\ scenario \in {"services", "texts", "hosts", "dispute"}
  /\ Init /\ TextsRun!Init /\ HostsInit /\ Dispute!HostsInit

RecordsNext ==
  /\ UNCHANGED scenario
  /\ \/ scenario = "services" /\ Next /\ UNCHANGED <<textVars, hostVars, disputeVars>>
     \/ scenario = "texts" /\ TextsRun!Next /\ UNCHANGED <<vars, hostVars, disputeVars>>
     \/ scenario = "hosts" /\ HostsNext /\ UNCHANGED <<vars, textVars, disputeVars>>
     \/ scenario = "dispute" /\ Dispute!HostsNext /\ UNCHANGED <<vars, textVars, hostVars>>

Fairness ==
  /\ WF_vars(scenario = "services" /\ Execute)
  /\ \A c \in Adders : WF_vars(scenario = "services" /\ AddGoesOn(c))
  /\ WF_hostVars(scenario = "hosts" /\ ExecuteHosts)
  /\ \A c \in Setters : WF_hostVars(scenario = "hosts" /\ HostnameSetReturns(c))
  /\ WF_disputeVars(scenario = "dispute" /\ Dispute!ExecuteHosts)
  /\ WF_disputeVars(scenario = "dispute" /\ Dispute!HostnameSetReturns("c1"))

RecordsSpec ==
  RecordsInit /\ [][RecordsNext]_<<scenario, vars, textVars, hostVars, disputeVars>> /\ Fairness

-----------------------------------------------------------------------------
(* Properties.                                                             *)

\* MdnsServices and MdnsHosts: the memory that is allocated is in use or waits
\* in an action.  (Removed text items and a full queue of host names do lose
\* memory: see the README.)
MemoryIsUsed ==
  /\ scenario = "services" => NothingLeaks
  /\ scenario = "dispute"  => Dispute!HostsLeakNothing /\ Dispute!HostsTypeOK
  /\ scenario = "texts"    => TextsRun!ItemsAreOwned /\ TextsRun!LastCallWins

\* Every call that waits returns, that for the host name not before it is set;
\* while others dispute it, it returns all the same.  Meanwhile memory is used.
CallsReturn ==
  AddsReturn /\ SettersReturn /\ ReturnMeansSet /\ Dispute!SettersReturn /\ []MemoryIsUsed
=============================================================================
