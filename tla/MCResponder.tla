----------------------------- MODULE MCResponder -----------------------------
(***************************************************************************)
(* Small instances of the responder of the mDNS component: its transmit    *)
(* queue and the pcb of one interface with two services (the constants of  *)
(* the configuration), and the pcbs of two interfaces with one service     *)
(* (Pair).  The first state chooses the one that runs; each has variables  *)
(* of its own.                                                             *)
(***************************************************************************)
EXTENDS MdnsTxQueue, MdnsPcb

VARIABLES
  scenario,                                          \* which one runs
  pHostname, pInstance, pOwn, pServices, pPcb, pAsked, pTold, pCalls

Pair == INSTANCE MdnsPcb WITH
          Services <- {"http"}, WithInstance <- {},
          Pcbs <- {"sta", "eth"}, Duplicates <- TRUE, MaxCalls <- 6, MaxAnswers <- 2,
          hostname <- pHostname, instance <- pInstance, own <- pOwn,
          services <- pServices, pcb <- pPcb, asked <- pAsked, told <- pTold,
          calls <- pCalls

pairVars ==
  <<pHostname, pInstance, pOwn, pServices, pPcb, pAsked, pTold, pCalls>>

StartOfOne ==
  scenario \in {"tx", "one", "pair"} /\ Init /\ PcbInit /\ Pair!PcbInit

TxRuns   == scenario = "tx"   /\ Next         /\ UNCHANGED <<scenario, pcbVars, pairVars>>
OneRuns  == scenario = "one"  /\ PcbNext      /\ UNCHANGED <<scenario, vars, pairVars>>
PairRuns == scenario = "pair" /\ Pair!PcbNext /\ UNCHANGED <<scenario, vars, pcbVars>>

StepOfOne == TxRuns \/ OneRuns \/ PairRuns

TxFairness ==
  /\ WF_vars(scenario = "tx" /\ Tick)
  /\ WF_vars(scenario = "tx" /\ SchedulerRun)
  /\ WF_vars(scenario = "tx" /\ Execute)

\* What is scheduled is handled (PacketsGoOutOnTime).
PcbFairness ==
  /\ \A p \in Pcbs : WF_pcbVars(scenario = "one" /\ TxHandle(p))
  /\ \A p \in {"sta", "eth"} : WF_pairVars(scenario = "pair" /\ Pair!TxHandle(p))

OneOfThem ==
  /\ StartOfOne /\ [][StepOfOne]_<<scenario, vars, pcbVars, pairVars>>
  /\ TxFairness /\ PcbFairness

-----------------------------------------------------------------------------
(* Properties (PacketsAreHandled is one of MdnsTxQueue, NamesAreProbed and *)
(* RemovedIsNotMentioned are of MdnsPcb).                                  *)

\* MdnsTxQueue: every packet is sent or cleared, and never before its time.
PacketsGoOutOnTime == NothingIsSentEarly /\ PacketsLeave

\* MdnsPcb: a pcb that nothing restarts any more comes to rest.  What holds of
\* the names of one pcb holds of those of two pcbs.
PcbsSettle == PcbsComeToRest /\ Pair!PcbsComeToRest /\ []Pair!NamesAreProbed
=============================================================================
