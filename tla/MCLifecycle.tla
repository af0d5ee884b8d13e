----------------------------- MODULE MCLifecycle -----------------------------
(***************************************************************************)
(* Small instances of starting and stopping the mDNS component, with       *)
(* variables of their own: the one MdnsLifecycle_proofs is about, with     *)
(* room in the action queue and no callback at work when the timer is      *)
(* stopped (the constants of the configuration); one with room where a     *)
(* callback may be at work and a start may fail; and one whose queue may   *)
(* be full.  The first state chooses the one that runs.                    *)
(***************************************************************************)
EXTENDS MdnsLifecycle

VARIABLES
  scenario,                                                \* which one runs
  roomOwner, roomMutex, roomTask, roomCurrent, roomArmed, roomCallback,
  roomActions, roomListed, roomQueued, roomHeap, roomNamed,
  fullOwner, fullMutex, fullTask, fullCurrent, fullArmed, fullCallback,
  fullActions, fullListed, fullQueued, fullHeap, fullNamed

Room == INSTANCE MdnsLifecycle WITH
  Packets <- {"p"}, Calm <- FALSE, StartFails <- TRUE,
  owner <- roomOwner, mutex <- roomMutex, task <- roomTask,
  current <- roomCurrent, armed <- roomArmed, callback <- roomCallback,
  actions <- roomActions, listed <- roomListed, queued <- roomQueued,
  heap <- roomHeap, named <- roomNamed

Full == INSTANCE MdnsLifecycle WITH
  Packets <- {"p"}, Hosts <- {}, Calm <- FALSE,
  QueueLen <- 2, Reserve <- 0, Settled <- FALSE,
  owner <- fullOwner, mutex <- fullMutex, task <- fullTask,
  current <- fullCurrent, armed <- fullArmed, callback <- fullCallback,
  actions <- fullActions, listed <- fullListed, queued <- fullQueued,
  heap <- fullHeap, named <- fullNamed

roomVars == <<roomOwner, roomMutex, roomTask, roomCurrent, roomArmed,
              roomCallback, roomActions, roomListed, roomQueued, roomHeap, roomNamed>>
fullVars == <<fullOwner, fullMutex, fullTask, fullCurrent, fullArmed,
              fullCallback, fullActions, fullListed, fullQueued, fullHeap, fullNamed>>

StartOfOne ==
  /\ scenario \in {"calm", "room", "full"}
  /\ Init /\ Room!Init /\ Full!Init

StepOfOne ==
  \/ scenario = "calm" /\ Next /\ UNCHANGED <<scenario, roomVars, fullVars>>
  \/ scenario = "room" /\ Room!Next /\ UNCHANGED <<scenario, vars, fullVars>>
  \/ scenario = "full" /\ Full!Next /\ UNCHANGED <<scenario, vars, roomVars>>

FullFairness ==
  /\ SF_fullVars(scenario = "full" /\ Full!Stopping)
  /\ WF_fullVars(scenario = "full" /\ Full!Take)
  /\ SF_fullVars(scenario = "full" /\ Full!Lock)
  /\ WF_fullVars(scenario = "full" /\ Full!Execute)
  /\ SF_fullVars(scenario = "full" /\ Full!SchedulerRun)
  /\ SF_fullVars(scenario = "full" /\ Full!SearchRun)

OneOfThem ==
  StartOfOne /\ [][StepOfOne]_<<scenario, vars, roomVars, fullVars>> /\ FullFairness

-----------------------------------------------------------------------------
(* Properties.                                                             *)

\* With room or without, with callbacks at work or not: an object is freed twice
\* only if an action that was drained named it while a list held it.
OnlyNamedTwice ==
  TwiceOnlyIfNamed /\ Room!TwiceOnlyIfNamed /\ Full!TwiceOnlyIfNamed

\* mdns_free returns, be the queue as full as it may; with room in the queue it
\* destroys nothing that is used, also with a callback at work and after a start
\* that failed.
StoppingEnds == Full!FreeReturns /\ []Room!DestroyedIsUnused
=============================================================================
