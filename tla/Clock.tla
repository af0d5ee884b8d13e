-------------------------------- MODULE Clock -------------------------------
(***************************************************************************)
(* update_time_task: it waits for SNTP to set the clock, then looks at the *)
(* clock about once a second and tells the full hour by the minute and the *)
(* second being zero.  Time runs in fractions of a second, so that a poll  *)
(* that comes late can be told from one that is on time.                   *)
(***************************************************************************)
EXTENDS Naturals

CONSTANTS Second,  \* fractions in a second
          Minute,  \* seconds in a minute
          Hour     \* minutes in an hour

ASSUME ClockAssumption ==
  Second \in Nat \ {0} /\ Minute \in Nat \ {0, 1} /\ Hour \in Nat \ {0, 1}

VARIABLES
  now,    \* the wall clock, within the hour
  set,    \* TRUE once SNTP has set the clock: the year is 2021 or later
  phase,  \* the loop update_time_task is in
  sleep,  \* the fractions of its vTaskDelay that are left
  seen,   \* how often it has seen the full hour since the last one
  wholeHour   \* history: it was already polling when this hour began

clockVars == <<now, set, phase, sleep, seen, wholeHour>>

OneHour == Second * Minute * Hour

ClockInit ==
  /\ now = 0
  /\ set = FALSE
  /\ phase = "wait_for_year"
  /\ sleep = 0
  /\ seen = 0
  /\ wholeHour = FALSE

\* initialize_sntp has been called; the answer of a server sets the clock.
SntpSets ==
  /\ ~set
  /\ set' = TRUE
  /\ now' \in 0..(OneHour - 1)
  /\ seen' = 0
  /\ wholeHour' = FALSE
  /\ UNCHANGED <<phase, sleep>>

Tick ==
  /\ sleep > 0
  /\ sleep' = sleep - 1
  /\ now' = (now + 1) % OneHour
  /\ seen' = IF now' = 0 THEN 0 ELSE seen
  /\ wholeHour' = IF now' = 0 THEN phase = "poll" ELSE wholeHour
  /\ UNCHANGED <<set, phase>>

\* vTaskDelay returns on time, or a fraction late when other tasks run.
Delay(n) == sleep' \in {n, n + 1}

WaitForYear ==
  /\ phase = "wait_for_year"
  /\ sleep = 0
  /\ IF set THEN phase' = "poll" /\ UNCHANGED sleep
            ELSE Delay(Second) /\ UNCHANGED phase
  /\ UNCHANGED <<now, set, seen, wholeHour>>

TopOfHour == now < Second

\* Mutant: the wait is given as 60 ticks, less than a second.
WaitSixtyTicks == Second \div 2

WaitAfterHour == Second * Minute

Poll ==
  /\ phase = "poll"
  /\ sleep = 0
  /\ IF TopOfHour THEN Delay(WaitAfterHour) /\ seen' = seen + 1
                  ELSE Delay(Second) /\ UNCHANGED seen
  /\ UNCHANGED <<now, set, phase, wholeHour>>

ClockNext == SntpSets \/ Tick \/ WaitForYear \/ Poll

ClockSpec == ClockInit /\ [][ClockNext]_clockVars

-----------------------------------------------------------------------------

ClockTypeOK ==
  /\ now \in 0..(OneHour - 1)
  /\ set \in BOOLEAN
  /\ phase \in {"wait_for_year", "poll"}
  /\ sleep \in 0..(Second * Minute + 1)
  /\ seen \in Nat
  /\ wholeHour \in BOOLEAN

\* The wait of a minute keeps one full hour from being seen twice.
SeenOncePerHour == seen <= 1

\* The loop checks for the top of the hour: no full hour goes by unseen.
HourIsSeen == wholeHour /\ now = Second => seen = 1
=============================================================================
