------------------------------ MODULE Scheduler ------------------------------
(***************************************************************************)
(* The clock of the server: what is due at each London minute, in which    *)
(* order it runs, and what happens to the minutes that a slow plan runs    *)
(* over.                                                                   *)
(* Source: apps/server/internal/service/scheduler.go (PlanFor, Execute,    *)
(* Run).                                                                   *)
(*                                                                         *)
(* Time is counted in minutes from a midnight.  A step begins a job; the   *)
(* minutes that pass before the next step are what the job takes.          *)
(***************************************************************************)
EXTENDS Integers

CONSTANTS
  SealWindow,  \* minutes before the off in which a tip is sealed
  Slack,       \* the minutes a plan may run over
  Boot,        \* the minute the server starts
  Until        \* bound: the minute

ASSUME SchedulerAssumption ==
  /\ SealWindow \in Nat /\ Slack \in Nat
  /\ 2 * Slack + 1 <= SealWindow
  /\ Boot \in Nat /\ Until \in Nat

\* The jobs a plan may ask for.
Job == {"courses", "cardsToday", "cardsTomorrow", "marketsToday", "marketsTomorrow",
        "seal", "draftToday", "draftTomorrow", "results", "train", "backtest"}

\* The order in which Execute runs those that are due.
Position ==
  [courses |-> 1, cardsToday |-> 2, cardsTomorrow |-> 3, marketsToday |-> 4,
   marketsTomorrow |-> 5, seal |-> 6, draftToday |-> 7, draftTomorrow |-> 8,
   results |-> 9, train |-> 10, backtest |-> 11]

When(condition, jobs) == IF condition THEN jobs ELSE {}

\* The timetable.
PlanFor(t) ==
  LET h == (t \div 60) % 24
      m == t % 60
      daytime == 6 <= h /\ h <= 22
      quarter == m % 15 = 0
  IN {"seal"}
     \cup When(daytime /\ quarter, {"cardsToday", "marketsToday", "draftToday"})
     \cup When(daytime /\ m = 0, {"cardsTomorrow", "marketsTomorrow", "draftTomorrow"})
     \cup When((h >= 12 /\ quarter) \/ (h = 23 /\ m = 55), {"results"})
     \cup When(h = 6 /\ m = 0, {"courses"})
     \cup When(h = 3 /\ m = 0, {"train"})
     \cup When(h = 2 /\ m = 45, {"backtest"})

Everything == Job \ {"train", "backtest"}

NotYet == -1

VARIABLES
  minute,    \* the minute of the clock
  phase,     \* running a plan, or sleeping until the alarm
  todo,      \* the jobs of the plan not begun yet
  began,     \* when the plan began
  alarm,     \* when the sleep ends
  lastSeal   \* history: when the last sealing job began

schedulerVars == <<minute, phase, todo, began, alarm, lastSeal>>

SchedulerTypeOK ==
  /\ minute \in Nat
  /\ phase \in {"running", "sleeping"}
  /\ todo \subseteq Job
  /\ began \in Nat
  /\ alarm \in Nat
  /\ lastSeal \in Nat \cup {NotYet}

SchedulerInit ==
  /\ minute = Boot
  /\ phase = "running"
  /\ todo = Everything
  /\ began = Boot
  /\ alarm = Boot
  /\ lastSeal = NotYet

\* The next job of the plan; a failure of it stops nothing.
Begin(j) ==
  /\ phase = "running"
  /\ j \in todo
  /\ \A k \in todo : Position[j] <= Position[k]
  /\ todo' = todo \ {j}
  /\ lastSeal' = IF j = "seal" THEN minute ELSE lastSeal
  /\ UNCHANGED <<minute, phase, began, alarm>>

\* Introduced error: the whole minute after the next.
SleepTwoMinutes ==
  /\ phase = "running"
  /\ todo = {}
  /\ phase' = "sleeping"
  /\ alarm' = minute + 2
  /\ UNCHANGED <<minute, todo, began, lastSeal>>

\* The last job has returned; the loop sleeps until the next whole minute.
Sleep ==
  /\ phase = "running"
  /\ todo = {}
  /\ phase' = "sleeping"
  /\ alarm' = minute + 1
  /\ UNCHANGED <<minute, todo, began, lastSeal>>

Wake ==
  /\ phase = "sleeping"
  /\ minute = alarm
  /\ phase' = "running"
  /\ todo' = PlanFor(minute)
  /\ began' = minute
  /\ UNCHANGED <<minute, alarm, lastSeal>>

\* A minute passes: during a job, as long as the plan may run over, or in a sleep.
MinutePasses ==
  /\ minute < Until
  /\ IF phase = "running" THEN minute < began + Slack ELSE minute < alarm
  /\ minute' = minute + 1
  /\ UNCHANGED <<phase, todo, began, alarm, lastSeal>>

SchedulerNext == MinutePasses \/ Sleep \/ Wake \/ \E j \in Job : Begin(j)

SchedulerSpec == SchedulerInit /\ [][SchedulerNext]_schedulerVars

(***************************************************************************)
(* Properties                                                              *)
(***************************************************************************)

\* Whenever a race goes off, a sealing job began within its window, although
\* plans run over, skip minutes and seal only after refreshing cards and markets.
\* (Run, Execute; ClosesWindow in tracking/ledger.go.)
NoRaceGoesOffUnseen ==
  [][minute' # minute /\ lastSeal # NotYet => lastSeal >= minute' - SealWindow]_schedulerVars
=============================================================================
