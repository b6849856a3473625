--------------------------- MODULE RacecardScreens ---------------------------
(***************************************************************************)
(* The two screens of the app that show a day's card, Racing and Tips, and *)
(* the loader they share: memory for a minute, the server, and the last    *)
(* card saved on the phone when the server cannot be reached.              *)
(* Source: apps/ios (TodayViewModel, TipsViewModel, RacecardLoader,        *)
(* ServerLink, RacesStore).                                                *)
(*                                                                         *)
(* Everything runs on the main actor, one piece at a time, and every await *)
(* lets another piece in: a load is a task that stops at its request, at   *)
(* the save of what came and at the read of what was saved.  What a card   *)
(* says is reduced to the day it is of and the instant the server read it. *)
(***************************************************************************)
EXTENDS Integers

CONSTANTS
  Task,       \* loads that may be under way at once
  Freshness,  \* how long a card in memory spares a request
  MaxTime,    \* bound: the clock
  NoCard      \* nothing kept

ASSUME FreshnessAssumption == Freshness \in Nat /\ MaxTime \in Nat

Screen == {"racing", "tips"}
Day == {"today", "tomorrow"}
Time == 0..MaxTime

\* A card in memory: when the server read it, and when the load that brought it
\* began.
Kept == [asOf : Time, fetchedAt : Time]

\* What a screen shows: a card of which day, and with or without the note that
\* it is the one saved on the phone.
Shown == [phase : {"idle", "loading", "loaded", "failed"}, of : Day, stale : BOOLEAN]
Blank == [phase |-> "idle", of |-> "today", stale |-> FALSE]
LoadedWith(d, stale) == [phase |-> "loaded", of |-> d, stale |-> stale]
Failed == [Blank EXCEPT !.phase = "failed"]

\* A load: asked the server, holding its answer, answer saved, turning to the
\* saved card, holding it, holding the error there is instead.
Load == [step : {"none", "asked", "answered", "saved", "failing", "found", "missing"},
         screen : Screen, day : Day, began : Time, asOf : Time]
NoLoad == [step |-> "none", screen |-> "racing", day |-> "today", began |-> 0, asOf |-> 0]

VARIABLES
  clock,
  day,         \* the day the picker of Racing is on
  shown,       \* screen -> what it shows
  memory,      \* the loader's: day -> card kept, if any
  disk,        \* the days with a saved card
  loads,       \* the tasks
  overlapped   \* history: Racing's last load began while another of its was under way

vars == <<clock, day, shown, memory, disk, loads, overlapped>>

UnderWay(s) == {t \in Task : loads[t].step # "none" /\ loads[t].screen = s}

TypeOK ==
  /\ clock \in Time
  /\ day \in Day
  /\ shown \in [Screen -> Shown]
  /\ memory \in [Day -> Kept \cup {NoCard}]
  /\ disk \in SUBSET Day
  /\ loads \in [Task -> Load]
  /\ overlapped \in BOOLEAN

\* Cards saved on earlier starts may still be there.
Init ==
  /\ clock = 0
  /\ day = "today"
  /\ shown = [s \in Screen |-> Blank]
  /\ memory = [d \in Day |-> NoCard]
  /\ disk \in SUBSET Day
  /\ loads = [t \in Task |-> NoLoad]
  /\ overlapped = FALSE

(***************************************************************************)
(* Beginning a load                                                        *)
(***************************************************************************)

\* Memory spares the request when it is recent and nobody pulled to refresh.
Spared(d, force) ==
  /\ ~force
  /\ memory[d] # NoCard
  /\ clock - memory[d].fetchedAt < Freshness

\* load() of screen s, up to its first await; before is what the screen shows by
\* then.  It is answered from memory, or goes to the server, or has none to go
\* to: whether an address and a token are stored is up to Settings.
BeginLoad(t, s, d, force, before) == \E step \in {"asked", "failing"} :
  /\ loads[t].step = "none"
  /\ overlapped' = IF s = "racing" THEN UnderWay("racing") # {} ELSE overlapped
  /\ IF Spared(d, force)
       THEN /\ shown' = [shown EXCEPT ![s] = LoadedWith(d, FALSE)]
            /\ UNCHANGED loads
       ELSE /\ shown' = [shown EXCEPT ![s] =
                 IF before.phase = "loaded" THEN before
                 ELSE [before EXCEPT !.phase = "loading"]]
            /\ loads' = [loads EXCEPT ![t] =
                 [NoLoad EXCEPT !.step = step, !.screen = s, !.day = d, !.began = clock]]
  /\ UNCHANGED <<clock, memory, disk>>

\* Introduced error: a reload asks for today, whatever the picker says.
AlwaysToday(s) == "today"

DayOf(s) == IF s = "racing" THEN day ELSE "today"

\* The picker: another day, a blank screen, and its load.
Select(t, d) ==
  /\ d # day
  /\ day' = d
  /\ BeginLoad(t, "racing", d, FALSE, Blank)

\* A screen appears, or a failed one is tried again.
LoadIfNeeded(t, s) ==
  /\ shown[s].phase # "loaded"
  /\ BeginLoad(t, s, DayOf(s), FALSE, shown[s])
  /\ UNCHANGED day

PullToRefresh(t, s) ==
  /\ shown[s].phase = "loaded"
  /\ BeginLoad(t, s, DayOf(s), TRUE, shown[s])
  /\ UNCHANGED day

(***************************************************************************)
(* A load under way                                                        *)
(***************************************************************************)

\* The server reads its card; the answer is on its way.
Serve(t) ==
  /\ loads[t].step = "asked"
  /\ loads' = [loads EXCEPT ![t].step = "answered", ![t].asOf = clock]
  /\ UNCHANGED <<clock, day, shown, memory, disk, overlapped>>

\* No signal, a time-out, an error, a cancelled task, an answer that is lost.
RequestFails(t) ==
  /\ loads[t].step \in {"asked", "answered"}
  /\ loads' = [loads EXCEPT ![t].step = "failing", ![t].asOf = 0]
  /\ UNCHANGED <<clock, day, shown, memory, disk, overlapped>>

\* The store writes the card under its day; a failed write is swallowed.
SaveRacecard(t) ==
  /\ loads[t].step = "answered"
  /\ loads' = [loads EXCEPT ![t].step = "saved"]
  /\ disk' \in {disk, disk \cup {loads[t].day}}
  /\ UNCHANGED <<clock, day, shown, memory, overlapped>>

\* Introduced error: the card is dated by its arrival.
LandDatedNow(t) ==
  /\ loads[t].step = "saved"
  /\ memory' = [memory EXCEPT ![loads[t].day] =
       [asOf |-> loads[t].asOf, fetchedAt |-> clock]]
  /\ shown' = [shown EXCEPT ![loads[t].screen] = LoadedWith(loads[t].day, FALSE)]
  /\ loads' = [loads EXCEPT ![t] = NoLoad]
  /\ UNCHANGED <<clock, day, disk, overlapped>>

\* Back on the main actor: memory takes the card, with the instant the load
\* began, and the screen shows it.
Land(t) ==
  /\ loads[t].step = "saved"
  /\ memory' = [memory EXCEPT ![loads[t].day] =
       [asOf |-> loads[t].asOf, fetchedAt |-> loads[t].began]]
  /\ shown' = [shown EXCEPT ![loads[t].screen] = LoadedWith(loads[t].day, FALSE)]
  /\ loads' = [loads EXCEPT ![t] = NoLoad]
  /\ UNCHANGED <<clock, day, disk, overlapped>>

ReadSaved(t) ==
  /\ loads[t].step = "failing"
  /\ loads' = [loads EXCEPT ![t].step =
       IF loads[t].day \in disk THEN "found" ELSE "missing"]
  /\ UNCHANGED <<clock, day, shown, memory, disk, overlapped>>

\* Introduced error: an error with no saved card behind it is swallowed.
LandSavedQuietly(t) ==
  /\ loads[t].step \in {"found", "missing"}
  /\ shown' = [shown EXCEPT ![loads[t].screen] =
       IF loads[t].step = "found" THEN LoadedWith(loads[t].day, TRUE) ELSE @]
  /\ loads' = [loads EXCEPT ![t] = NoLoad]
  /\ UNCHANGED <<clock, day, memory, disk, overlapped>>

\* The saved card, with the note; without one, the error.
LandSaved(t) ==
  /\ loads[t].step \in {"found", "missing"}
  /\ shown' = [shown EXCEPT ![loads[t].screen] =
       IF loads[t].step = "found" THEN LoadedWith(loads[t].day, TRUE) ELSE Failed]
  /\ loads' = [loads EXCEPT ![t] = NoLoad]
  /\ UNCHANGED <<clock, day, memory, disk, overlapped>>

LoadStep(t) ==
  Serve(t) \/ RequestFails(t) \/ SaveRacecard(t) \/ Land(t) \/ ReadSaved(t) \/ LandSaved(t)

Tick ==
  /\ clock < MaxTime
  /\ clock' = clock + 1
  /\ UNCHANGED <<day, shown, memory, disk, loads, overlapped>>

Next ==
  \/ \E t \in Task : \/ LoadStep(t)
                     \/ \E d \in Day : Select(t, d)
                     \/ \E s \in Screen : LoadIfNeeded(t, s) \/ PullToRefresh(t, s)
  \/ Tick

Spec == Init /\ [][Next]_vars

\* A request is answered or times out, and the actors get round to every task.
\* Nobody has to tap anything.
FairSpec == Spec /\ \A t \in Task : WF_vars(LoadStep(t))

(***************************************************************************)
(* Properties                                                              *)
(***************************************************************************)

\* A card that memory answers with was on the server less than the freshness
\* ago, whatever loads overlapped and however late their answers came.
\* (RacecardLoader.load: the instant is taken before the request.)
FreshIsRecent ==
  [][\A s \in Screen :
       shown'[s] # shown[s] /\ shown'[s].phase = "loaded" /\ loads' = loads
       => LET d == shown'[s].of IN
          /\ ~shown'[s].stale /\ memory[d] # NoCard
          /\ clock - memory[d].asOf < Freshness]_vars

\* A load that has Racing to itself leaves the day that was picked, whatever was
\* shown before it.  (TodayViewModel.select and load.)
AloneShowsTheDayPicked ==
  ~overlapped /\ UnderWay("racing") = {} /\ shown["racing"].phase = "loaded"
    => shown["racing"].of = day

\* A spinner goes away: there is a load behind it, and it lands.
\* (TodayViewModel.load, TipsViewModel.load.)
ScreensSettle ==
  \A s \in Screen : shown[s].phase = "loading" ~> shown[s].phase # "loading"

\* The day shown is the day picked, once nothing is under way.  (The comment on
\* select in TodayViewModel.swift: an explicit await, because otherwise "two
\* rapid taps could land their results out of order".)
DayShownIsTheDayPicked ==
  UnderWay("racing") = {} /\ shown["racing"].phase = "loaded"
    => shown["racing"].of = day
=============================================================================
