----------------------------- MODULE RecordScreen -----------------------------
(***************************************************************************)
(* The Record tab of the app: the accuracy record of one weight set, the   *)
(* set that is selected, and the one record kept on the phone for when the *)
(* server cannot be reached.                                               *)
(* Source: apps/ios (RecordViewModel, RecordView, RacesStore), and the     *)
(* record the server builds.                                               *)
(*                                                                         *)
(* Everything runs on the main actor and gives way at every await: the job *)
(* a refresh asks for, the request, the read of what was saved, the save.  *)
(* A record is the set it is of and the instant the server made it.        *)
(***************************************************************************)
EXTENDS Integers

CONSTANTS
  Reader,       \* loads that may be under way at once
  WeightsId,    \* the sets of the server
  InUse,        \* those with tips: a record of another is "No tips yet"
  NoWeights,    \* nothing selected yet
  NoRecord,     \* nothing saved
  LastInstant   \* bound: the clock

ASSUME RecordTabAssumption ==
  /\ InUse \subseteq WeightsId /\ WeightsId # {}
  /\ NoWeights \notin WeightsId
  /\ LastInstant \in Nat

Instant == 0..LastInstant
Never == -1
AnyWeights == CHOOSE w \in WeightsId : TRUE

Record == [of : WeightsId, at : Instant]
NothingYet == [of |-> AnyWeights, at |-> 0]
ASSUME NoRecordAssumption == NoRecord \notin Record

\* A load: the results job asked for, the request sent, its answer in, the
\* answer shown and being saved; or the error in, the saved record read, or none.
Reading == [step : {"none", "refreshing", "asked", "answered", "saving",
                    "failing", "found", "missing"},
            asks : WeightsId \cup {NoWeights}, record : Record]
NoReading == [step |-> "none", asks |-> NoWeights, record |-> NothingYet]

VARIABLES
  instant,
  active,               \* on the server
  selectedWeightsID,
  phase,                \* of the state: what the tab draws
  applied,              \* the record applied last
  staleSince,
  isRefreshingResults,
  saved,                \* on the phone
  readings,
  crossed               \* history: the last load began while another was under way

screen == <<phase, applied, staleSince>>
around == <<instant, active>>
recordVars == <<around, selectedWeightsID, screen, isRefreshingResults, saved, readings, crossed>>

\* Loads that have asked and not shown anything yet.
Pending == {t \in Reader : readings[t].step \in {"asked", "answered", "failing", "found", "missing"}}

RecordTypeOK ==
  /\ instant \in Instant
  /\ active \in WeightsId
  /\ selectedWeightsID \in WeightsId \cup {NoWeights}
  /\ phase \in {"idle", "loading", "loaded", "failed"}
  /\ applied \in Record
  /\ staleSince \in Instant \cup {Never}
  /\ isRefreshingResults \in BOOLEAN
  /\ saved \in Record \cup {NoRecord}
  /\ readings \in [Reader -> Reading]
  /\ crossed \in BOOLEAN

\* An earlier start may have left a record, of whatever was selected then.
RecordInit ==
  /\ instant = 0
  /\ active \in WeightsId
  /\ selectedWeightsID = NoWeights
  /\ phase = "idle" /\ applied = NothingYet /\ staleSince = Never
  /\ isRefreshingResults = FALSE
  /\ saved \in {NoRecord} \cup [of : WeightsId, at : {0}]
  /\ readings = [t \in Reader |-> NoReading]
  /\ crossed = FALSE

(***************************************************************************)
(* What the reader of the tab does                                         *)
(***************************************************************************)

\* Introduced error: the selection is not sent along.
AsksForTheActive(w) == NoWeights

AsksFor(w) == w

\* load() up to its first await.  Whether there is a server to ask is up to
\* Settings.
Ask(t, w, before) == \E step \in {"asked", "failing"} :
  /\ phase' = IF before = "loaded" THEN "loaded" ELSE "loading"
  /\ readings' = [readings EXCEPT ![t] = [NoReading EXCEPT !.step = step, !.asks = AsksFor(w)]]
  /\ crossed' = (Pending # {})

\* The tab appears, or a failed load is tried again.
LoadRecordIfNeeded(t) ==
  /\ readings[t].step = "none"
  /\ phase # "loaded"
  /\ Ask(t, selectedWeightsID, phase)
  /\ UNCHANGED <<around, selectedWeightsID, applied, staleSince, isRefreshingResults, saved>>

\* The list with its picker is drawn for a record that has tips.
ListShown == phase = "loaded" /\ applied.of \in InUse

SelectWeights(t, w) ==
  /\ readings[t].step = "none"
  /\ ListShown /\ w \in InUse \ {selectedWeightsID}
  /\ selectedWeightsID' = w
  /\ Ask(t, w, "loading")
  /\ UNCHANGED <<around, applied, staleSince, isRefreshingResults, saved>>

\* The button, which waits for the refresh before, or a pull on the list.
Refresh(t) ==
  /\ readings[t].step = "none"
  /\ ~isRefreshingResults \/ ListShown
  /\ isRefreshingResults' = TRUE
  /\ readings' = [readings EXCEPT ![t].step = "refreshing"]
  /\ UNCHANGED <<around, selectedWeightsID, screen, saved, crossed>>

(***************************************************************************)
(* A load under way                                                        *)
(***************************************************************************)

\* The job has run or not: its error is swallowed.
ResultsJobEnds(t) ==
  /\ readings[t].step = "refreshing"
  /\ isRefreshingResults' = FALSE
  /\ Ask(t, selectedWeightsID, phase)
  /\ UNCHANGED <<around, selectedWeightsID, applied, staleSince, saved>>

\* The record of the set asked for, or of the active one.
BuildRecord(t) ==
  /\ readings[t].step = "asked"
  /\ LET w == IF readings[t].asks = NoWeights THEN active ELSE readings[t].asks IN
     readings' = [readings EXCEPT ![t].step = "answered", ![t].record = [of |-> w, at |-> instant]]
  /\ UNCHANGED <<around, selectedWeightsID, screen, isRefreshingResults, saved, crossed>>

\* No signal, a time-out, an error, a cancelled task, an answer that is lost.
RecordRequestFails(t) ==
  /\ readings[t].step \in {"asked", "answered"}
  /\ readings' = [readings EXCEPT ![t] = [NoReading EXCEPT !.step = "failing"]]
  /\ UNCHANGED <<around, selectedWeightsID, screen, isRefreshingResults, saved, crossed>>

\* apply: the first record decides what is selected.
Apply(record) ==
  /\ phase' = "loaded"
  /\ applied' = record
  /\ selectedWeightsID' = IF selectedWeightsID = NoWeights THEN record.of ELSE selectedWeightsID

\* Introduced error: what is on the phone is shown, saved or not.
ShowWhatIsSaved(t) ==
  /\ readings[t].step = "answered"
  /\ Apply(IF saved = NoRecord THEN readings[t].record ELSE saved)
  /\ staleSince' = Never
  /\ readings' = [readings EXCEPT ![t].step = "saving"]
  /\ UNCHANGED <<around, isRefreshingResults, saved, crossed>>

ShowRecord(t) ==
  /\ readings[t].step = "answered"
  /\ Apply(readings[t].record)
  /\ staleSince' = Never
  /\ readings' = [readings EXCEPT ![t].step = "saving"]
  /\ UNCHANGED <<around, isRefreshingResults, saved, crossed>>

\* One document, whatever was selected; a failed write is swallowed.
SaveRecord(t) ==
  /\ readings[t].step = "saving"
  /\ saved' \in {saved, readings[t].record}
  /\ readings' = [readings EXCEPT ![t] = NoReading]
  /\ UNCHANGED <<around, selectedWeightsID, screen, isRefreshingResults, crossed>>

CachedRecord(t) ==
  /\ readings[t].step = "failing"
  /\ readings' = [readings EXCEPT ![t] =
       IF saved = NoRecord THEN [NoReading EXCEPT !.step = "missing"]
       ELSE [NoReading EXCEPT !.step = "found", !.record = saved]]
  /\ UNCHANGED <<around, selectedWeightsID, screen, isRefreshingResults, saved, crossed>>

\* The saved record, with a note that bears the time; without one, the error.
ShowCached(t) ==
  /\ readings[t].step \in {"found", "missing"}
  /\ IF readings[t].step = "found"
       THEN Apply(readings[t].record) /\ staleSince' = instant
       ELSE phase' = "failed" /\ UNCHANGED <<selectedWeightsID, applied, staleSince>>
  /\ readings' = [readings EXCEPT ![t] = NoReading]
  /\ UNCHANGED <<around, isRefreshingResults, saved, crossed>>

ReadingStep(t) ==
  \/ ResultsJobEnds(t) \/ BuildRecord(t) \/ RecordRequestFails(t) \/ ShowRecord(t)
  \/ SaveRecord(t) \/ CachedRecord(t) \/ ShowCached(t)

(***************************************************************************)
(* Meanwhile                                                               *)
(***************************************************************************)

\* The server promotes a set, or an operator installs one.
ServerActivates(w) ==
  /\ w # active
  /\ active' = w
  /\ UNCHANGED <<instant, selectedWeightsID, screen, isRefreshingResults, saved, readings, crossed>>

TimePasses ==
  /\ instant < LastInstant
  /\ instant' = instant + 1
  /\ UNCHANGED <<active, selectedWeightsID, screen, isRefreshingResults, saved, readings, crossed>>

Gesture(t) == LoadRecordIfNeeded(t) \/ (\E w \in InUse : SelectWeights(t, w)) \/ Refresh(t)

RecordNext ==
  \/ \E t \in Reader : Gesture(t) \/ ReadingStep(t)
  \/ \E w \in WeightsId : ServerActivates(w)
  \/ TimePasses

RecordSpec == RecordInit /\ [][RecordNext]_recordVars

\* A request is answered or times out, and the actors get round to every task.
RecordFairSpec == RecordSpec /\ \A t \in Reader : WF_recordVars(ReadingStep(t))

(***************************************************************************)
(* Properties                                                              *)
(***************************************************************************)

\* A load with no other beside it, and a server that answers, leave the record
\* of the set that is selected, whatever was shown, saved or active before, and
\* however long a refresh had waited for its job.  (RecordViewModel.load.)
AloneShowsTheSelected ==
  ~crossed /\ Pending = {} /\ phase = "loaded" /\ staleSince = Never
    => applied.of = selectedWeightsID

\* What a load with no other beside it brings from the server is not older than
\* what was applied before it.  (RecordViewModel.load.)
AloneGoesForward ==
  [][applied' # applied /\ staleSince' = Never /\ ~crossed => applied'.at >= applied.at]_recordVars

\* A spinner goes away: there is a load behind it, and it lands.
\* (RecordViewModel.load and selectWeights.)
RecordSettles == phase = "loading" ~> phase # "loading"
=============================================================================
