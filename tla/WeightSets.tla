------------------------------ MODULE WeightSets ------------------------------
(***************************************************************************)
(* Which weight set rates the next race.  Presets are seeded at boot, an   *)
(* operator installs manual sets, the nightly training promotes learned    *)
(* ones, phones upload theirs, and every tip is stamped with the id of the *)
(* set that rated it.                                                      *)
(* Source: apps/server/internal/service (Bootstrap, Train,                 *)
(* publishTrainingReport, InstallWeights), training.Train,                 *)
(* importer.Import, and the statements on the weights table.               *)
(*                                                                         *)
(* A set is an id and its numbers.  Which numbers training finds, and      *)
(* whether they pass validation, is an input.                              *)
(***************************************************************************)
EXTENDS Integers, FiniteSets

CONSTANTS
  Numbers,      \* what the parameters of a set may be
  V2Numbers,    \* those of the preset v2
  V3Numbers,    \* those of the preset v3
  NoRow,        \* nothing stored under an id
  MinimumRaces, \* settled samples training asks for
  Uploads,      \* the sets phones may send
  MaxSamples,   \* bound: settled samples
  MaxEdits      \* bound: manual sets

ASSUME WeightsAssumption ==
  /\ V2Numbers \in Numbers /\ V3Numbers \in Numbers
  /\ MinimumRaces \in Nat \ {0}
  /\ MaxSamples \in Nat /\ MaxEdits \in Nat

V2 == <<"preset", 2>>
V3 == <<"preset", 3>>

\* A learned id tells when the newest sample was made and how many there were,
\* not what training started from: the same samples give the same id, on the
\* server and on a phone.  A manual id is random and never met before.
LearnedId(n) == <<"learned", n>>
ManualId(n) == <<"manual", n>>
Presets == {V2, V3}
LearnedIds == {LearnedId(n) : n \in 0..MaxSamples}
ManualIds == {ManualId(n) : n \in 0..MaxEdits}
Id == Presets \cup LearnedIds \cup ManualIds

Set == [id : Id, numbers : Numbers]
V2Set == [id |-> V2, numbers |-> V2Numbers]
V3Set == [id |-> V3, numbers |-> V3Numbers]

Row == [numbers : Numbers, origin : {"preset", "trained", "manual", "device"}]

\* What a training job reports: the set it was given, or the one it promotes.
Report == [promoted : BOOLEAN, weights : Set]
NoReport == [promoted |-> FALSE, weights |-> V3Set]

\* The job that holds the mutex.  current is the active set as the job read it,
\* found the report that is about to be published.
Job == [pc : {"idle", "rate", "fit", "publish"}, current : Set, found : Report]
NoJob == [pc |-> "idle", current |-> V3Set, found |-> NoReport]

\* A phone has promoted its sets itself.
ASSUME UploadsAssumption ==
  Uploads \subseteq Set /\ \A u \in Uploads : u.id \in LearnedIds
ASSUME NoRowAssumption == NoRow \notin Row

VARIABLES
  rows,      \* weights: the row of each id
  active,    \* weights: the ids whose row is active
  report,    \* the training-report document
  samples,   \* how many settled samples there are
  edits,     \* how many manual sets were installed
  stamps,    \* the sets that rated the tips of the server
  up,        \* the server has booted
  job

vars == <<rows, active, report, samples, edits, stamps, up, job>>

TypeOK ==
  /\ rows \in [Id -> Row \cup {NoRow}]
  /\ active \in SUBSET Id
  /\ report \in Report
  /\ samples \in 0..MaxSamples
  /\ edits \in 0..MaxEdits
  /\ stamps \in SUBSET Set
  /\ up \in BOOLEAN
  /\ job \in Job

\* A fresh database, or one from the days when v2 was the default.
Init ==
  /\ \/ rows = [id \in Id |-> NoRow] /\ active = {}
     \/ /\ rows = [id \in Id |-> IF id = V2
                       THEN [numbers |-> V2Numbers, origin |-> "preset"] ELSE NoRow]
        /\ active = {V2}
  /\ report = NoReport
  /\ samples = 0
  /\ edits = 0
  /\ stamps = {}
  /\ up = FALSE
  /\ job = NoJob

-----------------------------------------------------------------------------
(* Statements. *)

\* Inserts the set unless its id is taken.
EnsureWeights(set, from) ==
  rows' = [rows EXCEPT ![set.id] =
             IF @ = NoRow THEN [numbers |-> set.numbers, origin |-> from] ELSE @]

\* A slip: the row that was active stays active.
AlsoActivate(id) == active' = active \cup {id}

\* One UPDATE over all rows.
SetActiveWeights(id) == active' = {id}

ActiveSets == {[id |-> id, numbers |-> rows[id].numbers] : id \in active}

-----------------------------------------------------------------------------
(* Boot.  Requests and jobs wait until it is done.  The presets v1 and        *)
(* market-only are seeded too and never run, so they are left out.            *)

SeedPreset(set) ==
  /\ ~up
  /\ rows[set.id] = NoRow
  /\ EnsureWeights(set, "preset")
  /\ UNCHANGED <<active, report, samples, edits, stamps, up, job>>

\* A slip: whatever is active gives way to the default.
ReplacedAtBoot(ids) == TRUE

\* Nothing is active yet, or the former default is.
Outdated(ids) == ids \subseteq {V2}

FinishBoot ==
  /\ ~up
  /\ \A id \in Presets : rows[id] # NoRow
  /\ IF Outdated(active) THEN SetActiveWeights(V3) ELSE UNCHANGED active
  /\ up' = TRUE
  /\ UNCHANGED <<rows, report, samples, edits, stamps, job>>

\* The process dies, whatever it was doing.
Crash ==
  /\ up
  /\ up' = FALSE
  /\ job' = NoJob
  /\ UNCHANGED <<rows, active, report, samples, edits, stamps>>

-----------------------------------------------------------------------------
(* Jobs, one at a time.  Each reads the active set when it starts; a booted *)
(* server always has one.                                                   *)

StartJob(pc) ==
  /\ up
  /\ job.pc = "idle"
  /\ \E set \in ActiveSets : job' = [NoJob EXCEPT !.pc = pc, !.current = set]
  /\ UNCHANGED <<rows, active, report, samples, edits, stamps, up>>

RateAndRecord == StartJob("rate")
Train == StartJob("fit")

\* A slip: a tip is stamped with the set that is active by then.
StampAnew ==
  /\ job.pc = "rate"
  /\ stamps' = stamps \cup ActiveSets
  /\ UNCHANGED <<rows, active, report, samples, edits, up, job>>

\* A rating job stamps every tip it stores with the set it read.
StoreTip ==
  /\ job.pc = "rate"
  /\ stamps' = stamps \cup {job.current}
  /\ UNCHANGED <<rows, active, report, samples, edits, up, job>>

\* Too few samples, or a candidate that validation turns down, leave the set
\* training started from; otherwise a new set under the samples' id.
Fitted(current, n) ==
  {[promoted |-> FALSE, weights |-> current]} \cup
  IF n < MinimumRaces THEN {}
  ELSE {[promoted |-> TRUE, weights |-> [id |-> LearnedId(n), numbers |-> x]] :
          x \in Numbers}

FitWeights ==
  /\ job.pc = "fit"
  /\ \E found \in Fitted(job.current, samples) :
       job' = [job EXCEPT !.pc = "publish", !.found = found]
  /\ UNCHANGED <<rows, active, report, samples, edits, stamps, up>>

\* A slip: an id that is taken is taken to name the same set.
NameIsAsGood(set) == TRUE

\* The id is free, or names this very set.
NameIsFree(set) == rows[set.id] = NoRow \/ rows[set.id].numbers = set.numbers

\* A slip: no transaction, and what follows the first statement may not happen.
PublishPiecemeal ==
  /\ job.pc = "publish"
  /\ job.found.promoted /\ NameIsFree(job.found.weights)
  /\ EnsureWeights(job.found.weights, "trained")
  /\ UNCHANGED active \/ SetActiveWeights(job.found.weights.id)
  /\ report' = job.found
  /\ job' = NoJob
  /\ UNCHANGED <<samples, edits, stamps, up>>

\* One transaction, rolled back when the id names another set.
PublishTrainingReport ==
  /\ job.pc = "publish"
  /\ IF ~job.found.promoted
     THEN report' = job.found /\ UNCHANGED <<rows, active>>
     ELSE IF NameIsFree(job.found.weights)
     THEN /\ EnsureWeights(job.found.weights, "trained")
          /\ SetActiveWeights(job.found.weights.id)
          /\ report' = job.found
     ELSE UNCHANGED <<rows, active, report>>
  /\ job' = NoJob
  /\ UNCHANGED <<samples, edits, stamps, up>>

\* A rating job is done, or any job fails.
EndJob ==
  /\ job.pc # "idle"
  /\ job' = NoJob
  /\ UNCHANGED <<rows, active, report, samples, edits, stamps, up>>

-----------------------------------------------------------------------------
(* Requests, which do not wait for the jobs' mutex. *)

\* One transaction under a fresh id.
InstallWeights(numbers) ==
  /\ up
  /\ edits < MaxEdits
  /\ rows' = [rows EXCEPT ![ManualId(edits)] =
                 [numbers |-> numbers, origin |-> "manual"]]
  /\ SetActiveWeights(ManualId(edits))
  /\ edits' = edits + 1
  /\ UNCHANGED <<report, samples, stamps, up, job>>

\* Kept unless the id is taken, and not activated.
ImportWeights(set) ==
  /\ up
  /\ EnsureWeights(set, "device")
  /\ UNCHANGED <<active, report, samples, edits, stamps, up, job>>

\* A race settles, or a phone's samples come in.
AddSample ==
  /\ up
  /\ samples < MaxSamples
  /\ samples' = samples + 1
  /\ UNCHANGED <<rows, active, report, edits, stamps, up, job>>

Next ==
  \/ (\E set \in {V2Set, V3Set} : SeedPreset(set)) \/ FinishBoot \/ Crash
  \/ RateAndRecord \/ StoreTip \/ Train \/ FitWeights \/ PublishTrainingReport
  \/ EndJob
  \/ \E numbers \in Numbers : InstallWeights(numbers)
  \/ \E set \in Uploads : ImportWeights(set)
  \/ AddSample

Spec == Init /\ [][Next]_vars

-----------------------------------------------------------------------------

\* Once the server is up exactly one stored set is active, over boots, deaths,
\* promotions and manual edits that overtake each other.
OneActive ==
  up => \E id \in Id : active = {id} /\ rows[id] # NoRow

\* An id names one set of numbers for ever, though learned ids collide between
\* phones and the server and between two trainings on the same samples.
\* (apps/server/README.md: "A stored ID never changes".)
StoredSetsNeverChange ==
  [][\A id \in Id : rows[id] # NoRow => rows'[id] = rows[id]]_vars

\* The id on a tip leads to the numbers that rated it, whatever was installed,
\* promoted or uploaded since.  (docs/accuracy.md: the record splits by id.)
TipsAreAttributable ==
  \A set \in stamps : rows[set.id] # NoRow /\ rows[set.id].numbers = set.numbers

\* A set that came from a phone does not run unless training on the server
\* arrived at the same numbers.  (importer.go: "not activated: the server's own
\* training decides what runs".)
DeviceSetsEarnIt ==
  \A id \in active : rows[id] # NoRow /\ rows[id].origin = "device" =>
    report.weights = [id |-> id, numbers |-> rows[id].numbers]

\* A report that says it promoted a set is published with that set or not at
\* all: the two never come apart, whatever fails in between.
ReportedSetIsStored ==
  report.promoted => /\ rows[report.weights.id] # NoRow
                     /\ rows[report.weights.id].numbers = report.weights.numbers

\* From the moment a set of the server's own training or an operator's is stored,
\* no preset rates any more: neither a death between the statements of a boot or
\* of a promotion, nor seeding, nor an upload under the same id brings one back,
\* or leaves none in force.  (docs/selection.md: "a trained set stays as it is";
\* service.Bootstrap, store.PublishTrainingReport, store.InstallManualWeights.)
PresetsStayRetired ==
  (\E id \in Id : rows[id] # NoRow /\ rows[id].origin \in {"trained", "manual"})
    => active # {} /\ active \cap Presets = {}

\* Training replaces the set it has beaten, and no other.
\* (apps/server/README.md: "promoted only if it beats the current weights on
\* held-out races".)
PromotionBeatsTheActive ==
  [][report' # report /\ report'.promoted => active \subseteq {job.current.id}]_vars

-----------------------------------------------------------------------------
(* What all of it amounts to. *)

Meaning == [id \in Id |-> IF rows[id] = NoRow THEN {} ELSE {rows[id].numbers}]
Rating == IF job.pc = "rate" THEN {job.current} ELSE {}

Register == INSTANCE WeightRegister WITH
  Names <- Id, Meanings <- Numbers, meaning <- Meaning, inForce <- active,
  rating <- Rating, stamped <- stamps

\* Boots, trainings, manual edits, uploads and deaths are steps of a register in
\* which an id gets its numbers once, what comes into force is named in the same
\* step, and a rating stamps the one set that was in force when it began.
\* (apps/server/README.md: "A stored ID never changes"; docs/accuracy.md: the
\* record splits by id.)
KeepsTheRegister == Register!Spec
=============================================================================
