-------------------------- MODULE WeightSets_proofs --------------------------
(***************************************************************************)
(* What WeightSets keeps for every number of samples, manual edits and     *)
(* phones, and any numbers.                                                *)
(***************************************************************************)
EXTENDS WeightSets, TLAPS

Stored(set) == rows[set.id] # NoRow /\ rows[set.id].numbers = set.numbers

\* Manual ids not given out yet are free.
ManualIdsAreFresh == \A n \in edits..MaxEdits : rows[ManualId(n)] = NoRow

\* A job knows a stored set, and while it runs only an operator changes the
\* active one.
JobKnowsItsSet ==
  job.pc # "idle" =>
    /\ up
    /\ Stored(job.current)
    /\ \A id \in active : id = job.current.id \/ rows[id].origin = "manual"

\* What a training job is about to publish: its own set, or a learned one.
FoundIsOurs ==
  job.pc = "publish" =>
    IF job.found.promoted THEN job.found.weights.id \in LearnedIds
    ELSE job.found.weights = job.current

\* What is active is stored, at any time.
ActiveIsStored ==
  /\ active = {} \/ \E id \in Id : active = {id} /\ rows[id] # NoRow
  /\ up => active # {}

\* No phone names its set after a preset.
PresetsAreOurs ==
  \A id \in Presets : rows[id] # NoRow => rows[id].origin # "device"

IInv ==
  /\ TypeOK /\ ManualIdsAreFresh /\ PresetsAreOurs /\ JobKnowsItsSet
  /\ FoundIsOurs /\ ActiveIsStored /\ TipsAreAttributable /\ ReportedSetIsStored
  /\ DeviceSetsEarnIt

\* Rows are only ever added.
RowsGrow == \A id \in Id : rows[id] # NoRow => rows'[id] = rows[id]

-----------------------------------------------------------------------------

\* Presets, learned and manual ids are told apart, and manual ids by number.
LEMMA Ids ==
  /\ Presets \subseteq Id /\ LearnedIds \subseteq Id /\ ManualIds \subseteq Id
  /\ V2 # V3
  /\ \A n \in Nat : ManualId(n) \notin Presets \cup LearnedIds
  /\ \A m, n \in Nat : ManualId(m) = ManualId(n) => m = n
BY DEF Id, Presets, LearnedIds, ManualIds, V2, V3, LearnedId, ManualId

\* A new manual id is one of the ids of the model.
LEMMA ManualIdType ==
  ASSUME NEW n \in 0..MaxEdits PROVE ManualId(n) \in Id
BY DEF Id, ManualIds

\* Storing a set keeps the table typed.
LEMMA EnsureType ==
  ASSUME rows \in [Id -> Row \cup {NoRow}], NEW set \in Set,
         NEW from \in {"preset", "trained", "manual", "device"},
         EnsureWeights(set, from)
  PROVE  rows' \in [Id -> Row \cup {NoRow}]
<1>1. set.id \in Id /\ [numbers |-> set.numbers, origin |-> from] \in Row
  BY DEF Set, Row
<1> QED
  BY <1>1 DEF EnsureWeights

\* A stored set is left as it is, and a free id gets the set.
LEMMA EnsureGrows ==
  ASSUME rows \in [Id -> Row \cup {NoRow}], NEW set \in Set,
         NEW from \in {"preset", "trained", "manual", "device"},
         EnsureWeights(set, from)
  PROVE  /\ RowsGrow
         /\ \A id \in Id : id # set.id => rows'[id] = rows[id]
         /\ rows'[set.id] # NoRow
         /\ rows[set.id] = NoRow => rows'[set.id].numbers = set.numbers
<1>1. set.id \in Id /\ [numbers |-> set.numbers, origin |-> from] \in Row
  BY DEF Set, Row
<1>2. [numbers |-> set.numbers, origin |-> from] # NoRow
  BY <1>1, NoRowAssumption
<1> QED
  BY <1>1, <1>2 DEF EnsureWeights, RowsGrow

\* No learned id is a preset's.
LEMMA DisjointIds ==
  \A id \in LearnedIds : id \notin Presets
BY DEF LearnedIds, Presets, LearnedId, V2, V3

\* The presets are sets, and so is everything a job may carry.
LEMMA PresetSets ==
  V2Set \in Set /\ V3Set \in Set /\ NoReport \in Report /\ NoJob \in Job
BY Ids, WeightsAssumption
   DEF V2Set, V3Set, Set, NoReport, Report, NoJob, Job, Presets

\* Active sets are sets.
LEMMA ActiveSetsType ==
  ASSUME TypeOK, ActiveIsStored, NEW set \in ActiveSets
  PROVE  set \in Set /\ Stored(set) /\ active = {set.id}
<1>1. PICK id \in active : set = [id |-> id, numbers |-> rows[id].numbers]
  BY DEF ActiveSets
<1>2. id \in Id /\ active = {id} /\ rows[id] # NoRow
  BY <1>1 DEF ActiveIsStored
<1>3. rows[id] \in Row
  BY <1>2 DEF TypeOK
<1> QED
  BY <1>1, <1>2, <1>3 DEF Set, Row, Stored

\* What training finds is a report: of the set it was given, or of a learned one.
LEMMA FittedType ==
  ASSUME NEW current \in Set, NEW n \in 0..MaxSamples,
         NEW found \in Fitted(current, n)
  PROVE  /\ found \in Report
         /\ IF found.promoted THEN found.weights.id \in LearnedIds
            ELSE found.weights = current
<1>1. CASE found = [promoted |-> FALSE, weights |-> current]
  BY <1>1 DEF Report
<1>2. CASE found # [promoted |-> FALSE, weights |-> current]
  <2>1. PICK x \in Numbers :
          found = [promoted |-> TRUE, weights |-> [id |-> LearnedId(n), numbers |-> x]]
    BY <1>2 DEF Fitted
  <2>2. LearnedId(n) \in LearnedIds /\ LearnedId(n) \in Id
    BY Ids DEF LearnedIds
  <2>3. [id |-> LearnedId(n), numbers |-> x] \in Set
    BY <2>2 DEF Set
  <2> QED
    BY <2>1, <2>2, <2>3 DEF Report
<1> QED
  BY <1>1, <1>2

-----------------------------------------------------------------------------

\* The tables keep their types over every step.
LEMMA StepType ==
  ASSUME TypeOK, ActiveIsStored, [Next]_vars
  PROVE  TypeOK'
<1> USE DEF TypeOK
<1>1. ASSUME NEW set \in {V2Set, V3Set}, SeedPreset(set) PROVE TypeOK'
  BY <1>1, EnsureType, PresetSets DEF SeedPreset
<1>2. CASE FinishBoot
  BY <1>2, Ids DEF FinishBoot, SetActiveWeights, Presets
<1>3. CASE Crash
  BY <1>3, PresetSets DEF Crash
<1>4. CASE RateAndRecord \/ Train
  <2>1. PICK set \in ActiveSets, pc \in {"rate", "fit"} :
          job' = [NoJob EXCEPT !.pc = pc, !.current = set]
    BY <1>4 DEF RateAndRecord, Train, StartJob
  <2>2. job' \in Job
    BY <2>1, PresetSets, ActiveSetsType DEF Job
  <2> QED
    BY <1>4, <2>2 DEF RateAndRecord, Train, StartJob
<1>5. CASE StoreTip
  BY <1>5 DEF StoreTip, Job
<1>6. CASE FitWeights
  <2>1. PICK found \in Fitted(job.current, samples) :
          job' = [job EXCEPT !.pc = "publish", !.found = found]
    BY <1>6 DEF FitWeights
  <2>2. found \in Report
    BY <2>1, FittedType DEF Job
  <2> QED
    BY <1>6, <2>1, <2>2 DEF FitWeights, Job
<1>7. CASE PublishTrainingReport
  <2>1. job.found \in Report /\ job.found.weights \in Set /\ job.found.weights.id \in Id
    BY DEF Job, Report, Set
  <2>2. CASE job.found.promoted /\ NameIsFree(job.found.weights)
    BY <1>7, <2>1, <2>2, EnsureType, PresetSets
       DEF PublishTrainingReport, SetActiveWeights
  <2>3. CASE ~(job.found.promoted /\ NameIsFree(job.found.weights))
    BY <1>7, <2>1, <2>3, PresetSets DEF PublishTrainingReport
  <2> QED
    BY <2>2, <2>3
<1>8. CASE EndJob
  BY <1>8, PresetSets DEF EndJob
<1>9. ASSUME NEW numbers \in Numbers, InstallWeights(numbers) PROVE TypeOK'
  <2>1. ManualId(edits) \in Id
    BY ManualIdType
  <2>2. [numbers |-> numbers, origin |-> "manual"] \in Row
    BY DEF Row
  <2>3. edits + 1 \in 0..MaxEdits
    BY <1>9, WeightsAssumption DEF InstallWeights
  <2> QED
    BY <1>9, <2>1, <2>2, <2>3 DEF InstallWeights, SetActiveWeights
<1>10. ASSUME NEW set \in Uploads, ImportWeights(set) PROVE TypeOK'
  BY <1>10, EnsureType, UploadsAssumption DEF ImportWeights
<1>11. CASE AddSample
  BY <1>11, WeightsAssumption DEF AddSample
<1>12. CASE UNCHANGED vars
  BY <1>12 DEF vars
<1> QED
  BY <1>1, <1>2, <1>3, <1>4, <1>5, <1>6, <1>7, <1>8, <1>9, <1>10, <1>11, <1>12
     DEF Next

-----------------------------------------------------------------------------

\* No step changes a stored row: statements insert, and manual ids are fresh.
LEMMA StepGrows ==
  ASSUME TypeOK, ManualIdsAreFresh, [Next]_vars
  PROVE  RowsGrow
<1> USE DEF TypeOK
<1>1. ASSUME NEW set \in {V2Set, V3Set}, SeedPreset(set) PROVE RowsGrow
  BY <1>1, EnsureGrows, PresetSets DEF SeedPreset
<1>2. CASE PublishTrainingReport
  <2>1. job.found.weights \in Set
    BY DEF Job, Report
  <2> QED
    BY <1>2, <2>1, EnsureGrows DEF PublishTrainingReport, RowsGrow
<1>3. ASSUME NEW numbers \in Numbers, InstallWeights(numbers) PROVE RowsGrow
  <2>1. rows[ManualId(edits)] = NoRow
    BY <1>3 DEF InstallWeights, ManualIdsAreFresh
  <2> QED
    BY <1>3, <2>1 DEF InstallWeights, RowsGrow
<1>4. ASSUME NEW set \in Uploads, ImportWeights(set) PROVE RowsGrow
  BY <1>4, EnsureGrows, UploadsAssumption DEF ImportWeights
<1>5. CASE rows' = rows
  BY <1>5 DEF RowsGrow
<1> QED
  BY <1>1, <1>2, <1>3, <1>4, <1>5
     DEF Next, FinishBoot, Crash, RateAndRecord, Train, StartJob, StoreTip,
         FitWeights, EndJob, AddSample, vars

\* Ids of manual sets are given out in order, and nothing else takes them.
LEMMA StepFresh ==
  ASSUME TypeOK, ManualIdsAreFresh, FoundIsOurs, [Next]_vars
  PROVE  ManualIdsAreFresh'
<1> USE DEF TypeOK
<1>1. ASSUME NEW set \in Set, NEW from \in {"preset", "trained", "manual", "device"},
             set.id \in Presets \cup LearnedIds, EnsureWeights(set, from),
             edits' = edits
      PROVE  ManualIdsAreFresh'
  <2> SUFFICES ASSUME NEW n \in edits..MaxEdits PROVE rows'[ManualId(n)] = NoRow
    BY <1>1 DEF ManualIdsAreFresh
  <2>1. ManualId(n) # set.id /\ ManualId(n) \in Id
    BY <1>1, Ids, ManualIdType, WeightsAssumption
  <2> QED
    BY <1>1, <2>1, EnsureGrows DEF ManualIdsAreFresh
<1>2. ASSUME NEW set \in {V2Set, V3Set}, SeedPreset(set) PROVE ManualIdsAreFresh'
  <2>1. set \in Set /\ set.id \in Presets
    BY PresetSets DEF V2Set, V3Set, Presets
  <2> QED
    BY <1>1, <1>2, <2>1 DEF SeedPreset
<1>3. CASE PublishTrainingReport
  <2>1. job.found.weights \in Set
    BY DEF Job, Report
  <2>2. CASE job.found.promoted /\ NameIsFree(job.found.weights)
    BY <1>1, <1>3, <2>1, <2>2 DEF PublishTrainingReport, FoundIsOurs
  <2>3. CASE ~(job.found.promoted /\ NameIsFree(job.found.weights))
    BY <1>3, <2>3 DEF PublishTrainingReport, ManualIdsAreFresh
  <2> QED
    BY <2>2, <2>3
<1>4. ASSUME NEW numbers \in Numbers, InstallWeights(numbers)
      PROVE  ManualIdsAreFresh'
  <2> SUFFICES ASSUME NEW n \in (edits + 1)..MaxEdits
               PROVE  rows'[ManualId(n)] = NoRow
    BY <1>4 DEF InstallWeights, ManualIdsAreFresh
  <2>1. n \in edits..MaxEdits /\ n # edits /\ n \in Nat /\ edits \in Nat
    BY WeightsAssumption
  <2>2. ManualId(n) # ManualId(edits)
    BY <2>1, Ids
  <2> QED
    BY <1>4, <2>1, <2>2, ManualIdType, WeightsAssumption
       DEF InstallWeights, ManualIdsAreFresh
<1>5. ASSUME NEW set \in Uploads, ImportWeights(set) PROVE ManualIdsAreFresh'
  BY <1>1, <1>5, UploadsAssumption DEF ImportWeights
<1>6. CASE rows' = rows /\ edits' = edits
  BY <1>6 DEF ManualIdsAreFresh
<1> QED
  BY <1>2, <1>3, <1>4, <1>5, <1>6
     DEF Next, FinishBoot, Crash, RateAndRecord, Train, StartJob, StoreTip,
         FitWeights, EndJob, AddSample, vars

\* A set that is stored stays stored.
LEMMA StaysStored ==
  ASSUME RowsGrow, NEW set \in Set, Stored(set)
  PROVE  Stored(set)'
BY DEF RowsGrow, Stored, Set

\* A job's set stays stored, and only manual sets become active under it.
LEMMA StepJob ==
  ASSUME TypeOK, ActiveIsStored, RowsGrow, JobKnowsItsSet, [Next]_vars
  PROVE  JobKnowsItsSet'
<1> USE DEF TypeOK
<1>1. CASE job'.pc = "idle"
  BY <1>1 DEF JobKnowsItsSet
<1>2. CASE RateAndRecord \/ Train
  <2>1. PICK set \in ActiveSets, pc \in {"rate", "fit"} :
          job' = [NoJob EXCEPT !.pc = pc, !.current = set]
    BY <1>2 DEF RateAndRecord, Train, StartJob
  <2>2. job'.current = set
    BY <2>1 DEF NoJob
  <2>3. up' /\ rows' = rows /\ active' = active
    BY <1>2 DEF RateAndRecord, Train, StartJob
  <2> QED
    BY <2>2, <2>3, ActiveSetsType DEF JobKnowsItsSet, Stored
<1>3. CASE /\ job.pc # "idle" /\ job'.pc # "idle"
           /\ job'.current = job.current /\ up' = up
           /\ \/ active' = active
              \/ \E id \in Id : active' = {id} /\ rows'[id].origin = "manual"
  <2>1. job.current \in Set
    BY DEF Job
  <2>2. Stored(job.current)'
    BY <1>3, <2>1, StaysStored DEF JobKnowsItsSet, Stored, RowsGrow, Set
  <2>3. \A id \in active' : id = job'.current.id \/ rows'[id].origin = "manual"
    <3>1. ASSUME active' = active, NEW id \in active
          PROVE  id = job'.current.id \/ rows'[id].origin = "manual"
      <4>1. id \in Id /\ rows[id] # NoRow
        BY DEF ActiveIsStored
      <4> QED
        BY <1>3, <4>1 DEF JobKnowsItsSet, RowsGrow
    <3> QED
      BY <1>3, <3>1
  <2> QED
    BY <1>3, <2>2, <2>3 DEF JobKnowsItsSet
<1>4. ASSUME NEW numbers \in Numbers, InstallWeights(numbers)
      PROVE  /\ job' = job /\ up' = up
             /\ \E id \in Id : active' = {id} /\ rows'[id].origin = "manual"
  BY <1>4, ManualIdType DEF InstallWeights, SetActiveWeights
<1>5. ASSUME FinishBoot \/ \E set \in {V2Set, V3Set} : SeedPreset(set)
      PROVE  job'.pc = "idle"
  BY <1>5 DEF FinishBoot, SeedPreset, JobKnowsItsSet
<1>6. ASSUME Crash \/ PublishTrainingReport \/ EndJob PROVE job'.pc = "idle"
  BY <1>6 DEF Crash, PublishTrainingReport, EndJob, NoJob
<1>7. ASSUME FitWeights
      PROVE  job.pc # "idle" /\ job'.current = job.current /\ up' = up /\ active' = active
  BY <1>7 DEF FitWeights, Job
<1>8. ASSUME \/ StoreTip \/ AddSample \/ UNCHANGED vars
             \/ \E set \in Uploads : ImportWeights(set)
      PROVE  job' = job /\ up' = up /\ active' = active
  BY <1>8 DEF StoreTip, AddSample, ImportWeights, vars
<1> QED
  BY <1>1, <1>2, <1>3, <1>4, <1>5, <1>6, <1>7, <1>8 DEF Next

\* Only training finds something to publish.
LEMMA StepFound ==
  ASSUME TypeOK, FoundIsOurs, [Next]_vars
  PROVE  FoundIsOurs'
<1> USE DEF TypeOK
<1>1. CASE FitWeights
  <2>1. PICK found \in Fitted(job.current, samples) :
          job' = [job EXCEPT !.pc = "publish", !.found = found]
    BY <1>1 DEF FitWeights
  <2>2. job'.found = found /\ job'.current = job.current /\ job.current \in Set
    BY <2>1 DEF Job
  <2> QED
    BY <2>1, <2>2, FittedType DEF FoundIsOurs
<1>2. CASE RateAndRecord \/ Train
  <2>1. job'.pc \in {"rate", "fit"}
    BY <1>2 DEF RateAndRecord, Train, StartJob, NoJob
  <2> QED
    BY <2>1 DEF FoundIsOurs
<1>3. CASE job' = NoJob
  BY <1>3 DEF NoJob, FoundIsOurs
<1>4. CASE job' = job
  BY <1>4 DEF FoundIsOurs
<1> QED
  BY <1>1, <1>2, <1>3, <1>4
     DEF Next, SeedPreset, FinishBoot, Crash, StoreTip, PublishTrainingReport,
         EndJob, InstallWeights, ImportWeights, AddSample, vars

\* One stored set is active from the first boot on.
LEMMA StepActive ==
  ASSUME TypeOK, RowsGrow, ActiveIsStored, [Next]_vars
  PROVE  ActiveIsStored'
<1> USE DEF TypeOK
<1>1. CASE active' = active /\ up' = up
  BY <1>1 DEF ActiveIsStored, RowsGrow
<1>2. ASSUME NEW id \in Id, active' = {id}, rows'[id] # NoRow
      PROVE  ActiveIsStored'
  BY <1>2 DEF ActiveIsStored
<1>3. CASE FinishBoot
  <2>1. V2 \in Id /\ V3 \in Id /\ rows'[V3] # NoRow
    BY <1>3, Ids DEF FinishBoot, Presets
  <2>2. CASE active \subseteq {V2}
    BY <1>2, <1>3, <2>1, <2>2 DEF FinishBoot, Outdated, SetActiveWeights
  <2>3. CASE ~(active \subseteq {V2})
    BY <1>3, <2>3 DEF FinishBoot, Outdated, ActiveIsStored
  <2> QED
    BY <2>2, <2>3
<1>4. CASE PublishTrainingReport
  <2>1. job.found.weights \in Set /\ job.found.weights.id \in Id
    BY DEF Job, Report, Set
  <2>2. CASE job.found.promoted /\ NameIsFree(job.found.weights)
    <3>1. rows'[job.found.weights.id] # NoRow /\ active' = {job.found.weights.id}
      BY <1>4, <2>1, <2>2, EnsureGrows
         DEF PublishTrainingReport, SetActiveWeights
    <3>2. PICK id \in Id : id = job.found.weights.id
      BY <2>1
    <3> QED
      BY <3>1, <3>2 DEF ActiveIsStored
  <2>3. CASE ~(job.found.promoted /\ NameIsFree(job.found.weights))
    BY <1>1, <1>4, <2>3 DEF PublishTrainingReport
  <2> QED
    BY <2>2, <2>3
<1>5. ASSUME NEW numbers \in Numbers, InstallWeights(numbers)
      PROVE  ActiveIsStored'
  <2>1. ManualId(edits) \in Id
    BY ManualIdType
  <2>2. [numbers |-> numbers, origin |-> "manual"] \in Row
    BY DEF Row
  <2>3. rows'[ManualId(edits)] # NoRow /\ active' = {ManualId(edits)}
    BY <1>5, <2>1, <2>2, NoRowAssumption DEF InstallWeights, SetActiveWeights
  <2> QED
    BY <1>2, <2>1, <2>3
<1>6. CASE Crash
  BY <1>6 DEF Crash, ActiveIsStored
<1>7. ASSUME NEW set \in {V2Set, V3Set}, SeedPreset(set) PROVE ActiveIsStored'
  BY <1>1, <1>7 DEF SeedPreset
<1>8. ASSUME NEW set \in Uploads, ImportWeights(set) PROVE ActiveIsStored'
  BY <1>1, <1>8 DEF ImportWeights
<1>9. CASE \/ RateAndRecord \/ StoreTip \/ Train \/ FitWeights
           \/ EndJob \/ AddSample \/ UNCHANGED vars
  BY <1>1, <1>9 DEF RateAndRecord, Train, StartJob, StoreTip, FitWeights,
                    EndJob, AddSample, vars
<1> HIDE DEF TypeOK
<1> QED
  BY <1>3, <1>4, <1>5, <1>6, <1>7, <1>8, <1>9 DEF Next

\* The rows of the presets come from the server.
LEMMA StepPresets ==
  ASSUME TypeOK, FoundIsOurs, RowsGrow, PresetsAreOurs, [Next]_vars
  PROVE  PresetsAreOurs'
<1> USE DEF TypeOK
<1> SUFFICES ASSUME NEW id \in Presets, rows'[id] # NoRow
             PROVE  rows'[id].origin # "device"
  BY DEF PresetsAreOurs
<1>1. id \in Id
  BY Ids
<1>2. CASE rows'[id] = rows[id]
  BY <1>2 DEF PresetsAreOurs
<1>3. ASSUME NEW set \in {V2Set, V3Set}, SeedPreset(set), rows[id] = NoRow
      PROVE  rows'[id].origin # "device"
  <2>1. set.id \in Id
    BY PresetSets DEF Set
  <2> QED
    BY <1>1, <1>3, <2>1 DEF SeedPreset, EnsureWeights
<1>4. ASSUME NEW set \in Set, NEW from \in {"preset", "trained", "manual", "device"},
             set.id # id, EnsureWeights(set, from)
      PROVE  rows'[id] = rows[id]
  BY <1>1, <1>4, EnsureGrows
<1>5. CASE PublishTrainingReport
  <2>1. job.found.weights \in Set
    BY DEF Job, Report
  <2>2. CASE job.found.promoted
    BY <1>2, <1>4, <1>5, <2>1, <2>2, DisjointIds
       DEF PublishTrainingReport, FoundIsOurs
  <2>3. CASE ~job.found.promoted
    BY <1>2, <1>5, <2>3 DEF PublishTrainingReport
  <2> QED
    BY <2>2, <2>3
<1>6. ASSUME NEW numbers \in Numbers, InstallWeights(numbers)
      PROVE  rows'[id] = rows[id]
  <2>1. ManualId(edits) # id
    BY Ids
  <2> QED
    BY <1>1, <1>6, <2>1 DEF InstallWeights
<1>7. ASSUME NEW set \in Uploads, ImportWeights(set)
      PROVE  rows'[id] = rows[id]
  BY <1>4, <1>7, DisjointIds, UploadsAssumption DEF ImportWeights
<1>8. CASE rows[id] # NoRow
  BY <1>1, <1>2, <1>8 DEF RowsGrow
<1> QED
  BY <1>2, <1>3, <1>5, <1>6, <1>7, <1>8
     DEF Next, FinishBoot, Crash, RateAndRecord, Train, StartJob, StoreTip,
         FitWeights, EndJob, AddSample, vars

\* Every tip is stamped with a set that was stored then, and still is.
LEMMA StepStamps ==
  ASSUME TypeOK, RowsGrow, JobKnowsItsSet, TipsAreAttributable, [Next]_vars
  PROVE  TipsAreAttributable'
<1> USE DEF TypeOK
<1>1. ASSUME NEW set \in stamps PROVE Stored(set)'
  <2>1. set \in Set /\ Stored(set)
    BY DEF TipsAreAttributable, Stored
  <2> QED
    BY <2>1, StaysStored
<1>2. CASE StoreTip
  <2>1. Stored(job.current) /\ rows' = rows /\ stamps' = stamps \cup {job.current}
    BY <1>2 DEF StoreTip, JobKnowsItsSet
  <2> QED
    BY <1>1, <2>1 DEF TipsAreAttributable, Stored
<1>3. CASE stamps' = stamps
  BY <1>1, <1>3 DEF TipsAreAttributable, Stored
<1> QED
  BY <1>2, <1>3
     DEF Next, SeedPreset, FinishBoot, Crash, RateAndRecord, Train, StartJob,
         FitWeights, PublishTrainingReport, EndJob, InstallWeights,
         ImportWeights, AddSample, vars

\* A published set carries the numbers the report names.
LEMMA PublishedAsReported ==
  ASSUME TypeOK, PublishTrainingReport, job.found.promoted,
         NameIsFree(job.found.weights)
  PROVE  /\ rows'[job.found.weights.id] # NoRow
         /\ rows'[job.found.weights.id].numbers = job.found.weights.numbers
<1> USE DEF TypeOK
<1>1. job.found.weights \in Set /\ job.found.weights.id \in Id
  BY DEF Job, Report, Set
<1>2. EnsureWeights(job.found.weights, "trained")
  BY DEF PublishTrainingReport
<1>3. rows'[job.found.weights.id] # NoRow
  BY <1>1, <1>2, EnsureGrows
<1>4. rows'[job.found.weights.id].numbers = job.found.weights.numbers
  BY <1>1, <1>2, EnsureGrows DEF NameIsFree, RowsGrow
<1> QED
  BY <1>3, <1>4

\* A report is published with its set, or not at all.
LEMMA StepReport ==
  ASSUME TypeOK, RowsGrow, ReportedSetIsStored, [Next]_vars
  PROVE  ReportedSetIsStored'
<1> USE DEF TypeOK
<1>1. CASE report' = report
  <2>1. report.weights \in Set /\ report.weights.id \in Id
    BY DEF Report, Set
  <2> QED
    BY <1>1, <2>1 DEF ReportedSetIsStored, RowsGrow
<1>2. CASE PublishTrainingReport
  <2>1. CASE job.found.promoted /\ NameIsFree(job.found.weights)
    <3>1. report' = job.found
      BY <1>2, <2>1 DEF PublishTrainingReport
    <3> QED
      BY <1>2, <2>1, <3>1, PublishedAsReported DEF ReportedSetIsStored
  <2>2. CASE ~job.found.promoted
    BY <1>2, <2>2 DEF PublishTrainingReport, ReportedSetIsStored
  <2>3. CASE job.found.promoted /\ ~NameIsFree(job.found.weights)
    BY <1>1, <1>2, <2>3 DEF PublishTrainingReport
  <2> QED
    BY <2>1, <2>2, <2>3
<1> QED
  BY <1>1, <1>2
     DEF Next, SeedPreset, FinishBoot, Crash, RateAndRecord, Train, StartJob,
         StoreTip, FitWeights, EndJob, InstallWeights, ImportWeights, AddSample,
         vars

\* What becomes active is a preset, a manual set, or what a report names.
LEMMA StepDevice ==
  ASSUME TypeOK, RowsGrow, PresetsAreOurs', JobKnowsItsSet, FoundIsOurs,
         ActiveIsStored, DeviceSetsEarnIt, [Next]_vars
  PROVE  DeviceSetsEarnIt'
<1> USE DEF TypeOK
<1>1. \A id \in active : id \in Id /\ rows[id] # NoRow /\ rows'[id] = rows[id]
  BY DEF ActiveIsStored, RowsGrow
<1>2. CASE active' = active /\ report' = report
  BY <1>1, <1>2 DEF DeviceSetsEarnIt
<1>3. CASE FinishBoot
  <2>1. CASE active \subseteq {V2}
    <3>1. active' = {V3} /\ V3 \in Presets
      BY <1>3, <2>1 DEF FinishBoot, Outdated, SetActiveWeights, Presets
    <3> QED
      BY <3>1 DEF PresetsAreOurs, DeviceSetsEarnIt
  <2>2. CASE ~(active \subseteq {V2})
    BY <1>2, <1>3, <2>2 DEF FinishBoot, Outdated
  <2> QED
    BY <2>1, <2>2
<1>4. CASE PublishTrainingReport
  <2>1. /\ job.found.weights \in Set /\ job.current \in Set
        /\ job.found.weights.id \in Id
    BY DEF Job, Report, Set
  <2>2. CASE job.found.promoted /\ NameIsFree(job.found.weights)
    <3>1. report' = job.found /\ active' = {job.found.weights.id}
      BY <1>4, <2>2 DEF PublishTrainingReport, SetActiveWeights
    <3>2. rows'[job.found.weights.id].numbers = job.found.weights.numbers
      BY <1>4, <2>2, PublishedAsReported
    <3>3. job.found.weights = [id |-> job.found.weights.id,
                               numbers |-> rows'[job.found.weights.id].numbers]
      BY <2>1, <3>2 DEF Set
    <3> QED
      BY <3>1, <3>3 DEF DeviceSetsEarnIt
  <2>3. CASE ~job.found.promoted
    <3>1. report' = job.found /\ active' = active /\ rows' = rows
      BY <1>4, <2>3 DEF PublishTrainingReport
    <3>2. Stored(job.current) /\ job.found.weights = job.current
      BY <1>4, <2>3 DEF PublishTrainingReport, JobKnowsItsSet, FoundIsOurs
    <3>3. ASSUME NEW id \in active, rows[id].origin = "device"
          PROVE  job.current = [id |-> id, numbers |-> rows[id].numbers]
      <4>1. id = job.current.id
        BY <1>4, <3>3 DEF PublishTrainingReport, JobKnowsItsSet
      <4> QED
        BY <2>1, <3>2, <4>1 DEF Stored, Set
    <3> QED
      BY <3>1, <3>2, <3>3 DEF DeviceSetsEarnIt
  <2>4. CASE job.found.promoted /\ ~NameIsFree(job.found.weights)
    BY <1>2, <1>4, <2>4 DEF PublishTrainingReport
  <2> QED
    BY <2>2, <2>3, <2>4
<1>5. ASSUME NEW numbers \in Numbers, InstallWeights(numbers)
      PROVE  DeviceSetsEarnIt'
  <2>1. ManualId(edits) \in Id
    BY ManualIdType
  <2>2. active' = {ManualId(edits)} /\ rows'[ManualId(edits)].origin = "manual"
    BY <1>5, <2>1 DEF InstallWeights, SetActiveWeights
  <2> QED
    BY <2>2 DEF DeviceSetsEarnIt
<1> QED
  BY <1>2, <1>3, <1>4, <1>5
     DEF Next, SeedPreset, Crash, RateAndRecord, Train, StartJob, StoreTip,
         FitWeights, EndJob, ImportWeights, AddSample, vars

-----------------------------------------------------------------------------

\* A fresh database and an old one both start inside the invariant.
LEMMA InitInv == Init => IInv
<1> SUFFICES ASSUME Init PROVE IInv
  OBVIOUS
<1>1. rows \in [Id -> Row \cup {NoRow}]
  <2>1. [numbers |-> V2Numbers, origin |-> "preset"] \in Row
    BY WeightsAssumption DEF Row
  <2> QED
    BY <2>1 DEF Init
<1>2. active = {} \/ (active = {V2} /\ rows[V2] # NoRow)
  <2>1. [numbers |-> V2Numbers, origin |-> "preset"] \in Row
    BY WeightsAssumption DEF Row
  <2> QED
    BY <2>1, NoRowAssumption, Ids DEF Init, Presets
<1>3. TypeOK
  <2>1. active \in SUBSET Id
    BY <1>2, Ids DEF Presets
  <2>2. samples \in 0..MaxSamples /\ edits \in 0..MaxEdits
    BY WeightsAssumption DEF Init
  <2>3. /\ report \in Report /\ stamps \in SUBSET Set
        /\ up \in BOOLEAN /\ job \in Job
    BY PresetSets DEF Init
  <2> QED
    BY <1>1, <2>1, <2>2, <2>3 DEF TypeOK
<1>4. ManualIdsAreFresh
  <2> SUFFICES ASSUME NEW n \in 0..MaxEdits PROVE rows[ManualId(n)] = NoRow
    BY DEF Init, ManualIdsAreFresh
  <2>1. ManualId(n) \in Id /\ ManualId(n) # V2
    BY Ids, ManualIdType DEF Presets
  <2> QED
    BY <2>1 DEF Init
<1>5. PresetsAreOurs
  BY Ids DEF Init, PresetsAreOurs
<1>6. ActiveIsStored
  BY <1>2, Ids DEF Init, ActiveIsStored, Presets
<1>7. /\ JobKnowsItsSet /\ FoundIsOurs /\ TipsAreAttributable
      /\ ReportedSetIsStored
  BY DEF Init, NoJob, NoReport, JobKnowsItsSet, FoundIsOurs,
         TipsAreAttributable, ReportedSetIsStored
<1>8. DeviceSetsEarnIt
  BY <1>2, Ids DEF Init, DeviceSetsEarnIt, Presets
<1> QED
  BY <1>3, <1>4, <1>5, <1>6, <1>7, <1>8 DEF IInv

\* Every step keeps the invariant, and changes no stored row.
LEMMA StepInv ==
  ASSUME IInv, [Next]_vars
  PROVE  IInv' /\ RowsGrow
<1> USE DEF IInv
<1>1. RowsGrow
  BY StepGrows
<1>2. TypeOK' /\ ManualIdsAreFresh' /\ PresetsAreOurs'
  BY <1>1, StepType, StepFresh, StepPresets
<1>3. JobKnowsItsSet' /\ FoundIsOurs' /\ ActiveIsStored'
  BY <1>1, StepJob, StepFound, StepActive
<1>4. TipsAreAttributable' /\ ReportedSetIsStored' /\ DeviceSetsEarnIt'
  BY <1>1, <1>2, StepStamps, StepReport, StepDevice
<1> QED
  BY <1>1, <1>2, <1>3, <1>4

\* The invariant holds in every state of the weights table and its jobs.
THEOREM WeightsInductive == Spec => []IInv
<1>1. IInv /\ [Next]_vars => IInv'
  BY StepInv
<1> QED
  BY InitInv, <1>1, PTL DEF Spec

\* The tables and the job are typed, whatever phones send and training finds.
THEOREM WeightsTyped == Spec => []TypeOK
<1>1. IInv => TypeOK
  BY DEF IInv
<1> QED
  BY WeightsInductive, <1>1, PTL

\* A server that is up has exactly one active set, and it is stored.
THEOREM AlwaysOneActive == Spec => []OneActive
<1>1. IInv => OneActive
  BY DEF IInv, ActiveIsStored, OneActive
<1> QED
  BY WeightsInductive, <1>1, PTL

\* The id on a tip leads to the numbers that rated it, for ever.
THEOREM TipsStayAttributable == Spec => []TipsAreAttributable
<1>1. IInv => TipsAreAttributable
  BY DEF IInv
<1> QED
  BY WeightsInductive, <1>1, PTL

\* A report of a promotion and the promoted set are published together.
THEOREM ReportsAreBacked == Spec => []ReportedSetIsStored
<1>1. IInv => ReportedSetIsStored
  BY DEF IInv
<1> QED
  BY WeightsInductive, <1>1, PTL

\* A phone's set runs only when training on the server arrived at it.
THEOREM DeviceSetsStayOff == Spec => []DeviceSetsEarnIt
<1>1. IInv => DeviceSetsEarnIt
  BY DEF IInv
<1> QED
  BY WeightsInductive, <1>1, PTL

\* An id names one set of numbers for ever.
THEOREM IdsNeverChangeMeaning == Spec => StoredSetsNeverChange
<1>1. IInv /\ [Next]_vars =>
        [\A id \in Id : rows[id] # NoRow => rows'[id] = rows[id]]_vars
  BY StepInv DEF RowsGrow
<1> QED
  BY WeightsInductive, <1>1, PTL DEF Spec, StoredSetsNeverChange

-----------------------------------------------------------------------------
(* Presets. *)

\* A set was trained on the server, or installed by an operator.
Chosen == \E id \in Id : rows[id] # NoRow /\ rows[id].origin \in {"trained", "manual"}

\* What training promotes and an operator installs is no preset.
LEMMA PresetsApart ==
  LearnedIds \cap Presets = {} /\ \A n \in Nat : ManualId(n) \notin Presets
BY Ids DEF LearnedIds, LearnedId, Presets, V2, V3

\* Storing a preset or a phone's set chooses nothing.
LEMMA SeedingChoosesNothing ==
  ASSUME TypeOK, NEW set \in Set, NEW from \in {"preset", "device"},
         EnsureWeights(set, from), Chosen'
  PROVE  Chosen
<1>1. PICK id \in Id : rows'[id] # NoRow /\ rows'[id].origin \in {"trained", "manual"}
  BY DEF Chosen
<1>2. rows[id] # NoRow /\ rows'[id] = rows[id]
  BY <1>1 DEF TypeOK, EnsureWeights
<1> QED
  BY <1>1, <1>2 DEF Chosen

\* A boot finds what was chosen in force and leaves it there; all else that
\* changes what is in force puts a learned or a manual set there.
LEMMA StepPresetsRetired ==
  ASSUME IInv, PresetsStayRetired, [Next]_vars
  PROVE  PresetsStayRetired'
<1>1. Chosen => active # {} /\ active \cap Presets = {}
  BY DEF PresetsStayRetired, Chosen
<1> SUFFICES ASSUME Chosen' PROVE active' # {} /\ active' \cap Presets = {}
  BY DEF PresetsStayRetired, Chosen
<1>2. CASE UNCHANGED <<rows, active>>
  BY <1>1, <1>2 DEF Chosen
<1>3. ASSUME NEW set \in {V2Set, V3Set}, SeedPreset(set)
      PROVE  active' # {} /\ active' \cap Presets = {}
  BY <1>1, <1>3, PresetSets, SeedingChoosesNothing DEF SeedPreset, IInv
<1>4. CASE FinishBoot
  <2>1. active # {} /\ active \cap Presets = {}
    BY <1>1, <1>4 DEF FinishBoot, Chosen
  <2> QED
    BY <1>4, <2>1 DEF FinishBoot, Outdated, Presets
<1>5. CASE PublishTrainingReport
  <2>1. CASE job.found.promoted /\ NameIsFree(job.found.weights)
    BY <1>5, <2>1, PresetsApart DEF PublishTrainingReport, SetActiveWeights, IInv, FoundIsOurs
  <2>2. CASE ~(job.found.promoted /\ NameIsFree(job.found.weights))
    BY <1>2, <1>5, <2>2 DEF PublishTrainingReport
  <2> QED
    BY <2>1, <2>2
<1>6. ASSUME NEW numbers \in Numbers, InstallWeights(numbers)
      PROVE  active' # {} /\ active' \cap Presets = {}
  <2>1. edits \in Nat
    BY WeightsAssumption DEF IInv, TypeOK
  <2> QED
    BY <1>6, <2>1, PresetsApart DEF InstallWeights, SetActiveWeights
<1>7. ASSUME NEW set \in Uploads, ImportWeights(set)
      PROVE  active' # {} /\ active' \cap Presets = {}
  BY <1>1, <1>7, UploadsAssumption, SeedingChoosesNothing DEF ImportWeights, IInv
<1> QED
  BY <1>2, <1>3, <1>4, <1>5, <1>6, <1>7
     DEF Next, vars, Crash, RateAndRecord, Train, StartJob, StoreTip, FitWeights,
         EndJob, AddSample

\* Once a set was trained or installed no preset rates again, over deaths, boots,
\* promotions, manual edits and uploads.  (service.Bootstrap; docs/selection.md:
\* "a trained set stays as it is".)
THEOREM PresetsNeverComeBack == Spec => []PresetsStayRetired
<1>1. Init => PresetsStayRetired
  <2> SUFFICES ASSUME Init PROVE ~Chosen
    BY DEF PresetsStayRetired, Chosen
  <2> QED
    BY DEF Init, Chosen
<1>2. IInv /\ PresetsStayRetired /\ [Next]_vars => PresetsStayRetired'
  BY StepPresetsRetired
<1> QED
  BY WeightsInductive, <1>1, <1>2, PTL DEF Spec

-----------------------------------------------------------------------------
(* The implementation of the register. *)

\* What the table says an id means is a name's one meaning, or none yet.
LEMMA MeaningType ==
  ASSUME TypeOK
  PROVE  /\ Meaning \in [Id -> {{}} \cup {{x} : x \in Numbers}]
         /\ \A id \in Id : rows[id] # NoRow =>
              /\ rows[id].numbers \in Numbers
              /\ Meaning[id] = {rows[id].numbers}
<1>1. \A id \in Id : rows[id] # NoRow => rows[id].numbers \in Numbers
  BY DEF TypeOK, Row
<1> QED
  BY <1>1 DEF Meaning

\* Storing a set under a free id, or again under its own, gives the id that
\* meaning and leaves the others theirs.
LEMMA StoringMeans ==
  ASSUME TypeOK, TypeOK', RowsGrow, NEW set \in Set, Stored(set)',
         \A id \in Id : id # set.id => rows'[id] = rows[id]
  PROVE  Register!Means(set.id, set.numbers)
<1>1. set.id \in Id
  BY DEF Set
<1>2. Meaning[set.id] \subseteq {set.numbers}
  BY <1>1 DEF Meaning, RowsGrow, Stored
<1>3. Meaning' = [Meaning EXCEPT ![set.id] = {set.numbers}]
  BY <1>1 DEF Meaning, Stored
<1> QED
  BY <1>2, <1>3 DEF Register!Means

\* A statement that inserts is a name filed, or nothing at all.
LEMMA InsertingFiles ==
  ASSUME TypeOK, TypeOK', NEW set \in Set,
         NEW from \in {"preset", "trained", "manual", "device"},
         EnsureWeights(set, from), UNCHANGED <<active, stamps, job>>
  PROVE  [Register!Next]_(Register!vars)
<1>1. rows \in [Id -> Row \cup {NoRow}] /\ set.id \in Id /\ set.numbers \in Numbers
  BY DEF TypeOK, Set
<1>2. /\ RowsGrow /\ rows'[set.id] # NoRow
      /\ \A id \in Id : id # set.id => rows'[id] = rows[id]
      /\ rows[set.id] = NoRow => rows'[set.id].numbers = set.numbers
  BY <1>1, EnsureGrows
<1>3. CASE rows[set.id] = NoRow
  <2>1. Register!Means(set.id, set.numbers)
    BY <1>2, <1>3, StoringMeans DEF Stored
  <2>2. ~Register!Named(set.id)
    BY <1>1, <1>3 DEF Register!Named, Meaning
  <2>3. Register!File(set.id, set.numbers)
    BY <2>1, <2>2 DEF Register!File, Rating
  <2> QED
    BY <1>1, <2>3 DEF Register!Next
<1>4. CASE rows[set.id] # NoRow
  <2>1. rows' = rows
    BY <1>1, <1>4 DEF EnsureWeights
  <2> QED
    BY <2>1 DEF Register!vars, Meaning, Rating
<1> QED
  BY <1>3, <1>4

\* A stored set that comes into force is adopted.
LEMMA ActivatingAdopts ==
  ASSUME TypeOK, TypeOK', RowsGrow, NEW set \in Set, Stored(set)',
         \A id \in Id : id # set.id => rows'[id] = rows[id],
         active' = {set.id}, Rating' = Rating, stamps' = stamps
  PROVE  Register!Next
<1>1. Register!Means(set.id, set.numbers)
  BY StoringMeans
<1>2. Register!Adopt(set.id, set.numbers)
  BY <1>1 DEF Register!Adopt
<1> QED
  BY <1>2 DEF Register!Next, Set

\* The register starts as the database was found.
LEMMA StartsAsRegister == Init => Register!Init
<1> SUFFICES ASSUME Init PROVE Register!Init
  OBVIOUS
<1>1. IInv
  BY InitInv
<1>2. Meaning \in [Id -> {{}} \cup {{x} : x \in Numbers}]
  BY <1>1, MeaningType DEF IInv
<1>3. active \in {{}} \cup {{id} : id \in {n \in Id : Register!Named(n)}}
  <2>1. CASE active = {}
    BY <2>1
  <2>2. ASSUME NEW id \in Id, active = {id}, rows[id] # NoRow
        PROVE  active \in {{n} : n \in {m \in Id : Register!Named(m)}}
    BY <2>2 DEF Register!Named, Meaning
  <2> QED
    BY <1>1, <2>1, <2>2 DEF IInv, ActiveIsStored
<1>4. Rating = {} /\ stamps = {}
  BY DEF Init, NoJob, Rating
<1> QED
  BY <1>2, <1>3, <1>4 DEF Register!Init

\* Every step of the tables and their jobs is one of the register, or none.
LEMMA StepIsRegistered ==
  ASSUME IInv, IInv', RowsGrow, [Next]_vars
  PROVE  [Register!Next]_(Register!vars)
<1>1. TypeOK /\ TypeOK'
  BY DEF IInv
<1>2. ASSUME UNCHANGED <<rows, active, stamps>>, Rating' = Rating
      PROVE  [Register!Next]_(Register!vars)
  BY <1>2 DEF Register!vars, Meaning
<1>3. ASSUME UNCHANGED <<rows, active, stamps>>, Rating' = {}
      PROVE  [Register!Next]_(Register!vars)
  BY <1>3 DEF Register!Next, Register!End, Meaning
<1>4. ASSUME NEW set \in {V2Set, V3Set}, SeedPreset(set)
      PROVE  [Register!Next]_(Register!vars)
  BY <1>1, <1>4, InsertingFiles, PresetSets DEF SeedPreset
<1>5. CASE FinishBoot
  <2>1. rows' = rows /\ job' = job /\ stamps' = stamps
    BY <1>5 DEF FinishBoot
  <2>2. CASE Outdated(active)
    <3>1. V3 \in Id /\ rows[V3] # NoRow /\ active' = {V3}
      BY <1>5, <2>2, Ids DEF FinishBoot, SetActiveWeights, Presets
    <3>2. [id |-> V3, numbers |-> rows[V3].numbers] \in Set
      BY <1>1, <3>1, MeaningType DEF Set
    <3> QED
      BY <1>1, <2>1, <3>1, <3>2, ActivatingAdopts DEF Stored, Rating
  <2>3. CASE ~Outdated(active)
    BY <1>2, <1>5, <2>1, <2>3 DEF FinishBoot, Rating
  <2> QED
    BY <2>2, <2>3
<1>6. CASE Crash \/ EndJob
  BY <1>3, <1>6 DEF Crash, EndJob, NoJob, Rating
<1>7. CASE RateAndRecord
  <2>1. PICK set \in ActiveSets : job' = [NoJob EXCEPT !.pc = "rate", !.current = set]
    BY <1>7 DEF RateAndRecord, StartJob
  <2>2. set \in Set /\ Stored(set) /\ active = {set.id}
    BY ActiveSetsType DEF IInv
  <2>3. Rating = {} /\ Rating' = {set}
    BY <1>7, <2>1 DEF RateAndRecord, StartJob, Rating, NoJob
  <2>4. set.id \in Id /\ Meaning[set.id] = {set.numbers}
    BY <1>1, <2>2, MeaningType DEF Stored, Set
  <2>5. set = [id |-> set.id, numbers |-> set.numbers]
    BY <2>2 DEF Set
  <2>6. {set} = {[id |-> name, numbers |-> x] :
                   name \in active, x \in UNION {Meaning[n] : n \in active}}
    BY <2>2, <2>4, <2>5
  <2>7. UNCHANGED <<Meaning, active, stamps>> /\ active # {}
    BY <1>7, <2>2 DEF RateAndRecord, StartJob, Meaning
  <2>8. Register!Begin
    BY <2>3, <2>6, <2>7 DEF Register!Begin
  <2> QED
    BY <2>8 DEF Register!Next
<1>8. CASE StoreTip
  BY <1>8 DEF StoreTip, Register!Next, Register!Stamp, Rating, Meaning
<1>9. CASE Train
  BY <1>2, <1>9 DEF Train, StartJob, Rating, NoJob
<1>10. CASE FitWeights
  <2>1. job.pc = "fit" /\ job'.pc = "publish"
    BY <1>1, <1>10 DEF FitWeights, TypeOK, Job
  <2> QED
    BY <1>2, <1>10, <2>1 DEF FitWeights, Rating
<1>11. CASE PublishTrainingReport
  <2>1. Rating = {} /\ Rating' = {} /\ stamps' = stamps
    BY <1>11 DEF PublishTrainingReport, NoJob, Rating
  <2>2. PICK set \in Set : set = job.found.weights
    BY <1>1 DEF TypeOK, Job, Report
  <2>3. CASE job.found.promoted /\ NameIsFree(job.found.weights)
    <3>1. EnsureWeights(set, "trained") /\ active' = {set.id}
      BY <1>11, <2>2, <2>3 DEF PublishTrainingReport, SetActiveWeights
    <3>2. Stored(set)'
      BY <1>1, <1>11, <2>2, <2>3, PublishedAsReported DEF Stored
    <3>3. \A id \in Id : id # set.id => rows'[id] = rows[id]
      BY <1>1, <3>1, EnsureGrows DEF TypeOK
    <3> QED
      BY <1>1, <2>1, <3>1, <3>2, <3>3, ActivatingAdopts
  <2>4. CASE ~(job.found.promoted /\ NameIsFree(job.found.weights))
    BY <1>2, <1>11, <2>1, <2>4 DEF PublishTrainingReport
  <2> QED
    BY <2>3, <2>4
<1>12. ASSUME NEW numbers \in Numbers, InstallWeights(numbers)
       PROVE  [Register!Next]_(Register!vars)
  <2> DEFINE set == [id |-> ManualId(edits), numbers |-> numbers]
  <2>1. ManualId(edits) \in Id
    BY <1>1, ManualIdType DEF TypeOK
  <2>2. [numbers |-> numbers, origin |-> "manual"] # NoRow
    BY NoRowAssumption DEF Row
  <2>3. /\ rows'[set.id] # NoRow /\ rows'[set.id].numbers = set.numbers
        /\ \A id \in Id : id # set.id => rows'[id] = rows[id]
    BY <1>1, <1>12, <2>1, <2>2 DEF InstallWeights, TypeOK
  <2>4. active' = {set.id} /\ Rating' = Rating /\ stamps' = stamps
    BY <1>12 DEF InstallWeights, SetActiveWeights, Rating
  <2>5. set \in Set
    BY <2>1 DEF Set
  <2> QED
    BY <1>1, <2>3, <2>4, <2>5, ActivatingAdopts DEF Stored
<1>13. ASSUME NEW set \in Uploads, ImportWeights(set)
       PROVE  [Register!Next]_(Register!vars)
  BY <1>1, <1>13, InsertingFiles, UploadsAssumption DEF ImportWeights
<1>14. CASE AddSample \/ UNCHANGED vars
  BY <1>2, <1>14 DEF AddSample, vars, Rating
<1> QED
  BY <1>4, <1>5, <1>6, <1>7, <1>8, <1>9, <1>10, <1>11, <1>12, <1>13, <1>14 DEF Next

\* Boots, trainings, manual edits, uploads and deaths, interleaved as they may
\* be, implement a register in which an id gets its numbers once, a set is named
\* before or as it comes into force, and a tip carries the one set its rating
\* began with.  (service.Bootstrap, publishTrainingReport, InstallWeights,
\* importer.Import.)
THEOREM ImplementsTheRegister == Spec => KeepsTheRegister
<1>1. IInv /\ IInv' /\ [Next]_vars => [Register!Next]_(Register!vars)
  BY StepInv, StepIsRegistered
<1> QED
  BY StartsAsRegister, WeightsInductive, <1>1, PTL DEF Spec, KeepsTheRegister, Register!Spec
=============================================================================
