----------------------- MODULE RecordFinality_proofs -----------------------
(***************************************************************************)
(* Proofs that jobs exclude each other, that what the server seals is      *)
(* final, and that RecordService implements AccuracyRecord, for every      *)
(* value of the constants.                                                 *)
(***************************************************************************)
EXTENDS RecordService_proofs

(* The inductive invariant. *)

WaitingKinds == {"pending", "unresolved"}

TimelySeal(tip) ==
  tip.off = NoTime \/ /\ tip.off - SealWindow <= tip.sealedAt
                      /\ tip.sealedAt < tip.off

\* The tip a recording job is about to store is an open tip of the server's
\* and, when it is sealed, sealed now and in time.
TipToWrite ==
  \A w \in Worker : rec[w].pc = "write" =>
    /\ rec[w].race \in Race /\ rec[w].tip \in Tip
    /\ rec[w].tip.source = "server" /\ rec[w].tip.outcome = Pending
    /\ IsSealed(rec[w].tip) =>
         rec[w].tip.sealedAt = rec[w].now /\ TimelySeal(rec[w].tip)

\* The sample a recording job is about to store is that of the seal it has made.
SampleToWrite ==
  \A w \in Worker : rec[w].pc = "sample" =>
    /\ rec[w].race \in Race
    /\ ServerSealed(tips[rec[w].race])
    /\ tips[rec[w].race].sealedAt = rec[w].now

\* The rows a results pass has read still have the kinds they were read for.
RowsRead ==
  \A w \in Worker, r \in Race :
    /\ col[w].waiting[r] # NoTip =>
         col[w].waiting[r].outcome.kind \in WaitingKinds
    /\ col[w].missing[r] # NoTip => IsSettled(col[w].missing[r])
    /\ col[w].pc = "idle" =>
         col[w].waiting[r] = NoTip /\ col[w].missing[r] = NoTip

\* A starting price comes with a verdict or after it.
PricedOnceSettled ==
  \A r \in Race : ServerSealed(tips[r]) /\ ~IsSettled(tips[r]) =>
    tips[r].outcome.sp = NoPrice

\* What the jobs hold.
JobInv == TipToWrite /\ SampleToWrite /\ DecisionStands /\ RowsRead /\ RowsAreFresh

\* What the tables hold.
TableInv == SealHasItsCard /\ SampleIsOfTheSeal /\ PricedOnceSettled

IInv == TypeOK /\ JobsExclude /\ JobInv /\ TableInv

-----------------------------------------------------------------------------
(* What a step may do to the rows of sealed server tips and to their cards. *)

Untouched(r) ==
  \/ tips'[r] = tips[r]
  \/ ~ServerSealed(tips[r]) /\ ~ServerSealed(tips'[r])

OthersUntouched(r) == \A s \in Race : s = r \/ Untouched(s)

IsNowSealed(r) ==
  /\ ~ServerSealed(tips[r])
  /\ ServerSealed(tips'[r]) /\ tips'[r].outcome = Pending
  /\ TimelySeal(tips'[r])
  /\ OthersUntouched(r)
  /\ cards' = [cards EXCEPT ![r] = [sealed |-> TRUE, off |-> tips'[r].off]]

IsNowFilled(r) ==
  /\ ServerSealed(tips[r]) /\ IsSettled(tips[r])
  /\ \E found \in PriceList : tips'[r] = WithStartingPrices(tips[r], found)
  /\ OthersUntouched(r)
  /\ UNCHANGED cards

IsNowSettled(r) ==
  /\ ServerSealed(tips[r]) /\ tips[r].outcome.kind \in WaitingKinds
  /\ \E result \in Result \cup {NoResult}, found \in PriceList, now \in Time :
       tips'[r] = Settle(tips[r], result, found, FALSE, now)
  /\ OthersUntouched(r)
  /\ UNCHANGED cards

RowStep ==
  \/ UNCHANGED cards /\ \A r \in Race : Untouched(r)
  \/ \E r \in Race : IsNowSealed(r) \/ IsNowFilled(r) \/ IsNowSettled(r)

-----------------------------------------------------------------------------
(* Jobs exclude each other. *)

\* While w runs a job of one kind, every other local is idle.
LEMMA Alone ==
  ASSUME TypeOK, JobsExclude, NEW w \in Worker,
         rec[w].pc # "idle" \/ col[w].pc # "idle"
  PROVE  /\ lock = w /\ lock # Nobody
         /\ \A v \in Worker \ {w} : rec[v].pc = "idle" /\ col[v].pc = "idle"
         /\ rec[w].pc = "idle" \/ col[w].pc = "idle"
BY StoreAssumption DEF JobsExclude

\* The world (clock, meetings, card refreshes) starts and ends no job.
LEMMA WorldExclude ==
  ASSUME TypeOK, JobsExclude, WorldNext, UNCHANGED <<rec, col, imp>>
  PROVE  JobsExclude'
BY DEF JobsExclude, WorldNext, Tick, RunRace, RefreshCard

\* A recording step starts from an idle worker under a free mutex, or is a
\* step of the one job that runs.
LEMMA RecordingExclude ==
  ASSUME TypeOK, JobsExclude, NEW w \in Worker, RecordingStep(w),
         UNCHANGED <<col, imp>>
  PROVE  JobsExclude'
<1> USE DEF TypeOK, RecordingTypeOK, CollectingTypeOK
<1>1. ASSUME NEW kind, NEW due, StartRecording(w, kind, due)
      PROVE  JobsExclude'
  <2>1. lock = Nobody /\ lock' = w
    BY <1>1 DEF StartRecording, Acquire
  <2>2. \A v \in Worker : rec[v].pc = "idle" /\ col[v].pc = "idle"
    BY <2>1, StoreAssumption DEF JobsExclude
  <2>3. \A v \in Worker \ {w} : rec'[v] = rec[v]
    BY <1>1 DEF StartRecording
  <2> QED
    BY <2>1, <2>2, <2>3 DEF JobsExclude
<1>2. CASE rec[w].pc # "idle"
  <2>1. /\ lock = w /\ col[w].pc = "idle"
        /\ \A v \in Worker \ {w} : rec[v].pc = "idle" /\ col[v].pc = "idle"
    BY <1>2, Alone
  <2>2. ASSUME \A v \in Worker \ {w} : rec'[v] = rec[v],
               lock' = lock \/ rec'[w].pc = "idle"
        PROVE  JobsExclude'
    BY <2>1, <2>2 DEF JobsExclude
  <2>3. ASSUME NEW queue, NextRace(w, queue)
        PROVE  JobsExclude'
    <3>1. lock' = lock \/ rec'[w].pc = "idle"
      BY <2>3 DEF NextRace, NotRecording
    <3>2. \A v \in Worker \ {w} : rec'[v] = rec[v]
      BY <2>3 DEF NextRace
    <3> QED
      BY <2>2, <3>1, <3>2
  <2>4. CASE FetchPrices(w)
    BY <2>2, <2>4 DEF FetchPrices
  <2>5. ASSUME NEW r \in Race, AssessRace(w, r)
        PROVE  JobsExclude'
    <3>1. \/ NextRace(w, rec[w].queue \ {r})
          \/ UNCHANGED lock /\ \A v \in Worker \ {w} : rec'[v] = rec[v]
      BY <2>5 DEF AssessRace
    <3> QED
      BY <2>2, <2>3, <3>1
  <2>6. CASE StoreDraft(w)
    BY <2>3, <2>6 DEF StoreDraft
  <2>7. CASE StoreSealed(w)
    <3>1. \/ NextRace(w, rec[w].queue \ {rec[w].race})
          \/ UNCHANGED lock /\ \A v \in Worker \ {w} : rec'[v] = rec[v]
      BY <2>7 DEF StoreSealed
    <3> QED
      BY <2>2, <2>3, <3>1
  <2>8. CASE StoreSample(w)
    BY <2>3, <2>8 DEF StoreSample
  <2>9. CASE AbortRecording(w)
    <3>1. rec'[w].pc = "idle" /\ \A v \in Worker \ {w} : rec'[v] = rec[v]
      BY <2>9 DEF AbortRecording, NotRecording
    <3> QED
      BY <2>2, <3>1
  <2>10. ASSUME NEW kind, NEW due
         PROVE  ~StartRecording(w, kind, due)
    BY <1>2 DEF StartRecording
  <2> QED
    BY <2>4, <2>5, <2>6, <2>7, <2>8, <2>9, <2>10 DEF RecordingStep,
       RecordingWork, DraftTips, SealTips
<1>3. CASE rec[w].pc = "idle"
  <2>1. DraftTips(w) \/ SealTips(w)
    BY <1>3 DEF RecordingStep, RecordingWork, FetchPrices, AssessRace, StoreDraft,
       StoreSealed, StoreSample, AbortRecording
  <2> QED
    BY <1>1, <2>1 DEF DraftTips, SealTips
<1> QED
  BY <1>2, <1>3

\* A results pass runs only while its worker holds the mutex.
LEMMA CollectingExclude ==
  ASSUME TypeOK, JobsExclude, NEW w \in Worker, CollectingStep(w),
         UNCHANGED <<rec, imp>>
  PROVE  JobsExclude'
<1> USE DEF TypeOK, RecordingTypeOK, CollectingTypeOK
<1>1. CASE CollectResults(w)
  <2>1. lock = Nobody /\ lock' = w
    BY <1>1 DEF CollectResults, Acquire
  <2>2. \A v \in Worker : rec[v].pc = "idle" /\ col[v].pc = "idle"
    BY <2>1, StoreAssumption DEF JobsExclude
  <2>3. \A v \in Worker \ {w} : col'[v] = col[v]
    BY <1>1 DEF CollectResults
  <2> QED
    BY <2>1, <2>2, <2>3 DEF JobsExclude
<1>2. ASSUME col[w].pc # "idle"
      PROVE  JobsExclude'
  <2>1. /\ lock = w /\ rec[w].pc = "idle"
        /\ \A v \in Worker \ {w} : rec[v].pc = "idle" /\ col[v].pc = "idle"
    BY <1>2, Alone
  <2>2. /\ \A v \in Worker \ {w} : col'[v] = col[v]
        /\ lock' = lock \/ col'[w].pc = "idle"
    <3>1. CASE FetchResults(w) \/ SaveResults(w) \/ LoadForIngest(w)
               \/ SaveIngested(w) \/ ReadWaiting(w) \/ ReadMissing(w)
               \/ FetchStartingPrices(w) \/ SetTrainingWinner(w)
      BY <3>1 DEF FetchResults, SaveResults, LoadForIngest, SaveIngested,
         ReadWaiting, ReadMissing, FetchStartingPrices, SetTrainingWinner
    <3>2. ASSUME NEW r \in Race, FillStartingPrice(w, r) \/ SettleRow(w, r)
          PROVE  lock' = lock /\ \A v \in Worker \ {w} : col'[v] = col[v]
      BY <3>2 DEF FillStartingPrice, SettleRow
    <3>3. CASE FinishCollecting(w) \/ AbortCollecting(w)
      BY <3>3 DEF FinishCollecting, AbortCollecting, NotCollecting
    <3>4. ~CollectResults(w)
      BY <1>2 DEF CollectResults
    <3> QED
      BY <3>1, <3>2, <3>3, <3>4 DEF CollectingStep, CollectingWork
  <2> QED
    BY <2>1, <2>2 DEF JobsExclude
<1>3. CASE col[w].pc = "idle"
  BY <1>1, <1>3 DEF CollectingStep, CollectingWork, FetchResults, SaveResults,
     LoadForIngest, SaveIngested, ReadWaiting, ReadMissing, FetchStartingPrices,
     SetTrainingWinner, FillStartingPrice, SettleRow, FinishCollecting,
     AbortCollecting
<1> QED
  BY <1>2, <1>3

\* An import neither starts a job nor takes the mutex.
LEMMA ImportExclude ==
  ASSUME JobsExclude, ImportStep, UNCHANGED <<rec, col>>
  PROVE  JobsExclude'
BY DEF JobsExclude, ImportStep, ImportTips, LoadArchive, SaveArchive, ImportSample,
   EndImport

\* Mutual exclusion of the jobs is kept by every step.
LEMMA StepExclude ==
  ASSUME TypeOK, JobsExclude, [Next]_vars
  PROVE  JobsExclude'
<1>1. CASE UNCHANGED vars
  BY <1>1 DEF JobsExclude, vars, storeVars
<1>2. CASE Crash
  BY <1>2 DEF Crash, JobsExclude, NotRecording, NotCollecting
<1> QED
  BY <1>1, <1>2, WorldExclude, RecordingExclude, CollectingExclude, ImportExclude
     DEF Next

\* Two jobs never run at once, whatever the number of workers, and whoever runs
\* one holds the mutex.  (service.go: "a seal and a results ingest must never
\* interleave".)
THEOREM JobsNeverInterleave == Spec => []JobsExclude
<1>1. Init => JobsExclude
  BY DEF Init, RecordingInit, CollectingInit, NotRecording, NotCollecting, JobsExclude
<1>2. TypeOK /\ JobsExclude /\ [Next]_vars => JobsExclude'
  BY StepExclude
<1> QED
  BY <1>1, <1>2, TypeCorrect, PTL DEF Spec

-----------------------------------------------------------------------------
(* What the rules keep of a row. *)

LEMMA SettleKeeps ==
  ASSUME NEW tip \in Tip, NEW result \in Result \cup {NoResult},
         NEW found \in PriceList, NEW now \in Time
  PROVE  /\ Settle(tip, result, found, FALSE, now) \in Tip
         /\ Settle(tip, result, found, FALSE, now).source = tip.source
         /\ Prediction(Settle(tip, result, found, FALSE, now)) = Prediction(tip)
<1>1. Settle(tip, result, found, FALSE, now) \in Tip
  BY SettleType
<1> QED
  BY <1>1 DEF Settle, Tip, TipFields, Prediction

\* A settled row is no longer pending, and has a price only with a verdict.
LEMMA SettleCloses ==
  ASSUME NEW tip \in Tip, NEW result \in Result \cup {NoResult},
         NEW found \in PriceList, NEW now \in Time
  PROVE  /\ Settle(tip, result, found, FALSE, now).outcome.kind # "pending"
         /\ \/ IsSettled(Settle(tip, result, found, FALSE, now))
            \/ Settle(tip, result, found, FALSE, now).outcome.sp = NoPrice
<1> DEFINE outcome == SettledOutcome(tip, result, found, now)
<1>1. Settle(tip, result, found, FALSE, now).outcome = outcome
  BY DEF Settle, Tip, TipFields
<1>2. /\ outcome.kind # "pending"
      /\ outcome.kind \notin SettledKinds => outcome.sp = NoPrice
  BY DEF SettledOutcome, GiveUpOrKeepTrying, Closed, Unresolved, Ran, SettledKinds
<1> HIDE DEF outcome
<1> QED
  BY <1>1, <1>2 DEF IsSettled

\* Filling in a starting price keeps the prediction and its seal.
LEMMA FillKeeps ==
  ASSUME NEW tip \in Tip, NEW found \in PriceList
  PROVE  /\ WithStartingPrices(tip, found) \in Tip
         /\ WithStartingPrices(tip, found).source = tip.source
         /\ Prediction(WithStartingPrices(tip, found)) = Prediction(tip)
         /\ WithStartingPrices(tip, found).outcome.kind = tip.outcome.kind
         /\ tip.outcome.sp # NoPrice =>
              WithStartingPrices(tip, found).outcome.sp = tip.outcome.sp
<1>1. WithStartingPrices(tip, found) \in Tip
  BY WithStartingPricesType
<1> QED
  BY <1>1 DEF WithStartingPrices, Tip, TipFields, Prediction, Outcome

\* An import never puts a tip of the server's in the table, nor takes one out.
LEMMA ImportKeeps ==
  ASSUME TypeOK, NEW u \in Uploads, NEW r \in Race
  PROVE  LET merged == MergedTip(u.tips[r], tips[r])
         IN  \/ merged = tips[r]
             \/ ~ServerSealed(tips[r]) /\ ~ServerSealed(merged)
<1>1. u.tips[r] # NoTip => u.tips[r].source # "server"
  BY UploadsAssumption, AbsentValuesAssumption DEF Upload
<1> QED
  BY <1>1 DEF MergedTip, Prefer, ServerSealed

-----------------------------------------------------------------------------
(* Every step is a RowStep. *)

LEMMA RecordingRows ==
  ASSUME TypeOK, JobInv, SealHasItsCard, NEW w \in Worker, RecordingStep(w)
  PROVE  RowStep
<1>1. CASE StoreDraft(w)
  <2> DEFINE r == rec[w].race
  <2>1. /\ r \in Race /\ ~ServerSealed(tips[r])
        /\ ~ServerSealed(rec[w].tip)
    BY <1>1 DEF StoreDraft, JobInv, TipToWrite, DecisionStands, ServerSealed
  <2>2. tips' = [tips EXCEPT ![r] = rec[w].tip]
    BY <1>1 DEF StoreDraft, SaveTip
  <2> QED
    BY <1>1, <2>1, <2>2 DEF StoreDraft, RowStep, Untouched, TypeOK, StoreTypeOK
<1>2. CASE StoreSealed(w)
  <2> DEFINE r == rec[w].race
  <2>1. /\ r \in Race /\ ~ServerSealed(tips[r])
        /\ rec[w].tip \in Tip /\ rec[w].tip.source = "server"
        /\ IsSealed(rec[w].tip) /\ TimelySeal(rec[w].tip)
        /\ rec[w].tip.outcome = Pending /\ rec[w].tip.off = offs[r]
    BY <1>2 DEF StoreSealed, JobInv, TipToWrite, DecisionStands
  <2>2. tips' = [tips EXCEPT ![r] = rec[w].tip]
    BY <1>2 DEF StoreSealed, SaveSealedTip, SaveTip
  <2>3. tips'[r] = rec[w].tip /\ \A s \in Race : s = r \/ tips'[s] = tips[s]
    BY <2>1, <2>2 DEF TypeOK, StoreTypeOK
  <2>4. cards' = [cards EXCEPT ![r] = [sealed |-> TRUE, off |-> rec[w].tip.off]]
    <3>1. ~cards[r].sealed
      BY <2>1 DEF SealHasItsCard, TypeOK, StoreTypeOK, Card
    <3> QED
      BY <1>2, <2>1, <3>1 DEF StoreSealed, SaveSealedTip
  <2>5. IsNowSealed(r)
    BY <2>1, <2>3, <2>4, AbsentRowsAssumption DEF IsNowSealed, OthersUntouched, Untouched,
       ServerSealed
  <2> QED
    BY <2>1, <2>5 DEF RowStep
<1>3. ASSUME UNCHANGED <<tips, cards>> PROVE RowStep
  BY <1>3 DEF RowStep, Untouched
<1>4. ASSUME NEW kind, NEW due, StartRecording(w, kind, due) PROVE RowStep
  BY <1>3, <1>4 DEF StartRecording, tableVars
<1>5. ASSUME NEW r \in Race, AssessRace(w, r) PROVE RowStep
  BY <1>3, <1>5 DEF AssessRace
<1>6. CASE FetchPrices(w) \/ StoreSample(w) \/ AbortRecording(w)
  BY <1>3, <1>6 DEF FetchPrices, StoreSample, AbortRecording, tableVars
<1> QED
  BY <1>1, <1>2, <1>4, <1>5, <1>6 DEF RecordingStep, RecordingWork, DraftTips,
     SealTips

\* A row of a server seal that is written back is the row in the table.
LEMMA CollectingRows ==
  ASSUME TypeOK, JobInv, NEW w \in Worker, CollectingStep(w)
  PROVE  RowStep
<1>w. col[w] \in CollectingJob
  BY DEF TypeOK, CollectingTypeOK
<1>1. ASSUME UNCHANGED <<tips, cards>> PROVE RowStep
  BY <1>1 DEF RowStep, Untouched
<1>2. ASSUME NEW r \in Race, FillStartingPrice(w, r) PROVE RowStep
  <2> DEFINE row == col[w].missing[r]
             found == PricesFor(w, r, row)
             filled == WithStartingPrices(row, found)
  <2>1. row \in Tip /\ row # NoTip /\ IsSettled(row)
    BY <1>w, <1>2 DEF FillStartingPrice, CollectingJob, JobInv, RowsRead
  <2>2. found \in PriceList
    BY DEF PricesFor, PriceList, NoPrices, OptionalPrice, TypeOK, StoreTypeOK
  <2>3. ServerSealed(row) \/ ServerSealed(tips[r]) => row = tips[r]
    BY <2>1 DEF JobInv, RowsAreFresh
  <2>4. CASE filled = row
    BY <1>1, <1>2, <2>4 DEF FillStartingPrice
  <2>5. CASE filled # row
    <3>1. tips'[r] = filled /\ \A s \in Race : s = r \/ tips'[s] = tips[s]
      BY <1>2, <2>5 DEF FillStartingPrice, SaveTip, TypeOK, StoreTypeOK
    <3>2. filled.source = row.source /\ Prediction(filled) = Prediction(row)
      BY <2>1, <2>2, FillKeeps
    <3>3. CASE ServerSealed(tips[r])
      <4>1. IsNowFilled(r)
        BY <1>2, <2>1, <2>2, <2>3, <3>1, <3>3 DEF FillStartingPrice, IsNowFilled, OthersUntouched, Untouched
      <4> QED
        BY <4>1 DEF RowStep
    <3>4. CASE ~ServerSealed(tips[r])
      <4>1. ~ServerSealed(row)
        BY <2>3, <3>4
      <4>2. ~ServerSealed(filled)
        BY <2>1, <3>2, <4>1 DEF ServerSealed, Prediction, IsSealed
      <4> QED
        BY <1>2, <3>1, <3>4, <4>2 DEF FillStartingPrice, RowStep, Untouched
    <3> QED
      BY <3>3, <3>4
  <2> QED
    BY <2>4, <2>5
<1>3. ASSUME NEW r \in Race, SettleRow(w, r) PROVE RowStep
  <2> DEFINE row == col[w].waiting[r]
             found == PricesFor(w, r, row)
             settled(result) == Settle(row, result, found, FALSE, col[w].now)
  <2>1. row \in Tip /\ row # NoTip /\ row.outcome.kind \in WaitingKinds
    BY <1>w, <1>3 DEF SettleRow, CollectingJob, JobInv, RowsRead
  <2>2. found \in PriceList /\ col[w].now \in Time
    BY <1>w DEF PricesFor, PriceList, NoPrices, OptionalPrice, TypeOK, StoreTypeOK,
       CollectingJob
  <2>3. ServerSealed(row) \/ ServerSealed(tips[r]) => row = tips[r]
    BY <2>1 DEF JobInv, RowsAreFresh
  <2>4. PICK result \in ResultsFor(w, r) :
          tips' = [tips EXCEPT ![r] = settled(result)]
    BY <1>3 DEF SettleRow, SaveTip
  <2>5. result \in Result \cup {NoResult}
    BY <1>w, <2>4 DEF ResultsFor, Swallowing, CollectingJob, TypeOK, StoreTypeOK
  <2> HIDE DEF row, found
  <2>6. /\ settled(result).source = row.source
        /\ Prediction(settled(result)) = Prediction(row)
    BY <2>1, <2>2, <2>5, SettleKeeps
  <2> HIDE DEF settled
  <2>7. tips'[r] = settled(result) /\ \A s \in Race : s = r \/ tips'[s] = tips[s]
    BY <2>4 DEF TypeOK, StoreTypeOK
  <2>8. CASE ServerSealed(tips[r])
    <3>1. IsNowSettled(r)
      BY <1>3, <2>1, <2>2, <2>3, <2>5, <2>7, <2>8 DEF SettleRow, IsNowSettled,
         OthersUntouched, Untouched, settled
    <3> QED
      BY <3>1 DEF RowStep
  <2>9. CASE ~ServerSealed(tips[r])
    <3>1. ~ServerSealed(row)
      BY <2>3, <2>9
    <3>2. ~ServerSealed(settled(result))
      BY <2>1, <2>6, <3>1 DEF ServerSealed, Prediction, IsSealed
    <3> QED
      BY <1>3, <2>7, <2>9, <3>2 DEF SettleRow, RowStep, Untouched
  <2> QED
    BY <2>8, <2>9
<1>4. CASE CollectResults(w) \/ FetchResults(w) \/ SaveResults(w)
           \/ LoadForIngest(w) \/ SaveIngested(w) \/ ReadWaiting(w)
           \/ ReadMissing(w) \/ FetchStartingPrices(w) \/ SetTrainingWinner(w)
           \/ FinishCollecting(w) \/ AbortCollecting(w)
  BY <1>1, <1>4 DEF CollectResults, FetchResults, SaveResults, LoadForIngest,
     SaveIngested, ReadWaiting, ReadMissing, FetchStartingPrices,
     SetTrainingWinner, FinishCollecting, AbortCollecting, tableVars
<1> QED
  BY <1>2, <1>3, <1>4 DEF CollectingStep, CollectingWork

\* An import leaves every row the server sealed as it is.
LEMMA ImportRows ==
  ASSUME TypeOK, ImportStep
  PROVE  RowStep
<1>1. ASSUME UNCHANGED <<tips, cards>> PROVE RowStep
  BY <1>1 DEF RowStep, Untouched
<1>2. ASSUME NEW u \in Uploads, ImportTips(u) PROVE RowStep
  <2>1. \A r \in Race : tips'[r] = MergedTip(u.tips[r], tips[r])
    BY <1>2 DEF ImportTips, MergedTips
  <2> QED
    BY <1>2, <2>1, ImportKeeps DEF ImportTips, RowStep, Untouched
<1> QED
  BY <1>1, <1>2 DEF ImportStep, LoadArchive, SaveArchive, ImportSample, EndImport,
     tableVars

\* Every step of the system changes a row in one of the ways of RowStep.
LEMMA StepRows ==
  ASSUME TypeOK, JobInv, SealHasItsCard, [Next]_vars
  PROVE  RowStep
<1>1. CASE UNCHANGED <<tips, cards>>
  BY <1>1 DEF RowStep, Untouched
<1> QED
  BY <1>1, RecordingRows, CollectingRows, ImportRows DEF Next, WorldNext, Tick,
     RunRace, RefreshCard, Crash, tableVars, vars, storeVars

-----------------------------------------------------------------------------
(* A row step keeps every seal, its prediction and its starting price. *)

LEMMA SealsStay ==
  ASSUME TypeOK, PricedOnceSettled, RowStep, NEW r \in Race, ServerSealed(tips[r])
  PROVE  /\ ServerSealed(tips'[r])
         /\ Prediction(tips'[r]) = Prediction(tips[r])
         /\ tips[r].outcome.sp # NoPrice => tips'[r].outcome.sp = tips[r].outcome.sp
<1>t. tips[r] \in Tip
  BY DEF TypeOK, StoreTypeOK, ServerSealed
<1>1. CASE tips'[r] = tips[r]
  BY <1>1
<1>2. CASE IsNowFilled(r)
  <2>1. PICK found \in PriceList : tips'[r] = WithStartingPrices(tips[r], found)
    BY <1>2 DEF IsNowFilled
  <2>2. /\ tips'[r] \in Tip
        /\ tips'[r].source = tips[r].source
        /\ Prediction(tips'[r]) = Prediction(tips[r])
        /\ tips[r].outcome.sp # NoPrice => tips'[r].outcome.sp = tips[r].outcome.sp
    BY <1>t, <2>1, FillKeeps
  <2> QED
    BY <2>2, AbsentRowsAssumption DEF ServerSealed, Prediction, IsSealed
<1>3. CASE IsNowSettled(r)
  <2>1. PICK result \in Result \cup {NoResult}, found \in PriceList, now \in Time :
          tips'[r] = Settle(tips[r], result, found, FALSE, now)
    BY <1>3 DEF IsNowSettled
  <2> DEFINE settled == Settle(tips[r], result, found, FALSE, now)
  <2>2. /\ settled \in Tip
        /\ settled.source = tips[r].source
        /\ Prediction(settled) = Prediction(tips[r])
    BY <1>t, SettleKeeps
  <2>3. tips[r].outcome.sp = NoPrice
    BY <1>3 DEF IsNowSettled, WaitingKinds, PricedOnceSettled, IsSettled, SettledKinds
  <2> HIDE DEF settled
  <2>4. tips'[r] = settled
    BY <2>1 DEF settled
  <2> QED
    BY <2>2, <2>3, <2>4, AbsentRowsAssumption DEF ServerSealed, Prediction, IsSealed
<1> QED
  BY <1>1, <1>2, <1>3 DEF RowStep, IsNowSealed, IsNowFilled, IsNowSettled,
     OthersUntouched, Untouched

\* A seal appears only together with its card.
LEMMA SealsAppear ==
  ASSUME TypeOK, RowStep, NEW r \in Race,
         ~ServerSealed(tips[r]), ServerSealed(tips'[r])
  PROVE  IsNowSealed(r)
BY DEF RowStep, IsNowSealed, IsNowFilled, IsNowSettled, OthersUntouched, Untouched

\* A seal keeps the card it was stored with (store.SaveSealedTip).
LEMMA CardsStep ==
  ASSUME TypeOK, PricedOnceSettled, SealHasItsCard, RowStep
  PROVE  SealHasItsCard'
<1> SUFFICES ASSUME NEW r \in Race
             PROVE  /\ cards'[r].sealed <=> ServerSealed(tips'[r])
                    /\ cards'[r].sealed => cards'[r].off = tips'[r].off
  BY DEF SealHasItsCard
<1>1. CASE IsNowSealed(r)
  BY <1>1 DEF IsNowSealed, TypeOK, StoreTypeOK
<1>2. CASE ~IsNowSealed(r)
  <2>1. cards'[r] = cards[r]
    BY <1>2 DEF RowStep, IsNowSealed, IsNowFilled, IsNowSettled, TypeOK, StoreTypeOK
  <2>2. CASE ServerSealed(tips[r])
    BY <2>1, <2>2, SealsStay DEF SealHasItsCard, Prediction
  <2>3. CASE ~ServerSealed(tips[r])
    BY <1>2, <2>1, <2>3, SealsAppear DEF SealHasItsCard
  <2> QED
    BY <2>2, <2>3
<1> QED
  BY <1>1, <1>2

\* Only a settled tip has a starting price.
LEMMA PricedStep ==
  ASSUME TypeOK, PricedOnceSettled, RowStep
  PROVE  PricedOnceSettled'
<1> SUFFICES ASSUME NEW r \in Race, ServerSealed(tips'[r]), ~IsSettled(tips'[r])
             PROVE  tips'[r].outcome.sp = NoPrice
  BY DEF PricedOnceSettled
<1>1. CASE IsNowSealed(r)
  BY <1>1 DEF IsNowSealed, Pending
<1>2. CASE IsNowFilled(r)
  <2>1. PICK found \in PriceList : tips'[r] = WithStartingPrices(tips[r], found)
    BY <1>2 DEF IsNowFilled
  <2>2. tips[r] \in Tip
    BY <1>2 DEF IsNowFilled, ServerSealed, TypeOK, StoreTypeOK
  <2>3. tips'[r].outcome.kind = tips[r].outcome.kind
    BY <2>1, <2>2, FillKeeps
  <2> QED
    BY <1>2, <2>3 DEF IsNowFilled, IsSettled
<1>3. CASE IsNowSettled(r)
  <2>1. PICK result \in Result \cup {NoResult}, found \in PriceList, now \in Time :
          tips'[r] = Settle(tips[r], result, found, FALSE, now)
    BY <1>3 DEF IsNowSettled
  <2>2. tips[r] \in Tip
    BY <1>3 DEF IsNowSettled, ServerSealed, TypeOK, StoreTypeOK
  <2> DEFINE settled == Settle(tips[r], result, found, FALSE, now)
  <2>3. IsSettled(settled) \/ settled.outcome.sp = NoPrice
    BY <2>2, SettleCloses
  <2> QED
    BY <2>1, <2>3
<1>4. CASE Untouched(r)
  BY <1>4 DEF Untouched, PricedOnceSettled
<1> QED
  BY <1>1, <1>2, <1>3, <1>4 DEF RowStep, IsNowSealed, IsNowFilled, IsNowSettled,
     OthersUntouched

-----------------------------------------------------------------------------
(* The sample of a seal. *)

LEMMA SamplesStep ==
  ASSUME TypeOK, JobInv, SealHasItsCard, PricedOnceSettled, SampleIsOfTheSeal,
         [Next]_vars
  PROVE  SampleIsOfTheSeal'
<1>1. RowStep
  BY StepRows
<1> SUFFICES ASSUME NEW r \in Race, samples'[r].kept, samples'[r].source = "server"
             PROVE  ServerSealed(tips'[r]) /\ samples'[r].at = tips'[r].sealedAt
  BY DEF SampleIsOfTheSeal
<1>2. CASE /\ samples[r].kept /\ samples[r].source = "server"
           /\ samples'[r].at = samples[r].at
  BY <1>1, <1>2, SealsStay DEF SampleIsOfTheSeal, Prediction
<1>3. ASSUME NEW w \in Worker, StoreSample(w)
      PROVE  ServerSealed(tips'[r]) /\ samples'[r].at = tips'[r].sealedAt
  <2>1. CASE r = rec[w].race
    <3>1. /\ ServerSealed(tips[r]) /\ tips[r].sealedAt = rec[w].now
          /\ tips' = tips
      BY <1>3, <2>1 DEF StoreSample, JobInv, SampleToWrite
    <3>2. samples'[r] = SavedSample(samples[r], rec[w].now, rec[w].runners)
      BY <1>3, <2>1 DEF StoreSample, TypeOK, StoreTypeOK
    <3>3. samples[r] \in Sample
      BY DEF TypeOK, StoreTypeOK
    <3>4. \/ samples'[r].at = rec[w].now
          \/ samples'[r] = samples[r]
      BY <3>2, <3>3 DEF SavedSample, Sample
    <3> QED
      BY <1>2, <3>1, <3>4
  <2>2. CASE r # rec[w].race
    <3>1. samples'[r] = samples[r]
      BY <1>3, <2>2 DEF StoreSample, TypeOK, StoreTypeOK
    <3> QED
      BY <1>2, <3>1
  <2> QED
    BY <2>1, <2>2
<1>4. ASSUME NEW w \in Worker, SetTrainingWinner(w)
      PROVE  ServerSealed(tips'[r]) /\ samples'[r].at = tips'[r].sealedAt
  <2>1. samples[r] \in Sample
    BY DEF TypeOK, StoreTypeOK
  <2>2. \/ samples'[r] = samples[r]
        \/ samples'[r] = WithWinner(samples[r], col[w].winner)
    BY <1>4 DEF SetTrainingWinner, TypeOK, StoreTypeOK
  <2>3. /\ samples'[r].kept = samples[r].kept
        /\ samples'[r].source = samples[r].source
        /\ samples'[r].at = samples[r].at
    BY <2>1, <2>2 DEF WithWinner, Sample
  <2> QED
    BY <1>2, <2>3
<1>5. ASSUME NEW d \in Device, NEW s \in Race, ImportSample(d, s)
      PROVE  ServerSealed(tips'[r]) /\ samples'[r].at = tips'[r].sealedAt
  <2>1. \/ samples'[r] = samples[r]
        \/ samples'[r] = imp[d].upload.samples[r]
    BY <1>5 DEF ImportSample, TypeOK, StoreTypeOK
  <2>2. imp[d].upload \in Uploads \/ imp[d].upload = NoUpload
    BY DEF TypeOK, ImportTypeOK, Importing
  <2>3. ~(/\ imp[d].upload.samples[r].kept
          /\ imp[d].upload.samples[r].source = "server")
    <3>1. CASE imp[d].upload = NoUpload
      BY <3>1 DEF NoUpload, NoSample
    <3>2. CASE imp[d].upload \in Uploads
      BY <3>2, UploadsAssumption, AbsentValuesAssumption DEF Upload
    <3> QED
      BY <2>2, <3>1, <3>2
  <2> QED
    BY <1>2, <2>1, <2>3
<1>6. CASE UNCHANGED samples
  BY <1>2, <1>6
<1>7. ASSUME NEW w \in Worker, RecordingStep(w)
      PROVE  UNCHANGED samples \/ StoreSample(w)
  BY <1>7 DEF RecordingStep, RecordingWork, DraftTips, SealTips, StartRecording,
     FetchPrices, AssessRace, StoreDraft, StoreSealed, AbortRecording, tableVars
<1>8. ASSUME NEW w \in Worker, CollectingStep(w)
      PROVE  UNCHANGED samples \/ SetTrainingWinner(w)
  BY <1>8 DEF CollectingStep, CollectingWork, CollectResults, FetchResults,
     SaveResults, LoadForIngest, SaveIngested, ReadWaiting, ReadMissing,
     FetchStartingPrices, FillStartingPrice, SettleRow, FinishCollecting,
     AbortCollecting, tableVars
<1>9. CASE WorldNext \/ Crash \/ UNCHANGED vars
  BY <1>6, <1>9 DEF WorldNext, Tick, RunRace, RefreshCard, Crash, vars, storeVars,
     tableVars
<1>10. CASE ImportStep
  BY <1>5, <1>6, <1>10 DEF ImportStep, ImportTips, LoadArchive, SaveArchive,
     EndImport, tableVars
<1> QED
  BY <1>3, <1>4, <1>6, <1>7, <1>8, <1>9, <1>10 DEF Next

-----------------------------------------------------------------------------
(* What recording jobs hold. *)

LEMMA NextRaceHolds ==
  ASSUME RecordingTypeOK, NEW w \in Worker, NEW queue, NextRace(w, queue)
  PROVE  /\ \A v \in Worker \ {w} : rec'[v] = rec[v]
         /\ rec'[w].pc \in {"idle", "assess"}
<1>1. CASE queue = {}
  BY <1>1 DEF NextRace, RecordingTypeOK, NotRecording
<1>2. CASE queue # {}
  <2>1. rec[w] \in RecordingJob
    BY DEF RecordingTypeOK
  <2> DEFINE job == [rec[w] EXCEPT !.pc = "assess", !.queue = queue,
                       !.race = NoRace, !.tip = NoTip, !.runners = {}]
  <2>2. rec' = [rec EXCEPT ![w] = job]
    BY <1>2 DEF NextRace
  <2>3. job.pc = "assess"
    BY <2>1 DEF RecordingJob
  <2> HIDE DEF job
  <2> QED
    BY <2>2, <2>3 DEF RecordingTypeOK
<1> QED
  BY <1>1, <1>2

\* Only AssessRace makes a tip to write, and only StoreSealed goes on to store
\* a sample.
LEMMA RecordingHolds ==
  ASSUME TypeOK, NEW w \in Worker, RecordingStep(w)
  PROVE  /\ \A v \in Worker \ {w} : rec'[v] = rec[v]
         /\ rec'[w].pc = "write" => \E r \in Race : AssessRace(w, r)
         /\ rec'[w].pc = "sample" => StoreSealed(w)
<1> USE DEF TypeOK, RecordingTypeOK
<1>1. ASSUME NEW queue, NextRace(w, queue)
      PROVE  /\ \A v \in Worker \ {w} : rec'[v] = rec[v]
             /\ rec'[w].pc \notin {"write", "sample"}
  BY <1>1, NextRaceHolds
<1>2. ASSUME NEW kind, NEW due, StartRecording(w, kind, due)
      PROVE  /\ \A v \in Worker \ {w} : rec'[v] = rec[v]
             /\ rec'[w].pc \notin {"write", "sample"}
  BY <1>2 DEF StartRecording, NotRecording
<1>3. CASE FetchPrices(w)
  <2>1. rec[w] \in RecordingJob
    OBVIOUS
  <2> QED
    BY <1>3, <2>1 DEF FetchPrices, RecordingJob
<1>4. ASSUME NEW r \in Race, AssessRace(w, r)
      PROVE  /\ \A v \in Worker \ {w} : rec'[v] = rec[v]
             /\ rec'[w].pc # "sample"
  <2>1. \/ NextRace(w, rec[w].queue \ {r})
        \/ /\ \A v \in Worker \ {w} : rec'[v] = rec[v]
           /\ \E tip, runners : rec'[w] = [rec[w] EXCEPT !.pc = "write", !.race = r,
                                             !.tip = tip, !.runners = runners]
    BY <1>4 DEF AssessRace
  <2>2. rec[w] \in RecordingJob
    OBVIOUS
  <2> QED
    BY <1>1, <2>1, <2>2 DEF RecordingJob
<1>5. CASE StoreDraft(w) \/ StoreSample(w)
  BY <1>1, <1>5 DEF StoreDraft, StoreSample
<1>6. CASE StoreSealed(w)
  <2>1. \/ NextRace(w, rec[w].queue \ {rec[w].race})
        \/ rec' = [rec EXCEPT ![w].pc = "sample"]
    BY <1>6 DEF StoreSealed
  <2>2. rec[w] \in RecordingJob
    OBVIOUS
  <2> QED
    BY <1>1, <1>6, <2>1, <2>2 DEF RecordingJob
<1>7. CASE AbortRecording(w)
  BY <1>7 DEF AbortRecording, NotRecording
<1> QED
  BY <1>2, <1>3, <1>4, <1>5, <1>6, <1>7 DEF RecordingStep, RecordingWork, DraftTips,
     SealTips

\* A race that is assessed gets a tip in time, made from the card as it is.
LEMMA AssessHolds ==
  ASSUME TypeOK, NEW w \in Worker, NEW r \in Race, AssessRace(w, r),
         rec'[w].pc = "write"
  PROVE  /\ rec'[w].race = r /\ rec'[w].tip \in Tip
         /\ rec'[w].tip.source = "server" /\ rec'[w].tip.outcome = Pending
         /\ IsSealed(rec'[w].tip) =>
              rec'[w].tip.sealedAt = rec'[w].now /\ TimelySeal(rec'[w].tip)
         /\ ~ServerSealed(tips[r]) /\ rec'[w].tip.off = offs[r]
<1>w. rec[w] \in RecordingJob
  BY DEF TypeOK, RecordingTypeOK
<1>1. ~NextRace(w, rec[w].queue \ {r})
  BY NextRaceHolds DEF TypeOK
<1>2. PICK rating \in Ratings :
        /\ rating.pick # NoHorse
        /\ Stores(Decide(tips[r], Candidate(w, r, rating), rec[w].now))
        /\ rec' = [rec EXCEPT ![w] = [@ EXCEPT
             !.pc = "write", !.race = r,
             !.tip = Recorded(Candidate(w, r, rating),
                       Decide(tips[r], Candidate(w, r, rating), rec[w].now),
                       rec[w].now),
             !.runners = rating.runners]]
  BY <1>1, Zenon DEF AssessRace
<1> DEFINE candidate == Candidate(w, r, rating)
           verdict == Decide(tips[r], candidate, rec[w].now)
           tip == Recorded(candidate, verdict, rec[w].now)
<1>3. rec'[w].race = r /\ rec'[w].tip = tip /\ rec'[w].now = rec[w].now
  BY <1>w, <1>2 DEF RecordingJob, TypeOK, RecordingTypeOK
<1>4. tip \in Tip
  <2>1. rating.pick \in Horse /\ rating.favourite \in OptionalHorse
    BY <1>2, RatingsAssumption DEF Rating, OptionalHorse
  <2>2. /\ offs[r] \in OptionalTime /\ rec[w].now \in Time
        /\ (r \in rec[w].matched) \in BOOLEAN
        /\ (IF r \in rec[w].priced THEN rec[w].book ELSE NoTime) \in OptionalTime
    BY <1>w DEF TypeOK, StoreTypeOK, RecordingJob, OptionalTime
  <2> QED
    BY <2>1, <2>2, RecordedType DEF Candidate
<1>5. /\ candidate.source = "server" /\ candidate.outcome = Pending
      /\ candidate.off = offs[r] /\ candidate.sealedAt = NoTime
  BY DEF Candidate, NewTip
<1>6. [candidate EXCEPT !.sealedAt = rec[w].now].sealedAt = rec[w].now
  BY DEF Candidate, NewTip
<1>7. /\ [candidate EXCEPT !.sealedAt = rec[w].now].source = "server"
      /\ [candidate EXCEPT !.sealedAt = rec[w].now].outcome = Pending
      /\ [candidate EXCEPT !.sealedAt = rec[w].now].off = offs[r]
  BY <1>5 DEF Candidate, NewTip
<1>8. Stores(verdict)
  BY <1>2
<1>9. /\ ~AlreadySealed(tips[r])
      /\ verdict = "sealed" => InSealWindow(offs[r], rec[w].now)
  BY <1>5, <1>8 DEF Stores, Decide
<1> HIDE DEF candidate, verdict
<1>10. /\ tip.source = "server" /\ tip.outcome = Pending /\ tip.off = offs[r]
       /\ tip.sealedAt = IF verdict = "sealed" THEN rec[w].now ELSE NoTime
  BY <1>5, <1>6, <1>7 DEF Recorded
<1>11. IsSealed(tip) => tip.sealedAt = rec[w].now /\ TimelySeal(tip)
  <2>1. offs[r] \in OptionalTime /\ rec[w].now \in Nat
    BY <1>w DEF TypeOK, StoreTypeOK, RecordingJob, Time
  <2> HIDE DEF tip
  <2> QED
    BY <1>9, <1>10, <2>1, ParametersAssumption DEF IsSealed, InSealWindow, TimelySeal,
       OptionalTime, Time, NoTime
<1>12. ~ServerSealed(tips[r])
  BY <1>9 DEF AlreadySealed, ServerSealed
<1> HIDE DEF tip
<1> QED
  BY <1>3, <1>4, <1>10, <1>11, <1>12

\* Whose locals a step changes.
LEMMA RecChanges ==
  ASSUME [Next]_vars
  PROVE  \/ UNCHANGED rec
         \/ \E w \in Worker : RecordingStep(w) /\ UNCHANGED <<col, imp>>
         \/ Crash
BY DEF Next, vars

\* The row a recording job is about to write stays the one it decided.
LEMMA TipToWriteStep ==
  ASSUME TypeOK, TipToWrite, [Next]_vars
  PROVE  TipToWrite'
<1>1. CASE UNCHANGED rec
  BY <1>1 DEF TipToWrite
<1>2. CASE Crash
  BY <1>2 DEF Crash, TipToWrite, NotRecording
<1>3. ASSUME NEW w \in Worker, RecordingStep(w)
      PROVE  TipToWrite'
  <2> SUFFICES ASSUME NEW v \in Worker, rec'[v].pc = "write"
               PROVE  /\ rec'[v].race \in Race /\ rec'[v].tip \in Tip
                      /\ rec'[v].tip.source = "server"
                      /\ rec'[v].tip.outcome = Pending
                      /\ IsSealed(rec'[v].tip) =>
                           rec'[v].tip.sealedAt = rec'[v].now /\ TimelySeal(rec'[v].tip)
    BY DEF TipToWrite
  <2>1. CASE v # w
    BY <1>3, <2>1, RecordingHolds DEF TipToWrite
  <2>2. CASE v = w
    <3>1. PICK r \in Race : AssessRace(w, r)
      BY <1>3, <2>2, RecordingHolds
    <3> QED
      BY <2>2, <3>1, AssessHolds
  <2> QED
    BY <2>1, <2>2
<1> QED
  BY <1>1, <1>2, <1>3, RecChanges

\* The sample a job is about to write stays that of its seal.
LEMMA SampleToWriteStep ==
  ASSUME TypeOK, JobInv, SealHasItsCard, PricedOnceSettled, [Next]_vars
  PROVE  SampleToWrite'
<1>0. RowStep
  BY StepRows
<1>1. CASE UNCHANGED rec
  <2> SUFFICES ASSUME NEW v \in Worker, rec[v].pc = "sample"
               PROVE  /\ rec[v].race \in Race
                      /\ ServerSealed(tips'[rec[v].race])
                      /\ tips'[rec[v].race].sealedAt = rec[v].now
    BY <1>1 DEF SampleToWrite
  <2> QED
    BY <1>0, SealsStay DEF JobInv, SampleToWrite, Prediction
<1>2. CASE Crash
  BY <1>2 DEF Crash, SampleToWrite, NotRecording
<1>3. ASSUME NEW w \in Worker, RecordingStep(w)
      PROVE  SampleToWrite'
  <2> SUFFICES ASSUME NEW v \in Worker, rec'[v].pc = "sample"
               PROVE  /\ rec'[v].race \in Race
                      /\ ServerSealed(tips'[rec'[v].race])
                      /\ tips'[rec'[v].race].sealedAt = rec'[v].now
    BY DEF SampleToWrite
  <2>1. CASE v # w
    <3> DEFINE r == rec[v].race
    <3>1. rec'[v] = rec[v]
      BY <1>3, <2>1, RecordingHolds
    <3>2. /\ r \in Race /\ ServerSealed(tips[r])
          /\ tips[r].sealedAt = rec[v].now
      BY <3>1 DEF JobInv, SampleToWrite
    <3>3. ServerSealed(tips'[r]) /\ tips'[r].sealedAt = tips[r].sealedAt
      BY <1>0, <3>2, SealsStay DEF Prediction
    <3> QED
      BY <3>1, <3>2, <3>3
  <2>2. CASE v = w
    <3>1. StoreSealed(w)
      BY <1>3, <2>2, RecordingHolds
    <3>2. /\ rec[w].race \in Race /\ rec[w].tip \in Tip
          /\ rec[w].tip.source = "server" /\ IsSealed(rec[w].tip)
          /\ rec[w].tip.sealedAt = rec[w].now
      BY <3>1 DEF StoreSealed, JobInv, TipToWrite
    <3>3. tips'[rec[w].race] = rec[w].tip
      BY <3>1, <3>2 DEF StoreSealed, SaveSealedTip, SaveTip, TypeOK, StoreTypeOK
    <3>4. rec'[w].race = rec[w].race /\ rec'[w].now = rec[w].now
      <4>1. \/ NextRace(w, rec[w].queue \ {rec[w].race})
            \/ rec' = [rec EXCEPT ![w].pc = "sample"]
        BY <3>1 DEF StoreSealed
      <4>2. ~NextRace(w, rec[w].queue \ {rec[w].race})
        BY <2>2, NextRaceHolds DEF TypeOK
      <4>3. rec[w] \in RecordingJob
        BY DEF TypeOK, RecordingTypeOK
      <4> QED
        BY <4>1, <4>2, <4>3 DEF TypeOK, RecordingTypeOK, RecordingJob
    <3> QED
      BY <2>2, <3>2, <3>3, <3>4, AbsentRowsAssumption DEF ServerSealed
  <2> QED
    BY <2>1, <2>2
<1> QED
  BY <1>1, <1>2, <1>3, RecChanges

\* Nothing but the job itself can seal the race it has decided on, or move its
\* card: the others wait for the mutex, and an import seals nothing.
LEMMA DecisionStep ==
  ASSUME TypeOK, JobsExclude, JobInv, SealHasItsCard, [Next]_vars
  PROVE  DecisionStands'
<1> SUFFICES ASSUME NEW w \in Worker, rec'[w].pc = "write"
             PROVE  /\ ~ServerSealed(tips'[rec'[w].race])
                    /\ rec'[w].tip.off = offs'[rec'[w].race]
  BY DEF DecisionStands
<1>1. ~Crash
  BY DEF Crash, NotRecording
<1>2. CASE rec[w].pc = "write" /\ rec'[w] = rec[w]
  <2> DEFINE r == rec[w].race
  <2>1. r \in Race /\ ~ServerSealed(tips[r]) /\ rec[w].tip.off = offs[r]
    BY <1>2 DEF JobInv, TipToWrite, DecisionStands
  <2>2. /\ lock # Nobody
        /\ \A v \in Worker \ {w} : rec[v].pc = "idle" /\ col[v].pc = "idle"
    BY <1>2, Alone
  <2>3. ASSUME NEW v \in Worker, StoreSealed(v)
        PROVE  FALSE
    <3>1. v = w
      BY <2>2, <2>3 DEF StoreSealed
    <3>2. \/ NextRace(w, rec[w].queue \ {rec[w].race})
          \/ rec' = [rec EXCEPT ![w].pc = "sample"]
      BY <2>3, <3>1 DEF StoreSealed
    <3>3. CASE NextRace(w, rec[w].queue \ {rec[w].race})
      BY <1>2, <3>3, NextRaceHolds DEF TypeOK
    <3>4. CASE rec' = [rec EXCEPT ![w].pc = "sample"]
      BY <1>2, <3>4 DEF TypeOK, RecordingTypeOK, RecordingJob
    <3> QED
      BY <3>2, <3>3, <3>4
  <2>4. cards' = cards
    <3>1. ASSUME NEW v \in Worker, RecordingStep(v) PROVE UNCHANGED cards
      BY <2>3, <3>1 DEF RecordingStep, RecordingWork, DraftTips, SealTips,
         StartRecording, FetchPrices, AssessRace, StoreDraft, StoreSample,
         AbortRecording, tableVars
    <3>2. ASSUME NEW v \in Worker, CollectingStep(v) PROVE UNCHANGED cards
      BY <3>2 DEF CollectingStep, CollectingWork, CollectResults, FetchResults,
         SaveResults, LoadForIngest, SaveIngested, ReadWaiting, ReadMissing,
         FetchStartingPrices, FillStartingPrice, SettleRow, SetTrainingWinner,
         FinishCollecting, AbortCollecting, tableVars
    <3>3. CASE WorldNext \/ ImportStep \/ UNCHANGED vars
      BY <3>3 DEF WorldNext, Tick, RunRace, RefreshCard, ImportStep, ImportTips,
         LoadArchive, SaveArchive, ImportSample, EndImport, vars, storeVars, tableVars
    <3> QED
      BY <1>1, <3>1, <3>2, <3>3 DEF Next
  <2>5. ~ServerSealed(tips'[r])
    <3>1. RowStep
      BY StepRows
    <3>2. ~IsNowSealed(r)
      <4>1. ~cards[r].sealed
        BY <2>1 DEF SealHasItsCard, TypeOK, StoreTypeOK, Card
      <4> QED
        BY <2>1, <2>4, <4>1 DEF IsNowSealed, TypeOK, StoreTypeOK
    <3> QED
      BY <2>1, <3>1, <3>2, SealsAppear
  <2>6. offs' = offs
    <3>1. ASSUME NEW v \in Worker, RecordingStep(v) PROVE UNCHANGED offs
      BY <3>1 DEF RecordingStep, RecordingWork, DraftTips, SealTips,
         StartRecording, FetchPrices, AssessRace, StoreDraft, StoreSealed,
         StoreSample, AbortRecording, tableVars
    <3>2. ASSUME NEW v \in Worker, CollectingStep(v) PROVE UNCHANGED offs
      BY <3>2 DEF CollectingStep, CollectingWork, CollectResults, FetchResults,
         SaveResults, LoadForIngest, SaveIngested, ReadWaiting, ReadMissing,
         FetchStartingPrices, FillStartingPrice, SettleRow, SetTrainingWinner,
         FinishCollecting, AbortCollecting, tableVars
    <3>3. CASE WorldNext \/ ImportStep \/ UNCHANGED vars
      BY <2>2, <3>3 DEF WorldNext, Tick, RunRace, RefreshCard, ImportStep,
         ImportTips, LoadArchive, SaveArchive, ImportSample, EndImport, vars,
         storeVars, tableVars
    <3> QED
      BY <1>1, <3>1, <3>2, <3>3 DEF Next
  <2> QED
    BY <1>2, <2>1, <2>5, <2>6
<1>3. ASSUME NEW r \in Race, AssessRace(w, r)
      PROVE  /\ ~ServerSealed(tips'[rec'[w].race])
             /\ rec'[w].tip.off = offs'[rec'[w].race]
  <2>1. tips' = tips /\ offs' = offs
    BY <1>3 DEF AssessRace
  <2> QED
    BY <1>3, <2>1, AssessHolds
<1>4. CASE UNCHANGED rec
  BY <1>2, <1>4
<1>5. ASSUME NEW v \in Worker, RecordingStep(v)
      PROVE  \/ rec[w].pc = "write" /\ rec'[w] = rec[w]
             \/ \E r \in Race : AssessRace(w, r)
  BY <1>5, RecordingHolds
<1> QED
  BY <1>1, <1>2, <1>3, <1>4, <1>5, RecChanges

-----------------------------------------------------------------------------
(* What a results pass holds. *)

\* The rows a pass holds come from the table, or were held before.
HeldOrRead(w, r) ==
  /\ \/ col'[w].waiting[r] \in {col[w].waiting[r], NoTip}
     \/ /\ col'[w].waiting[r] = tips[r] /\ UNCHANGED tips
        /\ tips[r].outcome.kind \in WaitingKinds
  /\ \/ col'[w].missing[r] \in {col[w].missing[r], NoTip}
     \/ /\ col'[w].missing[r] = tips[r] /\ UNCHANGED tips
        /\ IsSettled(tips[r])

NothingHeld(w) ==
  \A r \in Race : col'[w].waiting[r] = NoTip /\ col'[w].missing[r] = NoTip

\* A collecting job that is idle has read no rows.
LEMMA IdleHoldsNothing ==
  ASSUME NEW w \in Worker, col'[w] = NotCollecting
  PROVE  NothingHeld(w)
BY DEF NothingHeld, NotCollecting, NoTips

\* A step of a results pass keeps the rows it read or fetches them afresh.
LEMMA CollectingHolds ==
  ASSUME TypeOK, RowsRead, NEW w \in Worker, CollectingStep(w)
  PROVE  /\ \A v \in Worker \ {w} : col'[v] = col[v]
         /\ \A r \in Race : HeldOrRead(w, r)
         /\ col'[w].pc = "idle" => NothingHeld(w)
<1>w. col[w] \in CollectingJob
  BY DEF TypeOK, CollectingTypeOK
<1> USE DEF TypeOK, CollectingTypeOK
<1>1. CASE CollectResults(w)
  <2>1. \A r \in Race : NoTips[r] = NoTip
    BY DEF NoTips
  <2>2. /\ col'[w].waiting = NoTips /\ col'[w].missing = NoTips
        /\ \A v \in Worker \ {w} : col'[v] = col[v]
    BY <1>1 DEF CollectResults, NotCollecting
  <2> QED
    BY <2>1, <2>2 DEF HeldOrRead, NothingHeld
<1>2. CASE \/ FetchResults(w) \/ SaveResults(w) \/ LoadForIngest(w)
           \/ SaveIngested(w) \/ FetchStartingPrices(w) \/ SetTrainingWinner(w)
  <2>1. /\ col'[w].waiting = col[w].waiting /\ col'[w].missing = col[w].missing
        /\ col'[w].pc # "idle"
        /\ \A v \in Worker \ {w} : col'[v] = col[v]
    <3>1. CASE FetchResults(w)
      BY <1>w, <3>1 DEF FetchResults, CollectingJob
    <3>2. CASE SaveResults(w)
      BY <1>w, <3>2 DEF SaveResults, CollectingJob
    <3>3. CASE LoadForIngest(w)
      BY <1>w, <3>3 DEF LoadForIngest, CollectingJob
    <3>4. CASE SaveIngested(w)
      BY <1>w, <3>4 DEF SaveIngested, CollectingJob
    <3>5. CASE FetchStartingPrices(w)
      BY <1>w, <3>5 DEF FetchStartingPrices, CollectingJob
    <3>6. CASE SetTrainingWinner(w)
      BY <1>w, <3>6 DEF SetTrainingWinner, CollectingJob
    <3> QED
      BY <1>2, <3>1, <3>2, <3>3, <3>4, <3>5, <3>6
  <2> QED
    BY <2>1 DEF HeldOrRead
<1>3. CASE ReadWaiting(w)
  <2>1. /\ col'[w].waiting = WaitingRows(col[w].now)
        /\ col'[w].missing = col[w].missing /\ col'[w].pc = "missing"
        /\ \A v \in Worker \ {w} : col'[v] = col[v]
    BY <1>w, <1>3 DEF ReadWaiting, CollectingJob
  <2>2. ASSUME NEW r \in Race
        PROVE  \/ WaitingRows(col[w].now)[r] = NoTip
               \/ /\ WaitingRows(col[w].now)[r] = tips[r]
                  /\ tips[r].outcome.kind \in WaitingKinds
    BY DEF WaitingRows, AwaitingReconciliation, WaitingKinds
  <2>3. UNCHANGED tips
    BY <1>3 DEF ReadWaiting, tableVars
  <2> QED
    BY <2>1, <2>2, <2>3 DEF HeldOrRead
<1>4. CASE ReadMissing(w)
  <2>1. /\ col'[w].missing = MissingRows
        /\ col'[w].waiting = col[w].waiting /\ col'[w].pc = "prices"
        /\ \A v \in Worker \ {w} : col'[v] = col[v]
    BY <1>w, <1>4 DEF ReadMissing, CollectingJob
  <2>2. ASSUME NEW r \in Race
        PROVE  \/ MissingRows[r] = NoTip
               \/ MissingRows[r] = tips[r] /\ IsSettled(tips[r])
    BY DEF MissingRows, NeedsStartingPrice
  <2>3. UNCHANGED tips
    BY <1>4 DEF ReadMissing, tableVars
  <2> QED
    BY <2>1, <2>2, <2>3 DEF HeldOrRead
<1>5. ASSUME NEW r \in Race, FillStartingPrice(w, r)
      PROVE  /\ \A v \in Worker \ {w} : col'[v] = col[v]
             /\ \A s \in Race : HeldOrRead(w, s)
             /\ col'[w].pc # "idle"
  <2>1. col' = [col EXCEPT ![w] = [@ EXCEPT
                  !.missing = [col[w].missing EXCEPT ![r] = NoTip]]]
    BY <1>5, Zenon DEF FillStartingPrice
  <2>2. /\ col'[w].missing = [col[w].missing EXCEPT ![r] = NoTip]
        /\ col'[w].waiting = col[w].waiting /\ col'[w].pc = col[w].pc
        /\ \A v \in Worker \ {w} : col'[v] = col[v]
    BY <1>w, <2>1 DEF CollectingJob
  <2>3. col[w].missing \in [Race -> Tip \cup {NoTip}] /\ col[w].pc = "rows"
    BY <1>w, <1>5 DEF CollectingJob, FillStartingPrice
  <2> QED
    BY <2>2, <2>3 DEF HeldOrRead
<1>6. ASSUME NEW r \in Race, SettleRow(w, r)
      PROVE  /\ \A v \in Worker \ {w} : col'[v] = col[v]
             /\ \A s \in Race : HeldOrRead(w, s)
             /\ col'[w].pc # "idle"
  <2> DEFINE left == [col[w].waiting EXCEPT ![r] = NoTip]
  <2>1. \/ col' = [col EXCEPT ![w] = [@ EXCEPT !.waiting = left]]
        \/ \E h : col' = [col EXCEPT ![w] = [@ EXCEPT !.pc = "winner", !.race = r,
                                              !.winner = h, !.waiting = left]]
    BY <1>6, Zenon DEF SettleRow
  <2>2. col[w].waiting \in [Race -> Tip \cup {NoTip}] /\ col[w].pc = "rows"
    BY <1>w, <1>6 DEF CollectingJob, SettleRow
  <2>3. \A s \in Race : left[s] \in {col[w].waiting[s], NoTip}
    BY <2>2
  <2> HIDE DEF left
  <2>4. /\ col'[w].waiting = left
        /\ col'[w].missing = col[w].missing /\ col'[w].pc \in {"rows", "winner"}
        /\ \A v \in Worker \ {w} : col'[v] = col[v]
    <3>1. CASE col' = [col EXCEPT ![w] = [@ EXCEPT !.waiting = left]]
      BY <1>w, <2>2, <3>1 DEF CollectingJob
    <3>2. ASSUME NEW h,
                 col' = [col EXCEPT ![w] = [@ EXCEPT !.pc = "winner", !.race = r,
                                             !.winner = h, !.waiting = left]]
          PROVE  /\ col'[w].waiting = left
                 /\ col'[w].missing = col[w].missing /\ col'[w].pc = "winner"
                 /\ \A v \in Worker \ {w} : col'[v] = col[v]
      BY <1>w, <3>2 DEF CollectingJob
    <3> QED
      BY <2>1, <3>1, <3>2
  <2> QED
    BY <2>3, <2>4 DEF HeldOrRead
<1>7. CASE FinishCollecting(w) \/ AbortCollecting(w)
  <2>1. col'[w] = NotCollecting /\ \A v \in Worker \ {w} : col'[v] = col[v]
    BY <1>7 DEF FinishCollecting, AbortCollecting
  <2>2. NothingHeld(w)
    BY <2>1, IdleHoldsNothing
  <2> QED
    BY <2>1, <2>2 DEF HeldOrRead, NothingHeld
<1> QED
  BY <1>1, <1>2, <1>3, <1>4, <1>5, <1>6, <1>7 DEF CollectingStep, CollectingWork

\* A step leaves the passes alone, is a step of one pass, or is a crash.
LEMMA ColChanges ==
  ASSUME [Next]_vars
  PROVE  \/ UNCHANGED col
         \/ \E w \in Worker : CollectingStep(w) /\ UNCHANGED <<rec, imp>>
         \/ Crash
BY DEF Next, vars

\* No job survives a crash, so none holds rows after one.
LEMMA CrashHoldsNothing ==
  ASSUME Crash, NEW w \in Worker
  PROVE  NothingHeld(w)
<1>1. col'[w] = NotCollecting
  BY DEF Crash
<1> QED
  BY <1>1, IdleHoldsNothing

\* The rows a pass holds keep their defining property (RowsRead) over every step.
LEMMA RowsReadStep ==
  ASSUME TypeOK, RowsRead, [Next]_vars
  PROVE  RowsRead'
<1>1. CASE UNCHANGED col
  BY <1>1 DEF RowsRead
<1>2. CASE Crash
  BY <1>2, CrashHoldsNothing DEF RowsRead, NothingHeld
<1>3. ASSUME NEW w \in Worker, CollectingStep(w)
      PROVE  RowsRead'
  <2> SUFFICES ASSUME NEW v \in Worker, NEW r \in Race
               PROVE  /\ col'[v].waiting[r] # NoTip =>
                           col'[v].waiting[r].outcome.kind \in WaitingKinds
                      /\ col'[v].missing[r] # NoTip => IsSettled(col'[v].missing[r])
                      /\ col'[v].pc = "idle" =>
                           col'[v].waiting[r] = NoTip /\ col'[v].missing[r] = NoTip
    BY DEF RowsRead
  <2>1. CASE v # w
    <3>1. col'[v] = col[v]
      BY <1>3, <2>1, CollectingHolds
    <3> QED
      BY <3>1 DEF RowsRead
  <2>2. CASE v = w
    <3>1. HeldOrRead(w, r) /\ (col'[w].pc = "idle" => NothingHeld(w))
      BY <1>3, CollectingHolds
    <3>2. /\ col[w].waiting[r] # NoTip =>
               col[w].waiting[r].outcome.kind \in WaitingKinds
          /\ col[w].missing[r] # NoTip => IsSettled(col[w].missing[r])
      BY DEF RowsRead
    <3>3. /\ col'[w].waiting[r] # NoTip =>
               col'[w].waiting[r].outcome.kind \in WaitingKinds
          /\ col'[w].missing[r] # NoTip => IsSettled(col'[w].missing[r])
      BY <3>1, <3>2, Zenon DEF HeldOrRead
    <3> QED
      BY <2>2, <3>1, <3>3 DEF NothingHeld
  <2> QED
    BY <2>1, <2>2
<1> QED
  BY <1>1, <1>2, <1>3, ColChanges

\* Rows that are still fresh after a step: nothing held, or nothing written, or
\* what was written is no seal of the server's.
Fresh(row, r) == row # NoTip /\ (ServerSealed(row) \/ ServerSealed(tips[r])) =>
                   row = tips[r]

\* Freshness of all rows held is freshness of each of them, in this state.
LEMMA FreshRows ==
  RowsAreFresh <=> \A w \in Worker, r \in Race :
                     Fresh(col[w].waiting[r], r) /\ Fresh(col[w].missing[r], r)
BY DEF RowsAreFresh, Fresh

\* The same in the next state.
LEMMA FreshRowsNext ==
  RowsAreFresh' <=> \A w \in Worker, r \in Race :
                      Fresh(col[w].waiting[r], r)' /\ Fresh(col[w].missing[r], r)'
BY DEF RowsAreFresh, Fresh

\* The row just read, or held while the table is left alone, is fresh.
LEMMA ReadIsFresh ==
  ASSUME RowsAreFresh, NEW w \in Worker, NEW r \in Race,
         HeldOrRead(w, r), tips'[r] = tips[r]
  PROVE  Fresh(col[w].waiting[r], r)' /\ Fresh(col[w].missing[r], r)'
<1>1. Fresh(col[w].waiting[r], r) /\ Fresh(col[w].missing[r], r)
  BY FreshRows
<1>2. Fresh(col[w].waiting[r], r)'
  BY <1>1 DEF Fresh, HeldOrRead
<1>3. Fresh(col[w].missing[r], r)'
  BY <1>1 DEF Fresh, HeldOrRead
<1> QED
  BY <1>2, <1>3

\* When one race has a row in both lists, neither row is a seal of the server's,
\* so the pass writes a row of a seal once.
LEMMA HeldTwice ==
  ASSUME TypeOK, RowsRead, RowsAreFresh, NEW w \in Worker, NEW r \in Race,
         col[w].waiting[r] # NoTip, col[w].missing[r] # NoTip
  PROVE  /\ ~ServerSealed(tips[r])
         /\ ~ServerSealed(col[w].waiting[r]) /\ ~ServerSealed(col[w].missing[r])
<1>1. Fresh(col[w].waiting[r], r) /\ Fresh(col[w].missing[r], r)
  BY FreshRows
<1>2. col[w].waiting[r] # col[w].missing[r]
  BY DEF RowsRead, IsSettled, SettledKinds, WaitingKinds
<1> QED
  BY <1>1, <1>2 DEF Fresh

\* Rows read from the server's own seals stay fresh over every step.
LEMMA FreshStep ==
  ASSUME TypeOK, JobsExclude, JobInv, SealHasItsCard, [Next]_vars
  PROVE  RowsAreFresh'
<1> SUFFICES ASSUME NEW w \in Worker, NEW r \in Race
             PROVE  Fresh(col[w].waiting[r], r)' /\ Fresh(col[w].missing[r], r)'
  BY FreshRowsNext
<1> USE DEF JobInv
<1>1. CASE NothingHeld(w)
  BY <1>1 DEF NothingHeld, Fresh
<1>2. CASE Crash
  BY <1>1, <1>2, CrashHoldsNothing
<1>3. CASE (WorldNext /\ UNCHANGED col) \/ UNCHANGED vars
  <2>1. tips' = tips /\ col' = col
    BY <1>3 DEF WorldNext, Tick, RunRace, RefreshCard, vars, storeVars, tableVars
  <2> QED
    BY <2>1, ReadIsFresh DEF HeldOrRead
<1>4. CASE ImportStep /\ UNCHANGED col
  <2>1. \/ tips'[r] = tips[r]
        \/ ~ServerSealed(tips[r]) /\ ~ServerSealed(tips'[r])
    <3>1. ASSUME NEW u \in Uploads, ImportTips(u)
          PROVE  \/ tips'[r] = tips[r]
                 \/ ~ServerSealed(tips[r]) /\ ~ServerSealed(tips'[r])
      <4>1. tips'[r] = MergedTip(u.tips[r], tips[r])
        BY <3>1 DEF ImportTips, MergedTips
      <4> QED
        BY <4>1, ImportKeeps
    <3> QED
      BY <1>4, <3>1 DEF ImportStep, LoadArchive, SaveArchive, ImportSample,
         EndImport, tableVars
  <2>2. CASE tips'[r] = tips[r]
    BY <1>4, <2>2, ReadIsFresh DEF HeldOrRead
  <2>3. CASE ~ServerSealed(tips[r]) /\ ~ServerSealed(tips'[r])
    <3>1. Fresh(col[w].waiting[r], r) /\ Fresh(col[w].missing[r], r)
      BY FreshRows
    <3> QED
      BY <1>4, <2>3, <3>1 DEF Fresh
  <2> QED
    BY <2>1, <2>2, <2>3
<1>5. ASSUME NEW v \in Worker, RecordingStep(v), UNCHANGED col
      PROVE  Fresh(col[w].waiting[r], r)' /\ Fresh(col[w].missing[r], r)'
  <2>1. CASE tips' = tips
    BY <1>5, <2>1, ReadIsFresh DEF HeldOrRead
  <2>2. CASE rec[v].pc # "idle"
    <3>1. col[w].pc = "idle"
      BY <2>2, Alone
    <3>2. NothingHeld(w)
      BY <1>5, <3>1 DEF RowsRead, NothingHeld
    <3> QED
      BY <1>1, <3>2
  <2>3. CASE rec[v].pc = "idle"
    <3>1. tips' = tips
      BY <1>5, <2>3 DEF RecordingStep, RecordingWork, DraftTips, SealTips,
         StartRecording, FetchPrices, AssessRace, StoreDraft, StoreSealed,
         StoreSample, AbortRecording, tableVars
    <3> QED
      BY <2>1, <3>1
  <2> QED
    BY <2>2, <2>3
<1>6. ASSUME NEW v \in Worker, CollectingStep(v)
      PROVE  Fresh(col[w].waiting[r], r)' /\ Fresh(col[w].missing[r], r)'
  <2>0. /\ \A x \in Worker \ {v} : col'[x] = col[x]
        /\ \A s \in Race : HeldOrRead(v, s)
        /\ col'[v].pc = "idle" => NothingHeld(v)
    BY <1>6, CollectingHolds
  <2>1. CASE w # v
    <3>1. CASE tips' = tips
      BY <2>0, <2>1, <3>1, ReadIsFresh DEF HeldOrRead
    <3>2. CASE col[v].pc # "idle"
      <4>1. col[w].pc = "idle" /\ col'[w] = col[w]
        BY <2>0, <2>1, <3>2, Alone
      <4> QED
        BY <1>1, <4>1 DEF RowsRead, NothingHeld
    <3>3. CASE col[v].pc = "idle"
      <4>1. tips' = tips
        BY <1>6, <3>3 DEF CollectingStep, CollectingWork, CollectResults,
           FetchResults, SaveResults, LoadForIngest, SaveIngested, ReadWaiting,
           ReadMissing, FetchStartingPrices, FillStartingPrice, SettleRow,
           SetTrainingWinner, FinishCollecting, AbortCollecting, tableVars
      <4> QED
        BY <3>1, <4>1
    <3> QED
      BY <3>2, <3>3
  <2>2. CASE w = v
    <3>1. CASE tips'[r] = tips[r]
      BY <2>0, <2>2, <3>1, ReadIsFresh
    <3>2. CASE FillStartingPrice(w, r)
      <4>1. /\ col'[w].missing[r] = NoTip
            /\ col'[w].waiting[r] = col[w].waiting[r]
        <5>1. col' = [col EXCEPT ![w] = [@ EXCEPT
                        !.missing = [col[w].missing EXCEPT ![r] = NoTip]]]
          BY <3>2, Zenon DEF FillStartingPrice
        <5>2. col[w] \in CollectingJob
          BY DEF TypeOK, CollectingTypeOK
        <5>3. col'[w] = [col[w] EXCEPT
                           !.missing = [col[w].missing EXCEPT ![r] = NoTip]]
          BY <5>1 DEF TypeOK, CollectingTypeOK
        <5> QED
          BY <5>2, <5>3 DEF CollectingJob
      <4>2. Fresh(col[w].missing[r], r)'
        BY <4>1 DEF Fresh
      <4>3. CASE col[w].waiting[r] = NoTip
        BY <4>1, <4>2, <4>3 DEF Fresh
      <4>4. CASE col[w].waiting[r] # NoTip
        <5>1. col[w].missing[r] # NoTip
          BY <3>2 DEF FillStartingPrice
        <5>2. ~ServerSealed(tips[r]) /\ ~ServerSealed(col[w].waiting[r])
          BY <4>4, <5>1, HeldTwice
        <5>3. ~ServerSealed(tips'[r])
          <6>1. RowStep
            BY StepRows
          <6>2. ~IsNowSealed(r)
            <7>1. cards' = cards
              BY <3>2 DEF FillStartingPrice
            <7>2. ~cards[r].sealed
              BY <5>2 DEF SealHasItsCard, TypeOK, StoreTypeOK, Card
            <7> QED
              BY <7>1, <7>2 DEF IsNowSealed, TypeOK, StoreTypeOK
          <6> QED
            BY <5>2, <6>1, <6>2, SealsAppear
        <5> QED
          BY <4>1, <4>2, <5>2, <5>3 DEF Fresh
      <4> QED
        BY <4>3, <4>4
    <3>3. CASE SettleRow(w, r)
      <4>1. col[w].missing[r] = NoTip
        BY <3>3 DEF SettleRow, NoTips
      <4>2. col'[w].missing[r] = NoTip \/ tips' = tips
        BY <2>0, <2>2, <4>1 DEF HeldOrRead
      <4>3. col'[w].waiting[r] = NoTip
        <5> DEFINE left == [col[w].waiting EXCEPT ![r] = NoTip]
        <5>1. \/ col' = [col EXCEPT ![w] = [@ EXCEPT !.waiting = left]]
              \/ \E h : col' = [col EXCEPT ![w] = [@ EXCEPT !.pc = "winner",
                                  !.race = r, !.winner = h, !.waiting = left]]
          BY <3>3, Zenon DEF SettleRow
        <5>2. col[w] \in CollectingJob
          BY DEF TypeOK, CollectingTypeOK
        <5>3. left[r] = NoTip
          BY <5>2 DEF CollectingJob
        <5> HIDE DEF left
        <5>4. CASE col' = [col EXCEPT ![w] = [@ EXCEPT !.waiting = left]]
          BY <5>2, <5>3, <5>4 DEF CollectingJob, TypeOK, CollectingTypeOK
        <5>5. ASSUME NEW h,
                     col' = [col EXCEPT ![w] = [@ EXCEPT !.pc = "winner",
                               !.race = r, !.winner = h, !.waiting = left]]
              PROVE  col'[w].waiting[r] = NoTip
          BY <5>2, <5>3, <5>5 DEF CollectingJob, TypeOK, CollectingTypeOK
        <5> QED
          BY <5>1, <5>4, <5>5
      <4> QED
        BY <3>1, <4>2, <4>3 DEF Fresh
    <3>4. ASSUME tips'[r] # tips[r]
          PROVE  FillStartingPrice(w, r) \/ SettleRow(w, r)
      <4>1. ASSUME NEW s \in Race, FillStartingPrice(w, s) PROVE s = r
        BY <3>4, <4>1 DEF FillStartingPrice, SaveTip, TypeOK, StoreTypeOK
      <4>2. ASSUME NEW s \in Race, SettleRow(w, s) PROVE s = r
        BY <3>4, <4>2 DEF SettleRow, SaveTip, TypeOK, StoreTypeOK
      <4> QED
        BY <1>6, <2>2, <3>4, <4>1, <4>2 DEF CollectingStep, CollectingWork,
           CollectResults, FetchResults, SaveResults, LoadForIngest, SaveIngested,
           ReadWaiting, ReadMissing, FetchStartingPrices, SetTrainingWinner,
           FinishCollecting, AbortCollecting, tableVars
    <3> QED
      BY <3>1, <3>2, <3>3, <3>4
  <2> QED
    BY <2>1, <2>2
<1> QED
  BY <1>2, <1>3, <1>4, <1>5, <1>6 DEF Next

-----------------------------------------------------------------------------
(* The invariant is inductive. *)

LEMMA InitInv == Init => IInv
<1> SUFFICES ASSUME Init PROVE IInv
  OBVIOUS
<1>1. TypeOK
  BY InitType
<1>2. JobsExclude /\ TipToWrite /\ SampleToWrite /\ DecisionStands
  BY DEF Init, RecordingInit, CollectingInit, NotRecording, NotCollecting,
     JobsExclude, TipToWrite, SampleToWrite, DecisionStands
<1>3. \A w \in Worker, r \in Race :
        col[w].waiting[r] = NoTip /\ col[w].missing[r] = NoTip
  BY DEF Init, CollectingInit, NotCollecting, NoTips
<1>4. RowsRead /\ RowsAreFresh
  BY <1>3 DEF RowsRead, RowsAreFresh
<1>5. \A r \in Race : ~ServerSealed(tips[r])
  BY DEF Init, StoreInit, ServerSealed
<1>6. /\ \A r \in Race : ~cards[r].sealed
      /\ \A r \in Race : ~samples[r].kept
  BY DEF Init, StoreInit, NoCard, NoSample
<1>7. TableInv
  BY <1>5, <1>6 DEF TableInv, SealHasItsCard, SampleIsOfTheSeal, PricedOnceSettled
<1> QED
  BY <1>1, <1>2, <1>4, <1>7 DEF IInv, JobInv

\* Every step keeps the inductive invariant.
LEMMA StepInv == IInv /\ [Next]_vars => IInv'
<1> SUFFICES ASSUME IInv, [Next]_vars PROVE IInv'
  OBVIOUS
<1>1. /\ TypeOK /\ JobsExclude /\ JobInv
      /\ SealHasItsCard /\ SampleIsOfTheSeal /\ PricedOnceSettled
  BY DEF IInv, TableInv
<1>2. TypeOK'
  BY <1>1, StepType
<1>3. JobsExclude'
  BY <1>1, StepExclude
<1>4. TipToWrite' /\ SampleToWrite' /\ DecisionStands'
  BY <1>1, TipToWriteStep, SampleToWriteStep, DecisionStep DEF JobInv
<1>5. RowsRead' /\ RowsAreFresh'
  BY <1>1, RowsReadStep, FreshStep DEF JobInv
<1>6. RowStep
  BY <1>1, StepRows
<1>7. SealHasItsCard' /\ SampleIsOfTheSeal' /\ PricedOnceSettled'
  BY <1>1, <1>6, CardsStep, SamplesStep, PricedStep
<1> QED
  BY <1>2, <1>3, <1>4, <1>5, <1>7 DEF IInv, JobInv, TableInv

\* The inductive invariant holds in every reachable state.
THEOREM Inductive == Spec => []IInv
BY InitInv, StepInv, PTL DEF Spec

-----------------------------------------------------------------------------
(* What follows from it. *)

\* What is about to be stored is still what was decided: no other writer can
\* have sealed the race or moved its card since.
THEOREM DecisionsStand == Spec => []DecisionStands
<1>1. IInv => DecisionStands
  BY DEF IInv, JobInv
<1> QED
  BY <1>1, Inductive, PTL

\* A results pass never writes a stale row over a seal of the server's.
THEOREM SealedRowsAreFresh == Spec => []RowsAreFresh
<1>1. IInv => RowsAreFresh
  BY DEF IInv, JobInv
<1> QED
  BY <1>1, Inductive, PTL

\* Every seal has the card it was made from, and only seals have one.
THEOREM SealsHaveTheirCards == Spec => []SealHasItsCard
<1>1. IInv => SealHasItsCard
  BY DEF IInv, TableInv
<1> QED
  BY <1>1, Inductive, PTL

\* What training learns from is what the server sealed.
THEOREM SamplesAreOfTheSeal == Spec => []SampleIsOfTheSeal
<1>1. IInv => SampleIsOfTheSeal
  BY DEF IInv, TableInv
<1> QED
  BY <1>1, Inductive, PTL

\* No step changes or drops a prediction the server has sealed.
LEMMA StepKeepsSeals ==
  ASSUME IInv, [Next]_vars, NEW r \in Race, ServerSealed(tips[r])
  PROVE  /\ ServerSealed(tips'[r])
         /\ Prediction(tips'[r]) = Prediction(tips[r])
         /\ tips[r].outcome.sp # NoPrice => tips'[r].outcome.sp = tips[r].outcome.sp
<1>1. RowStep
  BY StepRows DEF IInv, TableInv
<1> QED
  BY <1>1, SealsStay DEF IInv, TableInv

\* What the server seals is never changed and never dropped.
THEOREM SealsAreFinal == Spec => ServerSealIsFinal
<1>1. IInv /\ [Next]_vars =>
        [\A r \in Race : ServerSealed(tips[r]) =>
           /\ ServerSealed(tips'[r])
           /\ Prediction(tips'[r]) = Prediction(tips[r])]_vars
  BY StepKeepsSeals
<1> QED
  BY <1>1, Inductive, PTL DEF Spec, ServerSealIsFinal

\* A starting price on a sealed tip is never replaced.
THEOREM StartingPricesAreFinal == Spec => StartingPriceIsFinal
<1>1. IInv /\ [Next]_vars =>
        [\A r \in Race : ServerSealed(tips[r]) /\ tips[r].outcome.sp # NoPrice =>
           tips'[r].outcome.sp = tips[r].outcome.sp]_vars
  BY StepKeepsSeals
<1> QED
  BY <1>1, Inductive, PTL DEF Spec, StartingPriceIsFinal

-----------------------------------------------------------------------------
(* RecordService implements AccuracyRecord. *)

LEMMA UntouchedPromise ==
  ASSUME NEW r \in Race, Untouched(r)
  PROVE  /\ SealedPrediction'[r] = SealedPrediction[r]
         /\ SealedVerdict'[r] = SealedVerdict[r]
BY DEF Untouched, SealedPrediction, SealedVerdict

\* Functions over Race that agree everywhere, or everywhere but at r.
LEMMA SamePromise ==
  ASSUME \A r \in Race : SealedPrediction'[r] = SealedPrediction[r]
  PROVE  SealedPrediction' = SealedPrediction
BY DEF SealedPrediction

\* When no race's verdict changes, the abstract verdicts do not.
LEMMA SameVerdict ==
  ASSUME \A r \in Race : SealedVerdict'[r] = SealedVerdict[r]
  PROVE  SealedVerdict' = SealedVerdict
BY DEF SealedVerdict

\* When only one race's verdict changes, the abstract step is an EXCEPT.
LEMMA OtherVerdict ==
  ASSUME NEW r \in Race, \A s \in Race : s = r \/ SealedVerdict'[s] = SealedVerdict[s]
  PROVE  SealedVerdict' = [SealedVerdict EXCEPT ![r] = SealedVerdict'[r]]
BY DEF SealedVerdict

\* The same for predictions.
LEMMA OtherPrediction ==
  ASSUME NEW r \in Race,
         \A s \in Race : s = r \/ SealedPrediction'[s] = SealedPrediction[s]
  PROVE  SealedPrediction' = [SealedPrediction EXCEPT ![r] = SealedPrediction'[r]]
BY DEF SealedPrediction

\* A step that seals a race is the abstract record making a prediction.
LEMMA SealingPromise ==
  ASSUME TypeOK, NEW r \in Race, IsNowSealed(r)
  PROVE  Promise!SealRace(r)
<1>1. /\ SealedPrediction[r] = {}
      /\ SealedPrediction'[r] = {Prediction(tips'[r])}
  BY DEF IsNowSealed, SealedPrediction
<1>2. SealedVerdict[r] = "open" /\ SealedVerdict'[r] = "open"
  BY DEF IsNowSealed, SealedVerdict, IsClosed, IsFinal, Pending, FinalKinds,
     SettledKinds, VoidKinds
<1>3. \A s \in Race : s = r \/ Untouched(s)
  BY DEF IsNowSealed, OthersUntouched
<1>4. SealedVerdict' = SealedVerdict
  BY <1>2, <1>3, UntouchedPromise, SameVerdict
<1>5. SealedPrediction' = [SealedPrediction EXCEPT ![r] = {Prediction(tips'[r])}]
  BY <1>1, <1>3, UntouchedPromise, OtherPrediction
<1>6. Promise!Timely(Prediction(tips'[r]))
  BY DEF IsNowSealed, TimelySeal, NoTime, Promise!Timely, Prediction
<1> QED
  BY <1>1, <1>4, <1>5, <1>6 DEF Promise!SealRace

\* A step that fills a price leaves the abstract record alone.
LEMMA FillingPromise ==
  ASSUME TypeOK, PricedOnceSettled, NEW r \in Race, IsNowFilled(r), RowStep
  PROVE  UNCHANGED <<SealedPrediction, SealedVerdict>>
<1>1. PICK found \in PriceList : tips'[r] = WithStartingPrices(tips[r], found)
  BY DEF IsNowFilled
<1>2. tips[r] \in Tip /\ ServerSealed(tips[r])
  BY DEF IsNowFilled, ServerSealed, TypeOK, StoreTypeOK
<1>3. ServerSealed(tips'[r]) /\ Prediction(tips'[r]) = Prediction(tips[r])
  BY <1>2, SealsStay
<1>4. tips'[r].outcome.kind = tips[r].outcome.kind
  BY <1>1, <1>2, FillKeeps
<1>5. /\ SealedPrediction'[r] = SealedPrediction[r]
      /\ SealedVerdict'[r] = SealedVerdict[r]
  BY <1>2, <1>3, <1>4 DEF SealedPrediction, SealedVerdict, IsClosed, IsFinal
<1>6. \A s \in Race : s = r \/ Untouched(s)
  BY DEF IsNowFilled, OthersUntouched
<1> QED
  BY <1>5, <1>6, UntouchedPromise, SamePromise, SameVerdict

\* A step that closes a seal is the abstract record reaching a verdict.
LEMMA SettlingPromise ==
  ASSUME TypeOK, PricedOnceSettled, NEW r \in Race, IsNowSettled(r), RowStep
  PROVE  \/ Promise!CloseRace(r)
         \/ UNCHANGED <<SealedPrediction, SealedVerdict>>
<1>1. PICK result \in Result \cup {NoResult}, found \in PriceList, now \in Time :
        tips'[r] = Settle(tips[r], result, found, FALSE, now)
  BY DEF IsNowSettled
<1>2. tips[r] \in Tip /\ ServerSealed(tips[r])
  BY DEF IsNowSettled, ServerSealed, TypeOK, StoreTypeOK
<1>3. ServerSealed(tips'[r]) /\ Prediction(tips'[r]) = Prediction(tips[r])
  BY <1>2, SealsStay
<1>4. tips'[r] \in Tip
  <2> DEFINE settled == Settle(tips[r], result, found, FALSE, now)
  <2>1. settled \in Tip
    BY <1>2, SettleType
  <2> QED
    BY <1>1, <2>1
<1>5. \A s \in Race : s = r \/ Untouched(s)
  BY DEF IsNowSettled, OthersUntouched
<1>6. SealedPrediction' = SealedPrediction
  <2>1. SealedPrediction'[r] = SealedPrediction[r]
    BY <1>2, <1>3 DEF SealedPrediction
  <2> QED
    BY <1>5, <2>1, UntouchedPromise, SamePromise
<1>7. SealedVerdict[r] = "open" /\ SealedPrediction[r] # {}
  BY <1>2 DEF IsNowSettled, WaitingKinds, SealedVerdict, SealedPrediction, IsClosed,
     IsFinal, FinalKinds, SettledKinds, VoidKinds
<1>8. CASE IsClosed(tips'[r])
  <2>1. SealedVerdict'[r] = tips'[r].outcome.kind
    BY <1>3, <1>8 DEF SealedVerdict
  <2>2. tips'[r].outcome.kind \in Promise!Verdicts
    BY <1>8 DEF IsClosed, IsFinal, FinalKinds, SettledKinds, VoidKinds,
       Promise!Verdicts
  <2>3. SealedVerdict' = [SealedVerdict EXCEPT ![r] = tips'[r].outcome.kind]
    BY <1>5, <2>1, UntouchedPromise, OtherVerdict
  <2> QED
    BY <1>6, <1>7, <2>2, <2>3 DEF Promise!CloseRace
<1>9. CASE ~IsClosed(tips'[r])
  <2>1. SealedVerdict'[r] = "open"
    BY <1>9 DEF SealedVerdict
  <2> QED
    BY <1>5, <1>6, <1>7, <2>1, UntouchedPromise, SameVerdict
<1> QED
  BY <1>8, <1>9

\* Whatever jobs, imports, restarts and stale rows do to the table, what it says
\* of the server's seals is an accuracy record: each race is sealed at most once
\* and in time, the seal stays, and it gets at most one verdict.
THEOREM Implements == Spec => KeepsItsPromises
<1>1. Init => Promise!Init
  BY DEF Init, StoreInit, Promise!Init, SealedPrediction, SealedVerdict, ServerSealed
<1>2. IInv /\ [Next]_vars =>
        [Promise!Next]_<<SealedPrediction, SealedVerdict>>
  <2> SUFFICES ASSUME IInv, [Next]_vars
               PROVE  \/ \E r \in Race : Promise!SealRace(r) \/ Promise!CloseRace(r)
                      \/ UNCHANGED <<SealedPrediction, SealedVerdict>>
    BY DEF Promise!Next
  <2>1. TypeOK /\ PricedOnceSettled
    BY DEF IInv, TableInv
  <2>2. RowStep
    BY StepRows DEF IInv, TableInv
  <2>3. CASE \A r \in Race : Untouched(r)
    BY <2>3, UntouchedPromise, SamePromise, SameVerdict
  <2>4. ASSUME NEW r \in Race, IsNowSealed(r)
        PROVE  Promise!SealRace(r)
    BY <2>1, <2>4, SealingPromise
  <2>5. ASSUME NEW r \in Race, IsNowFilled(r)
        PROVE  UNCHANGED <<SealedPrediction, SealedVerdict>>
    BY <2>1, <2>2, <2>5, FillingPromise
  <2>6. ASSUME NEW r \in Race, IsNowSettled(r)
        PROVE  \/ Promise!CloseRace(r)
               \/ UNCHANGED <<SealedPrediction, SealedVerdict>>
    BY <2>1, <2>2, <2>6, SettlingPromise
  <2> QED
    BY <2>2, <2>3, <2>4, <2>5, <2>6 DEF RowStep
<1> QED
  BY <1>1, <1>2, Inductive, PTL DEF Spec, KeepsItsPromises, Promise!Spec
=============================================================================
