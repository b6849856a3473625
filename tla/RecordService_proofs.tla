------------------------ MODULE RecordService_proofs ------------------------
(***************************************************************************)
(* Proofs, for every value of the constants, that the accuracy record      *)
(* keeps its types, and that ledgers uploaded in turn settle.              *)
(***************************************************************************)
EXTENDS RecordService, TLAPS

(* Types of what the rules return. *)

LEMMA RecordedType ==
  ASSUME NEW off \in OptionalTime, NEW pick \in Horse,
         NEW favourite \in OptionalHorse, NEW reference \in BOOLEAN,
         NEW book \in OptionalTime, NEW now \in Time, NEW verdict
  PROVE  Recorded(NewTip(off, pick, favourite, reference, book, now), verdict,
                  now) \in Tip
<1> DEFINE tip == NewTip(off, pick, favourite, reference, book, now)
<1>1. tip \in Tip
  BY DEF NewTip, Tip, TipFields, Source, Outcome, Pending, Kinds, FavouriteOutcome,
         NoFavouriteOutcome, OptionalPrice, OptionalTime, NoTime, Time
<1>2. [tip EXCEPT !.sealedAt = now] \in Tip
  BY <1>1 DEF Tip, TipFields, OptionalTime
<1> QED
  BY <1>1, <1>2 DEF Recorded

\* The starting price of a horse (reconcile.go, startingPrice) is a price or none.
LEMMA StartingPriceType ==
  ASSUME NEW found \in PriceList, NEW horse \in Horse, NEW result \in Result
  PROVE  StartingPrice(found, horse, result) \in OptionalPrice
BY DEF PriceList, StartingPrice, Result

\* A result turns a tip into an outcome of the model.
LEMMA SettledOutcomeType ==
  ASSUME NEW tip \in Tip, NEW result \in Result \cup {NoResult},
         NEW found \in PriceList, NEW now \in Time
  PROVE  SettledOutcome(tip, result, found, now) \in Outcome
<1>1. CASE ~FieldKnown(result)
  <2>1. tip.outcome.attempts \in Nat
    BY DEF Tip, TipFields, Outcome
  <2> QED
    BY <1>1, <2>1 DEF SettledOutcome, GiveUpOrKeepTrying, Closed, Unresolved,
       Outcome, Kinds, OptionalPrice
<1>2. CASE FieldKnown(result)
  <2>1. result \in Result
    BY <1>2 DEF FieldKnown
  <2>2. tip.pick \in Horse
    BY DEF Tip, TipFields
  <2>3. StartingPrice(found, tip.pick, result) \in OptionalPrice
    BY <2>1, <2>2, StartingPriceType
  <2> QED
    BY <1>2, <2>3 DEF SettledOutcome, Closed, Ran, Outcome, Kinds, FinalKinds,
       VoidKinds, SettledKinds, OptionalPrice
<1> QED
  BY <1>1, <1>2

\* Settle (reconcile.go) returns a tip.
LEMMA SettleType ==
  ASSUME NEW tip \in Tip, NEW result \in Result \cup {NoResult},
         NEW found \in PriceList, NEW now \in Time
  PROVE  Settle(tip, result, found, FALSE, now) \in Tip
<1>1. SettledOutcome(tip, result, found, now) \in Outcome
  BY SettledOutcomeType
<1>2. SettledFavourite(tip, result, found) \in FavouriteOutcome
  <2>1. CASE FieldKnown(result) /\ tip.favourite \in result.finishers
    <3>1. result \in Result /\ tip.favourite \in Horse
      BY <2>1 DEF FieldKnown, Result
    <3>2. StartingPrice(found, tip.favourite, result) \in OptionalPrice
      BY <3>1, StartingPriceType
    <3> QED
      BY <2>1, <3>2 DEF SettledFavourite, FavouriteOutcome
  <2>2. CASE ~(FieldKnown(result) /\ tip.favourite \in result.finishers)
    BY <2>2 DEF SettledFavourite, Tip, TipFields
  <2> QED
    BY <2>1, <2>2
<1>3. SettledFavourite(tip, result, found).known => tip.favourite # NoHorse
  <2>1. CASE FieldKnown(result) /\ tip.favourite \in result.finishers
    BY <2>1, AbsentValuesAssumption DEF FieldKnown, Result
  <2>2. CASE ~(FieldKnown(result) /\ tip.favourite \in result.finishers)
    BY <2>2 DEF SettledFavourite, Tip
  <2> QED
    BY <2>1, <2>2
<1>4. Settle(tip, result, found, FALSE, now)
        = [tip EXCEPT !.outcome = SettledOutcome(tip, result, found, now),
                      !.favouriteOutcome = SettledFavourite(tip, result, found)]
  BY DEF Settle
<1> QED
  BY <1>1, <1>2, <1>3, <1>4 DEF Tip, TipFields

\* WithStartingPrices (tip_record.go) returns a tip.
LEMMA WithStartingPricesType ==
  ASSUME NEW tip \in Tip, NEW found \in PriceList
  PROVE  WithStartingPrices(tip, found) \in Tip
<1>1. found[tip.pick] \in OptionalPrice
  BY DEF Tip, TipFields, PriceList
<1>2. tip.favouriteOutcome.known => found[tip.favourite] \in OptionalPrice
  BY DEF Tip, TipFields, PriceList, OptionalHorse
<1> QED
  BY <1>1, <1>2 DEF WithStartingPrices, Tip, TipFields, Outcome, FavouriteOutcome

\* Saving a sample (store.SaveTrainingSnapshot) keeps the table's type.
LEMMA SavedSampleType ==
  ASSUME NEW sample \in Sample, NEW at \in Time, NEW runners \in SUBSET Horse
  PROVE  SavedSample(sample, at, runners) \in Sample
<1>1. [kept |-> TRUE, source |-> "server", at |-> at, runners |-> runners,
       winner |-> NoHorse] \in Sample
  BY DEF Sample, Source, OptionalTime, OptionalHorse
<1>2. [sample EXCEPT !.at = at, !.runners = runners] \in Sample
  BY DEF Sample, OptionalTime
<1> QED
  BY <1>1, <1>2 DEF SavedSample

-----------------------------------------------------------------------------
(* Type correctness, one lemma for each part of the next-state relation. *)

LEMMA WorldType ==
  ASSUME TypeOK, WorldNext, UNCHANGED <<rec, col, imp>>
  PROVE  TypeOK'
<1>1. StoreTypeOK'
  <2>1. CASE Tick
    BY <2>1 DEF TypeOK, StoreTypeOK, Tick, tableVars, Time
  <2>2. ASSUME NEW r \in Race, RunRace(r)
        PROVE  StoreTypeOK'
    BY <2>2 DEF TypeOK, StoreTypeOK, RunRace, tableVars
  <2>3. ASSUME NEW r \in Race, NEW off \in Offs, RefreshCard(r, off)
        PROVE  StoreTypeOK'
    BY <2>3, StoreAssumption DEF TypeOK, StoreTypeOK, RefreshCard
  <2> QED
    BY <2>1, <2>2, <2>3 DEF WorldNext
<1> QED
  BY <1>1 DEF TypeOK, RecordingTypeOK, CollectingTypeOK, ImportTypeOK

\* An idle recording job has locals of the right type.
LEMMA IdleRecording == NotRecording \in RecordingJob
BY DEF NotRecording, RecordingJob, RecordingKinds, OptionalTime, Time

\* Moving on to the next race keeps the locals of a recording job typed.
LEMMA NextRaceType ==
  ASSUME NEW w \in Worker, NEW queue \in SUBSET Race,
         RecordingTypeOK, lock \in Worker \cup {Nobody}, NextRace(w, queue)
  PROVE  RecordingTypeOK' /\ lock' \in Worker \cup {Nobody}
<1>1. CASE queue = {}
  BY <1>1, IdleRecording DEF NextRace, Release, RecordingTypeOK
<1>2. CASE queue # {}
  <2>1. rec[w] \in RecordingJob
    BY DEF RecordingTypeOK
  <2>2. /\ rec' = [rec EXCEPT ![w] = [@ EXCEPT !.pc = "assess", !.queue = queue,
                                      !.race = NoRace, !.tip = NoTip,
                                      !.runners = {}]]
        /\ UNCHANGED lock
    BY <1>2 DEF NextRace
  <2>3. [rec[w] EXCEPT !.pc = "assess", !.queue = queue, !.race = NoRace,
                       !.tip = NoTip, !.runners = {}] \in RecordingJob
    BY <2>1 DEF RecordingJob
  <2> QED
    BY <2>2, <2>3 DEF RecordingTypeOK
<1> QED
  BY <1>1, <1>2

\* Steps of the recording jobs keep the type invariant.
LEMMA RecordingType ==
  ASSUME TypeOK, NEW w \in Worker, RecordingStep(w), UNCHANGED <<col, imp>>
  PROVE  TypeOK'
<1>w. rec[w] \in RecordingJob
  BY DEF TypeOK, RecordingTypeOK
<1> SUFFICES StoreTypeOK' /\ RecordingTypeOK'
  BY DEF TypeOK, CollectingTypeOK, ImportTypeOK
<1>1. ASSUME NEW kind \in RecordingKinds, NEW due \in SUBSET Race,
             StartRecording(w, kind, due)
      PROVE  StoreTypeOK' /\ RecordingTypeOK'
  <2>1. rec' = [rec EXCEPT ![w] = [NotRecording EXCEPT !.pc = "fetch",
                  !.kind = kind, !.now = clock, !.queue = due]]
    BY <1>1 DEF StartRecording
  <2>2. [NotRecording EXCEPT !.pc = "fetch", !.kind = kind, !.now = clock,
                             !.queue = due] \in RecordingJob
    BY IdleRecording DEF RecordingJob, TypeOK, StoreTypeOK
  <2>3. StoreTypeOK'
    BY <1>1 DEF StartRecording, Acquire, TypeOK, StoreTypeOK, worldVars, tableVars
  <2> QED
    BY <2>1, <2>2, <2>3 DEF TypeOK, RecordingTypeOK
<1>2. CASE FetchPrices(w)
  <2>1. PICK matched \in SUBSET rec[w].queue, priced \in SUBSET rec[w].queue :
          rec' = [rec EXCEPT ![w] = [@ EXCEPT !.pc = "assess",
                    !.matched = matched, !.priced = priced,
                    !.book = IF priced = {} THEN NoTime ELSE clock]]
    BY <1>2 DEF FetchPrices
  <2>2. rec'[w] \in RecordingJob
    BY <1>w, <2>1 DEF RecordingJob, OptionalTime, TypeOK, StoreTypeOK, RecordingTypeOK
  <2>3. StoreTypeOK'
    BY <1>2 DEF FetchPrices, TypeOK, StoreTypeOK, worldVars, tableVars
  <2> QED
    BY <2>1, <2>2, <2>3 DEF TypeOK, RecordingTypeOK
<1>3. ASSUME NEW r \in Race, AssessRace(w, r)
      PROVE  StoreTypeOK' /\ RecordingTypeOK'
  <2>1. snapshots' \in [Race -> Snapshots]
    <3>1. ASSUME r \in rec[w].priced
          PROVE  SavedSnapshot(snapshots[r], rec[w].kind, rec[w].book) \in Snapshots
      BY <1>w DEF TypeOK, StoreTypeOK, SavedSnapshot, Snapshots, RecordingJob
    <3> QED
      BY <1>3, <3>1 DEF AssessRace, TypeOK, StoreTypeOK
  <2>2. RecordingTypeOK' /\ lock' \in Worker \cup {Nobody}
    <3>1. rec[w].queue \ {r} \in SUBSET Race
      BY <1>w DEF RecordingJob
    <3>2. PICK rating \in Ratings :
            \/ NextRace(w, rec[w].queue \ {r})
            \/ /\ rating.pick # NoHorse
               /\ UNCHANGED lock
               /\ rec' = [rec EXCEPT ![w] = [@ EXCEPT
                    !.pc = "write", !.race = r,
                    !.tip = Recorded(Candidate(w, r, rating),
                              Decide(tips[r], Candidate(w, r, rating), rec[w].now),
                              rec[w].now),
                    !.runners = rating.runners]]
      BY <1>3, Zenon DEF AssessRace
    <3>3. CASE NextRace(w, rec[w].queue \ {r})
      BY <3>1, <3>3, NextRaceType DEF TypeOK, StoreTypeOK
    <3>4. ASSUME rating.pick # NoHorse, UNCHANGED lock,
                 rec' = [rec EXCEPT ![w] = [@ EXCEPT
                    !.pc = "write", !.race = r,
                    !.tip = Recorded(Candidate(w, r, rating),
                              Decide(tips[r], Candidate(w, r, rating), rec[w].now),
                              rec[w].now),
                    !.runners = rating.runners]]
          PROVE  RecordingTypeOK' /\ lock' \in Worker \cup {Nobody}
      <4>1. /\ rating.pick \in Horse
            /\ rating.favourite \in OptionalHorse
            /\ rating.runners \in SUBSET Horse
        BY <3>4, RatingsAssumption DEF Rating, OptionalHorse
      <4>2. /\ offs[r] \in OptionalTime
            /\ rec[w].now \in Time
            /\ (r \in rec[w].matched) \in BOOLEAN
            /\ (IF r \in rec[w].priced THEN rec[w].book ELSE NoTime) \in OptionalTime
        BY <1>w DEF TypeOK, StoreTypeOK, RecordingJob, OptionalTime
      <4>3. Recorded(Candidate(w, r, rating),
                     Decide(tips[r], Candidate(w, r, rating), rec[w].now),
                     rec[w].now) \in Tip
        BY <4>1, <4>2, RecordedType DEF Candidate
      <4>4. rec'[w] \in RecordingJob
        BY <1>w, <3>4, <4>1, <4>3 DEF RecordingJob, TypeOK, RecordingTypeOK
      <4> QED
        BY <3>4, <4>4 DEF TypeOK, RecordingTypeOK, StoreTypeOK
    <3> QED
      BY <3>2, <3>3, <3>4
  <2> QED
    BY <1>3, <2>1, <2>2 DEF AssessRace, TypeOK, StoreTypeOK, worldVars
<1>4. CASE StoreDraft(w)
  <2>1. rec[w].tip \in Tip \cup {NoTip} /\ rec[w].queue \ {rec[w].race} \in SUBSET Race
    BY <1>w DEF RecordingJob
  <2>2. RecordingTypeOK' /\ lock' \in Worker \cup {Nobody}
    BY <1>4, <2>1, NextRaceType DEF StoreDraft, TypeOK, StoreTypeOK
  <2> QED
    BY <1>4, <2>1, <2>2 DEF StoreDraft, SaveTip, TypeOK, StoreTypeOK, worldVars
<1>5. CASE StoreSealed(w)
  <2>1. rec[w].tip \in Tip \cup {NoTip} /\ rec[w].queue \ {rec[w].race} \in SUBSET Race
    BY <1>w DEF RecordingJob
  <2>2. RecordingTypeOK' /\ lock' \in Worker \cup {Nobody}
    <3>1. CASE NextRace(w, rec[w].queue \ {rec[w].race})
      BY <2>1, <3>1, NextRaceType DEF TypeOK, StoreTypeOK
    <3>2. CASE rec' = [rec EXCEPT ![w].pc = "sample"] /\ UNCHANGED lock
      <4>1. [rec[w] EXCEPT !.pc = "sample"] \in RecordingJob
        BY <1>w DEF RecordingJob
      <4> QED
        BY <3>2, <4>1 DEF TypeOK, RecordingTypeOK, StoreTypeOK
    <3> QED
      BY <1>5, <3>1, <3>2 DEF StoreSealed
  <2>3. tips' \in [Race -> Tip \cup {NoTip}]
    BY <1>5, <2>1 DEF StoreSealed, SaveSealedTip, SaveTip, TypeOK, StoreTypeOK
  <2>4. cards' \in [Race -> Card]
    <3> DEFINE r == rec[w].race
               card == IF cards[r].sealed THEN cards[r]
                       ELSE [sealed |-> TRUE, off |-> offs[r]]
    <3>1. cards' = [cards EXCEPT ![r] = card]
      BY <1>5 DEF StoreSealed, SaveSealedTip
    <3>2. ASSUME r \in Race PROVE card \in Card
      BY <3>2 DEF TypeOK, StoreTypeOK, Card
    <3> QED
      BY <3>1, <3>2 DEF TypeOK, StoreTypeOK
  <2> QED
    BY <1>5, <2>2, <2>3, <2>4 DEF StoreSealed, TypeOK, StoreTypeOK, worldVars
<1>6. CASE StoreSample(w)
  <2>1. rec[w].queue \ {rec[w].race} \in SUBSET Race
    BY <1>w DEF RecordingJob
  <2>2. RecordingTypeOK' /\ lock' \in Worker \cup {Nobody}
    BY <1>6, <2>1, NextRaceType DEF StoreSample, TypeOK, StoreTypeOK
  <2>3. samples' \in [Race -> Sample]
    <3> DEFINE r == rec[w].race
               sample == SavedSample(samples[r], rec[w].now, rec[w].runners)
    <3>1. samples' = [samples EXCEPT ![r] = sample]
      BY <1>6 DEF StoreSample
    <3>2. ASSUME r \in Race PROVE sample \in Sample
      BY <1>w, <3>2, SavedSampleType DEF TypeOK, StoreTypeOK, RecordingJob
    <3> QED
      BY <3>1, <3>2 DEF TypeOK, StoreTypeOK
  <2> QED
    BY <1>6, <2>2, <2>3 DEF StoreSample, TypeOK, StoreTypeOK, worldVars
<1>7. CASE AbortRecording(w)
  BY IdleRecording, <1>7 DEF AbortRecording, Release, TypeOK, StoreTypeOK, RecordingTypeOK,
     worldVars, tableVars
<1>8. CASE DraftTips(w)
  BY <1>1, <1>8 DEF DraftTips, RecordingKinds
<1>9. CASE SealTips(w)
  BY <1>1, <1>9 DEF SealTips, RecordingKinds
<1> QED
  BY <1>2, <1>3, <1>4, <1>5, <1>6, <1>7, <1>8, <1>9 DEF RecordingStep, RecordingWork

\* An idle results pass has locals of the right type.
LEMMA IdleCollecting == NotCollecting \in CollectingJob
BY DEF NotCollecting, CollectingJob, NoResults, NoTips, OptionalHorse, Time

\* A step of a results pass touches the tables one at a time.
LEMMA CollectingType ==
  ASSUME TypeOK, NEW w \in Worker, CollectingStep(w), UNCHANGED <<rec, imp>>
  PROVE  TypeOK'
<1>w. col[w] \in CollectingJob
  BY DEF TypeOK, CollectingTypeOK
<1> USE DEF TypeOK, StoreTypeOK, CollectingTypeOK
<1> SUFFICES StoreTypeOK' /\ CollectingTypeOK'
  BY DEF RecordingTypeOK, ImportTypeOK
<1>1. CASE CollectResults(w)
  <2>1. [NotCollecting EXCEPT !.pc = "fetch", !.now = clock] \in CollectingJob
    BY IdleCollecting DEF CollectingJob
  <2> QED
    BY <1>1, <2>1 DEF CollectResults, Acquire, worldVars, tableVars
<1>2. CASE FetchResults(w)
  <2>0. PICK published \in SUBSET run :
          \E fetched \in [Race -> (UNION {Versions[r] : r \in published})
                                  \cup {NoResult}] :
            /\ \A r \in Race : IF r \in published THEN fetched[r] \in Versions[r]
                               ELSE fetched[r] = NoResult
            /\ col' = [col EXCEPT ![w] = [@ EXCEPT !.pc = "save",
                                                    !.fetched = fetched]]
    BY <1>2 DEF FetchResults
  <2>1. PICK fetched \in [Race -> (UNION {Versions[r] : r \in published})
                                  \cup {NoResult}] :
          /\ \A r \in Race : IF r \in published THEN fetched[r] \in Versions[r]
                             ELSE fetched[r] = NoResult
          /\ col' = [col EXCEPT ![w] = [@ EXCEPT !.pc = "save",
                                                  !.fetched = fetched]]
    BY <2>0
  <2>2. fetched \in [Race -> Result \cup {NoResult}]
    BY <2>1, CollectionAssumption
  <2>3. [col[w] EXCEPT !.pc = "save", !.fetched = fetched] \in CollectingJob
    BY <1>w, <2>2 DEF CollectingJob
  <2> QED
    BY <1>2, <2>1, <2>3 DEF FetchResults, worldVars, tableVars
<1>3. CASE SaveResults(w)
  <2>1. results' \in [Race -> Result \cup {NoResult}]
    BY <1>w, <1>3 DEF SaveResults, FullerResult, CollectingJob
  <2>2. [col[w] EXCEPT !.pc = "load"] \in CollectingJob
    BY <1>w DEF CollectingJob
  <2> QED
    BY <1>3, <2>1, <2>2 DEF SaveResults, worldVars
<1>4. CASE LoadForIngest(w)
  <2> DEFINE fresh == Ingestable(col[w].fetched, archive)
             job == [col[w] EXCEPT
                       !.pc = IF fresh = {} THEN "waiting" ELSE "archive",
                       !.loaded = IF fresh = {} THEN {} ELSE archive \cup fresh]
  <2>1. col' = [col EXCEPT ![w] = job]
    BY <1>4 DEF LoadForIngest
  <2>2. job \in CollectingJob
    <3>1. fresh \in SUBSET Race
      BY DEF Ingestable
    <3> QED
      BY <1>w, <3>1 DEF CollectingJob
  <2> QED
    BY <1>4, <2>1, <2>2 DEF LoadForIngest, worldVars, tableVars
<1>5. CASE SaveIngested(w)
  <2>1. [col[w] EXCEPT !.pc = "waiting", !.loaded = {}] \in CollectingJob
    BY <1>w DEF CollectingJob
  <2>2. col[w].loaded \in SUBSET Race
    BY <1>w DEF CollectingJob
  <2> QED
    BY <1>5, <2>1, <2>2 DEF SaveIngested, worldVars
<1>6. CASE ReadWaiting(w)
  <2>1. WaitingRows(col[w].now) \in [Race -> Tip \cup {NoTip}]
    BY DEF WaitingRows
  <2>2. [col[w] EXCEPT !.pc = "missing", !.waiting = WaitingRows(col[w].now)]
          \in CollectingJob
    BY <1>w, <2>1 DEF CollectingJob
  <2> QED
    BY <1>6, <2>2 DEF ReadWaiting, worldVars, tableVars
<1>7. CASE ReadMissing(w)
  <2>1. MissingRows \in [Race -> Tip \cup {NoTip}]
    BY DEF MissingRows
  <2>2. [col[w] EXCEPT !.pc = "prices", !.missing = MissingRows] \in CollectingJob
    BY <1>w, <2>1 DEF CollectingJob
  <2> QED
    BY <1>7, <2>2 DEF ReadMissing, worldVars, tableVars
<1>8. CASE FetchStartingPrices(w)
  <2>1. prices' \in [Race -> PriceList]
    <3>1. PICK fresh \in [PricesWanted(w) -> PriceLists \cup {NoPrices}] :
            prices' = [r \in Race |-> IF r \in PricesWanted(w)
                                      THEN UpdatedPrices(prices[r], fresh[r])
                                      ELSE prices[r]]
      BY <1>8 DEF FetchStartingPrices
    <3>2. ASSUME NEW r \in PricesWanted(w)
          PROVE  fresh[r] \in PriceList
      BY <3>2, CollectionAssumption DEF PriceList, NoPrices, OptionalPrice
    <3>3. ASSUME NEW r \in Race, r \in PricesWanted(w)
          PROVE  UpdatedPrices(prices[r], fresh[r]) \in PriceList
      BY <3>2, <3>3 DEF UpdatedPrices, PriceList
    <3> QED
      BY <3>1, <3>3
  <2>2. PICK priced \in Swallowing(TRUE, FALSE) :
          col' = [col EXCEPT ![w] = [@ EXCEPT !.pc = "rows", !.priced = priced]]
    BY <1>8 DEF FetchStartingPrices
  <2>3. priced \in BOOLEAN
    BY <2>2 DEF Swallowing
  <2>4. [col[w] EXCEPT !.pc = "rows", !.priced = priced] \in CollectingJob
    BY <1>w, <2>3 DEF CollectingJob
  <2> QED
    BY <1>8, <2>1, <2>2, <2>4 DEF FetchStartingPrices, worldVars
<1>9. ASSUME NEW r \in Race, FillStartingPrice(w, r)
      PROVE  StoreTypeOK' /\ CollectingTypeOK'
  <2> DEFINE row == col[w].missing[r]
             filled == WithStartingPrices(row, PricesFor(w, r, row))
  <2>1. row \in Tip
    BY <1>w, <1>9 DEF FillStartingPrice, CollectingJob
  <2>2. PricesFor(w, r, row) \in PriceList
    BY DEF PricesFor, PriceList, NoPrices, OptionalPrice
  <2>3. filled \in Tip
    BY <2>1, <2>2, WithStartingPricesType
  <2>4. tips' \in [Race -> Tip \cup {NoTip}]
    BY <1>9, <2>3 DEF FillStartingPrice, SaveTip
  <2>5. [col[w] EXCEPT !.missing = [@ EXCEPT ![r] = NoTip]] \in CollectingJob
    BY <1>w DEF CollectingJob
  <2>6. col' = [col EXCEPT ![w].missing[r] = NoTip]
    BY <1>9, Zenon DEF FillStartingPrice
  <2> QED
    BY <1>9, <2>4, <2>5, <2>6 DEF FillStartingPrice, worldVars
<1>10. ASSUME NEW r \in Race, SettleRow(w, r)
       PROVE  StoreTypeOK' /\ CollectingTypeOK'
  <2> DEFINE row == col[w].waiting[r]
             settled(result) ==
               Settle(row, result, PricesFor(w, r, row), FALSE, col[w].now)
             left == [col[w].waiting EXCEPT ![r] = NoTip]
  <2>1. row \in Tip
    BY <1>w, <1>10 DEF SettleRow, CollectingJob
  <2>2. PricesFor(w, r, row) \in PriceList
    BY DEF PricesFor, PriceList, NoPrices, OptionalPrice
  <2>3. PICK result \in ResultsFor(w, r) :
          /\ tips' = [tips EXCEPT ![r] = settled(result)]
          /\ \/ /\ IsSettled(settled(result)) /\ result.winners # {}
                /\ \E h \in result.winners :
                     col' = [col EXCEPT ![w] = [@ EXCEPT !.pc = "winner",
                               !.race = r, !.winner = h, !.waiting = left]]
             \/ col' = [col EXCEPT ![w] = [@ EXCEPT !.waiting = left]]
    BY <1>10 DEF SettleRow, SaveTip
  <2>4. result \in Result \cup {NoResult}
    BY <1>w DEF ResultsFor, Swallowing, CollectingJob
  <2>5. settled(result) \in Tip
    BY <1>w, <2>1, <2>2, <2>4, SettleType DEF CollectingJob
  <2>6. left \in [Race -> Tip \cup {NoTip}]
    BY <1>w DEF CollectingJob
  <2>7. CollectingTypeOK'
    <3>1. CASE col' = [col EXCEPT ![w] = [@ EXCEPT !.waiting = left]]
      <4>1. [col[w] EXCEPT !.waiting = left] \in CollectingJob
        BY <1>w, <2>6 DEF CollectingJob
      <4> QED
        BY <3>1, <4>1
    <3>2. ASSUME NEW h \in result.winners, IsSettled(settled(result)),
                 col' = [col EXCEPT ![w] = [@ EXCEPT !.pc = "winner",
                           !.race = r, !.winner = h, !.waiting = left]]
          PROVE  CollectingTypeOK'
      <4>1. result \in Result
        <5>1. CASE result = NoResult
          <6>1. settled(result).outcome.kind \notin SettledKinds
            BY <2>1, <5>1 DEF Settle, SettledOutcome, FieldKnown, SettledKinds,
               GiveUpOrKeepTrying, Closed, Unresolved, Tip, TipFields
          <6> QED
            BY <3>2, <6>1 DEF IsSettled
        <5> QED
          BY <2>4, <5>1
      <4>2. h \in OptionalHorse
        BY <4>1 DEF Result, OptionalHorse
      <4>3. [col[w] EXCEPT !.pc = "winner", !.race = r, !.winner = h,
                           !.waiting = left] \in CollectingJob
        BY <1>w, <2>6, <4>2 DEF CollectingJob
      <4> QED
        BY <3>2, <4>3
    <3> QED
      BY <2>3, <3>1, <3>2
  <2> QED
    BY <1>10, <2>3, <2>5, <2>7 DEF SettleRow, worldVars
<1>11. CASE SetTrainingWinner(w)
  <2>1. samples' \in [Race -> Sample]
    <3> DEFINE r == col[w].race
               sample == WithWinner(samples[r], col[w].winner)
    <3>1. samples' = [samples EXCEPT ![r] = sample]
      BY <1>11 DEF SetTrainingWinner
    <3>2. ASSUME r \in Race PROVE sample \in Sample
      BY <1>w, <3>2 DEF WithWinner, Sample, CollectingJob
    <3> QED
      BY <3>1, <3>2
  <2>2. [col[w] EXCEPT !.pc = "rows", !.race = NoRace, !.winner = NoHorse]
          \in CollectingJob
    BY <1>w DEF CollectingJob, OptionalHorse
  <2> QED
    BY <1>11, <2>1, <2>2 DEF SetTrainingWinner, worldVars
<1>12. CASE FinishCollecting(w)
  BY <1>12, IdleCollecting DEF FinishCollecting, Release, worldVars, tableVars
<1>13. CASE AbortCollecting(w)
  BY <1>13, IdleCollecting DEF AbortCollecting, Release, worldVars, tableVars
<1> QED
  BY <1>1, <1>2, <1>3, <1>4, <1>5, <1>6, <1>7, <1>8, <1>9, <1>10, <1>11, <1>12,
     <1>13 DEF CollectingStep, CollectingWork

\* Merging an uploaded tip (importer.prefer) gives a tip or none.
LEMMA MergedTipType ==
  ASSUME NEW incoming \in Tip \cup {NoTip}, NEW current \in Tip \cup {NoTip}
  PROVE  MergedTip(incoming, current) \in Tip \cup {NoTip}
BY DEF MergedTip

\* An import that is not running has locals of the right type.
LEMMA IdleImporting == NotImporting \in Importing
BY DEF NotImporting, Importing

\* Steps of an import keep the type invariant.
LEMMA ImportType ==
  ASSUME TypeOK, ImportStep, UNCHANGED <<rec, col>>
  PROVE  TypeOK'
<1> USE DEF TypeOK, StoreTypeOK, ImportTypeOK
<1> SUFFICES StoreTypeOK' /\ ImportTypeOK'
  BY DEF RecordingTypeOK, CollectingTypeOK
<1>1. ASSUME NEW u \in Uploads, ImportTips(u)
      PROVE  StoreTypeOK' /\ ImportTypeOK'
  <2>1. u \in Upload
    BY UploadsAssumption
  <2>2. tips' \in [Race -> Tip \cup {NoTip}]
    <3>1. ASSUME NEW r \in Race
          PROVE  MergedTip(u.tips[r], tips[r]) \in Tip \cup {NoTip}
      BY <2>1, MergedTipType DEF Upload
    <3> QED
      BY <1>1, <3>1 DEF ImportTips, MergedTips
  <2>3. [NotImporting EXCEPT !.pc = "load", !.upload = u,
                             !.left = SampledRaces(u)] \in Importing
    BY IdleImporting DEF Importing, SampledRaces
  <2> QED
    BY <1>1, <2>2, <2>3 DEF ImportTips, worldVars
<1>2. ASSUME NEW d \in Device, LoadArchive(d)
      PROVE  StoreTypeOK' /\ ImportTypeOK'
  <2>1. [imp[d] EXCEPT !.pc = "save", !.loaded = archive] \in Importing
    BY DEF Importing
  <2> QED
    BY <1>2, <2>1 DEF LoadArchive, worldVars, tableVars
<1>3. ASSUME NEW d \in Device, SaveArchive(d)
      PROVE  StoreTypeOK' /\ ImportTypeOK'
  <2>1. [imp[d] EXCEPT !.pc = "samples", !.loaded = {}] \in Importing
    BY DEF Importing
  <2>2. archive' \in SUBSET Race
    <3>1. imp[d].loaded \in SUBSET Race /\ imp[d].upload.archive \in SUBSET Race
      BY UploadsAssumption DEF Importing, Upload, NoUpload
    <3> QED
      BY <1>3, <3>1 DEF SaveArchive, MergedArchive
  <2> QED
    BY <1>3, <2>1, <2>2 DEF SaveArchive, worldVars
<1>4. ASSUME NEW d \in Device, NEW r \in Race, ImportSample(d, r)
      PROVE  StoreTypeOK' /\ ImportTypeOK'
  <2>1. [imp[d] EXCEPT !.left = @ \ {r}] \in Importing
    BY DEF Importing
  <2>2. imp[d].upload.samples[r] \in Sample
    <3>1. NoSample \in Sample
      BY DEF NoSample, Sample, Source, OptionalTime, OptionalHorse
    <3>2. imp[d].upload \in Upload \/ imp[d].upload = NoUpload
      BY UploadsAssumption DEF Importing
    <3> QED
      BY <3>1, <3>2 DEF Upload, NoUpload
  <2> QED
    BY <1>4, <2>1, <2>2 DEF ImportSample, worldVars
<1>5. ASSUME NEW d \in Device, EndImport(d)
      PROVE  StoreTypeOK' /\ ImportTypeOK'
  BY <1>5, IdleImporting DEF EndImport, worldVars, tableVars
<1> QED
  BY <1>1, <1>2, <1>3, <1>4, <1>5 DEF ImportStep

\* A crash keeps the type invariant.
LEMMA CrashType ==
  ASSUME TypeOK, Crash
  PROVE  TypeOK'
BY IdleRecording, IdleCollecting, IdleImporting DEF Crash, TypeOK, StoreTypeOK,
     RecordingTypeOK, CollectingTypeOK, ImportTypeOK, worldVars, tableVars

\* The initial state is typed.
LEMMA InitType == Init => TypeOK
<1>1. Init => StoreTypeOK
  <2>1. NoCard \in Card /\ NoSnapshots \in Snapshots
    BY DEF NoCard, Card, NoSnapshots, Snapshots, OptionalTime
  <2>2. NoSample \in Sample
    BY DEF NoSample, Sample, Source, OptionalTime, OptionalHorse
  <2>3. NoPrices \in PriceList
    BY DEF NoPrices, PriceList, OptionalPrice
  <2>4. Init => offs \in [Race -> OptionalTime]
    BY StoreAssumption DEF Init, StoreInit
  <2> QED
    BY <2>1, <2>2, <2>3, <2>4 DEF Init, StoreInit, StoreTypeOK, Time
<1> QED
  BY <1>1, IdleRecording, IdleCollecting, IdleImporting DEF Init, RecordingInit,
     CollectingInit, ImportInit, TypeOK, RecordingTypeOK, CollectingTypeOK,
     ImportTypeOK

\* Every step keeps the type invariant.
LEMMA StepType ==
  ASSUME TypeOK, [Next]_vars
  PROVE  TypeOK'
<1>1. CASE UNCHANGED vars
  BY <1>1 DEF vars, storeVars, TypeOK, StoreTypeOK, RecordingTypeOK,
     CollectingTypeOK, ImportTypeOK
<1> QED
  BY <1>1, WorldType, RecordingType, CollectingType, ImportType, CrashType DEF Next

\* Every table, and every local of every job and import, keeps its type.
THEOREM TypeCorrect == Spec => []TypeOK
<1>1. Init => TypeOK
  BY InitType
<1>2. TypeOK /\ [Next]_vars => TypeOK'
  BY StepType
<1> QED
  BY <1>1, <1>2, PTL DEF Spec

-----------------------------------------------------------------------------
(* Two ledgers uploaded in turn. *)

\* The choice between two copies orders them: what one copy has not beaten, another
\* that beats it is not beaten by either.
LEMMA PreferIsAnOrder ==
  ASSUME NEW a \in Tip, NEW b \in Tip, NEW c \in Tip,
         ~Prefer(a, b), Prefer(c, b)
  PROVE  ~Prefer(a, c)
<1>1. \A tip \in {a, b, c} : tip.createdAt \in Int /\ tip.sealedAt \in Int
  BY DEF Tip, TipFields, OptionalTime, Time, NoTime
<1>2. b.source # "server"
  BY DEF Prefer
<1> QED BY <1>1, <1>2 DEF Prefer, KnowsMore, IsSealed, NoTime

LEMMA PreferIsStrict ==
  ASSUME NEW a \in Tip
  PROVE  ~Prefer(a, a)
<1>1. a.createdAt \in Int /\ a.sealedAt \in Int
  BY DEF Tip, TipFields, OptionalTime, Time, NoTime
<1> QED BY <1>1 DEF Prefer, KnowsMore

\* After v's copy has met what u's left, u's has nothing to add.
LEMMA MergeSettles ==
  ASSUME NEW kept \in Tip \cup {NoTip},
         NEW first \in Tip \cup {NoTip}, NEW second \in Tip \cup {NoTip}
  PROVE  LET both == MergedTip(second, MergedTip(first, kept))
         IN  MergedTip(first, both) = both
<1> DEFINE one == MergedTip(first, kept)
           both == MergedTip(second, one)
<1>1. CASE first = NoTip
  BY <1>1 DEF MergedTip
<1>2. CASE first # NoTip
  <2>1. one \in Tip /\ one # NoTip /\ ~Prefer(first, one)
    BY <1>2, PreferIsStrict, AbsentRowsAssumption DEF MergedTip
  <2> HIDE DEF one
  <2>2. both \in Tip /\ both # NoTip /\ ~Prefer(first, both)
    BY <1>2, <2>1, PreferIsAnOrder, AbsentRowsAssumption DEF MergedTip
  <2> HIDE DEF both
  <2>3. MergedTip(first, both) = both
    BY <2>2 DEF MergedTip
  <2> QED BY <2>3 DEF both, one
<1> QED BY <1>1, <1>2

\* Uploading a ledger again after another one changes no tip, whatever the tips in
\* the table are and have been.  (importer.go, prefer; Summary: "A repeat upload
\* reports zeros".)
THEOREM AlternatingUploadsAreStable == Spec => []AlternatingUploadsSettle
<1>1. TypeOK => AlternatingUploadsSettle
  BY MergeSettles, UploadsAssumption DEF TypeOK, StoreTypeOK, Upload,
     AlternatingUploadsSettle
<1> QED
  BY <1>1, TypeCorrect, PTL
=============================================================================
