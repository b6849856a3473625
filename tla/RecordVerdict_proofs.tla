-------------------------- MODULE RecordVerdict_proofs --------------------------
(***************************************************************************)
(* Proofs that the verdict on a sealed tip is the one of the stored        *)
(* result, and that what is settled reaches the training samples, for      *)
(* every value of the constants under the conditions each theorem names.   *)
(***************************************************************************)
EXTENDS RecordFinality_proofs, FiniteSetTheorems

-----------------------------------------------------------------------------
(* Results. *)

\* A stored or fetched result is one the provider published for the race.
ResultsArePublished ==
  \A r \in Race :
    /\ results[r] \in Versions[r] \cup {NoResult}
    /\ \A w \in Worker : col[w].fetched[r] \in Versions[r] \cup {NoResult}

\* A pass settles from a whole field only after a whole field has been stored.
WholeFieldsAreStored ==
  \A w \in Worker, r \in Race :
    col[w].pc \notin {"idle", "fetch", "save"} /\ FieldKnown(col[w].fetched[r]) =>
      FieldKnown(results[r])

\* What SaveResults leaves in the table, given the answer for the race.
Stored(stored, fetched) ==
  IF fetched = NoResult THEN stored ELSE FullerResult(stored, fetched)

\* A short answer never takes the place of a whole field, and a whole field always
\* leaves one.  (store.SaveResults.)
LEMMA WholeFieldsStay ==
  ASSUME NEW r \in Race,
         NEW stored \in Versions[r] \cup {NoResult},
         NEW fetched \in Versions[r] \cup {NoResult}
  PROVE  /\ Stored(stored, fetched) \in Versions[r] \cup {NoResult}
         /\ FieldKnown(stored) \/ FieldKnown(fetched) => FieldKnown(Stored(stored, fetched))
<1>1. \A version \in Versions[r] : Cardinality(version.finishers) \in Nat
  BY CollectionAssumption, FS_CardinalityType
<1> QED
  BY <1>1 DEF Stored, FullerResult, FieldKnown

\* A step of a pass writes results in one place, and after that keeps its answer.
LEMMA CollectingResults ==
  ASSUME TypeOK, NEW w \in Worker, CollectingStep(w)
  PROVE  /\ \A v \in Worker \ {w} : col'[v] = col[v]
         /\ \/ /\ col[w].pc = "save" /\ col'[w].fetched = col[w].fetched
               /\ \A r \in Race : results'[r] = Stored(results[r], col[w].fetched[r])
            \/ /\ UNCHANGED results
               /\ \/ col'[w].pc \in {"idle", "fetch"} /\ col'[w].fetched = NoResults
                  \/ /\ col'[w].pc = "save"
                     /\ \A r \in Race :
                          col'[w].fetched[r] \in Versions[r] \cup {NoResult}
                  \/ /\ col[w].pc \notin {"idle", "fetch", "save"}
                     /\ col'[w].fetched = col[w].fetched
<1>w. col[w] \in CollectingJob
  BY DEF TypeOK, CollectingTypeOK
<1> USE DEF TypeOK, CollectingTypeOK
<1>1. CASE CollectResults(w) \/ FinishCollecting(w) \/ AbortCollecting(w)
  <2>1. UNCHANGED results /\ \A v \in Worker \ {w} : col'[v] = col[v]
    BY <1>1 DEF CollectResults, FinishCollecting, AbortCollecting, tableVars
  <2>2. col'[w].pc \in {"idle", "fetch"} /\ col'[w].fetched = NoResults
    <3>1. \/ col'[w] = NotCollecting
          \/ col'[w] = [NotCollecting EXCEPT !.pc = "fetch", !.now = clock]
      BY <1>1 DEF CollectResults, FinishCollecting, AbortCollecting
    <3>2. /\ NotCollecting.pc = "idle" /\ NotCollecting.fetched = NoResults
          /\ [NotCollecting EXCEPT !.pc = "fetch", !.now = clock].pc = "fetch"
          /\ [NotCollecting EXCEPT !.pc = "fetch", !.now = clock].fetched = NoResults
      BY DEF NotCollecting
    <3> QED
      BY <3>1, <3>2
  <2> QED
    BY <2>1, <2>2
<1>2. CASE FetchResults(w)
  <2>0. PICK published \in SUBSET run :
          \E fetched \in [Race -> (UNION {Versions[r] : r \in published})
                                  \cup {NoResult}] :
            /\ \A r \in Race : IF r \in published THEN fetched[r] \in Versions[r]
                               ELSE fetched[r] = NoResult
            /\ col' = [col EXCEPT ![w] = [@ EXCEPT !.pc = "save",
                                                    !.fetched = fetched]]
    BY <1>2 DEF FetchResults
  <2>1. PICK fetched :
          /\ \A r \in Race : fetched[r] \in Versions[r] \cup {NoResult}
          /\ col' = [col EXCEPT ![w] = [@ EXCEPT !.pc = "save", !.fetched = fetched]]
    BY <2>0
  <2>2. col'[w].pc = "save" /\ col'[w].fetched = fetched
    BY <1>w, <2>1 DEF CollectingJob
  <2>3. UNCHANGED results /\ \A v \in Worker \ {w} : col'[v] = col[v]
    BY <1>2, <2>1 DEF FetchResults, tableVars
  <2> QED
    BY <2>1, <2>2, <2>3
<1>3. CASE SaveResults(w)
  <2>1. /\ col[w].pc = "save" /\ col'[w].fetched = col[w].fetched
        /\ \A v \in Worker \ {w} : col'[v] = col[v]
    BY <1>w, <1>3 DEF SaveResults, CollectingJob
  <2>2. \A r \in Race : results'[r] = Stored(results[r], col[w].fetched[r])
    BY <1>3 DEF SaveResults, Stored
  <2> QED
    BY <2>1, <2>2
<1>4. CASE \/ LoadForIngest(w) \/ SaveIngested(w) \/ ReadWaiting(w) \/ ReadMissing(w)
           \/ FetchStartingPrices(w) \/ SetTrainingWinner(w)
  <2>1. UNCHANGED results /\ col[w].pc \notin {"idle", "fetch", "save"}
    BY <1>4 DEF LoadForIngest, SaveIngested, ReadWaiting, ReadMissing,
       FetchStartingPrices, SetTrainingWinner, tableVars
  <2>2. col'[w].fetched = col[w].fetched /\ \A v \in Worker \ {w} : col'[v] = col[v]
    <3>1. CASE LoadForIngest(w)
      BY <1>w, <3>1 DEF LoadForIngest, CollectingJob
    <3>2. CASE SaveIngested(w)
      BY <1>w, <3>2 DEF SaveIngested, CollectingJob
    <3>3. CASE ReadWaiting(w)
      BY <1>w, <3>3 DEF ReadWaiting, CollectingJob
    <3>4. CASE ReadMissing(w)
      BY <1>w, <3>4 DEF ReadMissing, CollectingJob
    <3>5. CASE FetchStartingPrices(w)
      BY <1>w, <3>5 DEF FetchStartingPrices, CollectingJob
    <3>6. CASE SetTrainingWinner(w)
      BY <1>w, <3>6 DEF SetTrainingWinner, CollectingJob
    <3> QED
      BY <1>4, <3>1, <3>2, <3>3, <3>4, <3>5, <3>6
  <2> QED
    BY <2>1, <2>2
<1>5. ASSUME NEW r \in Race, FillStartingPrice(w, r) \/ SettleRow(w, r)
      PROVE  /\ UNCHANGED results /\ col[w].pc = "rows"
             /\ col'[w].fetched = col[w].fetched
             /\ \A v \in Worker \ {w} : col'[v] = col[v]
  <2>1. UNCHANGED results /\ col[w].pc = "rows"
    BY <1>5 DEF FillStartingPrice, SettleRow
  <2>2. CASE FillStartingPrice(w, r)
    <3>1. col' = [col EXCEPT ![w] = [@ EXCEPT
                    !.missing = [col[w].missing EXCEPT ![r] = NoTip]]]
      BY <2>2, Zenon DEF FillStartingPrice
    <3> QED
      BY <1>w, <2>1, <3>1 DEF CollectingJob
  <2>3. CASE SettleRow(w, r)
    <3> DEFINE left == [col[w].waiting EXCEPT ![r] = NoTip]
    <3>1. \/ col' = [col EXCEPT ![w] = [@ EXCEPT !.waiting = left]]
          \/ \E h : col' = [col EXCEPT ![w] = [@ EXCEPT !.pc = "winner", !.race = r,
                                                !.winner = h, !.waiting = left]]
      BY <2>3, Zenon DEF SettleRow
    <3> HIDE DEF left
    <3>2. CASE col' = [col EXCEPT ![w] = [@ EXCEPT !.waiting = left]]
      BY <1>w, <2>1, <3>2 DEF CollectingJob
    <3>3. ASSUME NEW h,
                 col' = [col EXCEPT ![w] = [@ EXCEPT !.pc = "winner", !.race = r,
                                             !.winner = h, !.waiting = left]]
          PROVE  /\ col'[w].fetched = col[w].fetched
                 /\ \A v \in Worker \ {w} : col'[v] = col[v]
      BY <1>w, <3>3 DEF CollectingJob
    <3> QED
      BY <2>1, <3>1, <3>2, <3>3
  <2> QED
    BY <1>5, <2>2, <2>3
<1> QED
  BY <1>1, <1>2, <1>3, <1>4, <1>5 DEF CollectingStep, CollectingWork

\* Every step keeps the origin of results, and no step loses a whole field.
LEMMA ResultsStep ==
  ASSUME TypeOK, ResultsArePublished, WholeFieldsAreStored, [Next]_vars
  PROVE  /\ ResultsArePublished' /\ WholeFieldsAreStored'
         /\ \A r \in Race : FieldKnown(results[r]) => FieldKnown(results'[r])
<1>1. CASE UNCHANGED <<results, col>>
  BY <1>1 DEF ResultsArePublished, WholeFieldsAreStored
<1>2. CASE Crash
  <2>1. UNCHANGED results /\ \A w \in Worker : col'[w] = NotCollecting
    BY <1>2 DEF Crash, tableVars
  <2>2. /\ NotCollecting.pc = "idle"
        /\ \A r \in Race : NotCollecting.fetched[r] = NoResult
    BY DEF NotCollecting, NoResults
  <2> QED
    BY <2>1, <2>2 DEF ResultsArePublished, WholeFieldsAreStored
<1>3. ASSUME NEW w \in Worker, CollectingStep(w)
      PROVE  /\ ResultsArePublished' /\ WholeFieldsAreStored'
             /\ \A r \in Race : FieldKnown(results[r]) => FieldKnown(results'[r])
  <2>0. \A v \in Worker \ {w} : col'[v] = col[v]
    BY <1>3, CollectingResults
  <2>1. CASE /\ col[w].pc = "save" /\ col'[w].fetched = col[w].fetched
             /\ \A r \in Race : results'[r] = Stored(results[r], col[w].fetched[r])
    <3>1. ASSUME NEW r \in Race
          PROVE  /\ results'[r] \in Versions[r] \cup {NoResult}
                 /\ FieldKnown(results[r]) => FieldKnown(results'[r])
                 /\ FieldKnown(col[w].fetched[r]) => FieldKnown(results'[r])
      <4>1. /\ results[r] \in Versions[r] \cup {NoResult}
            /\ col[w].fetched[r] \in Versions[r] \cup {NoResult}
        BY DEF ResultsArePublished
      <4> QED
        BY <2>1, <4>1, WholeFieldsStay
    <3> QED
      BY <2>0, <2>1, <3>1 DEF ResultsArePublished, WholeFieldsAreStored
  <2>2. CASE /\ UNCHANGED results
             /\ col'[w].pc \in {"idle", "fetch"} /\ col'[w].fetched = NoResults
    <3>1. \A r \in Race : NoResults[r] = NoResult
      BY DEF NoResults
    <3> QED
      BY <2>0, <2>2, <3>1 DEF ResultsArePublished, WholeFieldsAreStored
  <2>3. CASE /\ UNCHANGED results /\ col'[w].pc = "save"
             /\ \A r \in Race : col'[w].fetched[r] \in Versions[r] \cup {NoResult}
    BY <2>0, <2>3 DEF ResultsArePublished, WholeFieldsAreStored
  <2>4. CASE /\ UNCHANGED results /\ col[w].pc \notin {"idle", "fetch", "save"}
             /\ col'[w].fetched = col[w].fetched
    BY <2>0, <2>4 DEF ResultsArePublished, WholeFieldsAreStored
  <2> QED
    BY <1>3, <2>1, <2>2, <2>3, <2>4, CollectingResults
<1>4. \/ UNCHANGED <<results, col>>
      \/ Crash
      \/ \E w \in Worker : CollectingStep(w)
  BY DEF Next, WorldNext, Tick, RunRace, RefreshCard, RecordingStep, RecordingWork,
     DraftTips, SealTips, StartRecording, FetchPrices, AssessRace, StoreDraft,
     StoreSealed, StoreSample, AbortRecording, ImportStep, ImportTips, LoadArchive,
     SaveArchive, ImportSample, EndImport, tableVars, vars, storeVars
<1> QED
  BY <1>1, <1>2, <1>3, <1>4

-----------------------------------------------------------------------------
(* Verdicts. *)

\* Whole results of a race agree on who ran and who won: the provider may answer
\* short and late and in any order, and differ in its prices, but a result that has
\* settled a tip is not amended.
WholeFieldsAgree ==
  \A r \in Race : \A a, b \in Versions[r] :
    FieldKnown(a) /\ FieldKnown(b) =>
      a.finishers = b.finishers /\ a.winners = b.winners

\* Only SettleRow takes a row of a server seal out of waiting.
LEMMA OnlySettleRowSettles ==
  ASSUME TypeOK, JobInv, NEW r \in Race, [Next]_vars,
         ServerSealed(tips[r]), tips[r].outcome.kind \in WaitingKinds
  PROVE  tips'[r] = tips[r] \/ \E w \in Worker : SettleRow(w, r)
<1>t. tips \in [Race -> Tip \cup {NoTip}]
  BY DEF TypeOK, StoreTypeOK
<1>1. CASE UNCHANGED tips
  BY <1>1
<1>2. ASSUME NEW w \in Worker, StoreDraft(w) \/ StoreSealed(w) PROVE tips'[r] = tips[r]
  <2>1. rec[w].race # r
    BY <1>2 DEF StoreDraft, StoreSealed, JobInv, DecisionStands
  <2>2. tips' = [tips EXCEPT ![rec[w].race] = rec[w].tip]
    BY <1>2 DEF StoreDraft, StoreSealed, SaveSealedTip, SaveTip
  <2> QED
    BY <1>t, <2>1, <2>2
<1>3. ASSUME NEW w \in Worker, NEW s \in Race, FillStartingPrice(w, s)
      PROVE  tips'[r] = tips[r]
  <2>1. CASE s = r
    <3>1. col[w].missing[r] # NoTip
      BY <1>3, <2>1 DEF FillStartingPrice
    <3>2. col[w].missing[r] = tips[r] /\ IsSettled(col[w].missing[r])
      BY <3>1 DEF JobInv, RowsAreFresh, RowsRead
    <3> QED
      BY <3>2 DEF IsSettled, SettledKinds, WaitingKinds
  <2>2. CASE s # r
    BY <1>t, <1>3, <2>2 DEF FillStartingPrice, SaveTip
  <2> QED
    BY <2>1, <2>2
<1>4. ASSUME NEW w \in Worker, NEW s \in Race, SettleRow(w, s), s # r
      PROVE  tips'[r] = tips[r]
  BY <1>t, <1>4 DEF SettleRow, SaveTip
<1>5. ASSUME NEW u \in Uploads, ImportTips(u) PROVE tips'[r] = tips[r]
  BY <1>5, ImportKeeps DEF ImportTips, MergedTips
<1>6. ASSUME NEW w \in Worker, RecordingStep(w)
      PROVE  UNCHANGED tips \/ StoreDraft(w) \/ StoreSealed(w)
  BY <1>6 DEF RecordingStep, RecordingWork, DraftTips, SealTips, StartRecording,
     FetchPrices, AssessRace, StoreSample, AbortRecording, tableVars
<1>7. ASSUME NEW w \in Worker, CollectingStep(w)
      PROVE  \/ UNCHANGED tips
             \/ \E s \in Race : FillStartingPrice(w, s) \/ SettleRow(w, s)
  BY <1>7 DEF CollectingStep, CollectingWork, CollectResults, FetchResults,
     SaveResults, LoadForIngest, SaveIngested, ReadWaiting, ReadMissing,
     FetchStartingPrices, SetTrainingWinner, FinishCollecting, AbortCollecting,
     tableVars
<1>8. CASE WorldNext \/ Crash \/ UNCHANGED vars
  BY <1>1, <1>8 DEF WorldNext, Tick, RunRace, RefreshCard, Crash, vars, storeVars,
     tableVars
<1>9. CASE ImportStep
  BY <1>1, <1>5, <1>9 DEF ImportStep, LoadArchive, SaveArchive, ImportSample,
     EndImport, tableVars
<1> QED
  BY <1>1, <1>2, <1>3, <1>4, <1>6, <1>7, <1>8, <1>9 DEF Next

\* What is closed stays as it was closed.
LEMMA VerdictsStay ==
  ASSUME TypeOK, RowStep, NEW r \in Race, ServerSealed(tips[r]),
         tips[r].outcome.kind \notin WaitingKinds
  PROVE  tips'[r].outcome.kind = tips[r].outcome.kind
<1>1. CASE tips'[r] = tips[r]
  BY <1>1
<1>2. CASE IsNowFilled(r)
  <2>1. tips[r] \in Tip
    BY DEF TypeOK, StoreTypeOK, ServerSealed
  <2> QED
    BY <1>2, <2>1, FillKeeps DEF IsNowFilled
<1>3. ~IsNowSettled(r) /\ ~IsNowSealed(r)
  BY DEF IsNowSettled, IsNowSealed
<1> QED
  BY <1>1, <1>2, <1>3 DEF RowStep, IsNowSealed, IsNowFilled, IsNowSettled,
     OthersUntouched, Untouched

\* A final row of a server seal was final before, with the same verdict, or has just
\* been settled from the row in the table.
LEMMA FinalRows ==
  ASSUME IInv, NEW r \in Race, [Next]_vars, ServerSealed(tips'[r]), IsFinal(tips'[r])
  PROVE  \/ /\ ServerSealed(tips[r]) /\ IsFinal(tips[r])
            /\ tips'[r].pick = tips[r].pick
            /\ tips'[r].outcome.kind = tips[r].outcome.kind
         \/ /\ ServerSealed(tips[r]) /\ tips[r].outcome.kind \in WaitingKinds
            /\ \E w \in Worker : SettleRow(w, r)
<1>0. TypeOK /\ JobInv /\ SealHasItsCard /\ PricedOnceSettled
  BY DEF IInv, TableInv
<1>1. RowStep
  BY <1>0, StepRows
<1>2. ServerSealed(tips[r])
  <2> SUFFICES ASSUME ~ServerSealed(tips[r]) PROVE FALSE
    OBVIOUS
  <2>1. IsNowSealed(r)
    BY <1>0, <1>1, SealsAppear
  <2> QED
    BY <2>1 DEF IsNowSealed, IsFinal, Pending, FinalKinds, SettledKinds, VoidKinds
<1>3. tips'[r].pick = tips[r].pick
  <2>1. Prediction(tips'[r]) = Prediction(tips[r])
    BY <1>0, <1>1, <1>2, SealsStay
  <2> QED
    BY <2>1 DEF Prediction
<1>4. CASE tips[r].outcome.kind \in WaitingKinds
  <2>1. tips'[r] # tips[r]
    BY <1>4 DEF WaitingKinds, IsFinal, FinalKinds, SettledKinds, VoidKinds
  <2> QED
    BY <1>0, <1>2, <1>4, <2>1, OnlySettleRowSettles
<1>5. CASE tips[r].outcome.kind \notin WaitingKinds
  <2>1. tips'[r].outcome.kind = tips[r].outcome.kind
    BY <1>0, <1>1, <1>2, <1>5, VerdictsStay
  <2> QED
    BY <1>2, <1>3, <2>1 DEF IsFinal
<1> QED
  BY <1>4, <1>5

\* What SettleRow makes of a row of a server seal: the outcome of a published
\* result, and, when that is final, of a whole field.
LEMMA SettledFrom ==
  ASSUME IInv, ResultsArePublished, NEW w \in Worker, NEW r \in Race, SettleRow(w, r),
         ServerSealed(tips[r])
  PROVE  \E result \in (Versions[r] \cup {NoResult}) \cap {col[w].fetched[r], results[r], NoResult},
            found \in PriceList :
           /\ tips'[r].outcome = SettledOutcome(tips[r], result, found, col[w].now)
           /\ IsFinal(tips'[r]) => FieldKnown(result)
           /\ IsSettled(tips'[r]) /\ result.winners # {} =>
                /\ col'[w].pc = "winner" /\ col'[w].race = r
                /\ col'[w].winner \in result.winners
           /\ col'[w].pc = "winner" => IsSettled(tips'[r]) /\ result.winners # {}
<1>w. col[w] \in CollectingJob /\ tips \in [Race -> Tip \cup {NoTip}]
  BY DEF IInv, TypeOK, StoreTypeOK, CollectingTypeOK
<1> DEFINE row == tips[r]
           found == PricesFor(w, r, row)
           settled(result) == Settle(row, result, found, FALSE, col[w].now)
           left == [col[w].waiting EXCEPT ![r] = NoTip]
<1>1. col[w].waiting[r] = row
  BY DEF SettleRow, IInv, JobInv, RowsAreFresh
<1>2. found \in PriceList
  BY DEF PricesFor, PriceList, NoPrices, OptionalPrice, IInv, TypeOK, StoreTypeOK
<1>3. PICK result \in ResultsFor(w, r) :
        /\ tips' = [tips EXCEPT ![r] = settled(result)]
        /\ IF IsSettled(settled(result)) /\ result.winners # {}
           THEN \E h \in result.winners :
                  col' = [col EXCEPT ![w] = [@ EXCEPT !.pc = "winner",
                            !.race = r, !.winner = h, !.waiting = left]]
           ELSE col' = [col EXCEPT ![w].waiting = left]
  BY <1>1 DEF SettleRow, SaveTip
<1>4. result \in {col[w].fetched[r], results[r], NoResult}
  BY DEF ResultsFor, Swallowing
<1>5. result \in Versions[r] \cup {NoResult}
  BY <1>4 DEF ResultsArePublished
<1> HIDE DEF found
<1>6. tips'[r] = settled(result)
  BY <1>w, <1>3
<1>7. tips'[r].outcome = SettledOutcome(row, result, found, col[w].now)
  <2>1. row \in Tip
    BY <1>w DEF ServerSealed
  <2> QED
    BY <1>6, <2>1 DEF Settle, Tip, TipFields
<1>8. IsFinal(tips'[r]) => FieldKnown(result)
  BY <1>7 DEF SettledOutcome, GiveUpOrKeepTrying, Closed, Unresolved, IsFinal, FinalKinds,
     SettledKinds, VoidKinds
<1>9. ASSUME IsSettled(tips'[r]), result.winners # {}
      PROVE  /\ col'[w].pc = "winner" /\ col'[w].race = r
             /\ col'[w].winner \in result.winners
  <2> HIDE DEF left, settled
  <2>1. PICK h \in result.winners :
          col' = [col EXCEPT ![w] = [@ EXCEPT !.pc = "winner",
                    !.race = r, !.winner = h, !.waiting = left]]
    BY <1>3, <1>6, <1>9
  <2> QED
    BY <1>w, <2>1 DEF CollectingJob, IInv, TypeOK, CollectingTypeOK
<1>10. ASSUME col'[w].pc = "winner"
       PROVE  IsSettled(tips'[r]) /\ result.winners # {}
  <2> SUFFICES ASSUME ~(IsSettled(tips'[r]) /\ result.winners # {}) PROVE FALSE
    OBVIOUS
  <2>0. col[w].pc = "rows"
    BY DEF SettleRow
  <2> HIDE DEF left, settled
  <2>1. col' = [col EXCEPT ![w].waiting = left]
    BY <1>3, <1>6
  <2>2. col'[w].pc = col[w].pc
    BY <1>w, <2>1 DEF CollectingJob, IInv, TypeOK, CollectingTypeOK
  <2> QED
    BY <1>10, <2>0, <2>2
<1> QED
  BY <1>2, <1>4, <1>5, <1>7, <1>8, <1>9, <1>10

\* The verdict a whole field gives on a pick.
VerdictOf(pick, result) ==
  IF pick \in result.winners THEN "won"
  ELSE IF pick \in result.finishers THEN "lost" ELSE "nonRunner"

\* A step that gives a verdict gives the one of the whole field stored, and no other
\* step moves the verdict or the field.
LEMMA VerdictSteps ==
  ASSUME WholeFieldsAgree, IInv, ResultsArePublished, WholeFieldsAreStored,
         VerdictMatchesResult, [Next]_vars
  PROVE  VerdictMatchesResult'
<1>0. /\ ResultsArePublished' /\ WholeFieldsAreStored'
      /\ \A r \in Race : FieldKnown(results[r]) => FieldKnown(results'[r])
  BY ResultsStep DEF IInv
<1> SUFFICES ASSUME NEW r \in Race, ServerSealed(tips'[r]), IsFinal(tips'[r])
             PROVE  /\ FieldKnown(results'[r])
                    /\ tips'[r].outcome.kind = VerdictOf(tips'[r].pick, results'[r])
  BY DEF VerdictMatchesResult, VerdictOf
<1>1. CASE /\ ServerSealed(tips[r]) /\ IsFinal(tips[r])
           /\ tips'[r].pick = tips[r].pick
           /\ tips'[r].outcome.kind = tips[r].outcome.kind
  <2>1. /\ FieldKnown(results[r])
        /\ tips[r].outcome.kind = VerdictOf(tips[r].pick, results[r])
    BY <1>1 DEF VerdictMatchesResult, VerdictOf
  <2>2. FieldKnown(results'[r])
    BY <1>0, <2>1
  <2>3. results[r] \in Versions[r] /\ results'[r] \in Versions[r]
    BY <1>0, <2>1, <2>2 DEF ResultsArePublished, FieldKnown
  <2>4. /\ results'[r].finishers = results[r].finishers
        /\ results'[r].winners = results[r].winners
    BY <2>1, <2>2, <2>3 DEF WholeFieldsAgree
  <2> QED
    BY <1>1, <2>1, <2>2, <2>4 DEF VerdictOf
<1>2. ASSUME NEW w \in Worker, SettleRow(w, r), ServerSealed(tips[r])
      PROVE  /\ FieldKnown(results'[r])
             /\ tips'[r].outcome.kind = VerdictOf(tips'[r].pick, results'[r])
  <2>1. PICK result \in (Versions[r] \cup {NoResult})
                        \cap {col[w].fetched[r], results[r], NoResult},
             found \in PriceList :
          /\ tips'[r].outcome = SettledOutcome(tips[r], result, found, col[w].now)
          /\ IsFinal(tips'[r]) => FieldKnown(result)
    BY <1>2, SettledFrom
  <2>2. FieldKnown(result) /\ result \in Versions[r]
    BY <2>1 DEF FieldKnown
  <2>3. col[w].pc = "rows" /\ UNCHANGED results
    BY <1>2 DEF SettleRow
  <2>4. FieldKnown(results[r]) /\ results[r] \in Versions[r]
    <3>1. FieldKnown(results[r])
      BY <2>1, <2>2, <2>3 DEF WholeFieldsAreStored, FieldKnown
    <3> QED
      BY <3>1 DEF ResultsArePublished, FieldKnown
  <2>5. result.finishers = results[r].finishers /\ result.winners = results[r].winners
    BY <2>2, <2>4 DEF WholeFieldsAgree
  <2>6. result.winners \subseteq result.finishers
    BY <2>2, CollectionAssumption
  <2>7. tips'[r].pick = tips[r].pick
    <3>1. RowStep
      BY StepRows DEF IInv, TableInv
    <3>2. Prediction(tips'[r]) = Prediction(tips[r])
      BY <1>2, <3>1, SealsStay DEF IInv, TableInv
    <3> QED
      BY <3>2 DEF Prediction
  <2>8. tips'[r].outcome.kind = VerdictOf(tips[r].pick, result)
    BY <2>1, <2>2, <2>6 DEF SettledOutcome, VerdictOf, Closed, Ran
  <2>9. VerdictOf(tips[r].pick, result) = VerdictOf(tips'[r].pick, results'[r])
    BY <2>3, <2>5, <2>7 DEF VerdictOf
  <2> QED
    BY <2>3, <2>4, <2>8, <2>9
<1> QED
  BY <1>1, <1>2, FinalRows

\* Results come from the provider, and a whole field is stored before it settles.
LEMMA ResultsInvariant == Spec => [](ResultsArePublished /\ WholeFieldsAreStored)
<1>1. Init => ResultsArePublished /\ WholeFieldsAreStored
  BY DEF Init, StoreInit, CollectingInit, NotCollecting, NoResults, ResultsArePublished,
     WholeFieldsAreStored
<1>2. TypeOK /\ (ResultsArePublished /\ WholeFieldsAreStored) /\ [Next]_vars =>
        (ResultsArePublished /\ WholeFieldsAreStored)'
  BY ResultsStep
<1> QED
  BY <1>1, <1>2, TypeCorrect, PTL DEF Spec

\* Unless the provider amends a whole field, every verdict on a server tip is, and
\* stays, the one the stored result gives, though passes die half way, rows are read
\* long before they are written and short answers come in between.
\* (service.CollectResults, reconcile.Settle, store.SaveResults.)
THEOREM VerdictsMatchResults == WholeFieldsAgree /\ Spec => []VerdictMatchesResult
<1>1. Init => VerdictMatchesResult
  BY DEF Init, StoreInit, ServerSealed, VerdictMatchesResult
<1>2. WholeFieldsAgree /\ [Next]_vars => WholeFieldsAgree'
  BY DEF WholeFieldsAgree, FieldKnown
<1>3. WholeFieldsAgree /\ IInv /\ (ResultsArePublished /\ WholeFieldsAreStored)
        /\ VerdictMatchesResult /\ [Next]_vars => VerdictMatchesResult'
  BY VerdictSteps
<1> QED
  BY <1>1, <1>2, <1>3, Inductive, ResultsInvariant, PTL DEF Spec

-----------------------------------------------------------------------------
(* Training samples. *)

\* What training needs besides the code: no call fails, a whole field has a winner,
\* and the horses a book covers include it.
TrainingIsFed ==
  /\ ~CanFail
  /\ \A r \in Race : \A version \in Versions[r] : FieldKnown(version) =>
       /\ version.winners # {}
       /\ \A rating \in Ratings :
            rating.favourite # NoHorse => version.winners \subseteq rating.runners

CoveredBy(runners) ==
  \E rating \in Ratings : rating.favourite # NoHorse /\ rating.runners = runners

RatedAs(tip, runners) ==
  \E rating \in Ratings : tip.favourite = rating.favourite /\ runners = rating.runners

\* The tip a recording job is about to store comes with the inputs of its rating, and
\* so does the sample it is about to store.
InputsAreRated ==
  \A w \in Worker :
    /\ rec[w].pc = "write" => RatedAs(rec[w].tip, rec[w].runners)
    /\ rec[w].pc = "sample" => CoveredBy(rec[w].runners)

HasSample(sample) ==
  sample.kept /\ (sample.winner # NoHorse \/ CoveredBy(sample.runners))

AboutToSample(w, r) == rec[w].pc = "sample" /\ rec[w].race = r

\* A seal made on a book has its sample, or the job that made it is about to store it.
SealsHaveSamples ==
  \A r \in Race : ServerSealed(tips[r]) /\ tips[r].favourite # NoHorse =>
    HasSample(samples[r]) \/ \E w \in Worker : AboutToSample(w, r)

AboutToTrain(w, r) ==
  /\ col[w].pc = "winner" /\ col[w].race = r
  /\ \E version \in Versions[r] :
       FieldKnown(version) /\ col[w].winner \in version.winners

\* A settled one has its winner, or the pass that settled it is about to set it.
SettledHaveWinners ==
  \A r \in Race :
    ServerSealed(tips[r]) /\ IsSettled(tips[r]) /\ tips[r].favourite # NoHorse =>
      \/ samples[r].kept /\ samples[r].winner # NoHorse
      \/ \E w \in Worker : AboutToTrain(w, r)

\* Three steps write samples.
LEMMA SamplesChange ==
  ASSUME [Next]_vars
  PROVE  \/ UNCHANGED samples
         \/ \E w \in Worker : StoreSample(w) \/ SetTrainingWinner(w)
         \/ \E d \in Device, s \in Race : ImportSample(d, s)
<1>1. ASSUME NEW w \in Worker, RecordingStep(w)
      PROVE  UNCHANGED samples \/ StoreSample(w)
  BY <1>1 DEF RecordingStep, RecordingWork, DraftTips, SealTips, StartRecording,
     FetchPrices, AssessRace, StoreDraft, StoreSealed, AbortRecording, tableVars
<1>2. ASSUME NEW w \in Worker, CollectingStep(w)
      PROVE  UNCHANGED samples \/ SetTrainingWinner(w)
  BY <1>2 DEF CollectingStep, CollectingWork, CollectResults, FetchResults,
     SaveResults, LoadForIngest, SaveIngested, ReadWaiting, ReadMissing,
     FetchStartingPrices, FillStartingPrice, SettleRow, FinishCollecting,
     AbortCollecting, tableVars
<1>3. CASE WorldNext \/ Crash \/ UNCHANGED vars
  BY <1>3 DEF WorldNext, Tick, RunRace, RefreshCard, Crash, vars, storeVars,
     tableVars
<1>4. CASE ImportStep
  BY <1>4 DEF ImportStep, ImportTips, LoadArchive, SaveArchive, EndImport, tableVars
<1> QED
  BY <1>1, <1>2, <1>3, <1>4 DEF Next

\* A kept sample is never dropped and never reopened, and what overwrites its field
\* while it is pending is the field of a rating.
LEMMA SamplesGrow ==
  ASSUME TypeOK, InputsAreRated, [Next]_vars, NEW r \in Race, samples[r].kept
  PROVE  /\ samples'[r].kept
         /\ samples[r].winner # NoHorse => samples'[r].winner # NoHorse
         /\ HasSample(samples[r]) => HasSample(samples'[r])
<1>s. samples[r] \in Sample /\ samples \in [Race -> Sample]
  BY DEF TypeOK, StoreTypeOK
<1>1. ASSUME NEW w \in Worker, StoreSample(w)
      PROVE  \/ samples'[r] = samples[r]
             \/ /\ samples'[r] = SavedSample(samples[r], rec[w].now, rec[w].runners)
                /\ CoveredBy(rec[w].runners)
  BY <1>s, <1>1 DEF StoreSample, InputsAreRated
<1>2. ASSUME NEW w \in Worker, SetTrainingWinner(w)
      PROVE  samples'[r] \in {samples[r], WithWinner(samples[r], col[w].winner)}
  BY <1>s, <1>2 DEF SetTrainingWinner
<1>3. ASSUME NEW d \in Device, NEW s \in Race, ImportSample(d, s)
      PROVE  samples'[r] = samples[r]
  BY <1>s, <1>3 DEF ImportSample
<1>4. ASSUME NEW at, NEW runners, CoveredBy(runners),
             samples'[r] = SavedSample(samples[r], at, runners)
      PROVE  /\ samples'[r].kept
             /\ samples[r].winner # NoHorse => samples'[r].winner # NoHorse
             /\ HasSample(samples[r]) => HasSample(samples'[r])
  <2>1. \/ samples'[r] = samples[r]
        \/ /\ samples[r].winner = NoHorse
           /\ samples'[r].kept /\ samples'[r].runners = runners
    BY <1>s, <1>4 DEF SavedSample, Sample
  <2> QED
    BY <1>4, <2>1 DEF HasSample
<1>5. ASSUME NEW h, samples'[r] = WithWinner(samples[r], h)
      PROVE  /\ samples'[r].kept
             /\ samples[r].winner # NoHorse => samples'[r].winner # NoHorse
             /\ HasSample(samples[r]) => HasSample(samples'[r])
  <2>1. \/ samples'[r] = samples[r]
        \/ /\ samples[r].winner = NoHorse /\ samples'[r].kept
           /\ samples'[r].runners = samples[r].runners
    BY <1>s, <1>5 DEF WithWinner, Sample
  <2> QED
    BY <2>1 DEF HasSample
<1>6. \/ UNCHANGED samples
      \/ \E w \in Worker : StoreSample(w) \/ SetTrainingWinner(w)
      \/ \E d \in Device, s \in Race : ImportSample(d, s)
  BY SamplesChange
<1>7. CASE samples'[r] = samples[r]
  BY <1>7
<1> QED
  BY <1>1, <1>2, <1>3, <1>4, <1>5, <1>6, <1>7

\* The inputs of training name the favourite.
LEMMA InputsNameTheFavourite ==
  ASSUME NEW tip, NEW runners, RatedAs(tip, runners)
  PROVE  /\ runners # {} => CoveredBy(runners)
         /\ tip.favourite # NoHorse => runners # {}
<1>1. PICK rating \in Ratings : tip.favourite = rating.favourite /\ runners = rating.runners
  BY DEF RatedAs
<1>2. IF rating.runners = {} THEN rating.favourite = NoHorse
      ELSE rating.favourite \in rating.runners
  BY RatingsAssumption
<1>3. rating.runners \subseteq Horse
  BY RatingsAssumption DEF Rating
<1> QED
  BY <1>1, <1>2, <1>3, AbsentValuesAssumption DEF CoveredBy

\* What a job has rated it keeps until it is stored.
LEMMA InputsStep ==
  ASSUME TypeOK, InputsAreRated, [Next]_vars
  PROVE  InputsAreRated'
<1>1. CASE UNCHANGED rec
  BY <1>1 DEF InputsAreRated
<1>2. CASE Crash
  BY <1>2 DEF Crash, InputsAreRated, NotRecording
<1>3. ASSUME NEW w \in Worker, RecordingStep(w)
      PROVE  InputsAreRated'
  <2>w. rec[w] \in RecordingJob
    BY DEF TypeOK, RecordingTypeOK
  <2>1. \A v \in Worker \ {w} : rec'[v] = rec[v]
    BY <1>3, RecordingHolds
  <2>2. ASSUME rec'[w].pc = "write" PROVE RatedAs(rec'[w].tip, rec'[w].runners)
    <3>1. PICK r \in Race : AssessRace(w, r)
      BY <1>3, <2>2, RecordingHolds
    <3>2. ~NextRace(w, rec[w].queue \ {r})
      BY <2>2, NextRaceHolds DEF TypeOK
    <3>3. PICK rating \in Ratings :
            \E verdict :
              rec' = [rec EXCEPT ![w] = [@ EXCEPT !.pc = "write", !.race = r,
                        !.tip = Recorded(Candidate(w, r, rating), verdict, rec[w].now),
                        !.runners = rating.runners]]
      BY <3>1, <3>2, Zenon DEF AssessRace
    <3>4. PICK verdict :
            rec' = [rec EXCEPT ![w] = [@ EXCEPT !.pc = "write", !.race = r,
                      !.tip = Recorded(Candidate(w, r, rating), verdict, rec[w].now),
                      !.runners = rating.runners]]
      BY <3>3
    <3> DEFINE tip == Recorded(Candidate(w, r, rating), verdict, rec[w].now)
    <3>5. tip.favourite = rating.favourite
      BY DEF Recorded, Candidate, NewTip
    <3> HIDE DEF tip
    <3>6. rec'[w].tip = tip /\ rec'[w].runners = rating.runners
      BY <2>w, <3>4 DEF tip, RecordingJob, TypeOK, RecordingTypeOK
    <3> QED
      BY <3>5, <3>6 DEF RatedAs
  <2>3. ASSUME rec'[w].pc = "sample" PROVE CoveredBy(rec'[w].runners)
    <3>1. StoreSealed(w)
      BY <1>3, <2>3, RecordingHolds
    <3>2. ~NextRace(w, rec[w].queue \ {rec[w].race})
      BY <2>3, NextRaceHolds DEF TypeOK
    <3>3. /\ rec[w].pc = "write" /\ rec[w].runners # {}
          /\ rec' = [rec EXCEPT ![w].pc = "sample"]
      BY <3>1, <3>2 DEF StoreSealed
    <3>4. rec'[w].runners = rec[w].runners
      BY <2>w, <3>3 DEF RecordingJob, TypeOK, RecordingTypeOK
    <3> QED
      BY <3>3, <3>4, InputsNameTheFavourite DEF InputsAreRated
  <2> QED
    BY <2>1, <2>2, <2>3 DEF InputsAreRated
<1> QED
  BY <1>1, <1>2, <1>3, RecChanges

\* Only StoreSealed makes a server seal.
LEMMA OnlyStoreSealedSeals ==
  ASSUME IInv, [Next]_vars, NEW r \in Race, IsNowSealed(r)
  PROVE  \E w \in Worker : StoreSealed(w) /\ rec[w].race = r
<1>c. cards \in [Race -> Card]
  BY DEF IInv, TypeOK, StoreTypeOK
<1>1. cards'[r] # cards[r]
  <2>1. ~cards[r].sealed
    BY DEF IsNowSealed, IInv, TableInv, SealHasItsCard
  <2>2. cards'[r].sealed
    BY <1>c DEF IsNowSealed
  <2> QED
    BY <2>1, <2>2
<1>2. \E w \in Worker : StoreSealed(w)
  <2>1. ASSUME NEW w \in Worker, RecordingStep(w)
        PROVE  UNCHANGED cards \/ StoreSealed(w)
    BY <2>1 DEF RecordingStep, RecordingWork, DraftTips, SealTips, StartRecording,
       FetchPrices, AssessRace, StoreDraft, StoreSample, AbortRecording, tableVars
  <2>2. ASSUME NEW w \in Worker, CollectingStep(w) PROVE UNCHANGED cards
    BY <2>2 DEF CollectingStep, CollectingWork, CollectResults, FetchResults,
       SaveResults, LoadForIngest, SaveIngested, ReadWaiting, ReadMissing,
       FetchStartingPrices, FillStartingPrice, SettleRow, SetTrainingWinner,
       FinishCollecting, AbortCollecting, tableVars
  <2>3. CASE WorldNext \/ Crash \/ UNCHANGED vars
    BY <1>1, <2>3 DEF WorldNext, Tick, RunRace, RefreshCard, Crash, vars, storeVars,
       tableVars
  <2>4. CASE ImportStep
    BY <1>1, <2>4 DEF ImportStep, ImportTips, LoadArchive, SaveArchive, ImportSample,
       EndImport, tableVars
  <2> QED
    BY <1>1, <2>1, <2>2, <2>3, <2>4 DEF Next
<1>3. ASSUME NEW w \in Worker, StoreSealed(w) PROVE rec[w].race = r
  BY <1>1, <1>3, <1>c DEF StoreSealed, SaveSealedTip
<1> QED
  BY <1>2, <1>3

\* With no call failing, a seal made on a book is followed by its sample.
LEMMA SealsHaveSamplesStep ==
  ASSUME ~CanFail, IInv, InputsAreRated, SealsHaveSamples, [Next]_vars
  PROVE  SealsHaveSamples'
<1>0. TypeOK /\ JobInv /\ SealHasItsCard /\ PricedOnceSettled /\ JobsExclude /\ RowStep
  BY StepRows DEF IInv, TableInv
<1>t. TypeOK /\ rec \in [Worker -> RecordingJob] /\ samples \in [Race -> Sample]
  BY DEF IInv, TypeOK, RecordingTypeOK, StoreTypeOK
<1> SUFFICES ASSUME NEW r \in Race, ServerSealed(tips'[r]), tips'[r].favourite # NoHorse
             PROVE  HasSample(samples'[r]) \/ \E w \in Worker : AboutToSample(w, r)'
  BY DEF SealsHaveSamples, HasSample, CoveredBy
<1>1. CASE ~ServerSealed(tips[r])
  <2>1. IsNowSealed(r)
    BY <1>0, <1>1, SealsAppear
  <2>2. PICK w \in Worker : StoreSealed(w) /\ rec[w].race = r
    BY <2>1, OnlyStoreSealedSeals
  <2>3. tips'[r] = rec[w].tip
    BY <1>t, <2>2 DEF StoreSealed, SaveSealedTip, SaveTip, TypeOK, StoreTypeOK
  <2>4. rec[w].runners # {}
    BY <2>2, <2>3, InputsNameTheFavourite DEF InputsAreRated, StoreSealed
  <2>5. rec' = [rec EXCEPT ![w].pc = "sample"]
    BY <2>2, <2>4 DEF StoreSealed
  <2>6. rec'[w].pc = "sample" /\ rec'[w].race = r
    BY <1>t, <2>2, <2>5 DEF RecordingJob
  <2> QED
    BY <2>6 DEF AboutToSample
<1>2. ASSUME ServerSealed(tips[r])
      PROVE  HasSample(samples[r]) \/ \E w \in Worker : AboutToSample(w, r)
  <2>1. Prediction(tips'[r]) = Prediction(tips[r])
    BY <1>0, <1>2, SealsStay
  <2>2. tips[r].favourite = tips'[r].favourite
    BY <2>1 DEF Prediction
  <2> QED
    BY <1>2, <2>2 DEF SealsHaveSamples
<1>3. CASE HasSample(samples[r])
  BY <1>3, <1>t, SamplesGrow DEF HasSample
<1>4. ASSUME NEW w \in Worker, AboutToSample(w, r)
      PROVE  HasSample(samples'[r]) \/ AboutToSample(w, r)'
  <2>1. CASE rec'[w] = rec[w]
    BY <1>4, <2>1 DEF AboutToSample
  <2>2. CASE StoreSample(w)
    <3>1. CoveredBy(rec[w].runners)
      BY <1>4 DEF AboutToSample, InputsAreRated
    <3>2. samples'[r] = SavedSample(samples[r], rec[w].now, rec[w].runners)
      BY <1>t, <1>4, <2>2 DEF StoreSample, AboutToSample
    <3>3. \/ samples'[r].kept /\ samples'[r].runners = rec[w].runners
          \/ samples'[r].kept /\ samples'[r].winner # NoHorse
      BY <1>t, <3>2 DEF SavedSample, Sample
    <3> QED
      BY <3>1, <3>3 DEF HasSample
  <2>3. ~Crash
    BY DEF Crash
  <2>4. ASSUME NEW v \in Worker, RecordingStep(v)
        PROVE  rec'[w] = rec[w] \/ StoreSample(w)
    <3>1. CASE v = w
      BY <1>4, <2>4, <3>1 DEF AboutToSample, RecordingStep, RecordingWork, DraftTips,
         SealTips, StartRecording, FetchPrices, AssessRace, StoreDraft, StoreSealed,
         AbortRecording
    <3> QED
      BY <1>t, <2>4, <3>1, RecordingHolds
  <2> QED
    BY <2>1, <2>2, <2>3, <2>4, RecChanges
<1> QED
  BY <1>1, <1>2, <1>3, <1>4

\* With no call failing, a verdict is followed by the winner of the sample.
LEMMA SettledHaveWinnersStep ==
  ASSUME TrainingIsFed, IInv, ResultsArePublished, InputsAreRated, SealsHaveSamples,
         SettledHaveWinners, [Next]_vars
  PROVE  SettledHaveWinners'
<1>0. TypeOK /\ JobInv /\ SealHasItsCard /\ PricedOnceSettled /\ JobsExclude /\ RowStep
  BY StepRows DEF IInv, TableInv
<1>t. col \in [Worker -> CollectingJob] /\ samples \in [Race -> Sample]
  BY <1>0 DEF TypeOK, CollectingTypeOK, StoreTypeOK
<1> SUFFICES ASSUME NEW r \in Race, ServerSealed(tips'[r]), IsSettled(tips'[r]),
                    tips'[r].favourite # NoHorse
             PROVE  \/ samples'[r].kept /\ samples'[r].winner # NoHorse
                    \/ \E w \in Worker : AboutToTrain(w, r)'
  BY DEF SettledHaveWinners
<1>1. IsFinal(tips'[r])
  BY DEF IsSettled, IsFinal, FinalKinds
<1>2. ASSUME ServerSealed(tips[r])
      PROVE  tips[r].favourite # NoHorse
  <2>1. Prediction(tips'[r]) = Prediction(tips[r])
    BY <1>0, <1>2, SealsStay
  <2> QED
    BY <2>1 DEF Prediction
<1>3. ASSUME NEW w \in Worker, SettleRow(w, r), ServerSealed(tips[r])
      PROVE  AboutToTrain(w, r)'
  <2>1. PICK result \in (Versions[r] \cup {NoResult})
                        \cap {col[w].fetched[r], results[r], NoResult} :
          /\ IsFinal(tips'[r]) => FieldKnown(result)
          /\ IsSettled(tips'[r]) /\ result.winners # {} =>
               /\ col'[w].pc = "winner" /\ col'[w].race = r
               /\ col'[w].winner \in result.winners
    BY <1>3, SettledFrom
  <2>2. FieldKnown(result) /\ result \in Versions[r]
    BY <1>1, <2>1 DEF FieldKnown
  <2>3. result.winners # {}
    BY <2>2 DEF TrainingIsFed
  <2>4. FieldKnown(result)' = FieldKnown(result)
    BY DEF FieldKnown
  <2> QED
    BY <2>1, <2>2, <2>3, <2>4 DEF AboutToTrain
<1>4. CASE ServerSealed(tips[r]) /\ IsFinal(tips[r])
           /\ tips'[r].outcome.kind = tips[r].outcome.kind
  <2>1. \/ samples[r].kept /\ samples[r].winner # NoHorse
        \/ \E w \in Worker : AboutToTrain(w, r)
    BY <1>2, <1>4 DEF SettledHaveWinners, IsSettled
  <2>2. CASE samples[r].kept /\ samples[r].winner # NoHorse
    BY <1>0, <2>2, SamplesGrow
  <2>3. ASSUME NEW w \in Worker, AboutToTrain(w, r)
        PROVE  \/ samples'[r].kept /\ samples'[r].winner # NoHorse
               \/ AboutToTrain(w, r)'
    <3>1. CASE col'[w] = col[w]
      BY <2>3, <3>1 DEF AboutToTrain, FieldKnown
    <3>2. CASE SetTrainingWinner(w)
      <4>1. \A v \in Worker : ~AboutToSample(v, r)
        BY <1>0, <2>3, Alone DEF AboutToSample, AboutToTrain
      <4>2. HasSample(samples[r])
        BY <1>2, <1>4, <4>1 DEF SealsHaveSamples
      <4>3. samples'[r] = WithWinner(samples[r], col[w].winner)
        BY <1>t, <2>3, <3>2 DEF SetTrainingWinner, AboutToTrain
      <4>4. CoveredBy(samples[r].runners) =>
              col[w].winner \in samples[r].runners /\ col[w].winner \in Horse
        BY <2>3, RatingsAssumption DEF TrainingIsFed, CoveredBy, AboutToTrain, Rating
      <4> QED
        BY <1>t, <4>2, <4>3, <4>4, AbsentValuesAssumption DEF HasSample, WithWinner, Sample
    <3>3. ~Crash
      BY DEF Crash, TrainingIsFed
    <3>4. ASSUME NEW v \in Worker, CollectingStep(v)
          PROVE  col'[w] = col[w] \/ SetTrainingWinner(w)
      <4>1. CASE v = w
        BY <2>3, <3>4, <4>1 DEF TrainingIsFed, AboutToTrain, CollectingStep, CollectingWork,
           CollectResults, FetchResults, SaveResults, LoadForIngest, SaveIngested,
           ReadWaiting, ReadMissing, FetchStartingPrices, FillStartingPrice, SettleRow,
           FinishCollecting, AbortCollecting
      <4> QED
        BY <1>0, <3>4, <4>1, CollectingResults
    <3> QED
      BY <3>1, <3>2, <3>3, <3>4, ColChanges
  <2> QED
    BY <2>1, <2>2, <2>3
<1> QED
  BY <1>1, <1>3, <1>4, FinalRows

TrainingInv == InputsAreRated /\ SealsHaveSamples /\ SettledHaveWinners

\* When no call fails, every whole field has a winner and books cover it, every tip
\* settled that was sealed on a book is a sample to train on once the job is done:
\* the seal and the verdict each write it in a statement of their own, and a pass may
\* come before the sample, or a phone's sample before the server's.
\* (service.rateAndRecord, service.CollectResults, store.SaveTrainingSnapshot,
\* store.SetTrainingWinner.)
THEOREM SettledSealsTrain == TrainingIsFed /\ Spec => []SettledSealTrains
<1>1. Init => TrainingInv
  BY DEF Init, StoreInit, RecordingInit, NotRecording, ServerSealed, TrainingInv,
     InputsAreRated, SealsHaveSamples, SettledHaveWinners
<1>2. TrainingIsFed /\ [Next]_vars => TrainingIsFed'
  BY DEF TrainingIsFed, FieldKnown
<1>3. TrainingIsFed /\ IInv /\ (ResultsArePublished /\ WholeFieldsAreStored)
        /\ TrainingInv /\ [Next]_vars => TrainingInv'
  BY InputsStep, SealsHaveSamplesStep, SettledHaveWinnersStep
  DEF TrainingInv, TrainingIsFed, IInv
<1>4. IInv /\ TrainingInv => SettledSealTrains
  BY Alone DEF IInv, TrainingInv, SettledHaveWinners, SettledSealTrains, AboutToTrain
<1> QED
  BY <1>1, <1>2, <1>3, <1>4, Inductive, ResultsInvariant, PTL DEF Spec

-----------------------------------------------------------------------------
(* What training learns. *)

\* A tip and a winner agree: the tip has its verdict, and the winner is one of the
\* whole field stored.
AgreesWith(r, h) ==
  /\ IsSettled(tips[r])
  /\ FieldKnown(results[r]) /\ h \in results[r].winners

\* The winner a pass is about to set is that of the verdict it has just stored.
WinnersAgree ==
  \A w \in Worker, r \in Race :
    col[w].pc = "winner" /\ col[w].race = r /\ ServerSealed(tips[r]) =>
      AgreesWith(r, col[w].winner)

\* No step takes back the verdict or the winners.
LEMMA AgreementStays ==
  ASSUME WholeFieldsAgree, IInv, ResultsArePublished, WholeFieldsAreStored, [Next]_vars,
         NEW r \in Race, NEW h, ServerSealed(tips[r]), AgreesWith(r, h)
  PROVE  /\ IsSettled(tips'[r]) /\ FieldKnown(results'[r]) /\ h \in results'[r].winners
         /\ ServerSealed(tips'[r])
<1>0. TypeOK /\ PricedOnceSettled /\ RowStep
  BY StepRows DEF IInv, TableInv
<1>1. ServerSealed(tips'[r])
  BY <1>0, SealsStay
<1>2. IsSettled(tips'[r])
  <2>1. tips[r].outcome.kind \notin WaitingKinds
    BY DEF AgreesWith, IsSettled, SettledKinds, WaitingKinds
  <2> QED
    BY <1>0, <2>1, VerdictsStay DEF AgreesWith, IsSettled
<1>3. ResultsArePublished' /\ FieldKnown(results'[r])
  BY ResultsStep DEF IInv, AgreesWith
<1>4. results[r] \in Versions[r] /\ results'[r] \in Versions[r]
  BY <1>3 DEF ResultsArePublished, AgreesWith, FieldKnown
<1>5. results'[r].winners = results[r].winners
  BY <1>3, <1>4 DEF WholeFieldsAgree, AgreesWith
<1> QED
  BY <1>1, <1>2, <1>3, <1>5 DEF AgreesWith

\* A pass reaches the sample of a server seal only through the verdict.
LEMMA WinnerOfTheVerdict ==
  ASSUME WholeFieldsAgree, IInv, ResultsArePublished, WholeFieldsAreStored,
         NEW w \in Worker, NEW r \in Race, SettleRow(w, r), ServerSealed(tips[r]),
         col'[w].pc = "winner"
  PROVE  /\ IsSettled(tips'[r])
         /\ FieldKnown(results'[r]) /\ col'[w].winner \in results'[r].winners
<1>1. PICK result \in (Versions[r] \cup {NoResult})
                      \cap {col[w].fetched[r], results[r], NoResult} :
        /\ IsSettled(tips'[r]) /\ FieldKnown(result)
        /\ col'[w].winner \in result.winners
  BY SettledFrom DEF IsSettled, IsFinal, FinalKinds
<1>2. col[w].pc = "rows" /\ UNCHANGED results
  BY DEF SettleRow
<1>3. result \in Versions[r]
  BY <1>1 DEF FieldKnown
<1>4. FieldKnown(results[r]) /\ results[r] \in Versions[r]
  <2>1. FieldKnown(results[r])
    BY <1>1, <1>2, <1>3 DEF WholeFieldsAreStored, FieldKnown
  <2> QED
    BY <2>1 DEF ResultsArePublished, FieldKnown
<1>5. result.winners = results[r].winners
  BY <1>1, <1>3, <1>4 DEF WholeFieldsAgree
<1> QED
  BY <1>1, <1>2, <1>4, <1>5

\* Only SettleRow gives a pass a winner to set, and of the race it settled.
LEMMA OnlySettleRowLearns ==
  ASSUME TypeOK, NEW w \in Worker, [Next]_vars, col'[w].pc = "winner"
  PROVE  \/ col'[w] = col[w]
         \/ SettleRow(w, col'[w].race) /\ col'[w].race \in Race
<1>w. col[w] \in CollectingJob /\ col \in [Worker -> CollectingJob]
  BY DEF TypeOK, CollectingTypeOK
<1>1. CASE UNCHANGED col
  BY <1>1
<1>2. ~Crash
  BY DEF Crash, NotCollecting
<1>3. ASSUME NEW v \in Worker, v # w, CollectingStep(v)
      PROVE  col'[w] = col[w]
  BY <1>3, CollectingResults
<1>4. ASSUME CollectingStep(w)
      PROVE  \E r \in Race : SettleRow(w, r)
  <2>1. ASSUME \/ CollectResults(w) \/ FetchResults(w) \/ SaveResults(w) \/ LoadForIngest(w)
               \/ SaveIngested(w) \/ ReadWaiting(w) \/ ReadMissing(w)
               \/ FetchStartingPrices(w) \/ SetTrainingWinner(w) \/ FinishCollecting(w)
               \/ AbortCollecting(w)
        PROVE  FALSE
    <3>1. CASE CollectResults(w) \/ FinishCollecting(w) \/ AbortCollecting(w)
      <4>1. \/ col'[w] = NotCollecting
            \/ col'[w] = [NotCollecting EXCEPT !.pc = "fetch", !.now = clock]
        BY <1>w, <3>1 DEF CollectResults, FinishCollecting, AbortCollecting
      <4>2. /\ NotCollecting.pc = "idle"
            /\ [NotCollecting EXCEPT !.pc = "fetch", !.now = clock].pc = "fetch"
        BY DEF NotCollecting
      <4> QED
        BY <4>1, <4>2
    <3>2. CASE FetchResults(w)
      BY <1>w, <3>2 DEF FetchResults, CollectingJob
    <3>3. CASE SaveResults(w)
      BY <1>w, <3>3 DEF SaveResults, CollectingJob
    <3>4. CASE LoadForIngest(w)
      BY <1>w, <3>4 DEF LoadForIngest, CollectingJob
    <3>5. CASE SaveIngested(w)
      BY <1>w, <3>5 DEF SaveIngested, CollectingJob
    <3>6. CASE ReadWaiting(w)
      BY <1>w, <3>6 DEF ReadWaiting, CollectingJob
    <3>7. CASE ReadMissing(w)
      BY <1>w, <3>7 DEF ReadMissing, CollectingJob
    <3>8. CASE FetchStartingPrices(w)
      BY <1>w, <3>8 DEF FetchStartingPrices, CollectingJob
    <3>9. CASE SetTrainingWinner(w)
      BY <1>w, <3>9 DEF SetTrainingWinner, CollectingJob
    <3> QED
      BY <2>1, <3>1, <3>2, <3>3, <3>4, <3>5, <3>6, <3>7, <3>8, <3>9
  <2>2. ASSUME NEW r \in Race, FillStartingPrice(w, r) PROVE FALSE
    <3>1. col[w].pc = "rows"
          /\ col' = [col EXCEPT ![w] = [@ EXCEPT
                       !.missing = [col[w].missing EXCEPT ![r] = NoTip]]]
      BY <2>2, Zenon DEF FillStartingPrice
    <3> QED
      BY <1>w, <3>1 DEF CollectingJob
  <2> QED
    BY <1>4, <2>1, <2>2 DEF CollectingStep, CollectingWork
<1>5. ASSUME NEW r \in Race, SettleRow(w, r) PROVE col'[w].race = r
  <2> DEFINE left == [col[w].waiting EXCEPT ![r] = NoTip]
  <2>1. \/ col' = [col EXCEPT ![w] = [@ EXCEPT !.waiting = left]]
        \/ \E h : col' = [col EXCEPT ![w] = [@ EXCEPT !.pc = "winner", !.race = r,
                                              !.winner = h, !.waiting = left]]
    BY <1>5, Zenon DEF SettleRow
  <2>2. col[w].pc = "rows"
    BY <1>5 DEF SettleRow
  <2> HIDE DEF left
  <2>3. CASE col' = [col EXCEPT ![w] = [@ EXCEPT !.waiting = left]]
    <3>1. col'[w].pc = "rows"
      BY <1>w, <2>2, <2>3 DEF CollectingJob
    <3> QED
      BY <3>1
  <2>4. ASSUME NEW h, col' = [col EXCEPT ![w] = [@ EXCEPT !.pc = "winner", !.race = r,
                                                  !.winner = h, !.waiting = left]]
        PROVE  col'[w].race = r
    BY <1>w, <2>4 DEF CollectingJob
  <2> QED
    BY <2>1, <2>3, <2>4
<1> QED
  BY <1>1, <1>2, <1>3, <1>4, <1>5, ColChanges

\* The winner a pass holds agrees with the verdict until it is set.
LEMMA WinnersAgreeStep ==
  ASSUME WholeFieldsAgree, IInv, ResultsArePublished, WholeFieldsAreStored,
         WinnersAgree, [Next]_vars
  PROVE  WinnersAgree'
<1>0. TypeOK /\ JobsExclude /\ RowStep
  BY StepRows DEF IInv, TableInv
<1> SUFFICES ASSUME NEW w \in Worker, NEW r \in Race, col'[w].pc = "winner",
                    col'[w].race = r, ServerSealed(tips'[r])
             PROVE  /\ IsSettled(tips'[r]) /\ FieldKnown(results'[r])
                    /\ col'[w].winner \in results'[r].winners
  BY DEF WinnersAgree, AgreesWith, FieldKnown
<1>1. CASE col'[w] = col[w]
  <2>1. ServerSealed(tips[r])
    <3> SUFFICES ASSUME ~ServerSealed(tips[r]) PROVE FALSE
      OBVIOUS
    <3>1. PICK v \in Worker : StoreSealed(v)
      BY <1>0, SealsAppear, OnlyStoreSealedSeals
    <3>2. rec[v].pc = "write"
      BY <3>1 DEF StoreSealed
    <3> QED
      BY <1>0, <1>1, <3>2, Alone
  <2> QED
    BY <1>1, <2>1, AgreementStays DEF WinnersAgree
<1>2. CASE SettleRow(w, r)
  <2>1. ServerSealed(tips[r])
    <3> SUFFICES ASSUME ~ServerSealed(tips[r]) PROVE FALSE
      OBVIOUS
    <3>1. PICK v \in Worker : StoreSealed(v)
      BY <1>0, SealsAppear, OnlyStoreSealedSeals
    <3>2. rec[v].pc = "write" /\ col[w].pc = "rows"
      BY <1>2, <3>1 DEF StoreSealed, SettleRow
    <3> QED
      BY <1>0, <3>2, Alone
  <2> QED
    BY <1>2, <2>1, WinnerOfTheVerdict
<1> QED
  BY <1>0, <1>1, <1>2, OnlySettleRowLearns

\* A sample of the server's that has a winner had it before, or is given it now.
LEMMA WinnersAreSet ==
  ASSUME TypeOK, [Next]_vars, NEW r \in Race, samples'[r].kept,
         samples'[r].source = "server", samples'[r].winner # NoHorse
  PROVE  /\ samples[r].kept /\ samples[r].source = "server"
         /\ \/ samples'[r].winner = samples[r].winner
            \/ \E w \in Worker : /\ SetTrainingWinner(w) /\ col[w].race = r
                                 /\ samples'[r].winner = col[w].winner
<1>s. samples[r] \in Sample /\ samples \in [Race -> Sample]
  BY DEF TypeOK, StoreTypeOK
<1>1. ASSUME NEW w \in Worker, StoreSample(w)
      PROVE  /\ samples[r].kept /\ samples[r].source = "server"
             /\ samples'[r].winner = samples[r].winner
  <2>1. \/ samples'[r] = samples[r]
        \/ samples'[r] = SavedSample(samples[r], rec[w].now, rec[w].runners)
    BY <1>s, <1>1 DEF StoreSample
  <2>2. samples[r].kept
    <3> SUFFICES ASSUME ~samples[r].kept PROVE FALSE
      OBVIOUS
    <3>1. samples'[r].winner = NoHorse
      BY <2>1 DEF SavedSample
    <3> QED
      BY <3>1
  <2>3. /\ samples'[r].source = samples[r].source
        /\ samples'[r].winner = samples[r].winner
    BY <1>s, <2>1, <2>2 DEF SavedSample, Sample
  <2> QED
    BY <2>2, <2>3
<1>2. ASSUME NEW w \in Worker, SetTrainingWinner(w)
      PROVE  /\ samples[r].kept /\ samples[r].source = "server"
             /\ \/ samples'[r].winner = samples[r].winner
                \/ col[w].race = r /\ samples'[r].winner = col[w].winner
  <2>1. \/ samples'[r] = samples[r]
        \/ col[w].race = r /\ samples'[r] = WithWinner(samples[r], col[w].winner)
    BY <1>s, <1>2 DEF SetTrainingWinner
  <2> QED
    BY <1>s, <2>1 DEF WithWinner, Sample
<1>3. ASSUME NEW d \in Device, NEW s \in Race, ImportSample(d, s)
      PROVE  samples'[r] = samples[r]
  <2>1. \/ samples'[r] = samples[r]
        \/ samples'[r] = imp[d].upload.samples[r]
    BY <1>s, <1>3 DEF ImportSample
  <2>2. imp[d].upload \in Uploads \/ imp[d].upload = NoUpload
    BY DEF TypeOK, ImportTypeOK, Importing
  <2>3. ~(/\ imp[d].upload.samples[r].kept
          /\ imp[d].upload.samples[r].source = "server")
    <3>1. CASE imp[d].upload = NoUpload
      BY <3>1 DEF NoUpload, NoSample
    <3>2. CASE imp[d].upload \in Uploads
      BY <3>2, UploadsAssumption, AbsentValuesAssumption DEF Upload
    <3> QED
      BY <2>2, <3>1, <3>2
  <2> QED
    BY <2>1, <2>3
<1>4. CASE samples'[r] = samples[r]
  BY <1>4
<1>5. \/ UNCHANGED samples
      \/ \E w \in Worker : StoreSample(w) \/ SetTrainingWinner(w)
      \/ \E d \in Device, s \in Race : ImportSample(d, s)
  BY SamplesChange
<1> QED
  BY <1>1, <1>2, <1>3, <1>4, <1>5

\* A winner on a server sample stays that of the verdict.
LEMMA TrainsStep ==
  ASSUME WholeFieldsAgree, IInv, ResultsArePublished, WholeFieldsAreStored,
         WinnersAgree, TrainsOnTheVerdict, [Next]_vars
  PROVE  TrainsOnTheVerdict'
<1> SUFFICES ASSUME NEW r \in Race, samples'[r].kept, samples'[r].source = "server",
                    samples'[r].winner # NoHorse
             PROVE  /\ ServerSealed(tips'[r]) /\ IsSettled(tips'[r])
                    /\ FieldKnown(results'[r])
                    /\ samples'[r].winner \in results'[r].winners
  BY DEF TrainsOnTheVerdict, FieldKnown
<1>1. samples[r].kept /\ samples[r].source = "server"
  BY WinnersAreSet DEF IInv
<1>2. ServerSealed(tips[r])
  BY <1>1 DEF IInv, TableInv, SampleIsOfTheSeal
<1>3. CASE samples'[r].winner = samples[r].winner
  BY <1>1, <1>2, <1>3, AgreementStays DEF TrainsOnTheVerdict, AgreesWith
<1>4. ASSUME NEW w \in Worker, SetTrainingWinner(w), col[w].race = r,
             samples'[r].winner = col[w].winner
      PROVE  /\ ServerSealed(tips'[r]) /\ IsSettled(tips'[r])
             /\ FieldKnown(results'[r]) /\ samples'[r].winner \in results'[r].winners
  <2>1. AgreesWith(r, samples'[r].winner)
    BY <1>2, <1>4 DEF SetTrainingWinner, WinnersAgree
  <2> QED
    BY <1>2, <2>1, AgreementStays
<1> QED
  BY <1>3, <1>4, WinnersAreSet DEF IInv

\* Unless the provider amends a whole field, what training learns of a race is what
\* the record and the stored result say of it, whatever call fails between the
\* verdict and the sample, and whatever short answer was the last to come.
\* (service.CollectResults, store.SetTrainingWinner.)
THEOREM TrainingFollowsTheVerdict == WholeFieldsAgree /\ Spec => []TrainsOnTheVerdict
<1>1. Init => WinnersAgree /\ TrainsOnTheVerdict
  BY DEF Init, StoreInit, CollectingInit, NotCollecting, NoSample, WinnersAgree,
     TrainsOnTheVerdict
<1>2. WholeFieldsAgree /\ [Next]_vars => WholeFieldsAgree'
  BY DEF WholeFieldsAgree, FieldKnown
<1>3. WholeFieldsAgree /\ IInv /\ (ResultsArePublished /\ WholeFieldsAreStored)
        /\ (WinnersAgree /\ TrainsOnTheVerdict) /\ [Next]_vars
        => (WinnersAgree /\ TrainsOnTheVerdict)'
  BY WinnersAgreeStep, TrainsStep
<1> QED
  BY <1>1, <1>2, <1>3, Inductive, ResultsInvariant, PTL DEF Spec
=============================================================================
