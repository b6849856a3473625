-------------------------- MODULE ResultsCollection --------------------------
(***************************************************************************)
(* CollectResults, the single path for results: fetch what the provider    *)
(* publishes today, store it, ingest it into the archive, read the tips    *)
(* that wait for a result or a starting price, ask the exchange for        *)
(* prices, then fill in and settle those tips one at a time.               *)
(* Source: apps/server/internal/service/service.go.                        *)
(***************************************************************************)
EXTENDS RecordStore

CONSTANTS
  Versions,    \* for each race, the results the provider may publish for it
  PriceLists   \* what the exchange may answer for a market

\* A result is a list of finishers, and its winners are the first of them.
ASSUME CollectionAssumption ==
  /\ Versions \in [Race -> SUBSET Result]
  /\ \A r \in Race : \A version \in Versions[r] :
       IsFiniteSet(version.finishers) /\ version.winners \subseteq version.finishers
  /\ PriceLists \subseteq PriceList

VARIABLE col   \* for each worker, the locals of the results job it runs

NoResults == [r \in Race |-> NoResult]
NoTips == [r \in Race |-> NoTip]

\* fetched: this pass's results; loaded: the archive it is about to save;
\* waiting and missing: the rows as they were read, NoTip once dealt with;
\* priced: the stored starting prices could be read; race and winner: the
\* sample about to be settled.
CollectingJob ==
  [pc : {"idle", "fetch", "save", "load", "archive", "waiting", "missing",
         "prices", "rows", "winner"},
   now : Time, fetched : [Race -> Result \cup {NoResult}],
   loaded : SUBSET Race, waiting : [Race -> Tip \cup {NoTip}],
   missing : [Race -> Tip \cup {NoTip}], priced : BOOLEAN,
   race : Race \cup {NoRace}, winner : OptionalHorse]

NotCollecting ==
  [pc |-> "idle", now |-> 0, fetched |-> NoResults, loaded |-> {},
   waiting |-> NoTips, missing |-> NoTips, priced |-> FALSE, race |-> NoRace,
   winner |-> NoHorse]

CollectingInit == col = [w \in Worker |-> NotCollecting]

CollectingTypeOK == col \in [Worker -> CollectingJob]

-----------------------------------------------------------------------------

CollectResults(w) ==
  /\ col[w].pc = "idle"
  /\ Acquire(w)
  /\ col' = [col EXCEPT ![w] = [NotCollecting EXCEPT !.pc = "fetch", !.now = clock]]
  /\ UNCHANGED <<worldVars, tableVars>>

\* Any of the races already run may be in the answer, in any published version.
FetchResults(w) ==
  /\ col[w].pc = "fetch"
  /\ \E published \in SUBSET run :
       \E fetched \in [Race -> (UNION {Versions[r] : r \in published}) \cup {NoResult}] :
         /\ \A r \in Race : IF r \in published THEN fetched[r] \in Versions[r]
                            ELSE fetched[r] = NoResult
         /\ col' = [col EXCEPT ![w] = [@ EXCEPT !.pc = "save", !.fetched = fetched]]
  /\ UNCHANGED <<worldVars, tableVars, lock>>

SaveResults(w) ==
  /\ col[w].pc = "save"
  /\ results' = [r \in Race |-> IF col[w].fetched[r] = NoResult THEN results[r]
                                ELSE FullerResult(results[r], col[w].fetched[r])]
  /\ col' = [col EXCEPT ![w].pc = "load"]
  /\ UNCHANGED <<worldVars, offs, tips, cards, snapshots, samples, prices,
                 archive, lock>>

\* A race is ingested once, from the first answer that has finishers.
Ingestable(fetched, ingested) ==
  {r \in Race : fetched[r] # NoResult /\ fetched[r].finishers # {}} \ ingested

LoadForIngest(w) ==
  /\ col[w].pc = "load"
  /\ LET fresh == Ingestable(col[w].fetched, archive)
     IN  col' = [col EXCEPT ![w] = [@ EXCEPT
                   !.pc = IF fresh = {} THEN "waiting" ELSE "archive",
                   !.loaded = IF fresh = {} THEN {} ELSE archive \cup fresh]]
  /\ UNCHANGED <<worldVars, tableVars, lock>>

SaveIngested(w) ==
  /\ col[w].pc = "archive"
  /\ archive' = col[w].loaded
  /\ col' = [col EXCEPT ![w] = [@ EXCEPT !.pc = "waiting", !.loaded = {}]]
  /\ UNCHANGED <<worldVars, offs, tips, cards, snapshots, samples, results,
                 prices, lock>>

WaitingRows(now) ==
  [r \in Race |-> IF tips[r] # NoTip /\ AwaitingReconciliation(tips[r], now)
                  THEN tips[r] ELSE NoTip]

MissingRows ==
  [r \in Race |-> IF tips[r] # NoTip /\ NeedsStartingPrice(tips[r])
                  THEN tips[r] ELSE NoTip]

ReadWaiting(w) ==
  /\ col[w].pc = "waiting"
  /\ col' = [col EXCEPT ![w] = [@ EXCEPT !.pc = "missing",
                                  !.waiting = WaitingRows(col[w].now)]]
  /\ UNCHANGED <<worldVars, tableVars, lock>>

ReadMissing(w) ==
  /\ col[w].pc = "missing"
  /\ col' = [col EXCEPT ![w] = [@ EXCEPT !.pc = "prices",
                                  !.missing = MissingRows]]
  /\ UNCHANGED <<worldVars, tableVars, lock>>

\* The races whose market a starting price is still wanted from.
PricesWanted(w) ==
  {r \in Race : \/ col[w].waiting[r] # NoTip /\ col[w].waiting[r].reference
                \/ col[w].missing[r] # NoTip /\ col[w].missing[r].reference}

UpdatedPrices(old, fresh) ==
  [h \in Horse |-> IF fresh[h] # NoPrice THEN fresh[h] ELSE old[h]]

\* What a read whose error is ignored may come back with.
Swallowing(value, nothing) == {value} \cup (IF CanFail THEN {nothing} ELSE {})

\* A second, independent call: when it fails the pass goes on with what is
\* stored, so failing is answering nothing.  Failing to read what is stored
\* is ignored too, and the pass goes on without prices.
FetchStartingPrices(w) ==
  /\ col[w].pc = "prices"
  /\ \E fresh \in [PricesWanted(w) -> PriceLists \cup {NoPrices}] :
       prices' = [r \in Race |-> IF r \in PricesWanted(w)
                                 THEN UpdatedPrices(prices[r], fresh[r])
                                 ELSE prices[r]]
  /\ \E priced \in Swallowing(TRUE, FALSE) :
       col' = [col EXCEPT ![w] = [@ EXCEPT !.pc = "rows", !.priced = priced]]
  /\ UNCHANGED <<worldVars, offs, tips, cards, snapshots, samples, results,
                 archive, lock>>

PricesFor(w, r, tip) ==
  IF tip.reference /\ col[w].priced THEN prices[r] ELSE NoPrices

\* The row written back is the row read earlier, whatever the table says now.
FillStartingPrice(w, r) ==
  /\ col[w].pc = "rows" /\ col[w].missing[r] # NoTip
  /\ LET row == col[w].missing[r]
         filled == WithStartingPrices(row, PricesFor(w, r, row))
     IN  IF filled # row THEN SaveTip(r, filled) ELSE UNCHANGED tips
  /\ col' = [col EXCEPT ![w].missing[r] = NoTip]
  /\ UNCHANGED <<worldVars, offs, cards, snapshots, samples, results, prices,
                 archive, lock>>

\* This pass's result if it has one, else the stored one, whose read may fail
\* unnoticed.
ResultsFor(w, r) ==
  IF col[w].fetched[r] # NoResult THEN {col[w].fetched[r]}
  ELSE Swallowing(results[r], NoResult)

\* A slip: a winner is learnt from any answer that names one.
SettleAndLearn(w, r) ==
  /\ col[w].pc = "rows" /\ col[w].missing = NoTips
  /\ col[w].waiting[r] # NoTip
  /\ \E result \in ResultsFor(w, r) :
       LET row == col[w].waiting[r]
           settled == Settle(row, result, PricesFor(w, r, row), FALSE, col[w].now)
           left == [col[w].waiting EXCEPT ![r] = NoTip]
       IN  /\ SaveTip(r, settled)
           /\ IF result # NoResult /\ result.winners # {}
              THEN \E h \in result.winners :
                     col' = [col EXCEPT ![w] = [@ EXCEPT !.pc = "winner",
                               !.race = r, !.winner = h, !.waiting = left]]
              ELSE col' = [col EXCEPT ![w].waiting = left]
  /\ UNCHANGED <<worldVars, offs, cards, snapshots, samples, results, prices,
                 archive, lock>>

SettleRow(w, r) ==
  /\ col[w].pc = "rows" /\ col[w].missing = NoTips
  /\ col[w].waiting[r] # NoTip
  /\ \E result \in ResultsFor(w, r) :
       LET row == col[w].waiting[r]
           settled == Settle(row, result, PricesFor(w, r, row), FALSE, col[w].now)
           left == [col[w].waiting EXCEPT ![r] = NoTip]
       IN  /\ SaveTip(r, settled)
           /\ IF IsSettled(settled) /\ result.winners # {}
              THEN \E h \in result.winners :
                     col' = [col EXCEPT ![w] = [@ EXCEPT !.pc = "winner",
                               !.race = r, !.winner = h, !.waiting = left]]
              ELSE col' = [col EXCEPT ![w].waiting = left]
  /\ UNCHANGED <<worldVars, offs, cards, snapshots, samples, results, prices,
                 archive, lock>>

SetTrainingWinner(w) ==
  /\ col[w].pc = "winner"
  /\ samples' = [samples EXCEPT ![col[w].race] = WithWinner(@, col[w].winner)]
  /\ col' = [col EXCEPT ![w] = [@ EXCEPT !.pc = "rows", !.race = NoRace,
                                  !.winner = NoHorse]]
  /\ UNCHANGED <<worldVars, offs, tips, cards, snapshots, results, prices,
                 archive, lock>>

FinishCollecting(w) ==
  /\ col[w].pc = "rows" /\ col[w].missing = NoTips /\ col[w].waiting = NoTips
  /\ col' = [col EXCEPT ![w] = NotCollecting]
  /\ Release
  /\ UNCHANGED <<worldVars, tableVars>>

\* Any call fails and the rest of the pass is dropped.
AbortCollecting(w) ==
  /\ CanFail
  /\ col[w].pc # "idle"
  /\ col' = [col EXCEPT ![w] = NotCollecting]
  /\ Release
  /\ UNCHANGED <<worldVars, tableVars>>

CollectingWork(w) ==
  \/ FetchResults(w) \/ SaveResults(w) \/ LoadForIngest(w) \/ SaveIngested(w)
  \/ ReadWaiting(w) \/ ReadMissing(w) \/ FetchStartingPrices(w)
  \/ \E r \in Race : FillStartingPrice(w, r) \/ SettleRow(w, r)
  \/ SetTrainingWinner(w) \/ FinishCollecting(w)

CollectingStep(w) == CollectResults(w) \/ CollectingWork(w) \/ AbortCollecting(w)
=============================================================================
