---------------------------- MODULE TipRecording ----------------------------
(***************************************************************************)
(* The two jobs that write tips: DraftTips, which rates every race of the  *)
(* day still to be run, and SealTips, which rates the races inside the     *)
(* window before their off.  Both run rateAndRecord, which fetches prices  *)
(* once and then works through the races one at a time.                    *)
(* Source: apps/server/internal/service/service.go.                        *)
(*                                                                         *)
(* A job takes its instant when it starts and uses it throughout.  Its     *)
(* calls to the exchange and to the database are separate steps: the clock *)
(* runs on, other requests run and the process may die between them.       *)
(***************************************************************************)
EXTENDS RecordStore

CONSTANT
  Ratings   \* what the rater may make of a race: the horse it selects, the
            \* market favourite, and the field of its training inputs

Rating == [pick : OptionalHorse, favourite : OptionalHorse,
           runners : SUBSET Horse]

\* A race can always be rated, prices or none.  The book that gives a race its
\* training inputs names the favourite among them, and no other does.
ASSUME RatingsAssumption ==
  /\ Ratings \subseteq Rating
  /\ \A rating \in Ratings :
       IF rating.runners = {} THEN rating.favourite = NoHorse
                              ELSE rating.favourite \in rating.runners
  /\ \E rating \in Ratings : rating.favourite = NoHorse /\ rating.runners = {}

VARIABLE rec   \* for each worker, the locals of the recording job it runs

RecordingKinds == {"display", "seal"}

\* queue: races still to rate; matched: those with a market; priced: those with
\* a book; book: when the books were captured; tip: the tip about to be stored
\* for race; runners: the field of its training inputs, {} for none.
RecordingJob ==
  [pc : {"idle", "fetch", "assess", "write", "sample"},
   kind : RecordingKinds, now : Time, queue : SUBSET Race,
   matched : SUBSET Race, priced : SUBSET Race, book : OptionalTime,
   race : Race \cup {NoRace}, tip : Tip \cup {NoTip}, runners : SUBSET Horse]

NotRecording ==
  [pc |-> "idle", kind |-> "display", now |-> 0, queue |-> {}, matched |-> {},
   priced |-> {}, book |-> NoTime, race |-> NoRace, tip |-> NoTip,
   runners |-> {}]

RecordingInit == rec = [w \in Worker |-> NotRecording]

RecordingTypeOK == rec \in [Worker -> RecordingJob]

-----------------------------------------------------------------------------

\* On to the next race, or the end of the job, which gives up the mutex.
NextRace(w, queue) ==
  IF queue = {}
  THEN rec' = [rec EXCEPT ![w] = NotRecording] /\ Release
  ELSE /\ rec' = [rec EXCEPT ![w] = [@ EXCEPT !.pc = "assess", !.queue = queue,
                                      !.race = NoRace, !.tip = NoTip,
                                      !.runners = {}]]
       /\ UNCHANGED lock

StartRecording(w, kind, due) ==
  /\ rec[w].pc = "idle"
  /\ due # {}
  /\ Acquire(w)
  /\ rec' = [rec EXCEPT ![w] = [NotRecording EXCEPT !.pc = "fetch",
                                 !.kind = kind, !.now = clock, !.queue = due]]
  /\ UNCHANGED <<worldVars, tableVars>>

\* The whole card, never a subset.
DraftTips(w) ==
  StartRecording(w, "display",
                 {r \in Race : offs[r] = NoTime \/ clock < offs[r]})

\* Races whose off is inside the window, unless their tip is sealed already.
SealTips(w) ==
  StartRecording(w, "seal",
    {r \in Race : /\ offs[r] # NoTime
                  /\ clock <= offs[r] /\ offs[r] <= clock + SealWindow
                  /\ ~AlreadySealed(tips[r])})

\* One call for every matched market.  It never fails the job: a race without a
\* market, or without a priced book, is rated on form.
FetchPrices(w) ==
  /\ rec[w].pc = "fetch"
  /\ \E matched \in SUBSET rec[w].queue : \E priced \in SUBSET matched :
       rec' = [rec EXCEPT ![w] = [@ EXCEPT !.pc = "assess", !.matched = matched,
                 !.priced = priced,
                 !.book = IF priced = {} THEN NoTime ELSE clock]]
  /\ UNCHANGED <<worldVars, tableVars, lock>>

\* What the tip of race r would be: the book it was rated on comes with it.
Candidate(w, r, rating) ==
  NewTip(offs[r], rating.pick, rating.favourite, r \in rec[w].matched,
         IF r \in rec[w].priced THEN rec[w].book ELSE NoTime, rec[w].now)

\* A market favourite and training inputs need a book.
RatingOf(w, r, rating) ==
  rating.favourite # NoHorse \/ rating.runners # {} => r \in rec[w].priced

\* Save the book, rate the race, read its tip and decide.  Only the read of the
\* tip can be overtaken by another writer, so these calls are one step.
AssessRace(w, r) ==
  /\ rec[w].pc = "assess" /\ r \in rec[w].queue
  /\ snapshots' = IF r \in rec[w].priced
                  THEN [snapshots EXCEPT ![r] =
                          SavedSnapshot(@, rec[w].kind, rec[w].book)]
                  ELSE snapshots
  /\ \E rating \in Ratings :
       /\ RatingOf(w, r, rating)
       /\ IF rating.pick = NoHorse THEN NextRace(w, rec[w].queue \ {r})
          ELSE LET candidate == Candidate(w, r, rating)
                   verdict == Decide(tips[r], candidate, rec[w].now)
               IN  IF ~Stores(verdict) THEN NextRace(w, rec[w].queue \ {r})
                   ELSE /\ rec' = [rec EXCEPT ![w] = [@ EXCEPT
                                     !.pc = "write", !.race = r,
                                     !.tip = Recorded(candidate, verdict, rec[w].now),
                                     !.runners = rating.runners]]
                        /\ UNCHANGED lock
  /\ UNCHANGED <<worldVars, offs, tips, cards, samples, results, prices, archive>>

StoreDraft(w) ==
  /\ rec[w].pc = "write" /\ ~IsSealed(rec[w].tip)
  /\ SaveTip(rec[w].race, rec[w].tip)
  /\ NextRace(w, rec[w].queue \ {rec[w].race})
  /\ UNCHANGED <<worldVars, offs, cards, snapshots, samples, results, prices,
                 archive>>

\* A slip: a seal made by the drafts job leaves no sample.
StoreSealedWithoutSample(w) ==
  /\ rec[w].pc = "write" /\ IsSealed(rec[w].tip)
  /\ SaveSealedTip(rec[w].race, rec[w].tip, offs[rec[w].race])
  /\ IF rec[w].runners = {} \/ rec[w].kind = "display"
     THEN NextRace(w, rec[w].queue \ {rec[w].race})
     ELSE rec' = [rec EXCEPT ![w].pc = "sample"] /\ UNCHANGED lock
  /\ UNCHANGED <<worldVars, offs, snapshots, samples, results, prices, archive>>

StoreSealed(w) ==
  /\ rec[w].pc = "write" /\ IsSealed(rec[w].tip)
  /\ SaveSealedTip(rec[w].race, rec[w].tip, offs[rec[w].race])
  /\ IF rec[w].runners = {} THEN NextRace(w, rec[w].queue \ {rec[w].race})
     ELSE rec' = [rec EXCEPT ![w].pc = "sample"] /\ UNCHANGED lock
  /\ UNCHANGED <<worldVars, offs, snapshots, samples, results, prices, archive>>

\* The inputs the tip was sealed on are what training learns from.
StoreSample(w) ==
  /\ rec[w].pc = "sample"
  /\ samples' = [samples EXCEPT ![rec[w].race] =
                   SavedSample(@, rec[w].now, rec[w].runners)]
  /\ NextRace(w, rec[w].queue \ {rec[w].race})
  /\ UNCHANGED <<worldVars, offs, tips, cards, snapshots, results, prices, archive>>

\* Any call fails, or the admin request behind the job is gone: the rest of the
\* job is dropped.
AbortRecording(w) ==
  /\ CanFail
  /\ rec[w].pc # "idle"
  /\ rec' = [rec EXCEPT ![w] = NotRecording]
  /\ Release
  /\ UNCHANGED <<worldVars, tableVars>>

RecordingWork(w) ==
  \/ FetchPrices(w) \/ (\E r \in Race : AssessRace(w, r))
  \/ StoreDraft(w) \/ StoreSealed(w) \/ StoreSample(w)

RecordingStep(w) ==
  DraftTips(w) \/ SealTips(w) \/ RecordingWork(w) \/ AbortRecording(w)
=============================================================================
