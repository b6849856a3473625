---------------------------- MODULE RecordService ----------------------------
(***************************************************************************)
(* The server's accuracy record: recording jobs, results passes and device *)
(* imports over one store, under one job mutex, with a process that may    *)
(* die and start again at any step.                                        *)
(***************************************************************************)
EXTENDS TipRecording, ResultsCollection, DeviceImport

vars == <<storeVars, rec, col, imp>>

TypeOK == StoreTypeOK /\ RecordingTypeOK /\ CollectingTypeOK /\ ImportTypeOK

Init == StoreInit /\ RecordingInit /\ CollectingInit /\ ImportInit

\* The database survives; the jobs, the imports and the mutex do not.
Crash ==
  /\ CanFail
  /\ lock # Nobody \/ \E d \in Device : imp[d].pc # "idle"
  /\ rec' = [w \in Worker |-> NotRecording]
  /\ col' = [w \in Worker |-> NotCollecting]
  /\ imp' = [d \in Device |-> NotImporting]
  /\ lock' = Nobody
  /\ UNCHANGED <<worldVars, tableVars>>

Next ==
  \/ WorldNext /\ UNCHANGED <<rec, col, imp>>
  \/ \E w \in Worker : RecordingStep(w) /\ UNCHANGED <<col, imp>>
  \/ \E w \in Worker : CollectingStep(w) /\ UNCHANGED <<rec, imp>>
  \/ ImportStep /\ UNCHANGED <<rec, col>>
  \/ Crash

Spec == Init /\ [][Next]_vars

\* A job that has started runs on, unless a call fails or the process dies, and
\* the scheduler starts results passes until, again and again, one gets through.
LiveSpec ==
  /\ Spec
  /\ WF_vars(Tick /\ UNCHANGED <<rec, col, imp>>)
  /\ \A w \in Worker :
       /\ WF_vars(RecordingWork(w) /\ UNCHANGED <<col, imp>>)
       /\ WF_vars(CollectingWork(w) /\ UNCHANGED <<rec, imp>>)
  /\ []<><<\E w \in Worker : FinishCollecting(w)>>_vars

-----------------------------------------------------------------------------

(* What may go wrong, and must not.                                        *)

ServerSealed(tip) == tip # NoTip /\ tip.source = "server" /\ IsSealed(tip)

\* A row may be given up as expired; that too is the end of it.
IsClosed(tip) == IsFinal(tip) \/ tip.outcome.kind = "expired"

SealedPrediction ==
  [r \in Race |-> IF ServerSealed(tips[r]) THEN {Prediction(tips[r])} ELSE {}]

SealedVerdict ==
  [r \in Race |-> IF ServerSealed(tips[r]) /\ IsClosed(tips[r])
                  THEN tips[r].outcome.kind ELSE "open"]

\* The tips table, under jobs, imports, stale rows and restarts, is a record
\* that keeps its promises for everything the server seals.
Promise == INSTANCE AccuracyRecord
             WITH record <- SealedPrediction, verdict <- SealedVerdict

KeepsItsPromises == Promise!Spec

\* A job runs alone, and whoever runs one holds the mutex.  (service.go: "a seal
\* and a results ingest must never interleave".)
JobsExclude ==
  /\ \A w \in Worker : rec[w].pc # "idle" \/ col[w].pc # "idle" => lock = w
  /\ \A w \in Worker : rec[w].pc = "idle" \/ col[w].pc = "idle"

\* What the server sealed is what stays on the record: no later job, import,
\* stale row of a results pass or restart changes the prediction or drops it.
ServerSealIsFinal ==
  [][\A r \in Race : ServerSealed(tips[r]) =>
       /\ ServerSealed(tips'[r])
       /\ Prediction(tips'[r]) = Prediction(tips[r])]_vars

\* The frozen card is there exactly when the server has sealed the race, and it
\* is the card the tip was made from, however often the card has moved since.
SealHasItsCard ==
  \A r \in Race :
    /\ cards[r].sealed <=> ServerSealed(tips[r])
    /\ cards[r].sealed => cards[r].off = tips[r].off

\* A training sample the server made freezes the inputs of the seal itself, even
\* when the job died between the seal and the sample and others ran since.
SampleIsOfTheSeal ==
  \A r \in Race : samples[r].kept /\ samples[r].source = "server" =>
    ServerSealed(tips[r]) /\ samples[r].at = tips[r].sealedAt

\* Between a job's read of a tip and its write, the server's own seal of that
\* race cannot have appeared: the decision about to be written still stands, on
\* the card it was made from.
DecisionStands ==
  \A w \in Worker : rec[w].pc = "write" =>
    /\ ~ServerSealed(tips[rec[w].race])
    /\ rec[w].tip.off = offs[rec[w].race]

\* A row a results pass is about to write back may be stale, but not when it, or
\* the row that has taken its place, is a seal of the server's.
RowsAreFresh ==
  \A w \in Worker, r \in Race :
    \A row \in {col[w].waiting[r], col[w].missing[r]} \ {NoTip} :
      ServerSealed(row) \/ ServerSealed(tips[r]) => row = tips[r]

\* A starting price on the record is never replaced or lost, whether it came
\* with the result or in a later pass.
StartingPriceIsFinal ==
  [][\A r \in Race : ServerSealed(tips[r]) /\ tips[r].outcome.sp # NoPrice =>
       tips'[r].outcome.sp = tips[r].outcome.sp]_vars

\* A verdict on a server tip is the one the fullest stored result gives, though
\* passes die half way and the provider serves short answers in between.
VerdictMatchesResult ==
  \A r \in Race : ServerSealed(tips[r]) /\ IsFinal(tips[r]) =>
    /\ FieldKnown(results[r])
    /\ tips[r].outcome.kind =
         IF tips[r].pick \in results[r].winners THEN "won"
         ELSE IF tips[r].pick \in results[r].finishers THEN "lost"
         ELSE "nonRunner"

\* What training learns is what the record says: a sample of the server's has a
\* winner only when the tip has its verdict, and it is one that the fullest stored
\* result names, whichever of the two statements a failing call or a death skipped
\* and whatever short answers came in between.
TrainsOnTheVerdict ==
  \A r \in Race :
    samples[r].kept /\ samples[r].source = "server" /\ samples[r].winner # NoHorse =>
      /\ ServerSealed(tips[r]) /\ IsSettled(tips[r])
      /\ FieldKnown(results[r]) /\ samples[r].winner \in results[r].winners

\* Two ledgers uploaded in turn do not push each other out: once both have been
\* folded in, uploading the first again changes no tip, whatever results passes
\* have made of the rows since.  (importer.Summary: "A repeat upload reports
\* zeros".)
AlternatingUploadsSettle ==
  \A u, v \in Uploads, r \in Race :
    LET both == MergedTip(v.tips[r], MergedTip(u.tips[r], tips[r]))
    IN  MergedTip(u.tips[r], both) = both

\* When no job is running, every settled tip that was sealed on a book good enough
\* to name a favourite has a settled training sample.  (docs/on-device-learning.md:
\* training runs "over every settled race the server has sealed".)
SettledSealTrains ==
  \A r \in Race :
    lock = Nobody /\ ServerSealed(tips[r]) /\ IsSettled(tips[r])
      /\ tips[r].favourite # NoHorse
    => samples[r].winner # NoHorse

\* A tip sealed for a known off ends, with a verdict or given up, whatever
\* passes fail and however late the result.
EverySealIsClosed ==
  \A r \in Race :
    ServerSealed(tips[r]) /\ tips[r].off # NoTime ~> SealedVerdict[r] # "open"
=============================================================================
