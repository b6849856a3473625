--------------------------- MODULE AccuracyRecord ---------------------------
(***************************************************************************)
(* What the accuracy record promises, whatever jobs, imports, retries and  *)
(* restarts produce it: for each race at most one prediction is ever       *)
(* sealed, in the window before the off; it is never changed or withdrawn; *)
(* and it gets at most one verdict, which is never changed either.         *)
(* (docs/accuracy.md, "The sealing rule"; apps/server/README.md: "a sealed *)
(* tip is never rewritten".)                                               *)
(***************************************************************************)
EXTENDS Integers

CONSTANTS Race, SealWindow

VARIABLES
  record,   \* per race, the set of its sealed predictions
  verdict   \* per race, how the sealed prediction turned out

Verdicts == {"won", "lost", "nonRunner", "abandoned", "expired"}

\* An off of -1 is unknown, and then the first write seals.
Timely(prediction) ==
  prediction.off = -1 \/ /\ prediction.off - SealWindow <= prediction.sealedAt
                         /\ prediction.sealedAt < prediction.off

Init ==
  /\ record = [r \in Race |-> {}]
  /\ verdict = [r \in Race |-> "open"]

SealRace(r) ==
  /\ record[r] = {}
  /\ \E p \in record'[r] :
       Timely(p) /\ record' = [record EXCEPT ![r] = {p}]
  /\ verdict' = verdict

CloseRace(r) ==
  /\ record[r] # {}
  /\ verdict[r] = "open"
  /\ \E v \in Verdicts : verdict' = [verdict EXCEPT ![r] = v]
  /\ record' = record

Next == \E r \in Race : SealRace(r) \/ CloseRace(r)

Spec == Init /\ [][Next]_<<record, verdict>>
=============================================================================
