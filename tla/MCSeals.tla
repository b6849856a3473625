------------------------------- MODULE MCSeals --------------------------------
(***************************************************************************)
(* The jobs of today and the recovery of the cards of older seals, checked *)
(* side by side: a behaviour is one of the record or of the recovery,      *)
(* chosen at the start, while the other stands still.                      *)
(***************************************************************************)
EXTENDS MCRecordService, SealCardRecovery

\* Two cards the rating cannot tell apart, and one that makes another tip.
CONSTANTS plain, hooded, scratched
TipsOfCards == [c \in Listing |-> IF c = scratched THEN 1 ELSE 2]

VARIABLE part

sealVars == <<vars, recoveryVars, part>>

SealsInit ==
  /\ Init /\ RecoveryInit
  /\ \/ part = "record"
     \/ part = "recovery" /\ \A r \in Race : offs[r] = 2

InRecordService(Action) == part = "record" /\ Action /\ UNCHANGED <<recoveryVars, part>>
InRecovery(Action) == part = "recovery" /\ Action /\ UNCHANGED <<vars, part>>

SealsNext == InRecordService(Next) \/ InRecovery(RecoveryNext)

SealsSpec == SealsInit /\ [][SealsNext]_sealVars

\* Workers are alike, and so are commands and the cards of one rating.
Alike == Symmetry \cup Permutations(Command) \cup Permutations({plain, hooded})
=============================================================================
