---------------------------- MODULE MCPhoneScreens ----------------------------
(***************************************************************************)
(* The screens of a day's card and the Record tab share no state and are   *)
(* checked side by side: a behaviour is one of the former or of the        *)
(* latter, chosen at the start, while the other stands still.              *)
(***************************************************************************)
EXTENDS RacecardScreens, RecordScreen

VARIABLE part

phoneVars == <<vars, recordVars, part>>

\* What an earlier start left on the phone matters to the part that reads it.
PhoneInit ==
  /\ Init /\ RecordInit
  /\ \/ part = "screens" /\ active = AnyWeights /\ saved = NoRecord
     \/ part = "record" /\ disk = {}

InScreens(Action) == part = "screens" /\ Action /\ UNCHANGED <<recordVars, part>>
InRecord(Action) == part = "record" /\ Action /\ UNCHANGED <<vars, part>>

PhoneNext == InScreens(Next) \/ InRecord(RecordNext)

PhoneSpec == PhoneInit /\ [][PhoneNext]_phoneVars

\* The fairness is that of FairSpec and RecordFairSpec.
PhoneFairSpec ==
  /\ PhoneSpec
  /\ \A t \in Task : WF_phoneVars(InScreens(LoadStep(t)))
  /\ \A t \in Reader : WF_phoneVars(InRecord(ReadingStep(t)))

\* Every spinner of the phone goes away, by an answer, by what was saved or by
\* an error.  (TodayViewModel.load, TipsViewModel.load, RecordViewModel.load.)
EveryScreenSettles == ScreensSettle /\ RecordSettles
=============================================================================
