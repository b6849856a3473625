---------------------------- MODULE MCWeightSets ----------------------------
(* A small world for WeightSets: three kinds of numbers, a phone that learned *)
(* from the same samples as the server, and one that learned something else.  *)
EXTENDS WeightSets

CONSTANTS n2, n3, n4

PhoneSets == {[id |-> LearnedId(1), numbers |-> n4]}
=============================================================================
