---------------------------- MODULE WeightRegister ----------------------------
(***************************************************************************)
(* What an id of a weight set promises, apart from tables, jobs, boots and *)
(* requests: an id gets its numbers once, one named set at most is in      *)
(* force, a rating is made with the set in force when it began, and what   *)
(* it leaves behind carries that set whole.                                *)
(* The code of service and training keeps to it: see WeightSets.           *)
(***************************************************************************)
CONSTANTS Names, Meanings

VARIABLES
  meaning,  \* of a name: nothing yet, or the one thing it stands for
  inForce,  \* the name in force, if there is one yet
  rating,   \* what the rating under way rates with, if one is
  stamped   \* what ratings have left behind

vars == <<meaning, inForce, rating, stamped>>

Named(name) == meaning[name] # {}

Init ==
  /\ meaning \in [Names -> {{}} \cup {{x} : x \in Meanings}]
  /\ inForce \in {{}} \cup {{name} : name \in {n \in Names : Named(n)}}
  /\ rating = {}
  /\ stamped = {}

\* A name stands for what it stood for before, if it did.
Means(name, x) ==
  /\ meaning[name] \subseteq {x}
  /\ meaning' = [meaning EXCEPT ![name] = {x}]

\* A set is filed under a free name.
File(name, x) == ~Named(name) /\ Means(name, x) /\ UNCHANGED <<inForce, rating, stamped>>

\* A set is named and comes into force in one step.
Adopt(name, x) ==
  Means(name, x) /\ inForce' = {name} /\ UNCHANGED <<rating, stamped>>

Begin ==
  /\ rating = {} /\ inForce # {}
  /\ rating' = {[id |-> name, numbers |-> x] :
                  name \in inForce, x \in UNION {meaning[n] : n \in inForce}}
  /\ UNCHANGED <<meaning, inForce, stamped>>

Stamp ==
  /\ rating # {}
  /\ stamped' = stamped \cup rating
  /\ UNCHANGED <<meaning, inForce, rating>>

End == rating' = {} /\ UNCHANGED <<meaning, inForce, stamped>>

Next ==
  \/ \E name \in Names, x \in Meanings : File(name, x) \/ Adopt(name, x)
  \/ Begin \/ Stamp \/ End

Spec == Init /\ [][Next]_vars
=============================================================================
