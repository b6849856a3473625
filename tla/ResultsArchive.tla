---------------------------- MODULE ResultsArchive ----------------------------
(***************************************************************************)
(* The archive of results: what it counts for each jockey or trainer, the  *)
(* window of recent rides it keeps, and the merging of a phone's archive   *)
(* into the server's.                                                      *)
(* Source: apps/server/internal/tracking/archive.go (Ingest, appendRecent, *)
(* Merge).                                                                 *)
(*                                                                         *)
(* The server and the phone both poll the same provider, each in its own   *)
(* order, and a result may be amended between two polls: the two may hold  *)
(* different versions of one race.  Of the many tables keyed by subject    *)
(* that Ingest and Merge treat alike, one is kept, of strike rates.        *)
(***************************************************************************)
EXTENDS FiniteSets, Integers

CONSTANTS
  Race,     \* ids of races, ordered
  Subject,  \* jockeys or trainers
  Dates,    \* race -> the dates its result may carry; zero is one that does not parse
  Entries,  \* race -> its runners, as records of horse and subject
  Window    \* RecentRunWindow

ASSUME ArchiveAssumption ==
  /\ Race \subseteq Nat
  /\ Window \in Nat
  /\ Dates \in [Race -> SUBSET Nat]
  /\ \A r \in Race :
       /\ IsFiniteSet(Entries[r])
       /\ Entries[r] \subseteq [horse : Nat, subject : Subject]

Holder == {"server", "phone"}

\* A run as it is counted, with what orders the recent ones.
Run == [date : Nat, race : Race, horse : Nat, subject : Subject, won : BOOLEAN]

VARIABLES
  ids,      \* holder -> IngestedRaceIDs
  rates,    \* holder -> subject -> runs and wins
  recent,   \* holder -> subject -> the newest dated runs
  counted   \* history: holder -> the runs its figures stand for

archiveVars == <<ids, rates, recent, counted>>

ArchiveTypeOK ==
  /\ ids \in [Holder -> SUBSET Race]
  /\ rates \in [Holder -> [Subject -> [runs : Nat, wins : Nat]]]
  /\ recent \in [Holder -> [Subject -> SUBSET Run]]
  /\ counted \in [Holder -> SUBSET Run]

ArchiveInit ==
  /\ ids = [h \in Holder |-> {}]
  /\ rates = [h \in Holder |-> [s \in Subject |-> [runs |-> 0, wins |-> 0]]]
  /\ recent = [h \in Holder |-> [s \in Subject |-> {}]]
  /\ counted = [h \in Holder |-> {}]

(***************************************************************************)
(* Recent runs                                                             *)
(***************************************************************************)

Newer(a, b) ==
  \/ a.date > b.date
  \/ a.date = b.date /\ a.race > b.race
  \/ a.date = b.date /\ a.race = b.race /\ a.horse > b.horse

\* Introduced error: ordered by race alone.
NewestById(runs) == {a \in runs : Cardinality({b \in runs : b.race > a.race}) < Window}

\* appendRecent: sorted, and cut to the newest.
Newest(runs) == {a \in runs : Cardinality({b \in runs : Newer(b, a)}) < Window}

(***************************************************************************)
(* Operations                                                              *)
(***************************************************************************)

RunsOf(s, runs) == {a \in runs : a.subject = s}
Wins(runs) == {a \in runs : a.won}
Dated(runs) == {a \in runs : a.date > 0}

\* The figures with these runs added to them.
Bump(rate, runs) ==
  [runs |-> rate.runs + Cardinality(runs), wins |-> rate.wins + Cardinality(Wins(runs))]

\* A version of a result: its date, who is listed, and who won, ties included.
Versions(r) ==
  {[date |-> d, finishers |-> f, winners |-> w] :
     d \in Dates[r], f \in SUBSET Entries[r], w \in SUBSET Entries[r]}
RunsIn(r, version) ==
  {[date |-> version.date, race |-> r, horse |-> f.horse, subject |-> f.subject,
    won |-> f \in version.winners] : f \in version.finishers}

\* A race already counted is not counted again, and an empty result not at all.
Fresh(h, r, version) == r \notin ids[h] /\ version.finishers # {}

Ingest(h, r) == \E version \in Versions(r) :
  LET runs == RunsIn(r, version) IN
  /\ Fresh(h, r, version)
  /\ ids' = [ids EXCEPT ![h] = @ \cup {r}]
  /\ rates' = [rates EXCEPT ![h] = [s \in Subject |-> Bump(@[s], RunsOf(s, runs))]]
  /\ recent' = [recent EXCEPT ![h] =
       [s \in Subject |-> Newest(@[s] \cup Dated(RunsOf(s, runs)))]]
  /\ counted' = [counted EXCEPT ![h] = @ \cup runs]

\* Introduced error: a merge wants one race it has not counted, not all of them.
SomeFresh == ids["phone"] \ ids["server"] # {}

\* Only an archive of which no race is counted yet can be added exactly.
Disjoint == ids["phone"] # {} /\ ids["phone"] \cap ids["server"] = {}

AddRates(a, b) == [runs |-> a.runs + b.runs, wins |-> a.wins + b.wins]

\* Whatever the phone has counted comes in, or nothing does.
Merge ==
  /\ Disjoint
  /\ ids' = [ids EXCEPT !["server"] = @ \cup ids["phone"]]
  /\ rates' = [rates EXCEPT !["server"] =
       [s \in Subject |-> AddRates(@[s], rates["phone"][s])]]
  /\ recent' = [recent EXCEPT !["server"] =
       [s \in Subject |-> Newest(@[s] \cup recent["phone"][s])]]
  /\ counted' = [counted EXCEPT !["server"] = @ \cup counted["phone"]]

ArchiveNext == Merge \/ \E h \in Holder, r \in Race : Ingest(h, r)

ArchiveSpec == ArchiveInit /\ [][ArchiveNext]_archiveVars

(***************************************************************************)
(* Properties                                                              *)
(***************************************************************************)

\* The figures are those of the runs that were counted, one version of each race
\* and each once: over repeated and amended results, empty ones, repeated uploads
\* and uploads that overlap.  (Ingest, Merge: "counting a race twice would
\* inflate every figure derived from it".)
FiguresAreExact ==
  \A h \in Holder :
    /\ ids[h] = {a.race : a \in counted[h]}
    /\ \A s \in Subject :
         LET runs == RunsOf(s, counted[h]) IN
         /\ rates[h][s] = [runs |-> Cardinality(runs), wins |-> Cardinality(Wins(runs))]
         /\ \A a, b \in runs : a.race = b.race /\ a.horse = b.horse => a = b

\* The recent window holds the newest dated runs of all that were counted, although
\* results come in any order and the phone sends its window only.
\* (appendRecent, Merge.)
RecentAreTheNewest ==
  \A h \in Holder, s \in Subject :
    LET all == Dated(RunsOf(s, counted[h])) IN
    /\ recent[h][s] \subseteq all
    /\ recent[h][s] = all \/ Cardinality(recent[h][s]) = Window
    /\ \A a \in recent[h][s], b \in all \ recent[h][s] : Newer(a, b)
=============================================================================
