------------------------------- MODULE Matching -------------------------------
(***************************************************************************)
(* Joining the card of one provider to the markets of another: which       *)
(* market a race is, and which selection a runner.                         *)
(* Source: apps/server/internal/matching/matcher.go (MatchRunners,         *)
(* consume, MatchRaces).                                                   *)
(*                                                                         *)
(* Races are taken one by one, each claiming its market.  A name stands    *)
(* for its key, a course for its course key, and cloth zero for none.  A   *)
(* selection knows the horse it really is, and a market its race: no       *)
(* operation looks at them, the properties do.                             *)
(***************************************************************************)
EXTENDS FiniteSets, Integers

CONSTANTS
  Distance(_, _),  \* between two names: zero when they are the same
  MaximumNameDistance,
  StartTimeWindow, \* in minutes
  Meetings,        \* the races and markets of a pass, as sets of records
  NoOff

\* Every two names that may meet are some number of letters apart, equal ones none;
\* a card is a finite list.
ASSUME MatchingAssumption ==
  /\ MaximumNameDistance \in Nat
  /\ \A meeting \in Meetings : \A r \in meeting.races :
       /\ IsFiniteSet(r.runners)
       /\ \A m \in meeting.markets : \A n \in r.runners, s \in m.selections :
            /\ Distance(n.name, s.name) \in Nat
            /\ n.name = s.name => Distance(n.name, s.name) = 0

VARIABLES
  races,     \* [id, course, off, runners]: runners of [horse, name, cloth]
  markets,   \* [id, race, course, start, selections]:
             \*   selections of [id, horse, name, cloth, active]
  pending,   \* the races not considered yet
  matches,   \* [race, market, pairings], as whole records
  refusals   \* [race, kind]

matchingVars == <<races, markets, pending, matches, refusals>>

Kinds == {"noRunners", "noOffTime", "noCandidate", "noOverlap", "ambiguous"}

MatchingTypeOK ==
  /\ pending \subseteq races
  /\ \A m \in matches :
       /\ m.race \in races /\ m.market \in markets
       /\ m.pairings \subseteq m.race.runners \X m.market.selections
  /\ \A f \in refusals : f.race \in races /\ f.kind \in Kinds

MatchingInit ==
  /\ \E meeting \in Meetings : races = meeting.races /\ markets = meeting.markets
  /\ pending = races
  /\ matches = {}
  /\ refusals = {}

(***************************************************************************)
(* Runners                                                                 *)
(***************************************************************************)

\* Introduced error: of several runners proposed for a selection, all are accepted.
ConsumeAll(proposed) == proposed

\* A pass accepts what is one-to-one within it.
Consume(proposed) ==
  {p \in proposed : \A q \in proposed : q[2] = p[2] => q = p}

\* Introduced error: the number is believed whatever the name says.
NeverContradicted(r, s, runners) == FALSE

\* The selection's name is plainly another runner's, so the numbering is wrong.
Contradicted(r, s, runners) ==
  \E other \in runners \ {r} : {n \in runners : n.name = s.name} = {other}

ByCloth(runners, selections) ==
  {p \in runners \X selections :
     /\ p[1].cloth # 0
     /\ {s \in selections : s.cloth = p[1].cloth} = {p[2]}
     /\ ~Contradicted(p[1], p[2], runners)}

ByExactName(runners, selections) ==
  {p \in runners \X selections : {s \in selections : s.name = p[1].name} = {p[2]}}

\* Near-identical, and nearer than every other.
BySimilarName(runners, selections) ==
  {p \in runners \X selections :
     /\ Distance(p[1].name, p[2].name) <= MaximumNameDistance
     /\ \A s \in selections \ {p[2]} :
          Distance(p[1].name, s.name) > Distance(p[1].name, p[2].name)}

\* What pairings leave to the next pass.
RunnersLeft(runners, pairings) == {r \in runners : \A p \in pairings : p[1] # r}
SelectionsLeft(selections, pairings) == {s \in selections : \A p \in pairings : p[2] # s}

MatchRunners(runners, selections, allowClothNumbers) ==
  LET cloths == IF allowClothNumbers THEN Consume(ByCloth(runners, selections)) ELSE {}
      names == Consume(ByExactName(RunnersLeft(runners, cloths),
                                   SelectionsLeft(selections, cloths)))
      sure == cloths \cup names
  IN sure \cup Consume(BySimilarName(RunnersLeft(runners, sure),
                                     SelectionsLeft(selections, sure)))

ActiveRunners(m) == {s \in m.selections : s.active}

(***************************************************************************)
(* Races                                                                   *)
(***************************************************************************)

\* Introduced error: numbers count while it is decided which market a race is.
OverlapOfCloths(r, m) == Cardinality(MatchRunners(r.runners, ActiveRunners(m), TRUE))

\* How many runners of the race are in the market, by their names.
Overlap(r, m) == Cardinality(MatchRunners(r.runners, ActiveRunners(m), FALSE))

Apart(r, m) == IF m.start > r.off THEN m.start - r.off ELSE r.off - m.start

\* Introduced error: a market may be claimed twice.
AllCandidates(r) ==
  {m \in markets : m.course = r.course /\ Apart(r, m) <= StartTimeWindow}

Candidates(r) ==
  {m \in markets : /\ m.course = r.course /\ Apart(r, m) <= StartTimeWindow
                   /\ \A joined \in matches : joined.market # m}

\* MinimumRunnerOverlap is three fifths.
Viable(r) == {m \in Candidates(r) : 5 * Overlap(r, m) >= 3 * Cardinality(r.runners)}

\* More names in common; then the nearer start.
Better(r, m, n) ==
  \/ Overlap(r, m) > Overlap(r, n)
  \/ Overlap(r, m) = Overlap(r, n) /\ Apart(r, m) < Apart(r, n)

\* Longest fields first; equally long ones in the order they come.
NextRace(r) ==
  /\ r \in pending
  /\ \A other \in pending : Cardinality(other.runners) <= Cardinality(r.runners)
  /\ pending' = pending \ {r}
  /\ UNCHANGED <<races, markets>>

Refuse(r) ==
  /\ NextRace(r)
  /\ \E kind \in Kinds :
       /\ CASE r.runners = {} -> kind = "noRunners"
            [] r.runners # {} /\ r.off = NoOff -> kind = "noOffTime"
            [] OTHER ->
                 \/ Candidates(r) = {} /\ kind = "noCandidate"
                 \/ Candidates(r) # {} /\ Viable(r) = {} /\ kind = "noOverlap"
                 \/ /\ Viable(r) # {} /\ kind = "ambiguous"
                    /\ \A m \in Viable(r) : \E n \in Viable(r) \ {m} : ~Better(r, m, n)
       /\ refusals' = refusals \cup {[race |-> r, kind |-> kind]}
  /\ UNCHANGED matches

\* Now the market is settled, numbers may fill in what the names leave open.
Join(r) ==
  /\ NextRace(r)
  /\ r.runners # {} /\ r.off # NoOff
  /\ \E m \in Viable(r) :
       /\ \A n \in Viable(r) \ {m} : Better(r, m, n)
       /\ matches' = matches \cup
            {[race |-> r, market |-> m,
              pairings |-> MatchRunners(r.runners, ActiveRunners(m), TRUE)]}
  /\ UNCHANGED refusals

MatchingNext == \E r \in races : Refuse(r) \/ Join(r)

MatchingSpec == MatchingInit /\ [][MatchingNext]_matchingVars

(***************************************************************************)
(* Properties                                                              *)
(***************************************************************************)

\* No two horses share a selection or two selections a horse, nobody is joined to
\* a selection that was removed, and no market is claimed twice.
\* (consume, MatchRaces.)
JoinedOneToOne ==
  /\ \A m \in matches : \A p, q \in m.pairings :
       p[2].active /\ (p[1] = q[1] \/ p[2] = q[2] => p = q)
  /\ \A m, n \in matches : m.market = n.market \/ m.race = n.race => m = n

\* With every name spelled as on the card, no two runners of one name and no horse
\* in the market twice, nobody is joined to another horse's selection, however the
\* two providers number the field.  (MatchRunners: the contradiction guard.)
SpelledAlike(r, m) ==
  /\ \A s \in ActiveRunners(m) : \E own \in r.runners :
       own.horse = s.horse /\ own.name = s.name
  /\ \A s, t \in ActiveRunners(m) : s.horse = t.horse => s = t
  /\ \A n, o \in r.runners : n.name = o.name => n = o
NamesOverruleCloths ==
  \A m \in matches : SpelledAlike(m.race, m.market) =>
    \A p \in m.pairings : p[1].horse = p[2].horse

\* With every selection numbered as on the card or not at all, none under the very
\* name of another runner, and each told by its number or else the nearest its own
\* runner has, nobody is joined to another horse's selection: over misspellings as
\* near to one runner as to another, and removed horses whose runner is still there
\* to be joined.  (MatchRunners: each pass sees what the last one left; consume.)
ToldByNumber(s, r, m) ==
  /\ s.cloth # 0
  /\ \A t \in ActiveRunners(m) : t.cloth = s.cloth => t = s
  /\ \A n, o \in r.runners : n.cloth = s.cloth /\ o.cloth = s.cloth => n = o
NearestOf(own, s, r, m) ==
  /\ Distance(own.name, s.name) <= MaximumNameDistance
  /\ \A t \in ActiveRunners(m) \ {s} :
       \/ ToldByNumber(t, r, m)
       \/ Distance(own.name, t.name) > Distance(own.name, s.name)
NumberedAlike(r, m) ==
  /\ \A s, t \in ActiveRunners(m) : s.horse = t.horse => s = t
  /\ \A s \in ActiveRunners(m) : \E own \in r.runners :
       /\ own.horse = s.horse /\ s.cloth \in {0, own.cloth}
       /\ \A other \in r.runners \ {own} : other.name # s.name
       /\ ToldByNumber(s, r, m) \/ NearestOf(own, s, r, m)
ClothsSettleMisspellings ==
  \A m \in matches : NumberedAlike(m.race, m.market) =>
    \A p \in m.pairings : p[1].horse = p[2].horse

\* A race joined to the market of another is one with three fifths of its runners in
\* it by name: agreeing course, time and numbers are no evidence.
\* (MatchRaces; MatchRunners: allowClothNumbers.)
NamesInCommon(r, m) ==
  {n \in r.runners : \E s \in ActiveRunners(m) : Distance(n.name, s.name) <= MaximumNameDistance}
OwnMarketOnly ==
  \A m \in matches :
    \/ m.market.race = m.race.id
    \/ 5 * Cardinality(NamesInCommon(m.race, m.market)) >= 3 * Cardinality(m.race.runners)
=============================================================================
