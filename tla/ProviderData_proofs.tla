-------------------------- MODULE ProviderData_proofs --------------------------
(***************************************************************************)
(* What the matcher joins is one-to-one, and what the archive counts is    *)
(* exact, for any meetings and results; the card recovered for a seal is   *)
(* the one that was rated if the response that listed it was retained.     *)
(***************************************************************************)
EXTENDS ResultsArchive, Matching, SealCardRecovery, FiniteSetTheorems, TLAPS

(***************************************************************************)
(* The matcher                                                             *)
(***************************************************************************)

OneToOne(pairings) ==
  \A p, q \in pairings : p[1] = q[1] \/ p[2] = q[2] => p = q

\* A pass proposes at most one selection for a runner, and accepts one-to-one.
LEMMA ClothsProposeOne ==
  ASSUME NEW R, NEW S
  PROVE  /\ ByCloth(R, S) \subseteq R \X S
         /\ \A p, q \in ByCloth(R, S) : p[1] = q[1] => p = q
<1>1. ASSUME NEW p \in ByCloth(R, S), NEW q \in ByCloth(R, S), p[1] = q[1]
      PROVE  p = q
  <2>1. p \in R \X S /\ q \in R \X S
    BY DEF ByCloth
  <2>2. {p[2]} = {s \in S : s.cloth = p[1].cloth} /\ {q[2]} = {s \in S : s.cloth = q[1].cloth}
    BY DEF ByCloth
  <2>3. p[2] = q[2]
    BY <1>1, <2>2
  <2> QED BY <1>1, <2>1, <2>3
<1> QED BY <1>1 DEF ByCloth

LEMMA NamesProposeOne ==
  ASSUME NEW R, NEW S
  PROVE  /\ ByExactName(R, S) \subseteq R \X S
         /\ \A p, q \in ByExactName(R, S) : p[1] = q[1] => p = q
<1>1. ASSUME NEW p \in ByExactName(R, S), NEW q \in ByExactName(R, S), p[1] = q[1]
      PROVE  p = q
  <2>1. p \in R \X S /\ q \in R \X S
    BY DEF ByExactName
  <2>2. {p[2]} = {s \in S : s.name = p[1].name} /\ {q[2]} = {s \in S : s.name = q[1].name}
    BY DEF ByExactName
  <2>3. p[2] = q[2]
    BY <1>1, <2>2
  <2> QED BY <1>1, <2>1, <2>3
<1> QED BY <1>1 DEF ByExactName

LEMMA SimilarNamesProposeOne ==
  ASSUME NEW R, NEW S,
         \A r \in R, s \in S : Distance(r.name, s.name) \in Nat
  PROVE  /\ BySimilarName(R, S) \subseteq R \X S
         /\ \A p, q \in BySimilarName(R, S) : p[1] = q[1] => p = q
<1>1. ASSUME NEW p \in BySimilarName(R, S), NEW q \in BySimilarName(R, S), p[1] = q[1]
      PROVE  p = q
  <2>1. p \in R \X S /\ q \in R \X S
    BY DEF BySimilarName
  <2>2. SUFFICES ASSUME p[2] # q[2] PROVE FALSE
    BY <1>1, <2>1
  <2>3. q[2] \in S \ {p[2]} /\ p[2] \in S \ {q[2]}
    BY <2>1, <2>2
  <2>4. Distance(p[1].name, q[2].name) > Distance(p[1].name, p[2].name)
    BY <2>3 DEF BySimilarName
  <2>5. Distance(p[1].name, p[2].name) > Distance(p[1].name, q[2].name)
    BY <1>1, <2>3 DEF BySimilarName
  <2>6. Distance(p[1].name, p[2].name) \in Nat /\ Distance(p[1].name, q[2].name) \in Nat
    BY <2>1
  <2> QED BY <2>4, <2>5, <2>6
<1> QED BY <1>1 DEF BySimilarName

LEMMA ConsumeIsOneToOne ==
  ASSUME NEW proposed,
         \A p, q \in proposed : p[1] = q[1] => p = q
  PROVE  Consume(proposed) \subseteq proposed /\ OneToOne(Consume(proposed))
BY DEF Consume, OneToOne

\* What a pass adds, from what the last ones left, keeps everything one-to-one.
LEMMA PassesAdd ==
  ASSUME NEW R, NEW S, NEW before, before \subseteq R \X S, OneToOne(before),
         NEW more, more \subseteq RunnersLeft(R, before) \X SelectionsLeft(S, before),
         OneToOne(more)
  PROVE  before \cup more \subseteq R \X S /\ OneToOne(before \cup more)
<1>1. \A p \in more : /\ p \in R \X S
                      /\ \A q \in before : q[1] # p[1] /\ q[2] # p[2]
  BY DEF RunnersLeft, SelectionsLeft
<1> QED BY <1>1 DEF OneToOne

\* Whatever the meeting, its names are a number of letters apart.
DistancesAreNumbers ==
  \A r \in races, m \in markets : \A n \in r.runners, s \in m.selections :
    Distance(n.name, s.name) \in Nat

LEMMA MatchIsOneToOne ==
  ASSUME NEW R, NEW S, NEW allow \in BOOLEAN,
         \A r \in R, s \in S : Distance(r.name, s.name) \in Nat
  PROVE  /\ MatchRunners(R, S, allow) \subseteq R \X S
         /\ OneToOne(MatchRunners(R, S, allow))
<1> DEFINE cloths == IF allow THEN Consume(ByCloth(R, S)) ELSE {}
           names == Consume(ByExactName(RunnersLeft(R, cloths), SelectionsLeft(S, cloths)))
           sure == cloths \cup names
           alike == Consume(BySimilarName(RunnersLeft(R, sure), SelectionsLeft(S, sure)))
<1>1. MatchRunners(R, S, allow) = sure \cup alike
  BY DEF MatchRunners
<1>2. cloths \subseteq R \X S /\ OneToOne(cloths)
  <2>1. CASE allow
    BY <2>1, ClothsProposeOne, ConsumeIsOneToOne
  <2>2. CASE ~allow
    BY <2>2 DEF OneToOne
  <2> QED BY <2>1, <2>2
<1> HIDE DEF cloths
<1>3. /\ names \subseteq RunnersLeft(R, cloths) \X SelectionsLeft(S, cloths)
      /\ OneToOne(names)
  BY NamesProposeOne, ConsumeIsOneToOne
<1> HIDE DEF names
<1>4. sure \subseteq R \X S /\ OneToOne(sure)
  BY <1>2, <1>3, PassesAdd
<1> HIDE DEF sure
<1>5. /\ alike \subseteq RunnersLeft(R, sure) \X SelectionsLeft(S, sure)
      /\ OneToOne(alike)
  <2>1. \A r \in RunnersLeft(R, sure), s \in SelectionsLeft(S, sure) :
          Distance(r.name, s.name) \in Nat
    BY DEF RunnersLeft, SelectionsLeft
  <2> HIDE DEF sure
  <2> QED BY <2>1, SimilarNamesProposeOne, ConsumeIsOneToOne
<1> HIDE DEF alike
<1> QED BY <1>1, <1>4, <1>5, PassesAdd

\* A race has been joined or is still to be considered, and is joined to a market
\* that nobody has claimed.
MatchingInv ==
  /\ MatchingTypeOK /\ DistancesAreNumbers /\ JoinedOneToOne
  /\ \A m \in matches : m.race \notin pending

LEMMA MatchingStarts == MatchingInit => MatchingInv
BY MatchingAssumption
   DEF MatchingInit, MatchingInv, MatchingTypeOK, DistancesAreNumbers, JoinedOneToOne

LEMMA JoinKeeps ==
  ASSUME MatchingInv, NEW r \in races, Join(r)
  PROVE  MatchingInv'
<1>1. PICK m \in Viable(r) :
        matches' = matches \cup
          {[race |-> r, market |-> m,
            pairings |-> MatchRunners(r.runners, ActiveRunners(m), TRUE)]}
  BY DEF Join
<1> DEFINE paired == MatchRunners(r.runners, ActiveRunners(m), TRUE)
           new == [race |-> r, market |-> m, pairings |-> paired]
<1>2. /\ r \in pending /\ pending' = pending \ {r} /\ UNCHANGED <<races, markets, refusals>>
  BY DEF Join, NextRace
<1>3. m \in markets /\ \A joined \in matches : joined.market # m
  BY DEF Viable, Candidates
<1>4. ActiveRunners(m) \subseteq m.selections /\ \A s \in ActiveRunners(m) : s.active
  BY DEF ActiveRunners
<1>5. \A n \in r.runners, s \in ActiveRunners(m) : Distance(n.name, s.name) \in Nat
  BY <1>3, <1>4 DEF MatchingInv, DistancesAreNumbers
<1>6. paired \subseteq r.runners \X ActiveRunners(m) /\ OneToOne(paired)
  BY <1>5, MatchIsOneToOne
<1> HIDE DEF paired
<1>7. /\ matches' = matches \cup {new}
      /\ new.race = r /\ new.market = m /\ new.pairings = paired
  BY <1>1 DEF paired
<1> HIDE DEF new
<1>8. MatchingTypeOK'
  BY <1>2, <1>3, <1>4, <1>6, <1>7 DEF MatchingInv, MatchingTypeOK
<1>9. JoinedOneToOne'
  <2>1. ASSUME NEW n \in matches', NEW p \in n.pairings, NEW q \in n.pairings
        PROVE  p[2].active /\ (p[1] = q[1] \/ p[2] = q[2] => p = q)
    BY <1>4, <1>6, <1>7 DEF MatchingInv, JoinedOneToOne, OneToOne
  <2>2. ASSUME NEW n \in matches', NEW o \in matches', n.market = o.market \/ n.race = o.race
        PROVE  n = o
    BY <1>2, <1>3, <1>7, <2>2 DEF MatchingInv, JoinedOneToOne
  <2> QED BY <2>1, <2>2 DEF JoinedOneToOne
<1>10. (\A n \in matches : n.race \notin pending)'
  BY <1>2, <1>7 DEF MatchingInv
<1>11. DistancesAreNumbers'
  BY <1>2 DEF MatchingInv, DistancesAreNumbers
<1> QED BY <1>8, <1>9, <1>10, <1>11 DEF MatchingInv

LEMMA RefuseKeeps ==
  ASSUME MatchingInv, NEW r \in races, Refuse(r)
  PROVE  MatchingInv'
<1>1. /\ pending' = pending \ {r} /\ UNCHANGED <<races, markets, matches>>
      /\ \E kind \in Kinds : refusals' = refusals \cup {[race |-> r, kind |-> kind]}
  BY DEF Refuse, NextRace
<1> QED BY <1>1 DEF MatchingInv, MatchingTypeOK, DistancesAreNumbers, JoinedOneToOne

LEMMA MatchingSteps == MatchingInv /\ [MatchingNext]_matchingVars => MatchingInv'
<1>1. ASSUME MatchingInv, UNCHANGED matchingVars PROVE MatchingInv'
  BY <1>1 DEF matchingVars, MatchingInv, MatchingTypeOK, DistancesAreNumbers, JoinedOneToOne
<1> QED BY <1>1, JoinKeeps, RefuseKeeps DEF MatchingNext

LEMMA MatchingInvariant == MatchingSpec => []MatchingInv
BY MatchingStarts, MatchingSteps, PTL DEF MatchingSpec

\* Matches are of the meeting's races and markets, and refusals of a known kind.
\* (MatchRaces.)
THEOREM MatchingTyped == MatchingSpec => []MatchingTypeOK
<1>1. MatchingInv => MatchingTypeOK
  BY DEF MatchingInv
<1> QED BY <1>1, MatchingInvariant, PTL

\* One selection per horse and one market per race, for any names, numbers and
\* removals.  (consume, MatchRaces.)
THEOREM EverythingIsJoinedOnce == MatchingSpec => []JoinedOneToOne
<1>1. MatchingInv => JoinedOneToOne
  BY DEF MatchingInv
<1> QED BY <1>1, MatchingInvariant, PTL

\* With names alike, numbers mislead nobody: a cloth that points to another horse's
\* selection is contradicted by its name, and every selection that is left is taken
\* by the runner of its name before similar names are tried.
LEMMA NamesWin ==
  ASSUME NEW r, NEW m, SpelledAlike(r, m),
         \A n \in r.runners, s \in ActiveRunners(m) : Distance(n.name, s.name) \in Nat,
         NEW p \in MatchRunners(r.runners, ActiveRunners(m), TRUE)
  PROVE  p[1].horse = p[2].horse
<1> DEFINE R == r.runners
           S == ActiveRunners(m)
           cloths == Consume(ByCloth(R, S))
           RL == RunnersLeft(R, cloths)
           SL == SelectionsLeft(S, cloths)
           names == Consume(ByExactName(RL, SL))
           sure == cloths \cup names
           alike == Consume(BySimilarName(RunnersLeft(R, sure), SelectionsLeft(S, sure)))
<1>1. p \in cloths \cup names \cup alike
  BY DEF MatchRunners
<1>2. \A s \in S : \E own \in R : own.horse = s.horse /\ own.name = s.name
  BY DEF SpelledAlike
<1>3. \A s, t \in S : s.horse = t.horse => s = t
  BY DEF SpelledAlike
<1>4. \A n, o \in R : n.name = o.name => n = o
  BY DEF SpelledAlike
<1> HIDE DEF R, S
<1>5. ASSUME NEW q \in cloths PROVE q \in R \X S /\ q[1].horse = q[2].horse
  <2>1. q \in R \X S /\ ~Contradicted(q[1], q[2], R)
    BY DEF Consume, ByCloth
  <2>2. PICK own \in R : own.horse = q[2].horse /\ own.name = q[2].name
    BY <1>2, <2>1
  <2>3. {n \in R : n.name = q[2].name} = {own}
    BY <1>4, <2>2
  <2>4. own = q[1]
    BY <2>1, <2>2, <2>3 DEF Contradicted
  <2> QED BY <2>1, <2>2, <2>4
<1> HIDE DEF cloths
<1>6. ASSUME NEW q \in names PROVE q \in R \X S /\ q[1].horse = q[2].horse
  <2>1. q \in RL \X SL /\ {s \in SL : s.name = q[1].name} = {q[2]}
    BY DEF Consume, ByExactName
  <2>2. q \in R \X S /\ q[2].name = q[1].name
    BY <2>1 DEF RunnersLeft, SelectionsLeft
  <2>3. PICK own \in R : own.horse = q[2].horse /\ own.name = q[2].name
    BY <1>2, <2>2
  <2>4. own = q[1]
    BY <1>4, <2>2, <2>3
  <2> QED BY <2>2, <2>3, <2>4
<1>7. p \notin alike
  <2> SUFFICES ASSUME p \in alike PROVE FALSE
    OBVIOUS
  <2>1. p[2] \in SelectionsLeft(S, sure)
    BY DEF Consume, BySimilarName
  <2>2. p[2] \in SL /\ p[2] \in S /\ \A q \in names : q[2] # p[2]
    BY <2>1 DEF SelectionsLeft
  <2>3. PICK own \in R : own.horse = p[2].horse /\ own.name = p[2].name
    BY <1>2, <2>2
  <2>4. own \in RL
    <3>1. ASSUME NEW q \in cloths, q[1] = own PROVE FALSE
      <4>1. q \in R \X S /\ q[2].horse = p[2].horse
        BY <1>5, <2>3, <3>1
      <4>2. q[2] = p[2]
        BY <1>3, <2>2, <4>1
      <4> QED BY <2>2, <4>2 DEF SelectionsLeft
    <3> QED BY <3>1 DEF RunnersLeft
  <2>5. ASSUME NEW t \in SL, t.name = own.name PROVE t = p[2]
    <3>1. t \in S
      BY DEF SelectionsLeft
    <3>2. PICK other \in R : other.horse = t.horse /\ other.name = t.name
      BY <1>2, <3>1
    <3>3. other = own
      BY <1>4, <2>5, <3>2
    <3> QED BY <1>3, <2>2, <2>3, <3>1, <3>2, <3>3
  <2>6. <<own, p[2]>> \in ByExactName(RL, SL)
    <3>1. {s \in SL : s.name = own.name} = {p[2]}
      BY <2>2, <2>3, <2>5
    <3> HIDE DEF RL, SL
    <3> QED BY <2>2, <2>4, <3>1 DEF ByExactName
  <2>7. ASSUME NEW q \in ByExactName(RL, SL), q[2] = p[2] PROVE q = <<own, p[2]>>
    <3>1. q \in RL \X SL /\ {s \in SL : s.name = q[1].name} = {q[2]}
      BY DEF ByExactName
    <3>2. q[1] \in R /\ q[1].name = own.name
      BY <2>3, <2>7, <3>1 DEF RunnersLeft
    <3>3. q[1] = own
      BY <1>4, <3>2
    <3> QED BY <2>7, <3>1, <3>3
  <2>8. <<own, p[2]>> \in names
    BY <2>6, <2>7 DEF Consume
  <2> QED BY <2>2, <2>8
<1> QED BY <1>1, <1>5, <1>6, <1>7

\* What a match keeps are the pairings of its race and market.
MatchesAreComputed ==
  \A m \in matches : m.pairings = MatchRunners(m.race.runners, ActiveRunners(m.market), TRUE)

LEMMA ComputedSteps ==
  ASSUME MatchesAreComputed, [MatchingNext]_matchingVars
  PROVE  MatchesAreComputed'
<1>1. ASSUME NEW r \in races, Join(r) PROVE MatchesAreComputed'
  <2>1. PICK m \in Viable(r) :
          matches' = matches \cup
            {[race |-> r, market |-> m,
              pairings |-> MatchRunners(r.runners, ActiveRunners(m), TRUE)]}
    BY <1>1 DEF Join
  <2>2. ASSUME NEW joined \in matches'
        PROVE  joined.pairings =
                 MatchRunners(joined.race.runners, ActiveRunners(joined.market), TRUE)
    <3>1. CASE joined \in matches
      BY <3>1 DEF MatchesAreComputed
    <3>2. CASE joined \notin matches
      <4>1. joined = [race |-> r, market |-> m,
                      pairings |-> MatchRunners(r.runners, ActiveRunners(m), TRUE)]
        BY <2>1, <3>2
      <4>2. /\ joined.race = r /\ joined.market = m
            /\ joined.pairings = MatchRunners(r.runners, ActiveRunners(m), TRUE)
        BY <4>1
      <4> QED BY <4>2
    <3> QED BY <3>1, <3>2
  <2> QED BY <2>2 DEF MatchesAreComputed
<1>2. ASSUME NEW r \in races, Refuse(r) PROVE MatchesAreComputed'
  BY <1>2 DEF Refuse, MatchesAreComputed
<1>3. CASE UNCHANGED matchingVars
  BY <1>3 DEF matchingVars, MatchesAreComputed
<1> QED BY <1>1, <1>2, <1>3 DEF MatchingNext

\* Numbers never lead a runner to another's selection when the names agree, for any
\* field and any numbering of it.  (MatchRunners.)
THEOREM NamesAreBelieved == MatchingSpec => []NamesOverruleCloths
<1>1. MatchingInit => MatchesAreComputed
  BY DEF MatchingInit, MatchesAreComputed
<1>2. MatchingInv /\ MatchesAreComputed => NamesOverruleCloths
  <2> SUFFICES ASSUME MatchingInv, MatchesAreComputed, NEW m \in matches,
                      SpelledAlike(m.race, m.market), NEW p \in m.pairings
               PROVE  p[1].horse = p[2].horse
    BY DEF NamesOverruleCloths
  <2>1. \A n \in m.race.runners, s \in ActiveRunners(m.market) : Distance(n.name, s.name) \in Nat
    BY DEF MatchingInv, MatchingTypeOK, DistancesAreNumbers, ActiveRunners
  <2>2. p \in MatchRunners(m.race.runners, ActiveRunners(m.market), TRUE)
    BY DEF MatchesAreComputed
  <2> QED BY <2>1, <2>2, NamesWin
<1> QED BY <1>1, <1>2, ComputedSteps, MatchingInvariant, PTL DEF MatchingSpec

\* With numbers alike, what another runner proposes its own runner proposes too, and
\* then neither has it: by number, and by similar name, once every selection that is
\* told by its number is taken and no other is as near.
LEMMA OwnProposesToo ==
  ASSUME NEW r, NEW m, NumberedAlike(r, m),
         NEW p \in MatchRunners(r.runners, ActiveRunners(m), TRUE)
  PROVE  p[1].horse = p[2].horse
<1> DEFINE R == r.runners
           S == ActiveRunners(m)
           cloths == Consume(ByCloth(R, S))
           RL == RunnersLeft(R, cloths)
           SL == SelectionsLeft(S, cloths)
           names == Consume(ByExactName(RL, SL))
           sure == cloths \cup names
           RN == RunnersLeft(R, sure)
           SN == SelectionsLeft(S, sure)
           alike == Consume(BySimilarName(RN, SN))
           Own(n, s) == /\ n \in R /\ n.horse = s.horse /\ s.cloth \in {0, n.cloth}
                        /\ \A other \in R \ {n} : other.name # s.name
                        /\ ToldByNumber(s, r, m) \/ NearestOf(n, s, r, m)
<1>1. p \in cloths \cup names \cup alike
  BY DEF MatchRunners
<1>2. \A s \in S : \E own : Own(own, s)
  BY DEF NumberedAlike
<1>3. \A s, t \in S : s.horse = t.horse => s = t
  BY DEF NumberedAlike
<1>4. ASSUME NEW s, ToldByNumber(s, r, m)
      PROVE  /\ s.cloth # 0
             /\ \A t \in S : t.cloth = s.cloth => t = s
             /\ \A n, o \in R : n.cloth = s.cloth /\ o.cloth = s.cloth => n = o
  BY <1>4 DEF ToldByNumber
<1>5. ASSUME NEW n, NEW s, NearestOf(n, s, r, m)
      PROVE  /\ Distance(n.name, s.name) <= MaximumNameDistance
             /\ \A t \in S \ {s} : \/ ToldByNumber(t, r, m)
                                  \/ Distance(n.name, t.name) > Distance(n.name, s.name)
  BY <1>5 DEF NearestOf
<1> HIDE DEF R, S
<1>6. ASSUME NEW s \in S, NEW own, Own(own, s), s.cloth # 0,
             {t \in S : t.cloth = s.cloth} = {s}
      PROVE  <<own, s>> \in ByCloth(R, S)
  <2>1. own \in R /\ own.cloth = s.cloth
    BY <1>6
  <2>2. ~Contradicted(own, s, R)
    <3> SUFFICES ASSUME NEW other \in R \ {own}, {n \in R : n.name = s.name} = {other}
                 PROVE  FALSE
      BY DEF Contradicted
    <3>1. other.name = s.name
      OBVIOUS
    <3> QED BY <1>6, <3>1
  <2>3. <<own, s>> \in R \X S /\ <<own, s>>[1] = own /\ <<own, s>>[2] = s
    BY <2>1
  <2> QED BY <1>6, <2>1, <2>2, <2>3 DEF ByCloth
<1>7. ASSUME NEW q \in cloths PROVE q \in R \X S /\ q[1].horse = q[2].horse
  <2>1. /\ q \in R \X S /\ q[1].cloth # 0
        /\ {s \in S : s.cloth = q[1].cloth} = {q[2]}
        /\ \A o \in ByCloth(R, S) : o[2] = q[2] => o = q
    BY DEF Consume, ByCloth
  <2>2. q[2] \in S /\ q[2].cloth = q[1].cloth
    BY <2>1
  <2>3. PICK own : Own(own, q[2])
    BY <1>2, <2>2
  <2>4. <<own, q[2]>> \in ByCloth(R, S)
    BY <1>6, <2>1, <2>2, <2>3
  <2>5. <<own, q[2]>> = q
    BY <2>1, <2>4
  <2>6. q[1] = own
    BY <2>5
  <2> QED BY <2>1, <2>3, <2>6
<1>8. ASSUME NEW q \in names PROVE q \in R \X S /\ q[1].horse = q[2].horse
  <2>1. q \in RL \X SL /\ {s \in SL : s.name = q[1].name} = {q[2]}
    BY DEF Consume, ByExactName
  <2>2. q \in R \X S /\ q[2].name = q[1].name
    BY <2>1 DEF RunnersLeft, SelectionsLeft
  <2>3. PICK own : Own(own, q[2])
    BY <1>2, <2>2
  <2> QED BY <2>2, <2>3
<1>9. ASSUME NEW s \in SL, ToldByNumber(s, r, m) PROVE FALSE
  <2>1. s \in S /\ \A q \in cloths : q[2] # s
    BY DEF SelectionsLeft
  <2>2. PICK own : Own(own, s)
    BY <1>2, <2>1
  <2>3. s.cloth # 0 /\ {t \in S : t.cloth = s.cloth} = {s}
    BY <1>4, <1>9, <2>1
  <2>4. <<own, s>> \in ByCloth(R, S)
    BY <1>6, <2>1, <2>2, <2>3
  <2>5. ASSUME NEW q \in ByCloth(R, S), q[2] = s PROVE q = <<own, s>>
    <3>1. q \in R \X S /\ {t \in S : t.cloth = q[1].cloth} = {q[2]}
      BY DEF ByCloth
    <3>2. q[1] \in R /\ q[1].cloth = s.cloth
      BY <2>5, <3>1
    <3>3. own \in R /\ own.cloth = s.cloth
      BY <2>2, <2>3
    <3>4. q[1] = own
      BY <1>4, <1>9, <3>2, <3>3
    <3> QED BY <2>5, <3>1, <3>4
  <2>6. <<own, s>> \in cloths
    BY <2>4, <2>5 DEF Consume
  <2> QED BY <2>1, <2>6
<1> HIDE DEF cloths, names
<1>10. ASSUME NEW q \in alike PROVE q[1].horse = q[2].horse
  <2>1. /\ q \in RN \X SN
        /\ \A o \in BySimilarName(RN, SN) : o[2] = q[2] => o = q
    BY DEF Consume, BySimilarName
  <2>2. q[2] \in S /\ \A o \in sure : o[2] # q[2]
    BY <2>1 DEF SelectionsLeft
  <2>3. SN \subseteq SL /\ SN \subseteq S
    BY DEF SelectionsLeft
  <2>4. PICK own : Own(own, q[2])
    BY <1>2, <2>2
  <2>5. own \in RN
    <3>1. ASSUME NEW o \in sure, o[1] = own PROVE FALSE
      <4>1. o \in R \X S /\ o[2].horse = q[2].horse
        BY <1>7, <1>8, <2>4, <3>1
      <4>2. o[2] = q[2]
        BY <1>3, <2>2, <4>1
      <4> QED BY <2>2, <4>2
    <3> QED BY <2>4, <3>1 DEF RunnersLeft
  <2>6. NearestOf(own, q[2], r, m)
    BY <1>9, <2>1, <2>3, <2>4
  <2>7. <<own, q[2]>> \in BySimilarName(RN, SN)
    <3>1. ASSUME NEW t \in SN \ {q[2]}
          PROVE  Distance(own.name, t.name) > Distance(own.name, q[2].name)
      BY <1>5, <1>9, <2>3, <2>6
    <3>2. Distance(own.name, q[2].name) <= MaximumNameDistance
      BY <1>5, <2>6
    <3>3. <<own, q[2]>> \in RN \X SN /\ <<own, q[2]>>[1] = own /\ <<own, q[2]>>[2] = q[2]
      BY <2>1, <2>5
    <3> HIDE DEF RN, SN
    <3> QED BY <3>1, <3>2, <3>3 DEF BySimilarName
  <2>8. <<own, q[2]>> = q
    BY <2>1, <2>7
  <2>9. q[1] = own
    BY <2>8
  <2> QED BY <2>4, <2>9
<1> QED BY <1>1, <1>7, <1>8, <1>10

\* For any field, numbering, removal and spelling: where each selection is told by
\* its number or nearest its own runner, no runner takes another's.
\* (MatchRunners, consume.)
THEOREM NumbersSettle == MatchingSpec => []ClothsSettleMisspellings
<1>1. MatchingInit => MatchesAreComputed
  BY DEF MatchingInit, MatchesAreComputed
<1>2. MatchesAreComputed => ClothsSettleMisspellings
  <2> SUFFICES ASSUME MatchesAreComputed, NEW m \in matches,
                      NumberedAlike(m.race, m.market), NEW p \in m.pairings
               PROVE  p[1].horse = p[2].horse
    BY DEF ClothsSettleMisspellings
  <2>1. p \in MatchRunners(m.race.runners, ActiveRunners(m.market), TRUE)
    BY DEF MatchesAreComputed
  <2> QED BY <2>1, OwnProposesToo
<1> QED BY <1>1, <1>2, ComputedSteps, PTL DEF MatchingSpec

\* Without numbers, a pairing needs a name in common, and each runner is paired
\* once: there are at least as many such runners as pairings.
LEMMA PairedByName ==
  ASSUME NEW R, NEW S, IsFiniteSet(R), MaximumNameDistance \in Nat,
         \A n \in R, s \in S :
           /\ Distance(n.name, s.name) \in Nat
           /\ n.name = s.name => Distance(n.name, s.name) = 0,
         NEW common,
         common = {n \in R : \E s \in S : Distance(n.name, s.name) <= MaximumNameDistance}
  PROVE  /\ Cardinality(MatchRunners(R, S, FALSE)) \in Nat
         /\ IsFiniteSet(common) /\ Cardinality(common) \in Nat
         /\ Cardinality(MatchRunners(R, S, FALSE)) <= Cardinality(common)
<1> DEFINE M == MatchRunners(R, S, FALSE)
           f == [p \in M |-> p[1]]
           names == Consume(ByExactName(RunnersLeft(R, {}), SelectionsLeft(S, {})))
           left == BySimilarName(RunnersLeft(R, names), SelectionsLeft(S, names))
<1>1. M \subseteq R \X S /\ OneToOne(M)
  BY MatchIsOneToOne
<1>2. M = names \cup Consume(left)
  BY DEF MatchRunners
<1>3. ASSUME NEW p \in M PROVE Distance(p[1].name, p[2].name) <= MaximumNameDistance
  <2>1. p[1] \in R /\ p[2] \in S
    BY <1>1
  <2>2. CASE p \in names
    <3>1. {s \in SelectionsLeft(S, {}) : s.name = p[1].name} = {p[2]}
      BY <2>2 DEF Consume, ByExactName
    <3>2. p[1].name = p[2].name
      BY <3>1
    <3>3. Distance(p[1].name, p[2].name) = 0
      BY <2>1, <3>2
    <3> QED BY <3>3
  <2>3. CASE p \in Consume(left)
    BY <2>3 DEF Consume, BySimilarName
  <2> QED BY <1>2, <2>2, <2>3
<1> HIDE DEF M, names, left
<1>4. f \in Injection(M, common)
  <2>1. \A p \in M : f[p] \in common
    <3> TAKE p \in M
    <3>1. p[1] \in R /\ p[2] \in S
      BY <1>1
    <3>2. p[1] \in common
      BY <1>3, <3>1
    <3> QED BY <3>2
  <2>2. \A p, q \in M : f[p] = f[q] => p = q
    BY <1>1 DEF OneToOne
  <2> QED BY <2>1, <2>2 DEF Injection, IsInjective
<1>5. IsFiniteSet(common) /\ Cardinality(common) \in Nat
  BY FS_Subset, FS_CardinalityType
<1>6. IsFiniteSet(M) /\ Cardinality(M) <= Cardinality(common)
  BY <1>4, <1>5, FS_Injection
<1>7. Cardinality(M) \in Nat
  BY <1>6, FS_CardinalityType
<1> QED BY <1>5, <1>6, <1>7 DEF M

\* What a pass relies on of its meeting.
SoundMeeting ==
  \A r \in races : /\ IsFiniteSet(r.runners)
                   /\ \A m \in markets : \A n \in r.runners, s \in m.selections :
                        n.name = s.name => Distance(n.name, s.name) = 0

\* No race is joined short of the overlap, and the overlap is of names.
JoinedOnNames ==
  \A m \in matches : 5 * Overlap(m.race, m.market) >= 3 * Cardinality(m.race.runners)

LEMMA JoinedOnNamesSteps ==
  ASSUME SoundMeeting, JoinedOnNames, [MatchingNext]_matchingVars
  PROVE  SoundMeeting' /\ JoinedOnNames'
<1>1. ASSUME NEW r \in races, Join(r) PROVE SoundMeeting' /\ JoinedOnNames'
  <2>1. PICK m \in Viable(r) :
          matches' = matches \cup
            {[race |-> r, market |-> m,
              pairings |-> MatchRunners(r.runners, ActiveRunners(m), TRUE)]}
    BY <1>1 DEF Join
  <2>2. 5 * Overlap(r, m) >= 3 * Cardinality(r.runners)
    BY DEF Viable
  <2>3. UNCHANGED <<races, markets>>
    BY <1>1 DEF Join, NextRace
  <2>4. ASSUME NEW joined \in matches'
        PROVE  5 * Overlap(joined.race, joined.market) >= 3 * Cardinality(joined.race.runners)
    <3>1. CASE joined \in matches
      BY <3>1 DEF JoinedOnNames
    <3>2. CASE joined \notin matches
      <4>1. joined = [race |-> r, market |-> m,
                      pairings |-> MatchRunners(r.runners, ActiveRunners(m), TRUE)]
        BY <2>1, <3>2
      <4>2. joined.race = r /\ joined.market = m
        BY <4>1
      <4> QED BY <2>2, <4>2
    <3> QED BY <3>1, <3>2
  <2>5. JoinedOnNames'
    BY <2>4 DEF JoinedOnNames
  <2>6. SoundMeeting'
    BY <2>3 DEF SoundMeeting
  <2> QED BY <2>5, <2>6
<1>2. ASSUME NEW r \in races, Refuse(r) PROVE SoundMeeting' /\ JoinedOnNames'
  BY <1>2 DEF Refuse, NextRace, SoundMeeting, JoinedOnNames
<1>3. CASE UNCHANGED matchingVars
  BY <1>3 DEF matchingVars, SoundMeeting, JoinedOnNames
<1> QED BY <1>1, <1>2, <1>3 DEF MatchingNext

\* Course, time and numbers alone join nothing: for any meeting, three fifths of the
\* runners of a joined race have a name close to one in its market.
\* (MatchRaces; MatchRunners: allowClothNumbers.)
THEOREM JoinedOnEvidence == MatchingSpec => []OwnMarketOnly
<1>1. MatchingInit => SoundMeeting /\ JoinedOnNames
  BY MatchingAssumption DEF MatchingInit, SoundMeeting, JoinedOnNames
<1>2. MatchingInv /\ SoundMeeting /\ JoinedOnNames => OwnMarketOnly
  <2> SUFFICES ASSUME MatchingInv, SoundMeeting, JoinedOnNames, NEW m \in matches
               PROVE  5 * Cardinality(NamesInCommon(m.race, m.market))
                        >= 3 * Cardinality(m.race.runners)
    BY DEF OwnMarketOnly
  <2> DEFINE R == m.race.runners
             S == ActiveRunners(m.market)
  <2>1. m.race \in races /\ m.market \in markets /\ S \subseteq m.market.selections
    BY DEF MatchingInv, MatchingTypeOK, ActiveRunners
  <2>2. /\ IsFiniteSet(R)
        /\ \A n \in R, s \in S :
             /\ Distance(n.name, s.name) \in Nat
             /\ n.name = s.name => Distance(n.name, s.name) = 0
    BY <2>1 DEF MatchingInv, DistancesAreNumbers, SoundMeeting
  <2>3. 5 * Cardinality(MatchRunners(R, S, FALSE)) >= 3 * Cardinality(R)
    BY DEF JoinedOnNames, Overlap
  <2>4. NamesInCommon(m.race, m.market) =
          {n \in R : \E s \in S : Distance(n.name, s.name) <= MaximumNameDistance}
    BY DEF NamesInCommon
  <2> HIDE DEF R, S
  <2>5. /\ Cardinality(MatchRunners(R, S, FALSE)) \in Nat
        /\ Cardinality(NamesInCommon(m.race, m.market)) \in Nat
        /\ Cardinality(MatchRunners(R, S, FALSE)) <= Cardinality(NamesInCommon(m.race, m.market))
    <3>1. MaximumNameDistance \in Nat
      BY MatchingAssumption
    <3> DEFINE common == NamesInCommon(m.race, m.market)
    <3> HIDE DEF common
    <3>2. common = {n \in R : \E s \in S : Distance(n.name, s.name) <= MaximumNameDistance}
      BY <2>4 DEF common
    <3>3. /\ Cardinality(MatchRunners(R, S, FALSE)) \in Nat
          /\ Cardinality(common) \in Nat
          /\ Cardinality(MatchRunners(R, S, FALSE)) <= Cardinality(common)
      BY <2>2, <3>1, <3>2, PairedByName
    <3> QED BY <3>3 DEF common
  <2>6. Cardinality(R) \in Nat
    BY <2>2, FS_CardinalityType
  <2>7. 5 * Cardinality(NamesInCommon(m.race, m.market)) >= 3 * Cardinality(R)
    <3>1. \A a, b, c \in Nat : 5 * a >= 3 * c /\ a <= b => 5 * b >= 3 * c
      OBVIOUS
    <3>2. /\ Cardinality(MatchRunners(R, S, FALSE)) \in Nat
          /\ Cardinality(NamesInCommon(m.race, m.market)) \in Nat
      BY <2>5
    <3> HIDE DEF NamesInCommon, MatchRunners
    <3> QED BY <2>3, <2>5, <2>6, <3>1, <3>2
  <2> QED BY <2>7 DEF R
<1> QED BY <1>1, <1>2, JoinedOnNamesSteps, MatchingInvariant, PTL DEF MatchingSpec

(***************************************************************************)
(* The archive                                                             *)
(***************************************************************************)

RateOf(runs) == [runs |-> Cardinality(runs), wins |-> Cardinality(Wins(runs))]

ArchiveInv ==
  /\ ArchiveTypeOK /\ FiguresAreExact
  /\ \A h \in Holder : IsFiniteSet(counted[h])

LEMMA RateTyped ==
  ASSUME NEW A, IsFiniteSet(A)
  PROVE  RateOf(A) \in [runs : Nat, wins : Nat]
<1>1. IsFiniteSet(Wins(A))
  BY FS_Subset DEF Wins
<1> QED BY <1>1, FS_CardinalityType DEF RateOf

\* The figures of runs that have nothing in common add up.
LEMMA RatesAdd ==
  ASSUME NEW A, NEW B, IsFiniteSet(A), IsFiniteSet(B), A \cap B = {}
  PROVE  RateOf(A \cup B) = AddRates(RateOf(A), RateOf(B))
<1>1. Wins(A \cup B) = Wins(A) \cup Wins(B) /\ Wins(A) \cap Wins(B) = {}
  BY DEF Wins
<1>2. IsFiniteSet(Wins(A)) /\ IsFiniteSet(Wins(B))
  BY FS_Subset DEF Wins
<1>3. ASSUME NEW C, NEW D, IsFiniteSet(C), IsFiniteSet(D), C \cap D = {}
      PROVE  Cardinality(C \cup D) = Cardinality(C) + Cardinality(D)
  <2>1. Cardinality(C \cup D) = Cardinality(C) + Cardinality(D) - Cardinality(C \cap D)
    BY <1>3, FS_Union
  <2>2. Cardinality(C \cap D) = 0
    BY <1>3, FS_EmptySet
  <2>3. Cardinality(C) \in Nat /\ Cardinality(D) \in Nat
    BY <1>3, FS_CardinalityType
  <2> QED BY <2>1, <2>2, <2>3
<1>4. Cardinality(A \cup B) = Cardinality(A) + Cardinality(B)
  BY <1>3
<1>5. Cardinality(Wins(A) \cup Wins(B)) = Cardinality(Wins(A)) + Cardinality(Wins(B))
  BY <1>1, <1>2, <1>3
<1> QED BY <1>1, <1>4, <1>5 DEF RateOf, AddRates

\* The runs of a version are typed, finitely many, of its race, one for each finisher.
LEMMA RunsOfAVersion ==
  ASSUME NEW r \in Race, NEW version \in Versions(r)
  PROVE  /\ RunsIn(r, version) \subseteq Run
         /\ IsFiniteSet(RunsIn(r, version))
         /\ \A a \in RunsIn(r, version) : a.race = r
         /\ version.finishers # {} => RunsIn(r, version) # {}
         /\ \A a, b \in RunsIn(r, version) : a.subject = b.subject /\ a.horse = b.horse => a = b
<1> DEFINE row(f) == [date |-> version.date, race |-> r, horse |-> f.horse, subject |-> f.subject,
                      won |-> f \in version.winners]
<1>1. /\ version.date \in Nat /\ version.finishers \subseteq Entries[r]
      /\ Entries[r] \subseteq [horse : Nat, subject : Subject] /\ IsFiniteSet(Entries[r])
  BY ArchiveAssumption DEF Versions
<1>2. RunsIn(r, version) = {row(f) : f \in version.finishers}
  BY DEF RunsIn
<1>3. \A f \in version.finishers :
        row(f) \in Run /\ row(f).race = r /\ row(f).horse = f.horse /\ row(f).subject = f.subject
  BY <1>1 DEF Run
<1>4. IsFiniteSet(RunsIn(r, version))
  <2>1. IsFiniteSet(version.finishers)
    BY <1>1, FS_Subset
  <2> DEFINE g == [f \in version.finishers |-> row(f)]
  <2>2. g \in Surjection(version.finishers, RunsIn(r, version))
    BY <1>2 DEF Surjection
  <2> HIDE DEF g
  <2> QED BY <2>1, <2>2, FS_Surjection
<1>5. ASSUME NEW a \in RunsIn(r, version), NEW b \in RunsIn(r, version),
             a.subject = b.subject, a.horse = b.horse
      PROVE  a = b
  <2>1. PICK f \in version.finishers : a = row(f)
    BY <1>2
  <2>2. PICK g \in version.finishers : b = row(g)
    BY <1>2
  <2>3. f.subject = g.subject /\ f.horse = g.horse
    BY <1>3, <1>5, <2>1, <2>2
  <2>4. f \in [horse : Nat, subject : Subject] /\ g \in [horse : Nat, subject : Subject]
    BY <1>1
  <2>5. f = g
    BY <2>3, <2>4
  <2> QED BY <2>1, <2>2, <2>5
<1> HIDE DEF row
<1> QED BY <1>2, <1>3, <1>4, <1>5

\* What is exact stays exact when the runs of races not counted before come in.
LEMMA FiguresGrow ==
  ASSUME NEW A, NEW B, IsFiniteSet(A), IsFiniteSet(B),
         {a.race : a \in A} \cap {b.race : b \in B} = {},
         NEW s,
         \A a, b \in RunsOf(s, A) : a.race = b.race /\ a.horse = b.horse => a = b,
         \A a, b \in RunsOf(s, B) : a.race = b.race /\ a.horse = b.horse => a = b
  PROVE  /\ RateOf(RunsOf(s, A \cup B)) = AddRates(RateOf(RunsOf(s, A)), RateOf(RunsOf(s, B)))
         /\ \A a, b \in RunsOf(s, A \cup B) : a.race = b.race /\ a.horse = b.horse => a = b
<1>1. \A a \in A, b \in B : a.race # b.race
  OBVIOUS
<1>2. RunsOf(s, A \cup B) = RunsOf(s, A) \cup RunsOf(s, B)
  BY DEF RunsOf
<1>3. RunsOf(s, A) \cap RunsOf(s, B) = {}
  BY <1>1 DEF RunsOf
<1>4. IsFiniteSet(RunsOf(s, A)) /\ IsFiniteSet(RunsOf(s, B))
  BY FS_Subset DEF RunsOf
<1>5. RateOf(RunsOf(s, A \cup B)) = AddRates(RateOf(RunsOf(s, A)), RateOf(RunsOf(s, B)))
  BY <1>2, <1>3, <1>4, RatesAdd
<1>6. \A a, b \in RunsOf(s, A \cup B) : a.race = b.race /\ a.horse = b.horse => a = b
  BY <1>1 DEF RunsOf
<1> QED BY <1>5, <1>6

\* Ingest and Merge alike: runs of races not counted before come in, with their figures.
LEMMA GrowthKeeps ==
  ASSUME ArchiveInv, NEW h \in Holder, NEW B \in SUBSET Run, IsFiniteSet(B),
         ids[h] \cap {b.race : b \in B} = {},
         \A s \in Subject : \A a, b \in RunsOf(s, B) :
           a.race = b.race /\ a.horse = b.horse => a = b,
         ids' = [ids EXCEPT ![h] = @ \cup {b.race : b \in B}],
         counted' = [counted EXCEPT ![h] = @ \cup B],
         rates' = [rates EXCEPT ![h] =
           [s \in Subject |-> AddRates(rates[h][s], RateOf(RunsOf(s, B)))]],
         recent' \in [Holder -> [Subject -> SUBSET Run]]
  PROVE  ArchiveInv'
<1>1. /\ ids[h] = {a.race : a \in counted[h]} /\ IsFiniteSet(counted[h])
      /\ \A s \in Subject :
           /\ rates[h][s] = RateOf(RunsOf(s, counted[h]))
           /\ \A a, b \in RunsOf(s, counted[h]) : a.race = b.race /\ a.horse = b.horse => a = b
  BY DEF ArchiveInv, FiguresAreExact, RateOf
<1>2. /\ counted'[h] = counted[h] \cup B
      /\ ids'[h] = ids[h] \cup {b.race : b \in B}
      /\ \A s \in Subject : rates'[h][s] = AddRates(rates[h][s], RateOf(RunsOf(s, B)))
      /\ \A o \in Holder \ {h} : counted'[o] = counted[o] /\ ids'[o] = ids[o] /\ rates'[o] = rates[o]
  BY DEF ArchiveInv, ArchiveTypeOK
<1>3. IsFiniteSet(counted'[h])
  <2>1. IsFiniteSet(counted[h] \cup B)
    BY <1>1, FS_Union
  <2> QED BY <1>2, <2>1
<1>4. ids'[h] = {a.race : a \in counted'[h]}
  BY <1>1, <1>2
<1>5. ASSUME NEW s \in Subject
      PROVE  /\ rates'[h][s] = RateOf(RunsOf(s, counted'[h]))
             /\ \A a, b \in RunsOf(s, counted'[h]) : a.race = b.race /\ a.horse = b.horse => a = b
  <2> DEFINE A == counted[h]
  <2>1. /\ IsFiniteSet(A) /\ {a.race : a \in A} \cap {b.race : b \in B} = {}
        /\ \A a, b \in RunsOf(s, A) : a.race = b.race /\ a.horse = b.horse => a = b
        /\ \A a, b \in RunsOf(s, B) : a.race = b.race /\ a.horse = b.horse => a = b
        /\ rates[h][s] = RateOf(RunsOf(s, A))
    BY <1>1
  <2>2. counted'[h] = A \cup B /\ rates'[h][s] = AddRates(rates[h][s], RateOf(RunsOf(s, B)))
    BY <1>2
  <2> HIDE DEF A
  <2>3. /\ RateOf(RunsOf(s, A \cup B)) = AddRates(RateOf(RunsOf(s, A)), RateOf(RunsOf(s, B)))
        /\ \A a, b \in RunsOf(s, A \cup B) : a.race = b.race /\ a.horse = b.horse => a = b
    BY <2>1, FiguresGrow
  <2> QED BY <2>1, <2>2, <2>3
<1>6. FiguresAreExact'
  <2>1. ASSUME NEW o \in Holder \ {h}
        PROVE  /\ ids'[o] = {a.race : a \in counted'[o]}
               /\ \A s \in Subject :
                    /\ rates'[o][s] = RateOf(RunsOf(s, counted'[o]))
                    /\ \A a, b \in RunsOf(s, counted'[o]) :
                         a.race = b.race /\ a.horse = b.horse => a = b
    BY <1>2 DEF ArchiveInv, FiguresAreExact, RateOf
  <2> QED BY <1>4, <1>5, <2>1 DEF FiguresAreExact, RateOf
<1>7. ArchiveTypeOK'
  <2>1. {b.race : b \in B} \subseteq Race
    BY DEF Run
  <2>2. ASSUME NEW s \in Subject PROVE rates'[h][s] \in [runs : Nat, wins : Nat]
    <3> DEFINE A == RunsOf(s, counted'[h])
    <3>1. IsFiniteSet(A)
      BY <1>3, FS_Subset DEF RunsOf
    <3>2. rates'[h][s] = RateOf(A)
      BY <1>5
    <3> HIDE DEF A
    <3> QED BY <3>1, <3>2, RateTyped
  <2>3. [s \in Subject |-> AddRates(rates[h][s], RateOf(RunsOf(s, B)))]
          \in [Subject -> [runs : Nat, wins : Nat]]
    BY <1>2, <2>2
  <2>4. rates' \in [Holder -> [Subject -> [runs : Nat, wins : Nat]]]
    BY <2>3 DEF ArchiveInv, ArchiveTypeOK
  <2>5. ids' \in [Holder -> SUBSET Race] /\ counted' \in [Holder -> SUBSET Run]
    BY <2>1 DEF ArchiveInv, ArchiveTypeOK
  <2> QED BY <2>4, <2>5 DEF ArchiveTypeOK
<1>8. \A o \in Holder : IsFiniteSet(counted'[o])
  BY <1>2, <1>3 DEF ArchiveInv
<1> QED BY <1>6, <1>7, <1>8 DEF ArchiveInv

LEMMA ArchiveStarts == ArchiveInit => ArchiveInv
<1> SUFFICES ASSUME ArchiveInit PROVE ArchiveInv
  OBVIOUS
<1>1. Cardinality({}) = 0 /\ IsFiniteSet({})
  BY FS_EmptySet
<1>2. \A s : RunsOf(s, {}) = {} /\ Wins({}) = {}
  BY DEF RunsOf, Wins
<1>3. ArchiveTypeOK
  BY DEF ArchiveInit, ArchiveTypeOK
<1>4. FiguresAreExact
  BY <1>1, <1>2 DEF ArchiveInit, FiguresAreExact
<1> QED BY <1>1, <1>3, <1>4 DEF ArchiveInv, ArchiveInit

LEMMA NewestIsSome ==
  ASSUME NEW A PROVE Newest(A) \subseteq A
BY DEF Newest

LEMMA IngestKeeps ==
  ASSUME ArchiveInv, NEW h \in Holder, NEW r \in Race, Ingest(h, r)
  PROVE  ArchiveInv'
<1>1. PICK version \in Versions(r) :
        /\ Fresh(h, r, version)
        /\ ids' = [ids EXCEPT ![h] = @ \cup {r}]
        /\ rates' = [rates EXCEPT ![h] =
             [s \in Subject |-> Bump(@[s], RunsOf(s, RunsIn(r, version)))]]
        /\ recent' = [recent EXCEPT ![h] =
             [s \in Subject |-> Newest(@[s] \cup Dated(RunsOf(s, RunsIn(r, version))))]]
        /\ counted' = [counted EXCEPT ![h] = @ \cup RunsIn(r, version)]
  BY DEF Ingest
<1> DEFINE B == RunsIn(r, version)
<1>2. /\ B \in SUBSET Run /\ IsFiniteSet(B) /\ {b.race : b \in B} = {r}
      /\ \A a, b \in B : a.subject = b.subject /\ a.horse = b.horse => a = b
  BY <1>1, RunsOfAVersion DEF Fresh
<1> HIDE DEF B
<1>3. ids[h] \cap {b.race : b \in B} = {}
  BY <1>1, <1>2 DEF Fresh
<1>4. \A s \in Subject : \A a, b \in RunsOf(s, B) : a.race = b.race /\ a.horse = b.horse => a = b
  BY <1>2 DEF RunsOf
<1>5. rates' = [rates EXCEPT ![h] =
        [s \in Subject |-> AddRates(rates[h][s], RateOf(RunsOf(s, B)))]]
  <2>1. \A s \in Subject :
          Bump(rates[h][s], RunsOf(s, B)) = AddRates(rates[h][s], RateOf(RunsOf(s, B)))
    BY DEF Bump, AddRates, RateOf
  <2>2. [s \in Subject |-> Bump(rates[h][s], RunsOf(s, B))] =
        [s \in Subject |-> AddRates(rates[h][s], RateOf(RunsOf(s, B)))]
    BY <2>1
  <2> QED BY <1>1, <2>2 DEF B, ArchiveInv, ArchiveTypeOK
<1>6. recent' \in [Holder -> [Subject -> SUBSET Run]]
  <2>1. ASSUME NEW s \in Subject PROVE Newest(recent[h][s] \cup Dated(RunsOf(s, B))) \subseteq Run
    <3>1. recent[h][s] \subseteq Run
      BY DEF ArchiveInv, ArchiveTypeOK
    <3>2. Dated(RunsOf(s, B)) \subseteq Run
      BY <1>2 DEF Dated, RunsOf
    <3> QED BY <3>1, <3>2, NewestIsSome
  <2>2. [s \in Subject |-> Newest(recent[h][s] \cup Dated(RunsOf(s, B)))] \in [Subject -> SUBSET Run]
    BY <2>1
  <2> QED BY <1>1, <2>2 DEF B, ArchiveInv, ArchiveTypeOK
<1> QED BY <1>1, <1>2, <1>3, <1>4, <1>5, <1>6, GrowthKeeps DEF B

LEMMA MergeKeeps ==
  ASSUME ArchiveInv, Merge
  PROVE  ArchiveInv'
<1> DEFINE B == counted["phone"]
<1>1. /\ B \in SUBSET Run /\ IsFiniteSet(B) /\ ids["phone"] = {b.race : b \in B}
      /\ \A s \in Subject : rates["phone"][s] = RateOf(RunsOf(s, B))
      /\ \A s \in Subject : \A a, b \in RunsOf(s, B) :
           a.race = b.race /\ a.horse = b.horse => a = b
  BY DEF ArchiveInv, ArchiveTypeOK, FiguresAreExact, RateOf, Holder
<1>2. ids["server"] \cap {b.race : b \in B} = {}
  BY <1>1 DEF Merge, Disjoint
<1>3. rates' = [rates EXCEPT !["server"] =
        [s \in Subject |-> AddRates(rates["server"][s], RateOf(RunsOf(s, B)))]]
  <2>1. [s \in Subject |-> AddRates(rates["server"][s], rates["phone"][s])] =
        [s \in Subject |-> AddRates(rates["server"][s], RateOf(RunsOf(s, B)))]
    BY <1>1
  <2> QED BY <2>1 DEF Merge, ArchiveInv, ArchiveTypeOK, Holder
<1>4. recent' \in [Holder -> [Subject -> SUBSET Run]]
  <2>1. ASSUME NEW s \in Subject
        PROVE  Newest(recent["server"][s] \cup recent["phone"][s]) \subseteq Run
    <3>1. recent["server"][s] \cup recent["phone"][s] \subseteq Run
      BY DEF ArchiveInv, ArchiveTypeOK, Holder
    <3> QED BY <3>1, NewestIsSome
  <2>2. [s \in Subject |-> Newest(recent["server"][s] \cup recent["phone"][s])]
          \in [Subject -> SUBSET Run]
    BY <2>1
  <2> QED BY <2>2 DEF Merge, ArchiveInv, ArchiveTypeOK, Holder
<1>5. /\ ids' = [ids EXCEPT !["server"] = @ \cup {b.race : b \in B}]
      /\ counted' = [counted EXCEPT !["server"] = @ \cup B]
  BY <1>1 DEF Merge
<1> HIDE DEF B
<1> QED BY <1>1, <1>2, <1>3, <1>4, <1>5, GrowthKeeps DEF Holder

LEMMA ArchiveInvariant == ArchiveSpec => []ArchiveInv
<1>1. ArchiveInv /\ [ArchiveNext]_archiveVars => ArchiveInv'
  <2>1. ASSUME ArchiveInv, UNCHANGED archiveVars PROVE ArchiveInv'
    BY <2>1 DEF archiveVars, ArchiveInv, ArchiveTypeOK, FiguresAreExact
  <2> QED BY <2>1, IngestKeeps, MergeKeeps DEF ArchiveNext
<1> QED BY <1>1, ArchiveStarts, PTL DEF ArchiveSpec

\* Figures are natural numbers, and windows hold runs.  (Ingest, Merge.)
THEOREM ArchiveTyped == ArchiveSpec => []ArchiveTypeOK
<1>1. ArchiveInv => ArchiveTypeOK
  BY DEF ArchiveInv
<1> QED BY <1>1, ArchiveInvariant, PTL

\* Every race is counted once, in one version, whatever is polled, amended, uploaded
\* and uploaded again, for any races, finishers and dates.  (Ingest, Merge.)
THEOREM CountedExactly == ArchiveSpec => []FiguresAreExact
<1>1. ArchiveInv => FiguresAreExact
  BY DEF ArchiveInv
<1> QED BY <1>1, ArchiveInvariant, PTL

(***************************************************************************)
(* The window of recent runs                                               *)
(***************************************************************************)

\* Runs of one subject, finitely many, no two of them one horse's in one race.
Ordered(A) ==
  /\ IsFiniteSet(A) /\ A \subseteq Run
  /\ \A a, b \in A : a.race = b.race /\ a.horse = b.horse => a = b

Above(a, A) == {b \in A : Newer(b, a)}
Below(a, A) == {b \in A : Newer(a, b)}

LEMMA NewerIsAnOrder ==
  ASSUME NEW A, Ordered(A), NEW a \in A, NEW b \in A, NEW c \in A
  PROVE  /\ ~Newer(a, a)
         /\ Newer(a, b) => ~Newer(b, a)
         /\ Newer(a, b) /\ Newer(b, c) => Newer(a, c)
         /\ a = b \/ Newer(a, b) \/ Newer(b, a)
<1>1. a \in Run /\ b \in Run /\ c \in Run /\ \A n \in Race : n \in Int
  BY ArchiveAssumption DEF Ordered
<1>2. a.race = b.race /\ a.horse = b.horse => a = b
  BY DEF Ordered
<1>3. ASSUME NEW x \in Run PROVE x.date \in Int /\ x.race \in Int /\ x.horse \in Int
  <2>1. x.date \in Nat /\ x.race \in Race /\ x.horse \in Nat
    BY DEF Run
  <2> QED BY <1>1, <2>1
<1> QED BY <1>1, <1>2, <1>3 DEF Newer

LEMMA PartsAreOrdered ==
  ASSUME NEW A, Ordered(A), NEW B \in SUBSET A
  PROVE  Ordered(B)
BY FS_Subset DEF Ordered

\* A smaller set counts less.
LEMMA FewerAreCounted ==
  ASSUME NEW A, IsFiniteSet(A), NEW B \in SUBSET A
  PROVE  /\ IsFiniteSet(B) /\ Cardinality(A) \in Nat /\ Cardinality(B) \in Nat
         /\ Cardinality(B) <= Cardinality(A)
         /\ B # A => Cardinality(B) < Cardinality(A)
<1>1. /\ IsFiniteSet(B) /\ Cardinality(B) <= Cardinality(A)
      /\ Cardinality(A) = Cardinality(B) => A = B
  BY FS_Subset
<1>2. Cardinality(A) \in Nat /\ Cardinality(B) \in Nat
  BY <1>1, FS_CardinalityType
<1> QED BY <1>1, <1>2

LEMMA SmallestNumber ==
  ASSUME NEW T \in SUBSET Nat, T # {}
  PROVE  \E n \in T : \A m \in T : n <= m
<1>1. PICK n \in T : \A m \in T : ~ (<<m, n>> \in OpToRel(<, Nat))
  BY WFMin, NatLessThanWellFounded
<1>2. \A m \in T : ~(m < n)
  BY <1>1 DEF OpToRel
<1> QED BY <1>2

\* Some runs, if any, have a newest among them and an oldest.
LEMMA NewestOfSome ==
  ASSUME NEW A, Ordered(A), A # {}
  PROVE  \E x \in A : \A y \in A : y = x \/ Newer(x, y)
<1> DEFINE counts == {Cardinality(Above(a, A)) : a \in A}
<1>1. \A a \in A : Above(a, A) \in SUBSET A
  BY DEF Above
<1>2. \A a \in A : Cardinality(Above(a, A)) \in Nat
  BY <1>1, FewerAreCounted DEF Ordered
<1>3. counts \in SUBSET Nat /\ counts # {}
  BY <1>2
<1>4. PICK n \in counts : \A m \in counts : n <= m
  <2> HIDE DEF counts
  <2> QED BY <1>3, SmallestNumber
<1>5. PICK x \in A : n = Cardinality(Above(x, A))
  BY <1>4
<1>6. ASSUME NEW y \in A, Newer(y, x) PROVE FALSE
  <2>1. /\ Above(y, A) \in SUBSET Above(x, A) /\ y \in Above(x, A) \ Above(y, A)
    BY <1>6, NewerIsAnOrder DEF Above
  <2>2. Cardinality(Above(y, A)) < Cardinality(Above(x, A))
    BY <1>1, <2>1, FewerAreCounted DEF Ordered
  <2>3. Cardinality(Above(x, A)) <= Cardinality(Above(y, A))
    BY <1>4, <1>5
  <2> QED BY <1>2, <2>2, <2>3
<1> QED BY <1>6, NewerIsAnOrder

LEMMA OldestOfSome ==
  ASSUME NEW A, Ordered(A), A # {}
  PROVE  \E x \in A : \A y \in A : y = x \/ Newer(y, x)
<1> DEFINE counts == {Cardinality(Below(a, A)) : a \in A}
<1>1. \A a \in A : Below(a, A) \in SUBSET A
  BY DEF Below
<1>2. \A a \in A : Cardinality(Below(a, A)) \in Nat
  BY <1>1, FewerAreCounted DEF Ordered
<1>3. counts \in SUBSET Nat /\ counts # {}
  BY <1>2
<1>4. PICK n \in counts : \A m \in counts : n <= m
  <2> HIDE DEF counts
  <2> QED BY <1>3, SmallestNumber
<1>5. PICK x \in A : n = Cardinality(Below(x, A))
  BY <1>4
<1>6. ASSUME NEW y \in A, Newer(x, y) PROVE FALSE
  <2>1. /\ Below(y, A) \in SUBSET Below(x, A) /\ y \in Below(x, A) \ Below(y, A)
    BY <1>6, NewerIsAnOrder DEF Below
  <2>2. Cardinality(Below(y, A)) < Cardinality(Below(x, A))
    BY <1>1, <2>1, FewerAreCounted DEF Ordered
  <2>3. Cardinality(Below(x, A)) <= Cardinality(Below(y, A))
    BY <1>4, <1>5
  <2> QED BY <1>2, <2>2, <2>3
<1> QED BY <1>6, NewerIsAnOrder

\* What is kept is newer than what is not.
LEMMA KeptAreNewer ==
  ASSUME NEW A, Ordered(A), NEW a \in Newest(A), NEW b \in A \ Newest(A)
  PROVE  Newer(a, b)
<1>1. a \in A /\ b \in A /\ a # b
  BY DEF Newest
<1>2. SUFFICES ASSUME Newer(b, a) PROVE FALSE
  BY <1>1, NewerIsAnOrder
<1>3. Above(b, A) \in SUBSET Above(a, A) /\ Above(a, A) \in SUBSET A
  BY <1>1, <1>2, NewerIsAnOrder DEF Above
<1>4. /\ Cardinality(Above(b, A)) <= Cardinality(Above(a, A))
      /\ Cardinality(Above(b, A)) \in Nat /\ Cardinality(Above(a, A)) \in Nat
  BY <1>3, FewerAreCounted DEF Ordered
<1>5. Cardinality(Above(a, A)) < Window /\ ~(Cardinality(Above(b, A)) < Window)
  BY <1>1 DEF Newest, Above
<1> QED BY <1>4, <1>5, ArchiveAssumption

\* Nothing is left out before the window is full.
LEMMA WindowIsFull ==
  ASSUME NEW A, Ordered(A), Newest(A) # A
  PROVE  Cardinality(Newest(A)) = Window
<1> DEFINE kept == Newest(A)
<1>1. /\ kept \in SUBSET A /\ Ordered(kept) /\ Ordered(A \ kept) /\ A \ kept # {}
      /\ IsFiniteSet(kept) /\ Cardinality(kept) \in Nat
  BY NewestIsSome, PartsAreOrdered, FewerAreCounted DEF Ordered
<1>2. PICK b \in A \ kept : \A y \in A \ kept : y = b \/ Newer(b, y)
  BY <1>1, NewestOfSome
<1>3. Above(b, A) = kept
  <2>1. ASSUME NEW c \in kept PROVE Newer(c, b)
    BY KeptAreNewer
  <2>2. ASSUME NEW c \in A \ kept PROVE ~Newer(c, b)
    BY <1>2, NewerIsAnOrder
  <2> HIDE DEF kept
  <2> QED BY <1>1, <2>1, <2>2 DEF Above
<1>4. ~(Cardinality(kept) < Window)
  BY <1>3 DEF Newest, Above
<1>5. Cardinality(kept) <= Window
  <2>1. CASE kept = {}
    BY <2>1, FS_EmptySet, ArchiveAssumption
  <2>2. CASE kept # {}
    <3>1. PICK a \in kept : \A y \in kept : y = a \/ Newer(y, a)
      BY <1>1, <2>2, OldestOfSome
    <3>2. kept \ {a} \in SUBSET Above(a, A) /\ Above(a, A) \in SUBSET A
      BY <1>1, <3>1 DEF Above
    <3>3. IsFiniteSet(Above(a, A)) /\ Cardinality(Above(a, A)) \in Nat
      BY <3>2, FewerAreCounted DEF Ordered
    <3>4. Cardinality(kept \ {a}) <= Cardinality(Above(a, A))
      BY <3>2, <3>3, FewerAreCounted
    <3>5. Cardinality(kept \ {a}) = Cardinality(kept) - 1
      BY <1>1, FS_RemoveElement
    <3>6. Cardinality(Above(a, A)) < Window
      BY DEF Newest, Above
    <3> HIDE DEF kept
    <3> QED BY <1>1, <3>3, <3>4, <3>5, <3>6, ArchiveAssumption
  <2> QED BY <2>1, <2>2
<1> HIDE DEF kept
<1>6. Cardinality(kept) = Window
  BY <1>1, <1>4, <1>5, ArchiveAssumption
<1> QED BY <1>6 DEF kept

\* A window that has been cut before takes in the same runs as the whole would.
LEMMA CutTwice ==
  ASSUME NEW A, NEW B, Ordered(A \cup B)
  PROVE  Newest(Newest(A) \cup B) = Newest(A \cup B)
<1> DEFINE C == A \cup B
           D == Newest(A) \cup B
<1>1. /\ Ordered(C) /\ Ordered(A) /\ D \in SUBSET C /\ Ordered(D)
      /\ Newest(A) \in SUBSET D /\ C \ D \subseteq A \ Newest(A)
  BY NewestIsSome, PartsAreOrdered
<1> HIDE DEF C, D
<1>2. ASSUME NEW x
      PROVE  /\ Above(x, D) \in SUBSET Above(x, C) /\ Above(x, A) \in SUBSET Above(x, C)
             /\ Newest(A) \cap Above(x, C) \subseteq Above(x, D)
             /\ Cardinality(Above(x, D)) \in Nat /\ Cardinality(Above(x, C)) \in Nat
             /\ Cardinality(Above(x, A)) \in Nat
             /\ Cardinality(Above(x, D)) <= Cardinality(Above(x, C))
             /\ Cardinality(Above(x, A)) <= Cardinality(Above(x, C))
  <2>1. /\ Above(x, D) \in SUBSET Above(x, C) /\ Above(x, A) \in SUBSET Above(x, C)
        /\ Newest(A) \cap Above(x, C) \subseteq Above(x, D) /\ Above(x, C) \in SUBSET C
    BY <1>1 DEF Above, C
  <2>2. IsFiniteSet(Above(x, C))
    BY <1>1, <2>1, FewerAreCounted DEF Ordered
  <2> QED BY <2>1, <2>2, FewerAreCounted
<1>3. ASSUME NEW x \in Newest(C) PROVE x \in Newest(D)
  <2>1. x \in C /\ Cardinality(Above(x, C)) < Window
    BY DEF Newest, Above
  <2>2. ASSUME x \in A PROVE x \in Newest(A)
    <3>1. Cardinality(Above(x, A)) < Window
      BY <1>2, <2>1, ArchiveAssumption
    <3> QED BY <2>2, <3>1 DEF Newest, Above
  <2>3. x \in D
    BY <1>1, <2>1, <2>2
  <2>4. Cardinality(Above(x, D)) < Window
    BY <1>2, <2>1, ArchiveAssumption
  <2> QED BY <2>3, <2>4 DEF Newest, Above
<1>4. ASSUME NEW x \in Newest(D) PROVE x \in Newest(C)
  <2>1. x \in D /\ x \in C /\ Cardinality(Above(x, D)) < Window
    BY <1>1 DEF Newest, Above
  <2>2. ASSUME NEW c \in C \ D, Newer(c, x) PROVE FALSE
    <3>1. c \in A \ Newest(A) /\ c \in C
      BY <1>1
    <3>2. \A k \in Newest(A) : Newer(k, c) /\ k \in C
      BY <1>1, <3>1, KeptAreNewer
    <3>3. \A k \in Newest(A) : Newer(k, x)
      BY <1>1, <2>1, <2>2, <3>1, <3>2, NewerIsAnOrder
    <3>4. Newest(A) \in SUBSET Above(x, D)
      BY <1>1, <3>3 DEF Above
    <3>5. IsFiniteSet(Above(x, D))
      <4>1. Above(x, D) \in SUBSET D
        BY DEF Above
      <4> QED BY <1>1, <4>1, FewerAreCounted DEF Ordered
    <3>6. Cardinality(Newest(A)) <= Cardinality(Above(x, D))
      BY <3>4, <3>5, FewerAreCounted
    <3>7. Cardinality(Newest(A)) = Window
      BY <1>1, <3>1, WindowIsFull
    <3> QED BY <1>2, <2>1, <3>6, <3>7, ArchiveAssumption
  <2>3. Above(x, C) = Above(x, D)
    BY <1>1, <2>2 DEF Above
  <2> QED BY <2>1, <2>3 DEF Newest, Above
<1>5. Newest(C) = Newest(D)
  <2>1. \A x : x \in Newest(C) <=> x \in Newest(D)
    BY <1>3, <1>4
  <2> QED BY <2>1
<1> QED BY <1>5 DEF C, D

LEMMA BothCut ==
  ASSUME NEW A, NEW B, Ordered(A \cup B)
  PROVE  Newest(Newest(A) \cup Newest(B)) = Newest(A \cup B)
<1>1. Ordered(Newest(A) \cup B) /\ Ordered(B \cup Newest(A))
  <2>1. Newest(A) \cup B \in SUBSET (A \cup B) /\ B \cup Newest(A) \in SUBSET (A \cup B)
    BY NewestIsSome
  <2> QED BY <2>1, PartsAreOrdered
<1>2. Newest(Newest(B) \cup Newest(A)) = Newest(B \cup Newest(A))
  BY <1>1, CutTwice
<1>3. Newest(Newest(A) \cup B) = Newest(A \cup B)
  BY CutTwice
<1>4. /\ Newest(B) \cup Newest(A) = Newest(A) \cup Newest(B)
      /\ B \cup Newest(A) = Newest(A) \cup B
  OBVIOUS
<1> QED BY <1>2, <1>3, <1>4

\* A window is always the newest part of what was counted, not only some of it.
WindowsAreCut ==
  \A h \in Holder, s \in Subject :
    recent[h][s] = Newest(Dated(RunsOf(s, counted[h])))

LEMMA CountedAreOrdered ==
  ASSUME NEW A, IsFiniteSet(A), A \subseteq Run, NEW s,
         \A a, b \in RunsOf(s, A) : a.race = b.race /\ a.horse = b.horse => a = b
  PROVE  Ordered(Dated(RunsOf(s, A)))
<1>1. Dated(RunsOf(s, A)) \in SUBSET A
  BY DEF Dated, RunsOf
<1>2. IsFiniteSet(Dated(RunsOf(s, A)))
  BY <1>1, FS_Subset
<1> QED BY <1>1, <1>2 DEF Ordered, Dated

LEMMA WindowsStayCut ==
  ASSUME ArchiveInv, ArchiveInv', WindowsAreCut, [ArchiveNext]_archiveVars
  PROVE  WindowsAreCut'
<1>1. ASSUME NEW h \in Holder, NEW r \in Race, Ingest(h, r) PROVE WindowsAreCut'
  <2>1. PICK version \in Versions(r) :
          /\ recent' = [recent EXCEPT ![h] =
               [s \in Subject |-> Newest(@[s] \cup Dated(RunsOf(s, RunsIn(r, version))))]]
          /\ counted' = [counted EXCEPT ![h] = @ \cup RunsIn(r, version)]
    BY <1>1 DEF Ingest
  <2> DEFINE B == RunsIn(r, version)
  <2> HIDE DEF B
  <2>2. /\ counted'[h] = counted[h] \cup B
        /\ \A s \in Subject : recent'[h][s] = Newest(recent[h][s] \cup Dated(RunsOf(s, B)))
        /\ \A o \in Holder \ {h} : counted'[o] = counted[o] /\ recent'[o] = recent[o]
    BY <2>1 DEF B, ArchiveInv, ArchiveTypeOK
  <2>3. ASSUME NEW s \in Subject
        PROVE  recent'[h][s] = Newest(Dated(RunsOf(s, counted'[h])))
    <3> DEFINE old == Dated(RunsOf(s, counted[h]))
               new == Dated(RunsOf(s, B))
    <3>1. Dated(RunsOf(s, counted'[h])) = old \cup new
      BY <2>2 DEF Dated, RunsOf
    <3>2. /\ IsFiniteSet(counted'[h]) /\ counted'[h] \subseteq Run
          /\ \A a, b \in RunsOf(s, counted'[h]) : a.race = b.race /\ a.horse = b.horse => a = b
      BY DEF ArchiveInv, ArchiveTypeOK, FiguresAreExact
    <3>5. Ordered(old \cup new)
      <4>1. Ordered(Dated(RunsOf(s, counted'[h])))
        BY <3>2, CountedAreOrdered
      <4> QED BY <3>1, <4>1
    <3>3. recent[h][s] = Newest(old)
      BY DEF WindowsAreCut
    <3>4. recent'[h][s] = Newest(recent[h][s] \cup new)
      BY <2>2
    <3> HIDE DEF old, new
    <3>6. Newest(Newest(old) \cup new) = Newest(old \cup new)
      BY <3>5, CutTwice
    <3> QED BY <3>1, <3>3, <3>4, <3>6
  <2> QED BY <2>2, <2>3 DEF WindowsAreCut
<1>2. ASSUME Merge PROVE WindowsAreCut'
  <2>1. /\ counted'["server"] = counted["server"] \cup counted["phone"]
        /\ \A s \in Subject :
             recent'["server"][s] = Newest(recent["server"][s] \cup recent["phone"][s])
        /\ counted'["phone"] = counted["phone"] /\ recent'["phone"] = recent["phone"]
    BY <1>2 DEF Merge, ArchiveInv, ArchiveTypeOK, Holder
  <2>2. ASSUME NEW s \in Subject
        PROVE  recent'["server"][s] = Newest(Dated(RunsOf(s, counted'["server"])))
    <3> DEFINE ours == Dated(RunsOf(s, counted["server"]))
               theirs == Dated(RunsOf(s, counted["phone"]))
    <3>1. Dated(RunsOf(s, counted'["server"])) = ours \cup theirs
      BY <2>1 DEF Dated, RunsOf
    <3>2. /\ IsFiniteSet(counted'["server"]) /\ counted'["server"] \subseteq Run
          /\ \A a, b \in RunsOf(s, counted'["server"]) :
               a.race = b.race /\ a.horse = b.horse => a = b
      BY DEF ArchiveInv, ArchiveTypeOK, FiguresAreExact, Holder
    <3>5. Ordered(ours \cup theirs)
      <4>1. Ordered(Dated(RunsOf(s, counted'["server"])))
        BY <3>2, CountedAreOrdered
      <4> QED BY <3>1, <4>1
    <3>3. recent["server"][s] = Newest(ours) /\ recent["phone"][s] = Newest(theirs)
      BY DEF WindowsAreCut, Holder
    <3>4. recent'["server"][s] = Newest(recent["server"][s] \cup recent["phone"][s])
      BY <2>1
    <3> HIDE DEF ours, theirs
    <3>6. Newest(Newest(ours) \cup Newest(theirs)) = Newest(ours \cup theirs)
      BY <3>5, BothCut
    <3> QED BY <3>1, <3>3, <3>4, <3>6
  <2> QED BY <2>1, <2>2 DEF WindowsAreCut, Holder
<1>3. CASE UNCHANGED archiveVars
  BY <1>3 DEF archiveVars, WindowsAreCut
<1> QED BY <1>1, <1>2, <1>3 DEF ArchiveNext

\* Recent runs are the newest of all that were counted, for any window, and any
\* order in which results and the phone's own windows come in.  (appendRecent,
\* Merge.)
THEOREM WindowsHoldTheNewest == ArchiveSpec => []RecentAreTheNewest
<1>1. ArchiveInit => WindowsAreCut
  <2>1. \A s : Newest(Dated(RunsOf(s, {}))) = {}
    BY DEF Newest, Dated, RunsOf
  <2> QED BY <2>1 DEF ArchiveInit, WindowsAreCut
<1>2. ArchiveInv /\ WindowsAreCut => RecentAreTheNewest
  <2> SUFFICES ASSUME ArchiveInv, WindowsAreCut, NEW h \in Holder, NEW s \in Subject
               PROVE  LET all == Dated(RunsOf(s, counted[h])) IN
                      /\ recent[h][s] \subseteq all
                      /\ recent[h][s] = all \/ Cardinality(recent[h][s]) = Window
                      /\ \A a \in recent[h][s], b \in all \ recent[h][s] : Newer(a, b)
    BY DEF RecentAreTheNewest
  <2> DEFINE all == Dated(RunsOf(s, counted[h]))
  <2>1. Ordered(all) /\ recent[h][s] = Newest(all)
    BY CountedAreOrdered DEF WindowsAreCut, ArchiveInv, ArchiveTypeOK, FiguresAreExact
  <2> HIDE DEF all
  <2>2. /\ Newest(all) \subseteq all
        /\ Newest(all) = all \/ Cardinality(Newest(all)) = Window
        /\ \A a \in Newest(all), b \in all \ Newest(all) : Newer(a, b)
    BY <2>1, NewestIsSome, WindowIsFull, KeptAreNewer
  <2> QED BY <2>1, <2>2 DEF all
<1> QED BY <1>1, <1>2, WindowsStayCut, ArchiveInvariant, PTL DEF ArchiveSpec
(***************************************************************************)
(* The seal card                                                           *)
(***************************************************************************)

\* Of an answer: it is not of the future, and was retained if it is said to be.
Answered(a) == a.at <= second /\ (a.kept => [at |-> a.at, card |-> a.card] \in payloads)

\* Of a seal under way or done: its card was there when the job began.
Sealed(s) == s.at <= second /\ s.rated.at <= s.at /\ Answered(s.rated)

\* The server: one job at a time, and the card is saved with the tip.
ServerInv ==
  /\ fetched # Nothing => Answered(fetched)
  /\ listed # Nothing => Answered(listed)
  /\ sealing # Nothing => Sealed(sealing) /\ fetched = Nothing /\ tip = Nothing
  /\ tip # Nothing => Sealed(tip)
  /\ tip = Nothing => sealedBy = "old" /\ sealCard = Nothing
  /\ sealCard = Nothing => source = Nothing
  /\ sealedBy = "new" => release = "new" /\ tip # Nothing

\* A command that has seen a tip without a card follows an earlier server's
\* seal, and what was retained of the rated card is among what it has read.
ScanInv(c) ==
  /\ c.step # "idle" => release = "new" /\ c.seen \subseteq payloads
  /\ c.step # "idle" /\ tip # Nothing /\ sealedBy = "old" /\ tip.rated.kept
       => [at |-> tip.rated.at, card |-> tip.rated.card] \in c.seen
  /\ c.step \in {"sealed", "missing", "verified"} => tip # Nothing
  /\ c.step \in {"missing", "verified"} => sealedBy = "old"
  /\ c.step = "verified" =>
       /\ c.found \in payloads /\ c.found.at < tip.at
       /\ TipOf[c.found.card] = TipOf[tip.rated.card]
       /\ tip.rated.kept => c.found.card = tip.rated.card

RecoveryInv ==
  /\ RecoveryTypeOK /\ ServerInv
  /\ \A k \in Command : ScanInv(commands[k])
  /\ RetainedIsRated /\ NewSealsKeepTheirCard /\ SourceIsKnown /\ CardGivesTheTip

LEMMA NothingIsNone ==
  /\ Nothing \notin Listing /\ Nothing \notin Payload
  /\ Nothing \notin Answer /\ Nothing \notin Sealing
BY RecoveryAssumption, NothingAssumption

LEMMA RecoveryStarts == RecoveryInit => RecoveryInv
<1> SUFFICES ASSUME RecoveryInit PROVE RecoveryInv
  OBVIOUS
<1>1. RecoveryTypeOK
  <2>1. NoScan \in Scan
    BY DEF NoScan, Scan
  <2> QED BY <2>1, RecoveryAssumption DEF RecoveryInit, RecoveryTypeOK, Second
<1>2. ServerInv
  BY DEF RecoveryInit, ServerInv
<1>3. \A k \in Command : ScanInv(commands[k])
  BY DEF RecoveryInit, ScanInv, NoScan
<1> QED BY <1>1, <1>2, <1>3 DEF RecoveryInit, RecoveryInv, RetainedIsRated,
             NewSealsKeepTheirCard, SourceIsKnown, CardGivesTheTip

\* What a step of the server may do to what a command knows: responses are only
\* added, a seal comes once, and none by an earlier server beside a command.
LEMMA CommandsStandStill ==
  ASSUME RecoveryInv, UNCHANGED commands, payloads \subseteq payloads',
         release = "new" => release' = "new",
         \/ UNCHANGED seal
         \/ tip = Nothing /\ tip' # Nothing /\ (sealedBy' = "old" => release = "old")
  PROVE  \A k \in Command : ScanInv(commands[k])'
<1> SUFFICES ASSUME NEW k \in Command PROVE ScanInv(commands[k])'
  OBVIOUS
<1>1. ScanInv(commands[k])
  BY DEF RecoveryInv
<1>2. CASE UNCHANGED seal
  BY <1>1, <1>2 DEF ScanInv, seal
<1>3. CASE tip = Nothing /\ tip' # Nothing /\ (sealedBy' = "old" => release = "old")
  <2>1. commands[k].step \notin {"sealed", "missing", "verified"}
    BY <1>1, <1>3 DEF ScanInv
  <2>2. commands[k].step # "idle" => sealedBy' # "old"
    BY <1>1, <1>3 DEF ScanInv
  <2> QED BY <1>1, <1>3, <2>1, <2>2 DEF ScanInv
<1> QED BY <1>2, <1>3

\* Seals and cards untouched, what holds of them holds on.
LEMMA CardsStandStill ==
  ASSUME RecoveryInv, UNCHANGED <<seal, cardRows>>, payloads \subseteq payloads'
  PROVE  (RetainedIsRated /\ NewSealsKeepTheirCard /\ SourceIsKnown /\ CardGivesTheTip)'
BY DEF RecoveryInv, RetainedIsRated, NewSealsKeepTheirCard, SourceIsKnown, CardGivesTheTip, seal, cardRows

\* An answer stays one as the clock goes on and responses are added.
LEMMA AnswersStand ==
  ASSUME RecoveryInv, second \in Int, second' \in Int, second <= second', payloads \subseteq payloads'
  PROVE  /\ \A a \in Answer : Answered(a) => Answered(a)'
         /\ \A s \in Sealing : Sealed(s) => Sealed(s)'
<1>1. \A a \in Answer : a.at \in Int
  BY DEF Answer, Second
<1>2. \A s \in Sealing : s.at \in Int /\ s.rated \in Answer
  BY DEF Sealing, Second
<1> QED BY <1>1, <1>2 DEF Answered, Sealed

LEMMA ServerSteps ==
  ASSUME RecoveryInv,
         SecondPasses \/ FetchCard \/ StoreCard \/ BeginSeal \/ SealWithCard \/ Restart
  PROVE  RecoveryInv'
<1> USE NothingIsNone
<1>0. /\ RecoveryTypeOK /\ ServerInv
      /\ second \in Int /\ second \in Second
      /\ fetched # Nothing => fetched \in Answer
      /\ listed # Nothing => listed \in Answer
      /\ sealing # Nothing => sealing \in Sealing
      /\ tip # Nothing => tip \in Sealing
  BY DEF RecoveryInv, RecoveryTypeOK, Second
<1>1. CASE SecondPasses
  <2>1. second' \in Second /\ second' \in Int /\ second <= second'
    BY <1>0, <1>1, RecoveryAssumption DEF SecondPasses, Second
  <2>2. ServerInv'
    BY <1>0, <1>1, <2>1, AnswersStand DEF SecondPasses, ServerInv, jobs, seal, cardRows
  <2>3. RecoveryTypeOK'
    BY <1>0, <1>1, <2>1 DEF SecondPasses, RecoveryTypeOK, jobs, seal, cardRows
  <2> QED BY <1>1, <2>2, <2>3, CommandsStandStill, CardsStandStill DEF SecondPasses, RecoveryInv
<1>2. CASE FetchCard
  <2>1. PICK card \in Listing, kept \in BOOLEAN :
           /\ fetched' = [at |-> second, card |-> card, kept |-> kept]
           /\ payloads' = payloads \cup (IF kept THEN {[at |-> second, card |-> card]} ELSE {})
    BY <1>2 DEF FetchCard
  <2>2. fetched' \in Answer /\ payloads \subseteq payloads' /\ payloads' \subseteq Payload
    BY <1>0, <2>1 DEF Answer, Payload, RecoveryTypeOK
  <2>3. Answered(fetched)'
    BY <1>0, <1>2, <2>1 DEF FetchCard, Answered
  <2>4. ServerInv'
    BY <1>0, <1>2, <2>2, <2>3, AnswersStand DEF FetchCard, ServerInv, seal, cardRows
  <2>5. RecoveryTypeOK'
    BY <1>0, <1>2, <2>2 DEF FetchCard, RecoveryTypeOK, seal, cardRows
  <2> QED BY <1>2, <2>2, <2>4, <2>5, CommandsStandStill, CardsStandStill DEF FetchCard, RecoveryInv
<1>3. CASE StoreCard
  <2>1. ServerInv'
    BY <1>0, <1>3, AnswersStand DEF StoreCard, ServerInv, seal, cardRows
  <2>2. RecoveryTypeOK'
    BY <1>0, <1>3 DEF StoreCard, RecoveryTypeOK, seal, cardRows
  <2> QED BY <1>3, <2>1, <2>2, CommandsStandStill, CardsStandStill DEF StoreCard, RecoveryInv
<1>4. CASE BeginSeal
  <2>1. sealing' \in Sealing /\ Sealed(sealing)'
    <3>1. listed \in Answer /\ Answered(listed)
      BY <1>0, <1>4 DEF BeginSeal, ServerInv
    <3>2. Answered(listed)'
      BY <1>4, <3>1 DEF BeginSeal, Answered
    <3> QED BY <1>0, <1>4, <3>1, <3>2 DEF BeginSeal, Sealing, Sealed, Answered
  <2>2. ServerInv'
    BY <1>0, <1>4, <2>1, AnswersStand DEF BeginSeal, ServerInv, seal, cardRows
  <2>3. RecoveryTypeOK'
    BY <1>0, <1>4, <2>1 DEF BeginSeal, RecoveryTypeOK, seal, cardRows
  <2> QED BY <1>4, <2>2, <2>3, CommandsStandStill, CardsStandStill DEF BeginSeal, RecoveryInv
<1>5. CASE SealWithCard
  <2>1. /\ tip = Nothing /\ sealCard = Nothing /\ source = Nothing
        /\ sealing \in Sealing /\ Sealed(sealing) /\ tip' = sealing
        /\ sealing.rated.card \in Listing
        /\ release \in {"old", "new"} /\ release' = release
    BY <1>0, <1>5 DEF SealWithCard, ServerInv, Sealing, Answer, RecoveryTypeOK
  <2>2. Sealed(tip)'
    BY <1>0, <1>5, <2>1, AnswersStand DEF SealWithCard
  <2>3. ServerInv'
    BY <1>0, <1>5, <2>1, <2>2, AnswersStand DEF SealWithCard, ServerInv
  <2>4. RecoveryTypeOK'
    BY <1>0, <1>5, <2>1 DEF SealWithCard, RecoveryTypeOK
  <2>5. (RetainedIsRated /\ NewSealsKeepTheirCard /\ SourceIsKnown /\ CardGivesTheTip)'
    BY <1>5, <2>1 DEF SealWithCard, RetainedIsRated, NewSealsKeepTheirCard, SourceIsKnown, CardGivesTheTip
  <2>6. \A k \in Command : ScanInv(commands[k])'
    BY <1>5, <2>1, CommandsStandStill DEF SealWithCard
  <2> QED BY <2>3, <2>4, <2>5, <2>6 DEF RecoveryInv
<1>6. CASE Restart
  <2>1. ServerInv'
    BY <1>0, <1>6, AnswersStand DEF Restart, ServerInv, seal, cardRows, RecoveryTypeOK
  <2>2. RecoveryTypeOK'
    BY <1>0, <1>6 DEF Restart, RecoveryTypeOK, seal, cardRows
  <2> QED BY <1>6, <2>1, <2>2, CommandsStandStill, CardsStandStill DEF Restart, RecoveryInv
<1> QED BY <1>1, <1>2, <1>3, <1>4, <1>5, <1>6

\* A step of a command that leaves the cards alone: its own scan decides.
LEMMA ScansMove ==
  ASSUME RecoveryInv, NEW k \in Command, NEW scan \in Scan, Step(k, scan),
         UNCHANGED <<second, release, payloads, listed, jobs, seal, cardRows>>, ScanInv(scan)
  PROVE  RecoveryInv'
<1>1. ServerInv'
  BY DEF RecoveryInv, ServerInv, jobs, seal, cardRows, Sealed, Answered
<1>2. RecoveryTypeOK'
  BY DEF RecoveryInv, RecoveryTypeOK, jobs, seal, cardRows, Step
<1>3. \A c \in Scan : ScanInv(c) => ScanInv(c)'
  BY DEF ScanInv, seal
<1>4. \A j \in Command : commands'[j] \in Scan /\ ScanInv(commands'[j])
  BY DEF RecoveryInv, RecoveryTypeOK, Step
<1>5. \A j \in Command : ScanInv(commands[j])'
  BY <1>4 DEF ScanInv, seal
<1> QED BY <1>1, <1>2, <1>5, CardsStandStill DEF RecoveryInv, cardRows, seal

\* What verifyCandidate accepts: if the rated card was retained it is among what
\* the command has read up to the seal, and all of that shows one card.
LEMMA VerifiedIsRated ==
  ASSUME RecoveryInv, NEW k \in Command, commands[k].step = "missing",
         NEW p \in Proven(commands[k].seen), Reproduces(p)
  PROVE  /\ p \in payloads /\ p.at < tip.at
         /\ TipOf[p.card] = TipOf[tip.rated.card]
         /\ tip.rated.kept => p.card = tip.rated.card
<1> DEFINE c == commands[k]
<1>1. ScanInv(c) /\ c.step = "missing" /\ ServerInv
  BY DEF RecoveryInv
<1>2. c.seen \subseteq payloads /\ tip # Nothing /\ sealedBy = "old"
  BY <1>1 DEF ScanInv
<1>3. p \in payloads /\ p.at < tip.at /\ TipOf[p.card] = TipOf[tip.rated.card]
  BY <1>2 DEF Proven, Before, Reproduces
<1>4. ASSUME tip.rated.kept PROVE p.card = tip.rated.card
  <2> DEFINE rated == [at |-> tip.rated.at, card |-> tip.rated.card]
  <2>1. rated \in c.seen
    BY <1>1, <1>2, <1>4 DEF ScanInv
  <2>2. rated.at <= tip.at
    BY <1>1, <1>2 DEF ServerInv, Sealed
  <2>3. rated \in UpTo(c.seen)
    BY <2>1, <2>2 DEF UpTo
  <2>4. rated.card = p.card
    BY <2>3 DEF Proven
  <2> QED BY <2>4
<1> QED BY <1>3, <1>4

LEMMA CommandSteps ==
  ASSUME RecoveryInv, NEW k \in Command,
         \/ ListPayloads(k) \/ ReadTip(k) \/ ReadSealCard(k)
         \/ Verify(k) \/ Recover(k) \/ Abort(k)
  PROVE  RecoveryInv'
<1> USE NothingIsNone
<1> DEFINE c == commands[k]
<1>0. /\ RecoveryTypeOK /\ ServerInv /\ ScanInv(c) /\ c \in Scan
      /\ NewSealsKeepTheirCard
      /\ NoScan \in Scan /\ ScanInv(NoScan)
  BY DEF RecoveryInv, RecoveryTypeOK, NoScan, Scan, ScanInv
<1>1. CASE ListPayloads(k)
  <2>1. PICK apply \in BOOLEAN :
           Step(k, [step |-> "listed", apply |-> apply, seen |-> payloads, found |-> Nothing])
    BY <1>1 DEF ListPayloads
  <2> DEFINE scan == [step |-> "listed", apply |-> apply, seen |-> payloads, found |-> Nothing]
  <2>2. scan \in Scan
    BY <1>0 DEF Scan, RecoveryTypeOK
  <2>3. ScanInv(scan)
    <3>1. tip # Nothing /\ tip.rated.kept => [at |-> tip.rated.at, card |-> tip.rated.card] \in payloads
      BY <1>0 DEF ServerInv, Sealed, Answered
    <3> QED BY <1>1, <3>1 DEF ScanInv, ListPayloads
  <2> QED BY <1>1, <2>1, <2>2, <2>3, ScansMove DEF ListPayloads
<1>2. CASE ReadTip(k)
  <2>1. CASE tip = Nothing
    BY <1>0, <1>2, <2>1, ScansMove DEF ReadTip
  <2>2. CASE tip # Nothing
    <3>1. [c EXCEPT !.step = "sealed"] \in Scan
      BY <1>0 DEF Scan
    <3>2. ScanInv([c EXCEPT !.step = "sealed"])
      BY <1>0, <1>2, <2>2 DEF ScanInv, ReadTip, Scan
    <3> QED BY <1>2, <2>2, <3>1, <3>2, ScansMove DEF ReadTip
  <2> QED BY <2>1, <2>2
<1>3. CASE ReadSealCard(k)
  <2>1. CASE sealCard # Nothing
    BY <1>0, <1>3, <2>1, ScansMove DEF ReadSealCard
  <2>2. CASE sealCard = Nothing
    <3>1. [c EXCEPT !.step = "missing"] \in Scan
      BY <1>0 DEF Scan
    <3>2. tip # Nothing /\ sealedBy = "old"
      <4>1. tip # Nothing /\ tip \in Sealing
        BY <1>0, <1>3 DEF ReadSealCard, ScanInv, RecoveryTypeOK
      <4>2. tip.rated.card \in Listing
        BY <4>1 DEF Sealing, Answer
      <4> QED BY <1>0, <2>2, <4>1, <4>2 DEF NewSealsKeepTheirCard, RecoveryTypeOK
    <3>3. ScanInv([c EXCEPT !.step = "missing"])
      BY <1>0, <1>3, <3>2 DEF ScanInv, ReadSealCard, Scan
    <3> QED BY <1>3, <2>2, <3>1, <3>3, ScansMove DEF ReadSealCard
  <2> QED BY <2>1, <2>2
<1>4. CASE Verify(k)
  <2> DEFINE scan(p) == [step |-> "verified", apply |-> c.apply, seen |-> c.seen, found |-> p]
  <2>1. ASSUME NEW p \in Proven(c.seen), c.step = "missing", Reproduces(p)
        PROVE  scan(p) \in Scan /\ ScanInv(scan(p))
    <3>1. /\ p \in payloads /\ p.at < tip.at
          /\ TipOf[p.card] = TipOf[tip.rated.card]
          /\ tip.rated.kept => p.card = tip.rated.card
      BY <2>1, VerifiedIsRated
    <3>2. scan(p) \in Scan
      BY <1>0, <3>1 DEF Scan, RecoveryTypeOK
    <3>3. ScanInv(scan(p))
      BY <1>0, <2>1, <3>1 DEF ScanInv
    <3> QED BY <3>2, <3>3
  <2>2. CASE Step(k, NoScan)
    BY <1>0, <1>4, <2>2, ScansMove DEF Verify
  <2> QED BY <1>4, <2>1, <2>2, ScansMove DEF Verify
<1>5. CASE Recover(k)
  <2>1. CASE ~(c.apply /\ sealCard = Nothing)
    BY <1>0, <1>5, <2>1, ScansMove DEF Recover
  <2>2. CASE c.apply /\ sealCard = Nothing
    <3>1. /\ tip # Nothing /\ sealedBy = "old"
          /\ c.found \in payloads /\ c.found.at < tip.at
          /\ TipOf[c.found.card] = TipOf[tip.rated.card]
          /\ tip.rated.kept => c.found.card = tip.rated.card
      BY <1>0, <1>5 DEF Recover, ScanInv
    <3>2. c.found \in Payload /\ c.found.card \in Listing
      BY <1>0, <3>1 DEF RecoveryTypeOK, Payload
    <3>3. sealCard' = c.found.card /\ source' = c.found /\ Step(k, NoScan)
      BY <1>5, <2>2 DEF Recover
    <3>4. RecoveryTypeOK'
      BY <1>0, <1>5, <3>2, <3>3 DEF Recover, RecoveryTypeOK, jobs, seal, Step
    <3>5. ServerInv'
      BY <1>0, <1>5, <3>1, <3>2, <3>3 DEF Recover, ServerInv, jobs, seal, Sealed, Answered
    <3>6. \A j \in Command : ScanInv(commands'[j])
      BY <1>0, <3>3 DEF RecoveryInv, RecoveryTypeOK, Step
    <3>7. \A j \in Command : ScanInv(commands[j])'
      BY <1>5, <3>6 DEF Recover, ScanInv, seal
    <3>8. (RetainedIsRated /\ NewSealsKeepTheirCard /\ SourceIsKnown /\ CardGivesTheTip)'
      BY <1>5, <3>1, <3>3 DEF Recover, seal, RetainedIsRated, NewSealsKeepTheirCard, SourceIsKnown, CardGivesTheTip
    <3> QED BY <3>4, <3>5, <3>7, <3>8 DEF RecoveryInv
  <2> QED BY <2>1, <2>2
<1>6. CASE Abort(k)
  BY <1>0, <1>6, ScansMove DEF Abort
<1> QED BY <1>1, <1>2, <1>3, <1>4, <1>5, <1>6

\* What is proved of the seal card at every step.
LEMMA RecoveryHolds == RecoverySpec => []RecoveryInv
<1>1. RecoveryInv /\ [RecoveryNext]_recoveryVars => RecoveryInv'
  <2> SUFFICES ASSUME RecoveryInv, [RecoveryNext]_recoveryVars PROVE RecoveryInv'
    OBVIOUS
  <2>1. CASE UNCHANGED recoveryVars
    BY <2>1 DEF recoveryVars, jobs, seal, cardRows, RecoveryInv, RecoveryTypeOK, ServerInv, Sealed, Answered,
         ScanInv, RetainedIsRated, NewSealsKeepTheirCard, SourceIsKnown, CardGivesTheTip
  <2> QED BY <2>1, ServerSteps, CommandSteps DEF RecoveryNext
<1> QED BY <1>1, RecoveryStarts, PTL DEF RecoverySpec

\* Seals, cards and commands keep their types (recovery/seal_cards.go).
THEOREM RecoveryTyped == RecoverySpec => []RecoveryTypeOK
BY RecoveryHolds, PTL DEF RecoveryInv

\* Where the response behind the rated card was retained, a card recovered is
\* the one rated, for any cards, ratings and commands (verifyCandidate).
THEOREM RecoveredIsRated == RecoverySpec => []RetainedIsRated
BY RecoveryHolds, PTL DEF RecoveryInv

\* A tip the new server seals keeps the card it was rated on (SaveSealedTip).
THEOREM NewSealsHaveTheirCard == RecoverySpec => []NewSealsKeepTheirCard
BY RecoveryHolds, PTL DEF RecoveryInv

\* A card recovered names its source, from before the seal (SaveRecoveredSealCard).
THEOREM RecoveryNamesItsSource == RecoverySpec => []SourceIsKnown
BY RecoveryHolds, PTL DEF RecoveryInv

\* Whatever was lost, the card kept makes the tip that was sealed (verifyCandidate).
THEOREM CardsGiveTheirTip == RecoverySpec => []CardGivesTheTip
BY RecoveryHolds, PTL DEF RecoveryInv

=============================================================================
