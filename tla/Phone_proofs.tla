----------------------------- MODULE Phone_proofs -----------------------------
(***************************************************************************)
(* What the tabs of the app show, for any number of loads under way, any   *)
(* freshness, any weight sets and any answers.                             *)
(***************************************************************************)
EXTENDS RacecardScreens, RecordScreen, TLAPS

\* A load that has Racing to itself is the only one, and of the day picked; when
\* there is none, the card is of that day.
Alone ==
  ~overlapped =>
    /\ \A t, u \in UnderWay("racing") : t = u
    /\ \A t \in UnderWay("racing") : loads[t].day = day
    /\ AloneShowsTheDayPicked

\* Every card was read by the server after its load began.
Dated ==
  /\ \A d \in Day : memory[d] # NoCard => memory[d].asOf >= memory[d].fetchedAt
  /\ \A t \in Task : loads[t].step \in {"answered", "saved"} => loads[t].asOf >= loads[t].began
  /\ \A t \in Task : loads[t].began <= clock

ScreensInv == TypeOK /\ Alone /\ Dated

LEMMA Records ==
  /\ NoLoad \in Load /\ Blank \in Shown /\ Failed \in Shown
  /\ NoLoad.step = "none" /\ NoLoad.began = 0
  /\ Blank.phase = "idle" /\ Failed.phase = "failed"
  /\ \A d \in Day, stale \in BOOLEAN :
       LoadedWith(d, stale) \in Shown /\ LoadedWith(d, stale).of = d
       /\ LoadedWith(d, stale).phase = "loaded" /\ LoadedWith(d, stale).stale = stale
<1>1. 0 \in Time
  BY FreshnessAssumption DEF Time
<1>2. NoLoad \in Load /\ NoLoad.step = "none" /\ NoLoad.began = 0
  BY <1>1 DEF NoLoad, Load, Screen, Day
<1>3. Blank \in Shown /\ Blank.phase = "idle"
  BY DEF Blank, Shown, Day
<1>4. Failed \in Shown /\ Failed.phase = "failed"
  BY <1>3 DEF Failed, Shown
<1>5. ASSUME NEW d \in Day, NEW stale \in BOOLEAN
      PROVE  LoadedWith(d, stale) \in Shown /\ LoadedWith(d, stale).of = d
             /\ LoadedWith(d, stale).phase = "loaded" /\ LoadedWith(d, stale).stale = stale
  BY DEF LoadedWith, Shown
<1> QED BY <1>2, <1>3, <1>4, <1>5

LEMMA Starts == Init => ScreensInv
<1> SUFFICES ASSUME Init PROVE ScreensInv
  OBVIOUS
<1>1. UnderWay("racing") = {}
  BY Records DEF Init, UnderWay
<1>2. TypeOK
  <2>1. clock \in Time /\ day \in Day
    BY FreshnessAssumption DEF Init, Time, Day
  <2>2. shown \in [Screen -> Shown] /\ memory \in [Day -> Kept \cup {NoCard}]
    BY Records DEF Init
  <2>3. loads \in [Task -> Load] /\ disk \in SUBSET Day /\ overlapped \in BOOLEAN
    BY Records DEF Init
  <2> QED BY <2>1, <2>2, <2>3 DEF TypeOK
<1>3. Alone
  BY <1>1, Records DEF Init, Alone, AloneShowsTheDayPicked, Screen
<1>4. Dated
  BY Records DEF Init, Dated
<1> QED BY <1>2, <1>3, <1>4 DEF ScreensInv

\* Beginning a load, by whichever gesture.
LEMMA BeginKeeps ==
  ASSUME ScreensInv, NEW t \in Task, NEW s \in Screen, NEW d \in Day, NEW force \in BOOLEAN,
         NEW before \in Shown, BeginLoad(t, s, d, force, before),
         day' \in Day, s = "racing" => d = day', s # "racing" => day' = day
  PROVE  ScreensInv'
<1>1. PICK step \in {"asked", "failing"} :
        /\ loads[t].step = "none"
        /\ overlapped' = IF s = "racing" THEN UnderWay("racing") # {} ELSE overlapped
        /\ IF Spared(d, force)
             THEN shown' = [shown EXCEPT ![s] = LoadedWith(d, FALSE)] /\ UNCHANGED loads
             ELSE /\ shown' = [shown EXCEPT ![s] =
                       IF before.phase = "loaded" THEN before
                       ELSE [before EXCEPT !.phase = "loading"]]
                  /\ loads' = [loads EXCEPT ![t] =
                       [NoLoad EXCEPT !.step = step, !.screen = s, !.day = d, !.began = clock]]
        /\ UNCHANGED <<clock, memory, disk>>
  BY DEF BeginLoad
<1> DEFINE load == [NoLoad EXCEPT !.step = step, !.screen = s, !.day = d, !.began = clock]
           show == IF before.phase = "loaded" THEN before ELSE [before EXCEPT !.phase = "loading"]
<1>2. load \in Load /\ load.step = step /\ load.screen = s /\ load.day = d /\ load.began = clock
  <2>1. clock \in Time
    BY DEF ScreensInv, TypeOK
  <2> QED BY <2>1, Records DEF Load
<1>3. show \in Shown
  BY DEF Shown
<1>4. /\ loads \in [Task -> Load] /\ shown \in [Screen -> Shown] /\ clock \in Time
  BY DEF ScreensInv, TypeOK
<1> HIDE DEF load, show
<1>5. \/ shown' = [shown EXCEPT ![s] = LoadedWith(d, FALSE)] /\ loads' = loads
      \/ shown' = [shown EXCEPT ![s] = show] /\ loads' = [loads EXCEPT ![t] = load]
  BY <1>1 DEF load, show
<1>6. TypeOK'
  <2>1. loads' \in [Task -> Load] /\ shown' \in [Screen -> Shown]
    BY <1>2, <1>3, <1>4, <1>5, Records
  <2>2. overlapped' \in BOOLEAN
    BY <1>1 DEF ScreensInv, TypeOK
  <2> QED BY <1>1, <2>1, <2>2 DEF ScreensInv, TypeOK
<1>7. Dated'
  <2>1. \A u \in Task : loads'[u] = loads[u] \/ loads'[u] = load
    BY <1>4, <1>5
  <2>2. step \notin {"answered", "saved"}
    OBVIOUS
  <2>3. clock <= clock
    BY <1>4, FreshnessAssumption DEF Time
  <2> QED BY <1>1, <1>2, <2>1, <2>2, <2>3 DEF ScreensInv, Dated
<1>8. Alone'
  <2>1. CASE s = "racing" /\ UnderWay("racing") = {}
    <3>1. CASE loads' = loads
      <4>1. UnderWay("racing")' = {}
        BY <2>1, <3>1 DEF UnderWay
      <4>2. shown'["racing"] = LoadedWith(d, FALSE)
        <5>1. load # loads[t]
          BY <1>1, <1>2
        <5>2. shown' = [shown EXCEPT ![s] = LoadedWith(d, FALSE)]
          BY <1>4, <1>5, <3>1, <5>1
        <5> QED BY <1>4, <2>1, <5>2
      <4> QED BY <2>1, <4>1, <4>2, Records DEF Alone, AloneShowsTheDayPicked
    <3>2. CASE loads' = [loads EXCEPT ![t] = load]
      <4>1. UnderWay("racing")' = {t} /\ loads'[t].day = d
        BY <1>2, <1>4, <2>1, <3>2 DEF UnderWay
      <4> QED BY <2>1, <4>1 DEF Alone, AloneShowsTheDayPicked
    <3> QED BY <1>5, <3>1, <3>2
  <2>2. CASE s = "racing" /\ UnderWay("racing") # {}
    BY <1>1, <2>2 DEF Alone
  <2>3. CASE s # "racing"
    <3>1. /\ UnderWay("racing")' = UnderWay("racing")
          /\ \A u \in UnderWay("racing") : loads'[u] = loads[u]
      BY <1>1, <1>2, <1>4, <1>5, <2>3 DEF UnderWay
    <3>2. shown'["racing"] = shown["racing"]
      BY <1>4, <1>5, <2>3 DEF Screen
    <3> QED BY <1>1, <2>3, <3>1, <3>2 DEF ScreensInv, Alone, AloneShowsTheDayPicked
  <2> QED BY <2>1, <2>2, <2>3
<1> QED BY <1>6, <1>7, <1>8 DEF ScreensInv

\* A load that goes on, and shows nothing yet.
LEMMA GoingOnKeeps ==
  ASSUME ScreensInv, NEW t \in Task, loads[t].step # "none",
         NEW load \in Load, loads' = [loads EXCEPT ![t] = load],
         load.step # "none", load.screen = loads[t].screen, load.day = loads[t].day,
         load.began = loads[t].began,
         load.step \in {"answered", "saved"} => load.asOf >= load.began,
         disk' \in SUBSET Day, UNCHANGED <<clock, day, shown, memory, overlapped>>
  PROVE  ScreensInv'
<1>1. TypeOK'
  BY DEF ScreensInv, TypeOK
<1>2. /\ loads'[t] = load
      /\ \A u \in Task \ {t} : loads'[u] = loads[u]
  BY DEF ScreensInv, TypeOK
<1>3. UnderWay("racing")' = UnderWay("racing")
  BY <1>2 DEF UnderWay
<1>4. \A u \in Task : loads'[u].day = loads[u].day /\ loads'[u].began = loads[u].began
  BY <1>2
<1>5. Alone'
  BY <1>3, <1>4 DEF ScreensInv, Alone, AloneShowsTheDayPicked, UnderWay
<1>6. Dated'
  BY <1>2, <1>4 DEF ScreensInv, Dated
<1> QED BY <1>1, <1>5, <1>6 DEF ScreensInv

\* A load that lands, with a card of its day or with an error.
LEMMA LandingKeeps ==
  ASSUME ScreensInv, NEW t \in Task, loads[t].step # "none",
         loads' = [loads EXCEPT ![t] = NoLoad],
         NEW show \in Shown, shown' = [shown EXCEPT ![loads[t].screen] = show],
         show.phase = "loaded" => show.of = loads[t].day,
         memory' \in [Day -> Kept \cup {NoCard}],
         \A d \in Day : memory'[d] # NoCard => memory'[d].asOf >= memory'[d].fetchedAt,
         UNCHANGED <<clock, day, disk, overlapped>>
  PROVE  ScreensInv'
<1>1. /\ loads[t] \in Load /\ loads[t].screen \in Screen
      /\ loads \in [Task -> Load] /\ shown \in [Screen -> Shown] /\ clock \in Time
  BY DEF ScreensInv, TypeOK, Load
<1>2. TypeOK'
  <2>1. loads' \in [Task -> Load] /\ shown' \in [Screen -> Shown]
    BY <1>1, Records
  <2> QED BY <2>1 DEF ScreensInv, TypeOK
<1>3. Dated'
  <2>1. \A u \in Task : loads'[u] = loads[u] \/ loads'[u] = NoLoad
    BY <1>1
  <2>2. 0 <= clock
    BY <1>1, FreshnessAssumption DEF Time
  <2> QED BY <2>1, <2>2, Records DEF ScreensInv, Dated
<1>4. Alone'
  <2>1. CASE loads[t].screen = "racing"
    <3> SUFFICES ASSUME ~overlapped PROVE Alone'
      BY DEF Alone
    <3>1. t \in UnderWay("racing")
      BY <2>1 DEF UnderWay
    <3>2. UnderWay("racing") = {t} /\ loads[t].day = day
      BY <3>1 DEF ScreensInv, Alone
    <3>3. UnderWay("racing")' = {}
      BY <1>1, <3>2, Records DEF UnderWay
    <3>4. shown'["racing"] = show
      BY <1>1, <2>1
    <3> QED BY <3>2, <3>3, <3>4 DEF Alone, AloneShowsTheDayPicked
  <2>2. CASE loads[t].screen # "racing"
    <3>1. /\ UnderWay("racing")' = UnderWay("racing")
          /\ \A u \in UnderWay("racing") : loads'[u] = loads[u]
      BY <1>1, <2>2, Records DEF UnderWay
    <3>2. shown'["racing"] = shown["racing"]
      BY <1>1, <2>2 DEF Screen
    <3> QED BY <3>1, <3>2 DEF ScreensInv, Alone, AloneShowsTheDayPicked
  <2> QED BY <2>1, <2>2
<1> QED BY <1>2, <1>3, <1>4 DEF ScreensInv

LEMMA LoadStepKeeps ==
  ASSUME ScreensInv, NEW t \in Task, LoadStep(t)
  PROVE  ScreensInv'
<1> DEFINE l == loads[t]
<1>1. /\ l \in Load /\ l.day \in Day /\ l.screen \in Screen /\ l.began \in Time /\ l.asOf \in Time
      /\ clock \in Time /\ l.began <= clock /\ 0 \in Time
  BY FreshnessAssumption DEF ScreensInv, TypeOK, Load, Dated, Time
<1>2. CASE Serve(t)
  <2>1. [l EXCEPT !.step = "answered", !.asOf = clock] \in Load
    BY <1>1 DEF Load
  <2>2. loads' = [loads EXCEPT ![t] = [l EXCEPT !.step = "answered", !.asOf = clock]]
    BY <1>2 DEF Serve
  <2>3. disk' \in SUBSET Day
    BY <1>2 DEF Serve, ScreensInv, TypeOK
  <2> QED BY <1>1, <1>2, <2>1, <2>2, <2>3, GoingOnKeeps DEF Serve, Load
<1>3. CASE RequestFails(t)
  <2>1. [l EXCEPT !.step = "failing", !.asOf = 0] \in Load
    BY <1>1 DEF Load
  <2>2. loads' = [loads EXCEPT ![t] = [l EXCEPT !.step = "failing", !.asOf = 0]]
    BY <1>3 DEF RequestFails
  <2>3. disk' \in SUBSET Day
    BY <1>3 DEF RequestFails, ScreensInv, TypeOK
  <2> QED BY <1>1, <1>3, <2>1, <2>2, <2>3, GoingOnKeeps DEF RequestFails, Load
<1>4. CASE SaveRacecard(t)
  <2>1. [l EXCEPT !.step = "saved"] \in Load
    BY <1>1 DEF Load
  <2>2. loads' = [loads EXCEPT ![t] = [l EXCEPT !.step = "saved"]]
    BY <1>4 DEF SaveRacecard
  <2>3. disk' \in SUBSET Day
    BY <1>1, <1>4 DEF SaveRacecard, ScreensInv, TypeOK
  <2>4. l.asOf >= l.began
    BY <1>4 DEF SaveRacecard, ScreensInv, Dated
  <2> QED BY <1>1, <1>4, <2>1, <2>2, <2>3, <2>4, GoingOnKeeps DEF SaveRacecard, Load
<1>5. CASE ReadSaved(t)
  <2> DEFINE next == IF l.day \in disk THEN "found" ELSE "missing"
  <2>1. [l EXCEPT !.step = next] \in Load
    BY <1>1 DEF Load
  <2>2. loads' = [loads EXCEPT ![t] = [l EXCEPT !.step = next]]
    BY <1>5 DEF ReadSaved
  <2>3. disk' \in SUBSET Day
    BY <1>5 DEF ReadSaved, ScreensInv, TypeOK
  <2> QED BY <1>1, <1>5, <2>1, <2>2, <2>3, GoingOnKeeps DEF ReadSaved, Load
<1>6. CASE Land(t)
  <2>1. l.asOf >= l.began
    BY <1>6 DEF Land, ScreensInv, Dated
  <2>2. memory' \in [Day -> Kept \cup {NoCard}]
    BY <1>1, <1>6 DEF Land, ScreensInv, TypeOK, Kept
  <2>3. \A d \in Day : memory'[d] # NoCard => memory'[d].asOf >= memory'[d].fetchedAt
    BY <1>1, <1>6, <2>1 DEF Land, ScreensInv, TypeOK, Dated
  <2> QED BY <1>1, <1>6, <2>2, <2>3, Records, LandingKeeps DEF Land
<1>7. CASE LandSaved(t)
  <2> DEFINE show == IF l.step = "found" THEN LoadedWith(l.day, TRUE) ELSE Failed
  <2>1. show \in Shown /\ (show.phase = "loaded" => show.of = l.day)
    BY <1>1, Records
  <2>2. shown' = [shown EXCEPT ![l.screen] = show]
    BY <1>7 DEF LandSaved
  <2>3. /\ memory' \in [Day -> Kept \cup {NoCard}]
        /\ \A d \in Day : memory'[d] # NoCard => memory'[d].asOf >= memory'[d].fetchedAt
    BY <1>7 DEF LandSaved, ScreensInv, TypeOK, Dated
  <2> HIDE DEF show
  <2> QED BY <1>7, <2>1, <2>2, <2>3, LandingKeeps DEF LandSaved
<1> QED BY <1>2, <1>3, <1>4, <1>5, <1>6, <1>7 DEF LoadStep

LEMMA GesturesKeep ==
  ASSUME ScreensInv, NEW t \in Task,
         \/ \E d \in Day : Select(t, d)
         \/ \E s \in Screen : LoadIfNeeded(t, s) \/ PullToRefresh(t, s)
  PROVE  ScreensInv'
<1>1. ASSUME NEW d \in Day, Select(t, d)
      PROVE  ScreensInv'
  BY <1>1, Records, BeginKeeps DEF Select, Screen
<1>2. ASSUME NEW s \in Screen, LoadIfNeeded(t, s) \/ PullToRefresh(t, s)
      PROVE  ScreensInv'
  <2>1. day \in Day /\ day' = day /\ shown[s] \in Shown
    BY <1>2 DEF LoadIfNeeded, PullToRefresh, ScreensInv, TypeOK
  <2>2. DayOf(s) \in Day /\ (s = "racing" => DayOf(s) = day')
    BY <2>1 DEF DayOf, Day
  <2>3. PICK force \in BOOLEAN : BeginLoad(t, s, DayOf(s), force, shown[s])
    BY <1>2 DEF LoadIfNeeded, PullToRefresh
  <2> QED BY <2>1, <2>2, <2>3, BeginKeeps
<1> QED BY <1>1, <1>2

LEMMA ScreensSteps == ScreensInv /\ [Next]_vars => ScreensInv'
<1> SUFFICES ASSUME ScreensInv, [Next]_vars PROVE ScreensInv'
  OBVIOUS
<1>1. CASE \E t \in Task : LoadStep(t)
  BY <1>1, LoadStepKeeps
<1>2. CASE \E t \in Task : \/ \E d \in Day : Select(t, d)
                          \/ \E s \in Screen : LoadIfNeeded(t, s) \/ PullToRefresh(t, s)
  BY <1>2, GesturesKeep
<1>3. CASE Tick
  <2>1. clock' \in Time /\ clock' >= clock
    BY <1>3, FreshnessAssumption DEF Tick, ScreensInv, TypeOK, Time
  <2>2. TypeOK'
    BY <1>3, <2>1 DEF Tick, ScreensInv, TypeOK
  <2>3. Alone'
    BY <1>3 DEF Tick, ScreensInv, Alone, AloneShowsTheDayPicked, UnderWay
  <2>4. Dated'
    <3>1. \A t \in Task : loads[t].began \in Time /\ loads[t].began <= clock
      BY DEF ScreensInv, TypeOK, Load, Dated
    <3>2. clock \in Time
      BY DEF ScreensInv, TypeOK
    <3>3. \A t \in Task : loads[t].began <= clock'
      BY <2>1, <3>1, <3>2 DEF Time
    <3> QED BY <1>3, <3>3 DEF Tick, ScreensInv, Dated
  <2> QED BY <2>2, <2>3, <2>4 DEF ScreensInv
<1>4. CASE UNCHANGED vars
  BY <1>4 DEF vars, ScreensInv, TypeOK, Alone, AloneShowsTheDayPicked, Dated, UnderWay
<1> QED BY <1>1, <1>2, <1>3, <1>4 DEF Next

LEMMA ScreensInvariant == Spec => []ScreensInv
<1> QED BY Starts, ScreensSteps, PTL DEF Spec

\* The state of the screens is the state they can show: a card, a spinner, an
\* error.  (TodayViewModel, TipsViewModel, RacecardLoader.)
THEOREM ScreensTyped == Spec => []TypeOK
<1>1. ScreensInv => TypeOK
  BY DEF ScreensInv
<1> QED BY <1>1, ScreensInvariant, PTL

\* A load of Racing that no other of its loads was under way with leaves the day
\* picked on the screen, however Tips loads meanwhile.  (TodayViewModel.select.)
THEOREM AloneIsRight == Spec => []AloneShowsTheDayPicked
<1>1. ScreensInv => AloneShowsTheDayPicked
  BY DEF ScreensInv, Alone, AloneShowsTheDayPicked
<1> QED BY <1>1, ScreensInvariant, PTL

\* A card that memory answers with is younger than the freshness, whatever
\* answers came late.  (RacecardLoader.load.)
THEOREM MemoryIsRecent == Spec => FreshIsRecent
<1> DEFINE Recent ==
  \A s \in Screen :
       shown'[s] # shown[s] /\ shown'[s].phase = "loaded" /\ loads' = loads
       => LET d == shown'[s].of IN
          /\ ~shown'[s].stale /\ memory[d] # NoCard
          /\ clock - memory[d].asOf < Freshness
<1>1. ScreensInv /\ [Next]_vars => [Recent]_vars
  <2> SUFFICES ASSUME ScreensInv, Next, NEW s \in Screen,
                      shown'[s] # shown[s], shown'[s].phase = "loaded", loads' = loads
               PROVE  LET d == shown'[s].of IN
                      /\ ~shown'[s].stale /\ memory[d] # NoCard
                      /\ clock - memory[d].asOf < Freshness
    OBVIOUS
  <2>1. /\ loads \in [Task -> Load] /\ shown \in [Screen -> Shown]
        /\ memory \in [Day -> Kept \cup {NoCard}] /\ clock \in Time /\ day \in Day
    BY DEF ScreensInv, TypeOK
  <2>2. ASSUME NEW t \in Task PROVE ~LoadStep(t)
    <3>1. ~Land(t) /\ ~LandSaved(t)
      BY <2>1, Records DEF Land, LandSaved
    <3>2. ~Serve(t) /\ ~RequestFails(t) /\ ~SaveRacecard(t) /\ ~ReadSaved(t)
      BY DEF Serve, RequestFails, SaveRacecard, ReadSaved
    <3> QED BY <3>1, <3>2 DEF LoadStep
  <2>3. PICK t \in Task, u \in Screen, d \in Day, force \in BOOLEAN, before \in Shown :
          BeginLoad(t, u, d, force, before)
    <3>1. ASSUME NEW t \in Task, NEW d \in Day, Select(t, d)
          PROVE  /\ BeginLoad(t, "racing", d, FALSE, Blank)
                 /\ "racing" \in Screen /\ FALSE \in BOOLEAN /\ Blank \in Shown
      BY <3>1, Records DEF Select, Screen
    <3>2. ASSUME NEW t \in Task, NEW u \in Screen, LoadIfNeeded(t, u) \/ PullToRefresh(t, u)
          PROVE  /\ DayOf(u) \in Day /\ shown[u] \in Shown
                 /\ \E force \in BOOLEAN : BeginLoad(t, u, DayOf(u), force, shown[u])
      BY <2>1, <3>2 DEF LoadIfNeeded, PullToRefresh, DayOf, Day
    <3>3. ~Tick
      BY DEF Tick
    <3>4. CASE \E t \in Task, d \in Day : Select(t, d)
      BY <3>1, <3>4
    <3>5. CASE \E t \in Task, u \in Screen : LoadIfNeeded(t, u) \/ PullToRefresh(t, u)
      BY <3>2, <3>5
    <3> QED BY <2>2, <3>3, <3>4, <3>5 DEF Next
  <2>4. Spared(d, force)
    <3> SUFFICES ASSUME ~Spared(d, force) PROVE FALSE
      OBVIOUS
    <3>1. PICK step \in {"asked", "failing"} :
            /\ loads[t].step = "none"
            /\ loads' = [loads EXCEPT ![t] =
                 [NoLoad EXCEPT !.step = step, !.screen = u, !.day = d, !.began = clock]]
      BY <2>3 DEF BeginLoad
    <3>2. loads'[t].step = step
      BY <2>1, <3>1 DEF NoLoad
    <3> QED BY <3>1, <3>2
  <2>5. s = u /\ shown'[s] = LoadedWith(d, FALSE)
    BY <2>1, <2>3, <2>4 DEF BeginLoad
  <2>6. shown'[s].of = d /\ ~shown'[s].stale
    BY <2>5, Records
  <2>7. /\ memory[d] # NoCard /\ clock - memory[d].fetchedAt < Freshness
        /\ memory[d].asOf >= memory[d].fetchedAt
    BY <2>4 DEF Spared, ScreensInv, Dated
  <2>8. memory[d].asOf \in Int /\ memory[d].fetchedAt \in Int /\ clock \in Int
    BY <2>1, <2>7 DEF Kept, Time
  <2> QED BY <2>6, <2>7, <2>8, FreshnessAssumption
<1> QED BY <1>1, ScreensInvariant, PTL DEF Spec, FreshIsRecent

-----------------------------------------------------------------------------
(* The Record tab. *)

\* A load that no other was under way with asks for the set selected and is the
\* only one; when there is none, the record is of that set.
TabAlone ==
  ~crossed =>
    /\ \A t, u \in Pending : t = u
    /\ \A t \in Reader : readings[t].step \in {"asked", "answered"} =>
         readings[t].asks = selectedWeightsID
    /\ AloneShowsTheSelected

\* An answer is of the set asked for.
Answered ==
  \A t \in Reader : readings[t].step = "answered" /\ readings[t].asks # NoWeights =>
    readings[t].record.of = readings[t].asks

\* No record is from the future, and the answer to a load that is alone is not
\* older than what was applied.
Recorded ==
  /\ applied.at <= instant
  /\ saved # NoRecord => saved.at <= instant
  /\ \A t \in Reader : readings[t].record.at <= instant
  /\ ~crossed => \A t \in Reader : readings[t].step = "answered" =>
       readings[t].record.at >= applied.at

TabInv == RecordTypeOK /\ TabAlone /\ Answered /\ Recorded

LEMMA TabConstants ==
  /\ NothingYet \in Record /\ NothingYet.at = 0
  /\ NoReading \in Reading /\ NoReading.step = "none" /\ NoReading.asks = NoWeights
  /\ NoReading.record = NothingYet
  /\ 0 \in Instant /\ Never \notin Instant
<1>1. 0 \in Instant /\ Never \notin Instant
  BY RecordTabAssumption DEF Instant, Never
<1>2. AnyWeights \in WeightsId
  BY RecordTabAssumption DEF AnyWeights
<1>3. NothingYet \in Record /\ NothingYet.at = 0
  BY <1>1, <1>2 DEF NothingYet, Record
<1> QED BY <1>1, <1>3 DEF NoReading, Reading

LEMMA TabStarts == RecordInit => TabInv
<1> SUFFICES ASSUME RecordInit PROVE TabInv
  OBVIOUS
<1>1. \A t \in Reader : readings[t] = NoReading
  BY DEF RecordInit
<1>2. RecordTypeOK
  <2>1. saved \in Record \cup {NoRecord}
    BY TabConstants DEF RecordInit, Record
  <2>2. readings \in [Reader -> Reading]
    BY TabConstants DEF RecordInit
  <2> QED BY <2>1, <2>2, TabConstants DEF RecordInit, RecordTypeOK
<1>3. Pending = {}
  BY <1>1, TabConstants DEF Pending
<1>4. TabAlone
  BY <1>1, <1>3, TabConstants DEF RecordInit, TabAlone, AloneShowsTheSelected
<1>5. Answered
  BY <1>1, TabConstants DEF Answered
<1>6. Recorded
  <2>1. saved # NoRecord => saved.at = 0
    BY DEF RecordInit
  <2> QED BY <1>1, <2>1, TabConstants DEF RecordInit, Recorded
<1> QED BY <1>2, <1>4, <1>5, <1>6 DEF TabInv

\* A load that begins, for the set selected by then.
LEMMA AskKeeps ==
  ASSUME TabInv, NEW t \in Reader, readings[t].step \in {"none", "refreshing"},
         selectedWeightsID' \in WeightsId \cup {NoWeights}, NEW before,
         Ask(t, selectedWeightsID', before),
         isRefreshingResults' \in BOOLEAN,
         UNCHANGED <<around, applied, staleSince, saved>>
  PROVE  TabInv'
<1>1. PICK step \in {"asked", "failing"} :
        readings' = [readings EXCEPT ![t] =
          [NoReading EXCEPT !.step = step, !.asks = selectedWeightsID']]
  BY DEF Ask, AsksFor
<1> DEFINE new == [NoReading EXCEPT !.step = step, !.asks = selectedWeightsID']
<1>2. /\ new \in Reading /\ new.step = step /\ new.asks = selectedWeightsID'
      /\ new.record = NothingYet
  BY TabConstants DEF Reading
<1>3. readings \in [Reader -> Reading] /\ instant \in Instant
  BY DEF TabInv, RecordTypeOK
<1> HIDE DEF new
<1>4. readings' = [readings EXCEPT ![t] = new]
  BY <1>1 DEF new
<1>5. readings'[t] = new /\ \A u \in Reader \ {t} : readings'[u] = readings[u]
  BY <1>3, <1>4
<1>6. crossed' = (Pending # {}) /\ phase' \in {"loaded", "loading"}
  BY DEF Ask
<1>7. RecordTypeOK'
  <2>1. readings' \in [Reader -> Reading]
    BY <1>2, <1>3, <1>4
  <2> QED BY <1>6, <2>1 DEF TabInv, RecordTypeOK, around
<1>8. ASSUME ~crossed' PROVE Pending = {} /\ Pending' = {t}
  BY <1>2, <1>5, <1>6, <1>8 DEF Pending
<1>9. TabAlone'
  <2> SUFFICES ASSUME ~crossed' PROVE TabAlone'
    BY DEF TabAlone
  <2>1. \A u \in Reader : readings'[u].step \in {"asked", "answered"} => u = t
    BY <1>5, <1>8 DEF Pending
  <2> QED BY <1>2, <1>5, <1>8, <2>1 DEF TabAlone, AloneShowsTheSelected
<1>10. Answered'
  BY <1>2, <1>5 DEF TabInv, Answered
<1>11. Recorded'
  <2>1. 0 <= instant
    BY <1>3, RecordTabAssumption DEF Instant
  <2>2. ~crossed' => \A u \in Reader : readings'[u].step # "answered"
    BY <1>2, <1>5, <1>8 DEF Pending
  <2> QED BY <1>2, <1>5, <2>1, <2>2, TabConstants DEF TabInv, Recorded, around
<1> QED BY <1>7, <1>9, <1>10, <1>11 DEF TabInv

\* A load that goes on, and shows nothing yet.
LEMMA ReadingGoesOn ==
  ASSUME TabInv, NEW t \in Reader, t \in Pending, NEW new \in Reading,
         readings' = [readings EXCEPT ![t] = new],
         new.step \in {"asked", "answered", "failing", "found", "missing"},
         new.step \in {"asked", "answered"} => new.asks = readings[t].asks
                                               /\ readings[t].step \in {"asked", "answered"},
         new.step = "answered" => /\ new.asks # NoWeights => new.record.of = new.asks
                                  /\ new.record.at = instant,
         new.record.at <= instant,
         UNCHANGED <<around, selectedWeightsID, screen, isRefreshingResults, saved, crossed>>
  PROVE  TabInv'
<1>1. readings'[t] = new /\ \A u \in Reader \ {t} : readings'[u] = readings[u]
  BY DEF TabInv, RecordTypeOK
<1>2. RecordTypeOK'
  BY DEF TabInv, RecordTypeOK, around, screen
<1>3. Pending' = Pending
  BY <1>1 DEF Pending
<1>4. TabAlone'
  BY <1>1, <1>3 DEF TabInv, TabAlone, AloneShowsTheSelected, screen
<1>5. Answered'
  BY <1>1 DEF TabInv, Answered
<1>6. Recorded'
  <2>1. instant \in Int /\ applied.at \in Int
    BY DEF TabInv, RecordTypeOK, Instant, Record
  <2> QED BY <1>1, <2>1 DEF TabInv, Recorded, around, screen
<1> QED BY <1>2, <1>4, <1>5, <1>6 DEF TabInv

\* A load that lands, with a record or with an error, and is over or saves.
LEMMA ReadingLands ==
  ASSUME TabInv, NEW t \in Reader, t \in Pending, NEW new \in Reading,
         readings' = [readings EXCEPT ![t] = new],
         new.step \in {"none", "saving"}, new.record.at <= instant,
         \/ Apply(readings[t].record)
         \/ phase' = "failed" /\ UNCHANGED <<applied, selectedWeightsID>>,
         staleSince' \in Instant \cup {Never},
         phase' = "loaded" /\ staleSince' = Never => readings[t].step = "answered",
         UNCHANGED <<around, isRefreshingResults, saved, crossed>>
  PROVE  TabInv'
<1>1. readings'[t] = new /\ \A u \in Reader \ {t} : readings'[u] = readings[u]
  BY DEF TabInv, RecordTypeOK
<1>2. readings[t].record \in Record /\ readings[t].record.of \in WeightsId
  BY DEF TabInv, RecordTypeOK, Reading, Record
<1>3. RecordTypeOK'
  BY <1>2 DEF TabInv, RecordTypeOK, Apply, around
<1>4. Pending' = Pending \ {t}
  BY <1>1 DEF Pending
<1>5. ASSUME ~crossed
      PROVE  Pending' = {} /\ \A u \in Reader : readings'[u].step \notin {"asked", "answered"}
  <2>1. Pending' = {}
    BY <1>4, <1>5 DEF TabInv, TabAlone
  <2> QED BY <2>1 DEF Pending
<1>6. TabAlone'
  <2> SUFFICES ASSUME ~crossed', phase' = "loaded", staleSince' = Never
               PROVE  applied'.of = selectedWeightsID'
    BY <1>5 DEF TabAlone, AloneShowsTheSelected
  <2>1. readings[t].step = "answered" /\ readings[t].asks = selectedWeightsID /\ ~crossed
    BY DEF TabInv, TabAlone
  <2>2. Apply(readings[t].record)
    OBVIOUS
  <2>3. CASE selectedWeightsID = NoWeights
    BY <2>2, <2>3 DEF Apply
  <2>4. CASE selectedWeightsID # NoWeights
    BY <2>1, <2>2, <2>4 DEF TabInv, Answered, Apply
  <2> QED BY <2>3, <2>4
<1>7. Answered'
  BY <1>1 DEF TabInv, Answered
<1>8. Recorded'
  BY <1>1, <1>5 DEF TabInv, Recorded, Apply, around
<1> QED BY <1>3, <1>6, <1>7, <1>8 DEF TabInv

LEMMA ReadingStepKeeps ==
  ASSUME TabInv, NEW t \in Reader, ReadingStep(t)
  PROVE  TabInv'
<1> DEFINE r == readings[t]
<1>1. /\ r \in Reading /\ r.record \in Record /\ r.asks \in WeightsId \cup {NoWeights}
      /\ r.record.at <= instant /\ instant \in Instant /\ active \in WeightsId
      /\ instant \in Int /\ 0 <= instant
      /\ selectedWeightsID \in WeightsId \cup {NoWeights}
  BY RecordTabAssumption DEF TabInv, RecordTypeOK, Reading, Recorded, Instant
<1>2. CASE ResultsJobEnds(t)
  BY <1>1, <1>2, AskKeeps DEF ResultsJobEnds
<1>3. CASE BuildRecord(t)
  <2> DEFINE w == IF r.asks = NoWeights THEN active ELSE r.asks
             new == [r EXCEPT !.step = "answered", !.record = [of |-> w, at |-> instant]]
  <2>1. [of |-> w, at |-> instant] \in Record
    BY <1>1 DEF Record
  <2>2. /\ new \in Reading /\ new.step = "answered" /\ new.asks = r.asks
        /\ new.record = [of |-> w, at |-> instant]
    BY <1>1, <2>1 DEF Reading
  <2>3. t \in Pending /\ r.step = "asked"
    BY <1>3 DEF BuildRecord, Pending
  <2>4. readings' = [readings EXCEPT ![t] = new]
    BY <1>3 DEF BuildRecord
  <2>5. /\ new.record.at = instant /\ new.record.at <= instant
        /\ new.asks # NoWeights => new.record.of = new.asks
    BY <1>1, <2>2
  <2> HIDE DEF new
  <2> QED BY <1>3, <2>2, <2>3, <2>4, <2>5, ReadingGoesOn DEF BuildRecord
<1>4. CASE RecordRequestFails(t)
  <2> DEFINE new == [NoReading EXCEPT !.step = "failing"]
  <2>1. new \in Reading /\ new.step = "failing" /\ new.record = NothingYet
    BY TabConstants DEF Reading
  <2>2. t \in Pending /\ readings' = [readings EXCEPT ![t] = new]
    BY <1>4 DEF RecordRequestFails, Pending
  <2> HIDE DEF new
  <2> QED BY <1>1, <1>4, <2>1, <2>2, TabConstants, ReadingGoesOn DEF RecordRequestFails
<1>5. CASE CachedRecord(t)
  <2> DEFINE new == IF saved = NoRecord THEN [NoReading EXCEPT !.step = "missing"]
                    ELSE [NoReading EXCEPT !.step = "found", !.record = saved]
  <2>1. saved # NoRecord => saved \in Record /\ saved.at <= instant
    BY DEF TabInv, RecordTypeOK, Recorded
  <2>2. new \in Reading /\ new.step \in {"missing", "found"} /\ new.record.at <= instant
    BY <1>1, <2>1, TabConstants DEF Reading
  <2>3. t \in Pending /\ readings' = [readings EXCEPT ![t] = new]
    BY <1>5 DEF CachedRecord, Pending
  <2> HIDE DEF new
  <2> QED BY <1>5, <2>2, <2>3, ReadingGoesOn DEF CachedRecord
<1>6. CASE ShowRecord(t)
  <2> DEFINE new == [r EXCEPT !.step = "saving"]
  <2>1. new \in Reading /\ new.step = "saving" /\ new.record.at <= instant
    BY <1>1 DEF Reading
  <2>2. t \in Pending /\ readings' = [readings EXCEPT ![t] = new] /\ r.step = "answered"
    BY <1>6 DEF ShowRecord, Pending
  <2> HIDE DEF new
  <2> QED BY <1>6, <2>1, <2>2, ReadingLands DEF ShowRecord
<1>7. CASE ShowCached(t)
  <2>1. t \in Pending /\ readings' = [readings EXCEPT ![t] = NoReading]
    BY <1>7 DEF ShowCached, Pending
  <2>2. CASE r.step = "found"
    <3>1. Apply(r.record) /\ staleSince' = instant /\ instant # Never
      BY <1>1, <1>7, <2>2, TabConstants DEF ShowCached
    <3> QED BY <1>1, <1>7, <2>1, <3>1, TabConstants, ReadingLands DEF ShowCached
  <2>3. CASE r.step = "missing"
    <3>1. phase' = "failed" /\ UNCHANGED <<applied, selectedWeightsID, staleSince>>
      BY <1>7, <2>3 DEF ShowCached
    <3>2. staleSince' \in Instant \cup {Never}
      BY <3>1 DEF TabInv, RecordTypeOK
    <3> QED BY <1>1, <1>7, <2>1, <3>1, <3>2, TabConstants, ReadingLands DEF ShowCached
  <2> QED BY <1>7, <2>2, <2>3 DEF ShowCached
<1>8. CASE SaveRecord(t)
  <2>1. readings'[t] = NoReading /\ \A u \in Reader \ {t} : readings'[u] = readings[u]
    BY <1>8 DEF SaveRecord, TabInv, RecordTypeOK
  <2>2. saved' = saved \/ saved' = r.record
    BY <1>8 DEF SaveRecord
  <2>3. saved' \in Record \cup {NoRecord} /\ (saved' # NoRecord => saved'.at <= instant)
    BY <1>1, <2>2 DEF TabInv, RecordTypeOK, Recorded
  <2>4. RecordTypeOK'
    BY <1>8, <2>3, TabConstants DEF SaveRecord, TabInv, RecordTypeOK, around, screen
  <2>5. Pending' = Pending
    BY <1>8, <2>1, TabConstants DEF SaveRecord, Pending
  <2>6. TabAlone'
    BY <1>8, <2>1, <2>5, TabConstants
       DEF SaveRecord, TabInv, TabAlone, AloneShowsTheSelected, screen
  <2>7. Answered'
    BY <2>1, TabConstants DEF TabInv, Answered
  <2>8. Recorded'
    BY <1>1, <1>8, <2>1, <2>3, TabConstants DEF SaveRecord, TabInv, Recorded, around, screen
  <2> QED BY <2>4, <2>6, <2>7, <2>8 DEF TabInv
<1> QED BY <1>2, <1>3, <1>4, <1>5, <1>6, <1>7, <1>8 DEF ReadingStep

LEMMA TabGesturesKeep ==
  ASSUME TabInv, NEW t \in Reader, Gesture(t)
  PROVE  TabInv'
<1>1. /\ selectedWeightsID \in WeightsId \cup {NoWeights}
      /\ isRefreshingResults \in BOOLEAN /\ InUse \subseteq WeightsId
  BY RecordTabAssumption DEF TabInv, RecordTypeOK
<1>2. CASE LoadRecordIfNeeded(t)
  BY <1>1, <1>2, AskKeeps DEF LoadRecordIfNeeded
<1>3. ASSUME NEW w \in InUse, SelectWeights(t, w) PROVE TabInv'
  <2>1. selectedWeightsID' = w /\ w \in WeightsId
    BY <1>1, <1>3 DEF SelectWeights
  <2>2. Ask(t, selectedWeightsID', "loading")
    BY <1>3, <2>1 DEF SelectWeights
  <2> QED BY <1>1, <1>3, <2>1, <2>2, AskKeeps DEF SelectWeights
<1>4. CASE Refresh(t)
  <2> DEFINE new == [readings[t] EXCEPT !.step = "refreshing"]
  <2>1. readings[t] \in Reading /\ readings \in [Reader -> Reading]
    BY DEF TabInv, RecordTypeOK
  <2>2. new \in Reading /\ new.step = "refreshing" /\ new.record = readings[t].record
    BY <2>1 DEF Reading
  <2>3. readings'[t] = new /\ \A u \in Reader \ {t} : readings'[u] = readings[u]
    BY <1>4, <2>1 DEF Refresh
  <2>4. RecordTypeOK'
    BY <1>4, <2>1, <2>2 DEF Refresh, TabInv, RecordTypeOK, around, screen
  <2> HIDE DEF new
  <2>5. Pending' = Pending
    BY <1>4, <2>2, <2>3 DEF Refresh, Pending
  <2>6. TabAlone'
    BY <1>4, <2>2, <2>3, <2>5
       DEF Refresh, TabInv, TabAlone, AloneShowsTheSelected, screen
  <2>7. Answered'
    BY <2>2, <2>3 DEF TabInv, Answered
  <2>8. Recorded'
    BY <1>4, <2>2, <2>3 DEF Refresh, TabInv, Recorded, around, screen
  <2> QED BY <2>4, <2>6, <2>7, <2>8 DEF TabInv
<1> QED BY <1>2, <1>3, <1>4 DEF Gesture

LEMMA TabSteps == TabInv /\ [RecordNext]_recordVars => TabInv'
<1> SUFFICES ASSUME TabInv, [RecordNext]_recordVars PROVE TabInv'
  OBVIOUS
<1>1. CASE \E t \in Reader : Gesture(t) \/ ReadingStep(t)
  BY <1>1, TabGesturesKeep, ReadingStepKeeps
<1>2. CASE TimePasses \/ \E w \in WeightsId : ServerActivates(w)
  <2>1. instant' \in Instant /\ instant' >= instant
    BY <1>2, RecordTabAssumption
       DEF TimePasses, ServerActivates, TabInv, RecordTypeOK, Instant
  <2>2. RecordTypeOK'
    BY <1>2, <2>1 DEF TimePasses, ServerActivates, TabInv, RecordTypeOK, screen
  <2>3. TabAlone' /\ Answered'
    BY <1>2 DEF TimePasses, ServerActivates, TabInv, TabAlone, Answered,
                AloneShowsTheSelected, Pending, screen
  <2>4. Recorded'
    <3>1. /\ instant \in Int /\ instant' \in Int /\ applied.at \in Int
          /\ \A t \in Reader : readings[t].record.at \in Int
          /\ saved # NoRecord => saved.at \in Int
      BY <2>1 DEF TabInv, RecordTypeOK, Instant, Record, Reading
    <3>2. /\ applied' = applied /\ saved' = saved /\ readings' = readings
          /\ crossed' = crossed
      BY <1>2 DEF TimePasses, ServerActivates, screen
    <3>3. applied.at <= instant'
      BY <2>1, <3>1 DEF TabInv, Recorded
    <3>4. saved # NoRecord => saved.at <= instant'
      BY <2>1, <3>1 DEF TabInv, Recorded
    <3>5. \A t \in Reader : readings[t].record.at <= instant'
      BY <2>1, <3>1 DEF TabInv, Recorded
    <3> QED BY <3>2, <3>3, <3>4, <3>5 DEF TabInv, Recorded
  <2> QED BY <2>2, <2>3, <2>4 DEF TabInv
<1>3. CASE UNCHANGED recordVars
  BY <1>3 DEF recordVars, around, screen, TabInv, RecordTypeOK, TabAlone,
              Answered, Recorded, AloneShowsTheSelected, Pending
<1> QED BY <1>1, <1>2, <1>3 DEF RecordNext

LEMMA TabInvariant == RecordSpec => []TabInv
<1> QED BY TabStarts, TabSteps, PTL DEF RecordSpec

\* The state of the tab is one it can show.  (RecordViewModel.)
THEOREM RecordTabTyped == RecordSpec => []RecordTypeOK
<1>1. TabInv => RecordTypeOK
  BY DEF TabInv
<1> QED BY <1>1, TabInvariant, PTL

\* A load that no other was under way with leaves the record of the set selected
\* on the tab when the server answers, however long a refresh had waited for its
\* job and whatever was saved before.  (RecordViewModel.load.)
THEOREM RecordAloneIsRight == RecordSpec => []AloneShowsTheSelected
<1>1. TabInv => AloneShowsTheSelected
  BY DEF TabInv, TabAlone, AloneShowsTheSelected
<1> QED BY <1>1, TabInvariant, PTL

\* Such a load never takes the tab back to an older record.
\* (RecordViewModel.load.)
THEOREM RecordAloneGoesForward == RecordSpec => AloneGoesForward
<1>1. TabInv /\ [RecordNext]_recordVars =>
        [applied' # applied /\ staleSince' = Never /\ ~crossed
           => applied'.at >= applied.at]_recordVars
  <2> SUFFICES ASSUME TabInv, RecordNext, applied' # applied, staleSince' = Never, ~crossed
               PROVE  applied'.at >= applied.at
    OBVIOUS
  <2>1. PICK t \in Reader : ShowRecord(t) \/ ShowCached(t)
    BY DEF RecordNext, Gesture, LoadRecordIfNeeded, SelectWeights, Refresh, ReadingStep,
           ResultsJobEnds, BuildRecord, RecordRequestFails, SaveRecord, CachedRecord,
           ServerActivates, TimePasses, screen
  <2>2. CASE ShowRecord(t)
    BY <2>2 DEF ShowRecord, Apply, TabInv, Recorded
  <2>3. CASE ShowCached(t)
    <3>1. instant # Never
      BY TabConstants DEF TabInv, RecordTypeOK
    <3> QED BY <2>3, <3>1 DEF ShowCached
  <2> QED BY <2>1, <2>2, <2>3
<1> QED BY <1>1, TabInvariant, PTL DEF RecordSpec, AloneGoesForward
=============================================================================
