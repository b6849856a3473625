----------------------------- MODULE MCParts --------------------------------
(***************************************************************************)
(* Parts that share no state, checked side by side: a behaviour is one of  *)
(* the request pipeline, of the scheduler, of the archive of results or of *)
(* a pass of the matcher, chosen at the start, while the others stand      *)
(* still.                                                                  *)
(***************************************************************************)
EXTENDS HttpPipeline, Scheduler, ResultsArchive, Matching

(***************************************************************************)
(* Results: one stable with two runners in a race, one race whose date may *)
(* not parse and is before that of a race with a lower id.                 *)
(***************************************************************************)
Rides(horse, subject) == [horse |-> horse, subject |-> subject]
ThreeRaces == << {Rides(1, "a"), Rides(2, "a")}, {Rides(1, "a"), Rides(3, "b")}, {Rides(2, "a")} >>
TheirDates == << {2}, {0, 1}, {2} >>

(***************************************************************************)
(* Meetings.  Names are points of a line, and as far apart as these: those *)
(* of the first race's runners 2 and 3 are similar.  Its market may spell  *)
(* each name differently, number the field in any way, have removed any    *)
(* runner, and start with the second race.                                 *)
(***************************************************************************)
OnALine(a, b) == IF a < b THEN b - a ELSE a - b

Runner(horse, name, cloth) == [horse |-> horse, name |-> name, cloth |-> cloth]
RaceOf(id, off, runners) == [id |-> id, course |-> "ascot", off |-> off, runners |-> runners]
First == RaceOf(1, 10, {Runner(1, 0, 1), Runner(2, 10, 2), Runner(3, 12, 3)})
Second == RaceOf(2, 14, {Runner(4, 100, 1), Runner(5, 110, 2)})

Selection(horse, name, cloth, active) ==
  [id |-> horse, horse |-> horse, name |-> name, cloth |-> cloth, active |-> active]
MarketOf(id, race, start, selections) ==
  [id |-> id, race |-> race, course |-> "ascot", start |-> start, selections |-> selections]

Spellings == <<{0, 1}, {10, 11, 12}, {12, 13}>>
FirstMarkets ==
  {MarketOf(11, 1, start, {Selection(h, names[h], cloths[h], active[h]) : h \in 1..3}) :
     start \in {10, 14},
     names \in {n \in [1..3 -> UNION {Spellings[h] : h \in 1..3}] : \A h \in 1..3 : n[h] \in Spellings[h]},
     cloths \in [1..3 -> 0..3],
     active \in [1..3 -> BOOLEAN]}
SecondMarket == MarketOf(12, 2, 14, {Selection(4, 101, 1, TRUE), Selection(5, 110, 2, TRUE)})

\* A race listed twice, one without an off, one without runners, a market there twice.
Again == [First EXCEPT !.id = 3]
Odd == {RaceOf(4, NoOff, Second.runners), RaceOf(5, 10, {}), RaceOf(6, 200, Second.runners)}
SameMarket(id, start) ==
  MarketOf(id, 1, start, {Selection(1, 0, 1, TRUE), Selection(2, 10, 2, TRUE), Selection(3, 13, 3, TRUE)})

AllMeetings ==
  {[races |-> {First, Second}, markets |-> {m, SecondMarket}] : m \in FirstMarkets}
  \cup {[races |-> {First, Again} \cup Odd, markets |-> {SameMarket(21, s), SameMarket(22, 12)}] :
          s \in {12, 16}}

(***************************************************************************)
(* The parts                                                               *)
(***************************************************************************)
VARIABLE part

vars == <<pipelineVars, schedulerVars, archiveVars, matchingVars, part>>

\* There is a meeting only when the matcher runs.
Init ==
  /\ part \in {"pipeline", "scheduler", "archive", "matching"}
  /\ SchedulerInit
  /\ ArchiveInit
  /\ IF part = "pipeline" THEN PipelineInit
     ELSE PipelineInit /\ method = [c \in Call |-> "GET"]
  /\ IF part = "matching" THEN MatchingInit
     ELSE races = {} /\ markets = {} /\ pending = {} /\ matches = {} /\ refusals = {}

InPipeline(Action) ==
  /\ part = "pipeline" /\ Action
  /\ UNCHANGED <<schedulerVars, archiveVars, matchingVars, part>>
InScheduler(Action) ==
  /\ part = "scheduler" /\ Action
  /\ UNCHANGED <<pipelineVars, archiveVars, matchingVars, part>>
InArchive(Action) ==
  /\ part = "archive" /\ Action
  /\ UNCHANGED <<pipelineVars, schedulerVars, matchingVars, part>>
InMatching(Action) ==
  /\ part = "matching" /\ Action
  /\ UNCHANGED <<pipelineVars, schedulerVars, archiveVars, part>>

Next ==
  \/ InPipeline(PipelineNext)
  \/ InScheduler(SchedulerNext)
  \/ InArchive(ArchiveNext)
  \/ InMatching(MatchingNext)

\* The fairness is that of PipelineFairSpec.
Spec ==
  /\ Init /\ [][Next]_vars
  /\ WF_vars(InPipeline(TimePasses))
  /\ \A c \in Call : WF_vars(InPipeline(CallStep(c)))
=============================================================================
