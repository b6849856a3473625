----------------------------- MODULE Timing_proofs -----------------------------
(***************************************************************************)
(* The request pipeline keeps its distance, and the scheduler its watch,   *)
(* for any number of callers, any limits and any timetable of overruns.    *)
(***************************************************************************)
EXTENDS HttpPipeline, Scheduler, TLAPS

(***************************************************************************)
(* The pipeline                                                            *)
(***************************************************************************)

\* How often a call has tried, by where it is: a POST never gets to try again.
Attempts ==
  \A c \in Call :
    /\ step[c] = "idle" => attempt[c] = 0
    /\ step[c] = "backoff" => attempt[c] < MaxAttempts /\ method[c] = "GET"
    /\ method[c] = "POST" => attempt[c] <= 1
    /\ requests[c] <= attempt[c]
    /\ step[c] = "queued" => requests[c] < attempt[c]

Waiting == {c \in Call : step[c] = "queued"}

\* The slots of those that wait are before the limiter's next one, apart from each
\* other, and not missed by more than a timer is late.
Slots ==
  /\ \A c \in Waiting : slot[c] + Interval <= nextSlot /\ clock <= slot[c] + Late
  /\ \A c, d \in Waiting : c # d =>
       slot[c] + Interval <= slot[d] \/ slot[d] + Interval <= slot[c]

\* What was sent is behind every slot to come.
Behind ==
  \A c \in Call : sentAt[c] # NotSent =>
    /\ sentAt[c] + Interval <= nextSlot + Late
    /\ \A d \in Waiting : sentAt[c] + Interval <= slot[d] + Late

PipelineInv == PipelineTypeOK /\ Attempts /\ Slots /\ Behind

LEMMA DelaysTyped ==
  ASSUME NEW n, NEW r
  PROVE  r \in Nat => Delays(n, r) \subseteq Nat
BY PipelineAssumption DEF Delays, Sooner

LEMMA PipelineStarts == PipelineInit => PipelineInv
BY PipelineAssumption
   DEF PipelineInit, PipelineInv, PipelineTypeOK, Attempts, Slots, Behind, Waiting, NotSent

\* A reservation, by a call that may make one.
LEMMA ReserveKeeps ==
  ASSUME PipelineInv, NEW c \in Call, Reserve(c),
         step[c] \in {"idle", "backoff"}
  PROVE  PipelineInv'
<1> DEFINE s == Later(clock, nextSlot)
<1>1. s \in Nat /\ s >= clock /\ s >= nextSlot
  BY DEF PipelineInv, PipelineTypeOK, Later
<1>2. /\ slot' = [slot EXCEPT ![c] = s] /\ nextSlot' = s + Interval
      /\ attempt' = [attempt EXCEPT ![c] = @ + 1]
      /\ step' = [step EXCEPT ![c] = "queued"]
      /\ UNCHANGED <<clock, method, sentAt, wakeAt, requests>>
  BY DEF Reserve
<1> HIDE DEF s
<1>3. attempt[c] + 1 \in 0..MaxAttempts
  BY PipelineAssumption DEF PipelineInv, PipelineTypeOK, Attempts
<1>4. PipelineTypeOK'
  BY <1>1, <1>2, <1>3, PipelineAssumption DEF PipelineInv, PipelineTypeOK
<1>5. Attempts'
  BY <1>2, <1>3 DEF PipelineInv, PipelineTypeOK, Attempts
<1>6. Waiting' = Waiting \cup {c} /\ c \notin Waiting
  BY <1>2 DEF PipelineInv, PipelineTypeOK, Waiting
<1>7. \A d \in Waiting : slot'[d] = slot[d] /\ slot[d] \in Nat /\ d # c
  BY <1>2, <1>6 DEF PipelineInv, PipelineTypeOK, Waiting
<1>8. slot'[c] = s
  BY <1>2 DEF PipelineInv, PipelineTypeOK
<1>9. Slots'
  BY <1>1, <1>2, <1>6, <1>7, <1>8, PipelineAssumption DEF PipelineInv, PipelineTypeOK, Slots
<1>10. \A d \in Call : sentAt[d] # NotSent => sentAt[d] \in Nat
  BY DEF PipelineInv, PipelineTypeOK
<1>11. Behind'
  BY <1>1, <1>2, <1>6, <1>7, <1>8, <1>10, PipelineAssumption
  DEF PipelineInv, PipelineTypeOK, Behind
<1> QED BY <1>4, <1>5, <1>9, <1>11 DEF PipelineInv

LEMMA SendKeeps ==
  ASSUME PipelineInv, NEW c \in Call, Send(c)
  PROVE  PipelineInv'
<1>1. /\ c \in Waiting /\ clock >= slot[c] /\ clock \in Nat
      /\ step' = [step EXCEPT ![c] = "sent"]
      /\ sentAt' = [sentAt EXCEPT ![c] = clock]
      /\ requests' = [requests EXCEPT ![c] = @ + 1]
      /\ UNCHANGED <<clock, nextSlot, method, attempt, slot, wakeAt>>
  BY DEF Send, Waiting, PipelineInv, PipelineTypeOK
<1>2. requests[c] + 1 \in 0..MaxAttempts /\ requests[c] + 1 <= attempt[c]
  BY <1>1, PipelineAssumption DEF PipelineInv, PipelineTypeOK, Attempts, Waiting
<1>3. PipelineTypeOK'
  BY <1>1, <1>2 DEF PipelineInv, PipelineTypeOK
<1>4. Attempts'
  BY <1>1, <1>2 DEF PipelineInv, PipelineTypeOK, Attempts
<1>5. Waiting' = Waiting \ {c}
  BY <1>1 DEF PipelineInv, PipelineTypeOK, Waiting
<1>6. Slots'
  BY <1>1, <1>5 DEF PipelineInv, Slots
<1>7. \A d \in Waiting : slot[d] \in Nat
  BY DEF PipelineInv, PipelineTypeOK, Waiting
<1>8. clock + Interval <= nextSlot + Late
  BY <1>1, <1>7, PipelineAssumption DEF PipelineInv, PipelineTypeOK, Slots
<1>9. \A d \in Waiting \ {c} : clock + Interval <= slot[d] + Late
  <2> SUFFICES ASSUME NEW d \in Waiting \ {c} PROVE clock + Interval <= slot[d] + Late
    OBVIOUS
  <2>1. clock <= slot[d] + Late /\ clock <= slot[c] + Late
    BY <1>1 DEF PipelineInv, Slots
  <2>2. slot[c] + Interval <= slot[d] \/ slot[d] + Interval <= slot[c]
    BY <1>1 DEF PipelineInv, Slots
  <2> QED BY <1>1, <1>7, <2>1, <2>2, PipelineAssumption
<1>10. Behind'
  BY <1>1, <1>5, <1>8, <1>9 DEF PipelineInv, PipelineTypeOK, Behind
<1> QED BY <1>3, <1>4, <1>6, <1>10 DEF PipelineInv

\* Whatever ends a wait and reserves nothing.
LEMMA LeavingKeeps ==
  ASSUME PipelineInv, NEW c \in Call,
         step[c] \in {"queued", "sent", "backoff"},
         NEW next \in {"backoff", "returned"}, step' = [step EXCEPT ![c] = next],
         next = "backoff" => attempt[c] < MaxAttempts /\ method[c] = "GET",
         wakeAt' \in [Call -> Nat],
         UNCHANGED <<clock, nextSlot, method, attempt, slot, sentAt, requests>>
  PROVE  PipelineInv'
<1>1. PipelineTypeOK'
  BY DEF PipelineInv, PipelineTypeOK
<1>2. Attempts'
  BY DEF PipelineInv, PipelineTypeOK, Attempts
<1>3. Waiting' \subseteq Waiting
  BY DEF PipelineInv, PipelineTypeOK, Waiting
<1>4. Slots'
  BY <1>3 DEF PipelineInv, Slots
<1>5. Behind'
  BY <1>3 DEF PipelineInv, Behind
<1> QED BY <1>1, <1>2, <1>4, <1>5 DEF PipelineInv

LEMMA PipelineSteps == PipelineInv /\ [PipelineNext]_pipelineVars => PipelineInv'
<1> SUFFICES ASSUME PipelineInv, [PipelineNext]_pipelineVars PROVE PipelineInv'
  OBVIOUS
<1> USE DEF PipelineInv
<1>1. CASE TimePasses
  <2>1. clock' = clock + 1 /\ (\A c \in Call : ~Due(c))
        /\ UNCHANGED <<nextSlot, step, method, attempt, slot, sentAt, wakeAt, requests>>
    BY <1>1 DEF TimePasses
  <2>2. PipelineTypeOK' /\ Attempts' /\ Behind'
    BY <2>1 DEF PipelineTypeOK, Attempts, Behind, Waiting
  <2>3. \A c \in Waiting : clock + 1 <= slot[c] + Late
    BY <2>1, PipelineAssumption DEF Due, Waiting, PipelineTypeOK
  <2>4. Slots'
    BY <2>1, <2>3 DEF Slots, Waiting
  <2> QED BY <2>2, <2>4
<1>2. ASSUME NEW c \in Call, StartCall(c) \/ RetryCall(c) PROVE PipelineInv'
  BY <1>2, ReserveKeeps DEF StartCall, RetryCall
<1>3. ASSUME NEW c \in Call, Send(c) PROVE PipelineInv'
  BY <1>3, SendKeeps
<1>4. ASSUME NEW c \in Call, step[c] \in {"queued", "sent", "backoff"}, Return(c)
      PROVE PipelineInv'
  BY <1>4, LeavingKeeps DEF Return, PipelineTypeOK
<1>5. ASSUME NEW c \in Call, FailsForNow(c) PROVE PipelineInv'
  <2>1. CASE MayRetry(c)
    <3>0. PICK r \in RetryAfters : \E d \in Delays(attempt[c], r) :
            /\ step[c] = "sent"
            /\ step' = [step EXCEPT ![c] = "backoff"]
            /\ wakeAt' = [wakeAt EXCEPT ![c] = clock + d]
            /\ UNCHANGED <<clock, nextSlot, method, attempt, slot, sentAt, requests>>
      BY <1>5, <2>1 DEF FailsForNow
    <3>1. PICK d \in Delays(attempt[c], r) :
            /\ step[c] = "sent"
            /\ step' = [step EXCEPT ![c] = "backoff"]
            /\ wakeAt' = [wakeAt EXCEPT ![c] = clock + d]
            /\ UNCHANGED <<clock, nextSlot, method, attempt, slot, sentAt, requests>>
      BY <3>0
    <3>2. d \in Nat
      BY DelaysTyped, PipelineAssumption
    <3>3. wakeAt' \in [Call -> Nat]
      BY <3>1, <3>2 DEF PipelineTypeOK
    <3> QED BY <3>1, <3>3, <2>1, LeavingKeeps DEF MayRetry
  <2>2. CASE ~MayRetry(c)
    BY <1>4, <1>5, <2>2 DEF FailsForNow
  <2> QED BY <2>1, <2>2
<1>6. CASE UNCHANGED pipelineVars
  BY <1>6 DEF pipelineVars, PipelineTypeOK, Attempts, Slots, Behind, Waiting
<1> QED
  BY <1>1, <1>2, <1>3, <1>4, <1>5, <1>6
  DEF PipelineNext, CallStep, Answered, Cancelled

LEMMA PipelineInvariant == PipelineSpec => []PipelineInv
BY PipelineStarts, PipelineSteps, PTL DEF PipelineSpec

\* The variables of the pipeline keep their types; no attempt exceeds the policy.
\* (Client.do.)
THEOREM PipelineTyped == PipelineSpec => []PipelineTypeOK
<1>1. PipelineInv => PipelineTypeOK
  BY DEF PipelineInv
<1> QED BY <1>1, PipelineInvariant, PTL

\* A POST goes out once, and a GET as often as the policy says at most, whatever
\* fails and whoever else calls.  (Client.do.)
THEOREM ReadsAloneAreRepeated == PipelineSpec => []OnlyReadsAreRepeated
<1>1. PipelineInv => OnlyReadsAreRepeated
  <2> SUFFICES ASSUME PipelineInv, NEW c \in Call
               PROVE  requests[c] <= (IF method[c] = "POST" THEN 1 ELSE MaxAttempts)
    BY DEF OnlyReadsAreRepeated
  <2>1. /\ requests[c] \in 0..MaxAttempts /\ attempt[c] \in 0..MaxAttempts
        /\ requests[c] <= attempt[c] /\ (method[c] = "POST" => attempt[c] <= 1)
    BY DEF PipelineInv, PipelineTypeOK, Attempts
  <2>2. CASE method[c] = "POST"
    BY <2>1, <2>2, PipelineAssumption
  <2>3. CASE method[c] # "POST"
    BY <2>1, <2>3, PipelineAssumption
  <2> QED BY <2>2, <2>3
<1> QED BY <1>1, PipelineInvariant, PTL

\* No two requests are closer than the interval, less a timer's lateness, for any
\* callers, retries, delays and cancellations.  (RateLimiter.Wait.)
THEOREM RequestsStayApart == PipelineSpec => RequestsKeepTheirDistance
<1>1. ASSUME PipelineInv, [PipelineNext]_pipelineVars,
             NEW c \in Call, NEW d \in Call,
             requests'[c] # requests[c], sentAt[d] # NotSent
      PROVE  clock - sentAt[d] >= Interval - Late
  <2>1. PICK e \in Call : Send(e)
    BY <1>1
    DEF PipelineNext, pipelineVars, TimePasses, StartCall, Reserve, CallStep, Answered, Return,
        FailsForNow, RetryCall, Cancelled
  <2>2. e = c
    BY <1>1, <2>1 DEF Send, PipelineInv, PipelineTypeOK
  <2>3. c \in Waiting /\ clock >= slot[c]
    BY <2>1, <2>2 DEF Send, Waiting
  <2>4. sentAt[d] + Interval <= slot[c] + Late
    BY <1>1, <2>3 DEF PipelineInv, Behind
  <2>5. sentAt[d] \in Nat /\ slot[c] \in Nat /\ clock \in Nat
    BY <1>1 DEF PipelineInv, PipelineTypeOK
  <2> QED BY <2>3, <2>4, <2>5, PipelineAssumption
<1>2. PipelineInv /\ [PipelineNext]_pipelineVars =>
        [\A c, d \in Call : requests'[c] # requests[c] /\ sentAt[d] # NotSent
           => clock - sentAt[d] >= Interval - Late]_pipelineVars
  BY <1>1
<1> QED BY <1>2, PipelineInvariant, PTL DEF PipelineSpec, RequestsKeepTheirDistance

(***************************************************************************)
(* The scheduler                                                           *)
(***************************************************************************)

\* Where the clock is: a plan overruns by so much, and the next one is after it.
Watch ==
  /\ began >= Boot /\ minute >= began
  /\ phase = "running" => minute <= began + Slack
  /\ phase = "sleeping" => minute <= alarm /\ alarm > began /\ todo = {}

\* When tips were last sealed: in this plan, or in the one before.
Sealed ==
  /\ phase = "running" /\ "seal" \notin todo => lastSeal >= began
  /\ phase = "running" /\ lastSeal # NotYet => lastSeal >= began - (Slack + 1)
  /\ phase = "sleeping" => lastSeal >= alarm - (Slack + 1)

SchedulerInv == SchedulerTypeOK /\ Watch /\ Sealed

\* The timetable names jobs, and seals at every minute; so does the start-up plan.
LEMMA Timetable ==
  ASSUME NEW t
  PROVE  PlanFor(t) \subseteq Job /\ "seal" \in PlanFor(t)
<1> DEFINE h == (t \div 60) % 24
<1> DEFINE m == t % 60
<1>1. PlanFor(t) =
        {"seal"}
        \cup When((6 <= h /\ h <= 22) /\ m % 15 = 0, {"cardsToday", "marketsToday", "draftToday"})
        \cup When((6 <= h /\ h <= 22) /\ m = 0, {"cardsTomorrow", "marketsTomorrow", "draftTomorrow"})
        \cup When((h >= 12 /\ m % 15 = 0) \/ (h = 23 /\ m = 55), {"results"})
        \cup When(h = 6 /\ m = 0, {"courses"})
        \cup When(h = 3 /\ m = 0, {"train"})
        \cup When(h = 2 /\ m = 45, {"backtest"})
  BY DEF PlanFor
<1> HIDE DEF h, m
<1> QED BY <1>1 DEF When, Job

LEMMA StartUpPlan == Everything \subseteq Job /\ "seal" \in Everything
BY DEF Everything, Job

LEMMA SchedulerStarts == SchedulerInit => SchedulerInv
BY StartUpPlan, SchedulerAssumption
   DEF SchedulerInit, SchedulerInv, SchedulerTypeOK, Watch, Sealed, NotYet

LEMMA SchedulerSteps == SchedulerInv /\ [SchedulerNext]_schedulerVars => SchedulerInv'
<1> SUFFICES ASSUME SchedulerInv, [SchedulerNext]_schedulerVars PROVE SchedulerInv'
  OBVIOUS
<1> USE DEF SchedulerInv
<1>1. CASE MinutePasses
  BY <1>1, SchedulerAssumption
  DEF MinutePasses, SchedulerTypeOK, Watch, Sealed, NotYet
<1>2. CASE Sleep
  BY <1>2, SchedulerAssumption DEF Sleep, SchedulerTypeOK, Watch, Sealed, NotYet
<1>3. CASE Wake
  <2>1. /\ phase = "sleeping" /\ minute = alarm /\ phase' = "running"
        /\ todo' = PlanFor(minute) /\ began' = minute /\ UNCHANGED <<minute, alarm, lastSeal>>
    BY <1>3 DEF Wake
  <2>2. SchedulerTypeOK'
    BY <2>1, Timetable DEF SchedulerTypeOK
  <2>3. Watch' /\ Sealed'
    BY <2>1, Timetable, SchedulerAssumption DEF SchedulerTypeOK, Watch, Sealed, NotYet
  <2> QED BY <2>2, <2>3
<1>4. ASSUME NEW j \in Job, Begin(j) PROVE SchedulerInv'
  <2>1. SchedulerTypeOK' /\ Watch'
    BY <1>4 DEF Begin, SchedulerTypeOK, Watch
  <2>2. Sealed'
    BY <1>4, SchedulerAssumption DEF Begin, SchedulerTypeOK, Watch, Sealed, NotYet
  <2> QED BY <2>1, <2>2
<1>5. CASE UNCHANGED schedulerVars
  BY <1>5 DEF schedulerVars, SchedulerTypeOK, Watch, Sealed
<1> QED BY <1>1, <1>2, <1>3, <1>4, <1>5 DEF SchedulerNext

LEMMA SchedulerInvariant == SchedulerSpec => []SchedulerInv
BY SchedulerStarts, SchedulerSteps, PTL DEF SchedulerSpec

\* The plan is of jobs, and the clock, the alarm and the last seal are instants.
\* (Run.)
THEOREM SchedulerTyped == SchedulerSpec => []SchedulerTypeOK
<1>1. SchedulerInv => SchedulerTypeOK
  BY DEF SchedulerInv
<1> QED BY <1>1, SchedulerInvariant, PTL

\* Once the first sealing job has begun, no minute comes to which the last one is
\* farther back than the window, whatever the plans take within the slack.
\* (Run, Execute.)
THEOREM EveryRaceIsWatched == SchedulerSpec => NoRaceGoesOffUnseen
<1>1. ASSUME SchedulerInv, [SchedulerNext]_schedulerVars, minute' # minute, lastSeal # NotYet
      PROVE  lastSeal >= minute' - SealWindow
  <2>1. MinutePasses
    BY <1>1 DEF SchedulerNext, schedulerVars, Sleep, Wake, Begin
  <2>2. minute' = minute + 1 /\ (IF phase = "running" THEN minute < began + Slack ELSE minute < alarm)
    BY <2>1 DEF MinutePasses
  <2>3. CASE phase = "running"
    BY <1>1, <2>2, <2>3, SchedulerAssumption DEF SchedulerInv, SchedulerTypeOK, Sealed, NotYet
  <2>4. CASE phase = "sleeping"
    BY <1>1, <2>2, <2>4, SchedulerAssumption DEF SchedulerInv, SchedulerTypeOK, Sealed, NotYet
  <2> QED BY <1>1, <2>3, <2>4 DEF SchedulerInv, SchedulerTypeOK
<1>2. SchedulerInv /\ [SchedulerNext]_schedulerVars =>
        [minute' # minute /\ lastSeal # NotYet => lastSeal >= minute' - SealWindow]_schedulerVars
  BY <1>1
<1> QED BY <1>2, SchedulerInvariant, PTL DEF SchedulerSpec, NoRaceGoesOffUnseen
=============================================================================
