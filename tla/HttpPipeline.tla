---------------------------- MODULE HttpPipeline ----------------------------
(***************************************************************************)
(* The pipeline every request to a provider goes through: a limiter that   *)
(* hands out slots, bounded retries of what may be repeated, and waits     *)
(* that the context can cut short.                                         *)
(* Source: apps/server/internal/httpx (Client.do, Client.once,             *)
(* RateLimiter, RetryPolicy).                                              *)
(*                                                                         *)
(* Callers share one client.  A reservation is one step, under the         *)
(* limiter's mutex; sleeping, sending and answering are others.  Time is   *)
(* real time; a sleeper wakes up at most Late after its time.              *)
(***************************************************************************)
EXTENDS Integers

CONSTANTS
  Call,         \* the requests callers make, each once
  Interval,     \* the limiter's 1/rps
  Late,         \* how late a timer may fire
  Timeout,      \* of the HTTP client: how long an answer may take
  MaxAttempts,  \* RetryPolicy
  BaseDelay,
  MaxDelay,
  RetryAfters,  \* what a 429 may ask for, zero when it does not
  LastStart,    \* bound: callers start by then
  MaxTime       \* bound: the clock

ASSUME PipelineAssumption ==
  /\ Interval \in Nat /\ Late \in Nat /\ Late < Interval
  /\ Timeout \in Nat /\ MaxAttempts \in Nat \ {0}
  /\ BaseDelay \in Nat /\ MaxDelay \in Nat
  /\ RetryAfters \subseteq Nat
  /\ LastStart \in Nat /\ MaxTime \in Nat

NotSent == -1

VARIABLES
  clock,
  nextSlot,  \* the limiter's next free slot
  step,      \* idle, queued, sent, backoff, returned
  method,    \* GET or POST
  attempt,
  slot,      \* the slot reserved by the attempt
  sentAt,    \* when the last request of the call went out
  wakeAt,    \* when the backoff ends
  requests   \* how many requests of the call went out

pipelineVars == <<clock, nextSlot, step, method, attempt, slot, sentAt, wakeAt, requests>>

PipelineTypeOK ==
  /\ clock \in Nat
  /\ nextSlot \in Nat
  /\ step \in [Call -> {"idle", "queued", "sent", "backoff", "returned"}]
  /\ method \in [Call -> {"GET", "POST"}]
  /\ attempt \in [Call -> 0..MaxAttempts]
  /\ slot \in [Call -> Nat]
  /\ sentAt \in [Call -> Nat \cup {NotSent}]
  /\ wakeAt \in [Call -> Nat]
  /\ requests \in [Call -> 0..MaxAttempts]

PipelineInit ==
  /\ clock = 0
  /\ nextSlot = 0
  /\ step = [c \in Call |-> "idle"]
  /\ method \in [Call -> {"GET", "POST"}]
  /\ attempt = [c \in Call |-> 0]
  /\ slot = [c \in Call |-> 0]
  /\ sentAt = [c \in Call |-> NotSent]
  /\ wakeAt = [c \in Call |-> 0]
  /\ requests = [c \in Call |-> 0]

Later(a, b) == IF a > b THEN a ELSE b
Sooner(a, b) == IF a < b THEN a ELSE b

\* Introduced error: the next slot counted from now, forgetting those that queue.
ReserveFromNow(c) ==
  /\ attempt' = [attempt EXCEPT ![c] = @ + 1]
  /\ slot' = [slot EXCEPT ![c] = Later(clock, nextSlot)]
  /\ nextSlot' = clock + Interval
  /\ step' = [step EXCEPT ![c] = "queued"]
  /\ UNCHANGED <<clock, method, sentAt, wakeAt, requests>>

\* Wait, up to its sleep: the next attempt takes the next free slot.
Reserve(c) ==
  LET scheduled == Later(clock, nextSlot) IN
  /\ attempt' = [attempt EXCEPT ![c] = @ + 1]
  /\ slot' = [slot EXCEPT ![c] = scheduled]
  /\ nextSlot' = scheduled + Interval
  /\ step' = [step EXCEPT ![c] = "queued"]
  /\ UNCHANGED <<clock, method, sentAt, wakeAt, requests>>

StartCall(c) ==
  /\ step[c] = "idle"
  /\ clock <= LastStart
  /\ Reserve(c)

\* Introduced error: a sleeper that is woken late has missed its slot.
SendOnTheDot(c) ==
  /\ step[c] = "queued"
  /\ clock = slot[c]
  /\ step' = [step EXCEPT ![c] = "sent"]
  /\ sentAt' = [sentAt EXCEPT ![c] = clock]
  /\ requests' = [requests EXCEPT ![c] = @ + 1]
  /\ UNCHANGED <<clock, nextSlot, method, attempt, slot, wakeAt>>

\* The sleep is over and the request goes out.
Send(c) ==
  /\ step[c] = "queued"
  /\ clock >= slot[c]
  /\ step' = [step EXCEPT ![c] = "sent"]
  /\ sentAt' = [sentAt EXCEPT ![c] = clock]
  /\ requests' = [requests EXCEPT ![c] = @ + 1]
  /\ UNCHANGED <<clock, nextSlot, method, attempt, slot, wakeAt>>

Return(c) ==
  /\ step' = [step EXCEPT ![c] = "returned"]
  /\ UNCHANGED <<clock, nextSlot, method, attempt, slot, sentAt, wakeAt, requests>>

\* An answer that ends the call: a good one, or an error nothing can be done about.
Answered(c) ==
  /\ step[c] = "sent"
  /\ Return(c)

\* Introduced error: any method.
MayRetryAnything(c) == attempt[c] < MaxAttempts

\* Only a GET is repeated, and only so often.
MayRetry(c) == method[c] = "GET" /\ attempt[c] < MaxAttempts

\* Capped exponential delay with a fifth of jitter either way, unless the
\* provider said how long.
Backoff(n) == Sooner(BaseDelay * 2^(n - 1), MaxDelay)
Delays(n, retryAfter) ==
  IF retryAfter > 0 THEN {Sooner(retryAfter, MaxDelay)}
  ELSE {d \in 0..(2 * MaxDelay) : 4 * Backoff(n) <= 5 * d /\ 5 * d <= 6 * Backoff(n)}

\* A transient failure: the connection, the time-out, a 429, a 5xx.
FailsForNow(c) ==
  /\ step[c] = "sent"
  /\ IF MayRetry(c)
       THEN \E retryAfter \in RetryAfters : \E d \in Delays(attempt[c], retryAfter) :
              /\ step' = [step EXCEPT ![c] = "backoff"]
              /\ wakeAt' = [wakeAt EXCEPT ![c] = clock + d]
              /\ UNCHANGED <<clock, nextSlot, method, attempt, slot, sentAt, requests>>
       ELSE Return(c)

RetryCall(c) ==
  /\ step[c] = "backoff"
  /\ clock >= wakeAt[c]
  /\ Reserve(c)

\* The caller's context ends, in a sleep or in the request.  The slot stays taken.
Cancelled(c) ==
  /\ step[c] \in {"queued", "sent", "backoff"}
  /\ Return(c)

\* Timers fire in time, and the client gives up on an answer in time.
Due(c) ==
  \/ step[c] = "queued" /\ clock >= slot[c] + Late
  \/ step[c] = "backoff" /\ clock >= wakeAt[c] + Late
  \/ step[c] = "sent" /\ clock >= sentAt[c] + Timeout

TimePasses ==
  /\ clock < MaxTime
  /\ \A c \in Call : ~Due(c)
  /\ clock' = clock + 1
  /\ UNCHANGED <<nextSlot, step, method, attempt, slot, sentAt, wakeAt, requests>>

CallStep(c) == Send(c) \/ Answered(c) \/ FailsForNow(c) \/ RetryCall(c)

PipelineNext == TimePasses \/ \E c \in Call : StartCall(c) \/ CallStep(c) \/ Cancelled(c)

PipelineSpec == PipelineInit /\ [][PipelineNext]_pipelineVars

\* Time passes, timers fire, and a request is answered or times out.
PipelineFairSpec == PipelineSpec /\ WF_pipelineVars(TimePasses) /\ \A c \in Call : WF_pipelineVars(CallStep(c))

(***************************************************************************)
(* Properties                                                              *)
(***************************************************************************)

\* No two requests to a provider go out closer together than the interval, less
\* what a timer may be late: over concurrent callers, retries, a Retry-After
\* shorter than the queue, and cancelled sleepers.  (RateLimiter.Wait.)
RequestsKeepTheirDistance ==
  [][\A c, d \in Call : requests'[c] # requests[c] /\ sentAt[d] # NotSent
       => clock - sentAt[d] >= Interval - Late]_pipelineVars

\* A request that may have had its effect is not sent again unless it is a GET,
\* and a GET goes out a bounded number of times.  (Client.do.)
OnlyReadsAreRepeated ==
  \A c \in Call : requests[c] <= (IF method[c] = "POST" THEN 1 ELSE MaxAttempts)

\* Every call returns, by an answer, by giving up or by its context.  (Client.do.)
EveryRequestReturns == \A c \in Call : step[c] = "queued" ~> step[c] = "returned"
=============================================================================
