----------------------------- MODULE RecordStore -----------------------------
(***************************************************************************)
(* The tables the accuracy record lives in, the statements the jobs run    *)
(* on them, the job mutex of the service, and the world outside: the wall  *)
(* clock, races being run, cards being revised.                            *)
(* Source: apps/server/internal/store/store.go and service.run.            *)
(*                                                                         *)
(* The database has one connection, so every statement, and every          *)
(* transaction, is one step.                                               *)
(***************************************************************************)
EXTENDS TipRules

CONSTANTS
  Race,     \* race ids
  NoRace,   \* a job between two races
  Worker,   \* goroutines that run jobs: the scheduler and admin requests
  Nobody,   \* the mutex is free
  Offs,     \* the offs a card may give a race, NoTime for a card without one
  MaxTime,  \* bound: the clock stops here
  CanFail   \* FALSE: no call fails and the process does not die

ASSUME StoreAssumption ==
  /\ Nobody \notin Worker
  /\ NoRace \notin Race
  /\ Offs \subseteq OptionalTime
  /\ MaxTime \in Nat
  /\ CanFail \in BOOLEAN

VARIABLES
  clock,      \* wall clock
  run,        \* races that have been run
  offs,       \* races: the off on each race's current card
  tips,       \* tips: one row per race, or NoTip
  cards,      \* seal_cards: the off on the card frozen at the seal
  snapshots,  \* market_snapshots: when each kept book was captured
  samples,    \* training_samples
  results,    \* results: the fullest result stored so far
  prices,     \* starting_prices of each race's market
  archive,    \* the race ids in the archive document
  lock        \* Service.mu

worldVars == <<clock, run>>
tableVars == <<offs, tips, cards, snapshots, samples, results, prices, archive>>
storeVars == <<clock, run, offs, tips, cards, snapshots, samples, results,
               prices, archive, lock>>

NoCard == [sealed |-> FALSE, off |-> NoTime]
Card == [sealed : BOOLEAN, off : OptionalTime]

\* opening and seal hold the last book kept under that kind; display books
\* after the first replace each other.
Snapshots == [opening : OptionalTime, display : OptionalTime, seal : OptionalTime]
NoSnapshots == [opening |-> NoTime, display |-> NoTime, seal |-> NoTime]

\* at is when the frozen inputs were made; winner is NoHorse while pending.
\* runners are the horses the inputs cover.
Sample == [kept : BOOLEAN, source : Source, at : OptionalTime,
           runners : SUBSET Horse, winner : OptionalHorse]
NoSample == [kept |-> FALSE, source |-> "server", at |-> NoTime,
             runners |-> {}, winner |-> NoHorse]

StoreTypeOK ==
  /\ clock \in Time
  /\ run \in SUBSET Race
  /\ offs \in [Race -> OptionalTime]
  /\ tips \in [Race -> Tip \cup {NoTip}]
  /\ cards \in [Race -> Card]
  /\ snapshots \in [Race -> Snapshots]
  /\ samples \in [Race -> Sample]
  /\ results \in [Race -> Result \cup {NoResult}]
  /\ prices \in [Race -> PriceList]
  /\ archive \in SUBSET Race
  /\ lock \in Worker \cup {Nobody}

\* A fresh database with the day's cards already fetched.
StoreInit ==
  /\ clock = 0
  /\ run = {}
  /\ offs \in [Race -> Offs]
  /\ tips = [r \in Race |-> NoTip]
  /\ cards = [r \in Race |-> NoCard]
  /\ snapshots = [r \in Race |-> NoSnapshots]
  /\ samples = [r \in Race |-> NoSample]
  /\ results = [r \in Race |-> NoResult]
  /\ prices = [r \in Race |-> NoPrices]
  /\ archive = {}
  /\ lock = Nobody

-----------------------------------------------------------------------------
(* Statements. *)

SaveTip(r, tip) == tips' = [tips EXCEPT ![r] = tip]

\* One transaction: the first card for a race stays, the tip is upserted.
SaveSealedTip(r, tip, off) ==
  /\ cards' = [cards EXCEPT ![r] =
                 IF @.sealed THEN @ ELSE [sealed |-> TRUE, off |-> off]]
  /\ SaveTip(r, tip)

SavedSnapshot(shots, kind, at) ==
  IF kind = "seal" THEN [shots EXCEPT !.seal = at]
  ELSE [shots EXCEPT !.opening = IF @ = NoTime THEN at ELSE @,
                     !.display = at]

\* An upsert that leaves the row's source, and never reopens a settled sample.
SavedSample(sample, at, runners) ==
  IF ~sample.kept
  THEN [kept |-> TRUE, source |-> "server", at |-> at, runners |-> runners,
        winner |-> NoHorse]
  ELSE IF sample.winner # NoHorse THEN sample
  ELSE [sample EXCEPT !.at = at, !.runners = runners]

\* Only a pending sample whose field includes the winner takes it.
WithWinner(sample, horse) ==
  IF sample.kept /\ sample.winner = NoHorse /\ horse \in sample.runners
  THEN [sample EXCEPT !.winner = horse] ELSE sample

\* A result replaces a stored one unless it has fewer finishers.
FullerResult(stored, fetched) ==
  IF stored = NoResult THEN fetched
  ELSE IF Cardinality(fetched.finishers) >= Cardinality(stored.finishers)
       THEN fetched ELSE stored

-----------------------------------------------------------------------------
(* The mutex that service.run holds from a job's start to its end. *)

\* A slip: the mutex is taken without waiting for it.
TakeAnyway(w) == lock' = w

Acquire(w) == lock = Nobody /\ lock' = w
Release == lock' = Nobody

-----------------------------------------------------------------------------
(* The world. *)

Tick ==
  /\ clock < MaxTime
  /\ clock' = clock + 1
  /\ UNCHANGED <<run, tableVars, lock>>

\* A race is run at its off or after it; one without a published off, any time.
RunRace(r) ==
  /\ r \notin run
  /\ offs[r] = NoTime \/ clock >= offs[r]
  /\ run' = run \cup {r}
  /\ UNCHANGED <<clock, tableVars, lock>>

\* The cards job stores what the provider now says: an off may move until the
\* race has been run.  It needs the mutex, and its one transaction is all that
\* others see of it.
RefreshCard(r, off) ==
  /\ lock = Nobody
  /\ r \notin run
  /\ off # offs[r]
  /\ offs' = [offs EXCEPT ![r] = off]
  /\ UNCHANGED <<clock, run, tips, cards, snapshots, samples, results, prices,
                 archive, lock>>

WorldNext ==
  \/ Tick
  \/ \E r \in Race : RunRace(r)
  \/ \E r \in Race, off \in Offs : RefreshCard(r, off)
=============================================================================
