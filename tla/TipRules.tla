------------------------------ MODULE TipRules ------------------------------
(***************************************************************************)
(* The rules a tip lives by, as pure operators: the sealing rule, the      *)
(* reconciliation of a tip with a result, the starting prices that arrive  *)
(* after it, and the choice between two copies of the same tip.            *)
(* Source: apps/server/internal/tracking and importer.prefer.              *)
(*                                                                         *)
(* Instants are natural numbers.  A tip keeps of its data only what a rule *)
(* or a property tells apart: where the copy came from, the off it was     *)
(* made for, the horse it selects, the market favourite, whether it knows  *)
(* its Betfair market, the instant of the book it was priced on, when it   *)
(* was made and sealed, and how it turned out.                             *)
(***************************************************************************)
EXTENDS Integers, FiniteSets

CONSTANTS
  Horse,            \* horse ids
  NoHorse,          \* no selection, or no market favourite
  Price,            \* usable starting prices
  NoPrice,          \* no starting price
  Device,           \* names of the phones that upload a ledger
  NoTip,            \* no row for the race
  NoResult,         \* no stored result for the race
  SealWindow,       \* how close to the off a tip stops being a draft
  ExpiryDelay,      \* how long after the off a result is looked for
  MaximumAttempts   \* passes without a result before a tip expires

ASSUME ParametersAssumption ==
  /\ SealWindow \in Nat
  /\ ExpiryDelay \in Nat
  /\ MaximumAttempts \in Nat \ {0}

ASSUME AbsentValuesAssumption ==
  /\ NoHorse \notin Horse
  /\ NoPrice \notin Price
  /\ "server" \notin Device

NoTime == -1
Time == Nat
OptionalTime == Time \cup {NoTime}
OptionalHorse == Horse \cup {NoHorse}
OptionalPrice == Price \cup {NoPrice}
Source == Device \cup {"server"}

SettledKinds == {"won", "lost"}
VoidKinds == {"nonRunner", "abandoned"}
FinalKinds == SettledKinds \cup VoidKinds
Kinds == FinalKinds \cup {"pending", "unresolved", "expired"}

\* "pending" is a tip without an outcome yet.
Outcome == [kind : Kinds, sp : OptionalPrice, attempts : Nat]
Pending == [kind |-> "pending", sp |-> NoPrice, attempts |-> 0]
Closed(kind) == [kind |-> kind, sp |-> NoPrice, attempts |-> 0]
Ran(kind, sp) == [kind |-> kind, sp |-> sp, attempts |-> 0]
Unresolved(n) == [kind |-> "unresolved", sp |-> NoPrice, attempts |-> n]

\* What the favourite did; known is FALSE while nothing is recorded of it.
FavouriteOutcome == [known : BOOLEAN, won : BOOLEAN, sp : OptionalPrice]
NoFavouriteOutcome == [known |-> FALSE, won |-> FALSE, sp |-> NoPrice]

TipFields ==
  [source : Source, off : OptionalTime, pick : Horse, favourite : OptionalHorse,
   reference : BOOLEAN, book : OptionalTime, createdAt : Time,
   sealedAt : OptionalTime, outcome : Outcome,
   favouriteOutcome : FavouriteOutcome]

\* The favourite whose outcome is recorded is the one the tip names.
Tip == {tip \in TipFields :
          tip.favouriteOutcome.known => tip.favourite # NoHorse}

\* A published result: who finished, who came first (a dead heat has two), and
\* the price the result itself returns for each horse.
Result == [finishers : SUBSET Horse, winners : SUBSET Horse,
           sp : [Horse -> OptionalPrice]]

\* What Betfair settled, by horse, for the market a tip refers to.
PriceList == [Horse -> OptionalPrice]
NoPrices == [h \in Horse |-> NoPrice]

ASSUME AbsentRowsAssumption == NoTip \notin Tip /\ NoResult \notin Result

IsSealed(tip) == tip.sealedAt # NoTime
IsSettled(tip) == tip.outcome.kind \in SettledKinds
IsFinal(tip) == tip.outcome.kind \in FinalKinds

\* Everything of a tip but what happened afterwards.
Prediction(tip) ==
  [off |-> tip.off, pick |-> tip.pick, favourite |-> tip.favourite,
   reference |-> tip.reference, book |-> tip.book,
   createdAt |-> tip.createdAt, sealedAt |-> tip.sealedAt]

-----------------------------------------------------------------------------
(* The sealing rule. *)

NewTip(off, pick, favourite, reference, book, now) ==
  [source |-> "server", off |-> off, pick |-> pick, favourite |-> favourite,
   reference |-> reference, book |-> book, createdAt |-> now,
   sealedAt |-> NoTime, outcome |-> Pending,
   favouriteOutcome |-> NoFavouriteOutcome]

AlreadySealed(existing) == existing # NoTip /\ IsSealed(existing)
RaceStarted(off, now) == off # NoTime /\ now >= off
InSealWindow(off, now) == off = NoTime \/ (now < off /\ now >= off - SealWindow)

\* A slip: a sealed tip inside the window is sealed again.
DecideAgain(existing, candidate, now) ==
  IF RaceStarted(candidate.off, now) THEN "rejectedRaceStarted"
  ELSE IF InSealWindow(candidate.off, now) THEN "sealed"
  ELSE IF AlreadySealed(existing) THEN "rejectedAlreadySealed"
  ELSE IF existing = NoTip THEN "created" ELSE "updated"

Decide(existing, candidate, now) ==
  IF AlreadySealed(existing) THEN "rejectedAlreadySealed"
  ELSE IF RaceStarted(candidate.off, now) THEN "rejectedRaceStarted"
  ELSE IF InSealWindow(candidate.off, now) THEN "sealed"
  ELSE IF existing = NoTip THEN "created" ELSE "updated"

Stores(verdict) == verdict \in {"created", "updated", "sealed"}

\* The tip a storing verdict writes.
Recorded(candidate, verdict, now) ==
  IF verdict = "sealed" THEN [candidate EXCEPT !.sealedAt = now] ELSE candidate

-----------------------------------------------------------------------------
(* Reconciliation. *)

\* A slip: a tip is looked at once only.
AwaitingFirstPass(tip, now) ==
  tip.off # NoTime /\ tip.off <= now /\ tip.outcome.kind = "pending"

AwaitingReconciliation(tip, now) ==
  /\ tip.off # NoTime /\ tip.off <= now
  /\ tip.outcome.kind \in {"pending", "unresolved"}

NeedsStartingPrice(tip) ==
  /\ tip.reference /\ IsSettled(tip)
  /\ \/ tip.outcome.sp = NoPrice
     \/ tip.favouriteOutcome.known /\ tip.favouriteOutcome.sp = NoPrice

\* A slip: the attempts are counted down.
GiveUpCountingDown(tip, now) ==
  LET attempts == IF tip.outcome.kind = "unresolved"
                  THEN tip.outcome.attempts - 1 ELSE 1
      tooOld == tip.off # NoTime /\ now > tip.off + ExpiryDelay
  IN  IF tooOld \/ attempts >= MaximumAttempts
      THEN Closed("expired") ELSE Unresolved(attempts)

GiveUpOrKeepTrying(tip, now) ==
  LET attempts == IF tip.outcome.kind = "unresolved"
                  THEN tip.outcome.attempts + 1 ELSE 1
      tooOld == tip.off # NoTime /\ now > tip.off + ExpiryDelay
  IN  IF tooOld \/ attempts >= MaximumAttempts
      THEN Closed("expired") ELSE Unresolved(attempts)

\* A slip: any field is taken for the whole field.
AnyFieldKnown(result) == result # NoResult

\* A suspiciously short field says nothing about who ran.
FieldKnown(result) == result # NoResult /\ Cardinality(result.finishers) >= 3

StartingPrice(prices, horse, result) ==
  IF prices[horse] # NoPrice THEN prices[horse] ELSE result.sp[horse]

SettledOutcome(tip, result, prices, now) ==
  IF ~FieldKnown(result) THEN GiveUpOrKeepTrying(tip, now)
  ELSE IF tip.pick \notin result.finishers THEN Closed("nonRunner")
  ELSE Ran(IF tip.pick \in result.winners THEN "won" ELSE "lost",
           StartingPrice(prices, tip.pick, result))

SettledFavourite(tip, result, prices) ==
  IF FieldKnown(result) /\ tip.favourite \in result.finishers
  THEN [known |-> TRUE, won |-> tip.favourite \in result.winners,
        sp |-> StartingPrice(prices, tip.favourite, result)]
  ELSE tip.favouriteOutcome

Settle(tip, result, prices, abandoned, now) ==
  IF abandoned THEN [tip EXCEPT !.outcome = Closed("abandoned")]
  ELSE [tip EXCEPT !.outcome = SettledOutcome(tip, result, prices, now),
                   !.favouriteOutcome = SettledFavourite(tip, result, prices)]

\* A slip: the latest price replaces the recorded one.
WithLatestPrices(tip, prices) ==
  [tip EXCEPT
     !.outcome.sp = IF prices[tip.pick] # NoPrice THEN prices[tip.pick] ELSE @,
     !.favouriteOutcome.sp =
        IF @ = NoPrice /\ tip.favouriteOutcome.known
        THEN prices[tip.favourite] ELSE @]

\* Only gaps are filled: a price already recorded stays.
WithStartingPrices(tip, prices) ==
  [tip EXCEPT
     !.outcome.sp = IF @ = NoPrice THEN prices[tip.pick] ELSE @,
     !.favouriteOutcome.sp =
        IF @ = NoPrice /\ tip.favouriteOutcome.known
        THEN prices[tip.favourite] ELSE @]

-----------------------------------------------------------------------------
(* Which of two copies of a race's tip an import keeps. *)

KnowsMore(incoming, current) ==
  current.outcome.kind = "pending" /\ incoming.outcome.kind # "pending"

\* A slip: a server tip is treated like any other sealed copy.
PreferAnySource(incoming, current) ==
  /\ IsSealed(incoming)
  /\ \/ ~IsSealed(current) \/ incoming.sealedAt < current.sealedAt
     \/ incoming.sealedAt = current.sealedAt /\ KnowsMore(incoming, current)

\* A slip: the latest upload of the same seal wins.
PreferLatestUpload(incoming, current) ==
  /\ current.source # "server"
  /\ IsSealed(incoming)
  /\ ~IsSealed(current) \/ incoming.sealedAt <= current.sealedAt

Prefer(incoming, current) ==
  /\ current.source # "server"
  /\ \/ IsSealed(incoming) /\ ~IsSealed(current)
     \/ /\ IsSealed(incoming) /\ IsSealed(current)
        /\ \/ incoming.sealedAt < current.sealedAt
           \/ incoming.sealedAt = current.sealedAt /\ KnowsMore(incoming, current)
     \/ /\ ~IsSealed(incoming) /\ ~IsSealed(current)
        /\ \/ incoming.createdAt > current.createdAt
           \/ incoming.createdAt = current.createdAt /\ KnowsMore(incoming, current)
=============================================================================
