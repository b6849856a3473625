--------------------------- MODULE SealCardRecovery ---------------------------
(***************************************************************************)
(* The card a tip was rated on, kept with the seal by the server of today, *)
(* and searched for among the retained responses when an earlier server    *)
(* sealed the tip without keeping it.                                      *)
(* Source: apps/server (recovery/seal_cards.go, the command of main.go,    *)
(* SaveSealedTip and SaveRecoveredSealCard of the store).                  *)
(*                                                                         *)
(* One race is followed.  The jobs of a server run one at a time, so that  *)
(* no card is fetched while a tip is sealed; the command is a process of   *)
(* its own, of which several may run, beside the server.  Only the answers *)
(* that list the race matter, and of a rating the tip it makes of a card.  *)
(***************************************************************************)
EXTENDS FiniteSets, Integers

CONSTANTS
  Listing,       \* what the provider may list for the race
  TipOf,         \* card -> the tip its rating makes
  Command,       \* runs of recover-seal-cards
  Nothing,       \* no card, no tip, no job under way, no source
  LastSecond,    \* bound: the clock
  MaxPayloads    \* bound: responses retained

ASSUME RecoveryAssumption ==
  /\ Nothing \notin Listing
  /\ LastSecond \in Nat /\ MaxPayloads \in Nat

Second == 0..LastSecond    \* timeFormat has no fractions
Payload == [at : Second, card : Listing]
Answer == [at : Second, card : Listing, kept : BOOLEAN]    \* kept, history: retained
Sealing == [at : Second, rated : Answer]
ASSUME NothingAssumption == Nothing \notin Payload \cup Answer \cup Sealing

VARIABLES
  second,
  release,     \* of the server: "old" seals without a card
  payloads,    \* raw_payloads of the path, those that list the race
  fetched,     \* by the job under way, to be stored next
  listed,      \* the race as stored, and the answer it is of
  sealing,     \* by the job under way: the card it read and the instant it began
  tip,         \* the sealed tip; its card is history
  sealedBy,    \* history: the release that sealed it
  sealCard,    \* the row of seal_cards
  source,      \* the row of seal_card_recoveries
  commands

jobs == <<fetched, sealing>>
cardRows == <<sealCard, source>>
seal == <<tip, sealedBy>>
recoveryVars == <<second, release, payloads, listed, jobs, seal, cardRows, commands>>

\* A command: what it has read of the payloads, and the one it will insert.
Scan == [step : {"idle", "listed", "sealed", "missing", "verified"},
         apply : BOOLEAN, seen : SUBSET Payload, found : Payload \cup {Nothing}]
NoScan == [step |-> "idle", apply |-> FALSE, seen |-> {}, found |-> Nothing]

RecoveryTypeOK ==
  /\ second \in Second
  /\ release \in {"old", "new"}
  /\ payloads \subseteq Payload
  /\ fetched \in Answer \cup {Nothing}
  /\ listed \in Answer \cup {Nothing}
  /\ sealing \in Sealing \cup {Nothing}
  /\ tip \in Sealing \cup {Nothing}
  /\ sealedBy \in {"old", "new"}
  /\ sealCard \in Listing \cup {Nothing}
  /\ source \in Payload \cup {Nothing}
  /\ commands \in [Command -> Scan]

RecoveryInit ==
  /\ second = 0
  /\ release = "old"
  /\ payloads = {}
  /\ fetched = Nothing
  /\ listed = Nothing
  /\ sealing = Nothing
  /\ tip = Nothing
  /\ sealedBy = "old"
  /\ sealCard = Nothing
  /\ source = Nothing
  /\ commands = [k \in Command |-> NoScan]

(***************************************************************************)
(* The server                                                              *)
(***************************************************************************)

SecondPasses ==
  /\ second < LastSecond
  /\ second' = second + 1
  /\ UNCHANGED <<release, payloads, listed, jobs, seal, cardRows, commands>>

\* RefreshCards: the answer is in.  Retaining it may fail, which is only logged.
FetchCard ==
  /\ fetched = Nothing /\ sealing = Nothing
  /\ \E card \in Listing, kept \in BOOLEAN :
       /\ fetched' = [at |-> second, card |-> card, kept |-> kept]
       /\ payloads' = payloads \cup (IF kept THEN {[at |-> second, card |-> card]} ELSE {})
       /\ Cardinality(payloads') <= MaxPayloads
  /\ UNCHANGED <<second, release, listed, sealing, seal, cardRows, commands>>

\* SaveRaces, which may fail too.
StoreCard ==
  /\ fetched # Nothing
  /\ fetched' = Nothing
  /\ listed' \in {fetched, listed}
  /\ UNCHANGED <<second, release, payloads, sealing, seal, cardRows, commands>>

\* SealTips: the instant and the card are read first.
BeginSeal ==
  /\ fetched = Nothing /\ sealing = Nothing
  /\ tip = Nothing /\ listed # Nothing
  /\ sealing' = [at |-> second, rated |-> listed]
  /\ UNCHANGED <<second, release, payloads, fetched, listed, seal, cardRows, commands>>

\* Slip: the card in a transaction of its own, after the tip's.
SealThenCard ==
  /\ sealing # Nothing
  /\ sealing' = Nothing
  /\ tip' = sealing
  /\ sealedBy' = release
  /\ sealCard' \in IF release = "new" /\ sealCard = Nothing THEN {sealCard, sealing.rated.card} ELSE {sealCard}
  /\ UNCHANGED <<second, release, payloads, fetched, listed, source, commands>>

\* SaveSealedTip: tip and card in one transaction; an earlier server had no card to save.
SealWithCard ==
  /\ sealing # Nothing
  /\ sealing' = Nothing
  /\ tip' = sealing
  /\ sealedBy' = release
  /\ sealCard' = IF release = "new" /\ sealCard = Nothing THEN sealing.rated.card ELSE sealCard
  /\ UNCHANGED <<second, release, payloads, fetched, listed, source, commands>>

\* The job fails, or the server stops and starts again, perhaps as the new release.
Restart ==
  /\ release' \in {release, "new"}
  /\ fetched' = Nothing
  /\ sealing' = Nothing
  /\ UNCHANGED <<second, payloads, listed, seal, cardRows, commands>>

(***************************************************************************)
(* The command.  It is part of the new release, which has migrated.        *)
(***************************************************************************)

Step(k, scan) == commands' = [commands EXCEPT ![k] = scan]

ListPayloads(k) ==
  /\ release = "new" /\ commands[k].step = "idle"
  /\ \E apply \in BOOLEAN :
       Step(k, [step |-> "listed", apply |-> apply, seen |-> payloads, found |-> Nothing])
  /\ UNCHANGED <<second, release, payloads, listed, jobs, seal, cardRows>>

ReadTip(k) ==
  /\ commands[k].step = "listed"
  /\ Step(k, IF tip = Nothing THEN NoScan ELSE [commands[k] EXCEPT !.step = "sealed"])
  /\ UNCHANGED <<second, release, payloads, listed, jobs, seal, cardRows>>

ReadSealCard(k) ==
  /\ commands[k].step = "sealed"
  /\ Step(k, IF sealCard # Nothing THEN NoScan ELSE [commands[k] EXCEPT !.step = "missing"])
  /\ UNCHANGED <<second, release, payloads, listed, jobs, seal, cardRows>>

Before(seen) == {p \in seen : p.at < tip.at}
\* Slip: what came within the second of the seal is not looked at.
BeforeOnly(seen) == {p \in seen : p.at < tip.at}
UpTo(seen) == {p \in seen : p.at <= tip.at}

\* The newest response before the seal, if every one up to it shows the same card.
Proven(seen) ==
  {p \in Before(seen) : /\ \A q \in Before(seen) : q.at <= p.at
                        /\ \A q \in UpTo(seen) : q.card = p.card}

\* Slip: the newest response will do.
Assumed(p) == p.card \in Listing

Reproduces(p) == TipOf[p.card] = TipOf[tip.rated.card]

\* verifyCandidate.  With facts other than those of the seal no card reproduces the tip.
Verify(k) ==
  /\ commands[k].step = "missing"
  /\ \/ \E p \in Proven(commands[k].seen) :
          /\ Reproduces(p)
          /\ Step(k, [step |-> "verified", apply |-> commands[k].apply,
                      seen |-> commands[k].seen, found |-> p])
     \/ Step(k, NoScan)
  /\ UNCHANGED <<second, release, payloads, listed, jobs, seal, cardRows>>

\* A slip: the source in a transaction of its own.
CardThenSource(k) ==
  /\ commands[k].step = "verified"
  /\ IF commands[k].apply /\ sealCard = Nothing
     THEN sealCard' = commands[k].found.card /\ source' \in {source, commands[k].found}
     ELSE UNCHANGED cardRows
  /\ Step(k, NoScan)
  /\ UNCHANGED <<second, release, payloads, listed, jobs, seal>>

\* SaveRecoveredSealCard, on --apply: card and source in one transaction, or neither.
Recover(k) ==
  /\ commands[k].step = "verified"
  /\ IF commands[k].apply /\ sealCard = Nothing
     THEN sealCard' = commands[k].found.card /\ source' = commands[k].found
     ELSE UNCHANGED cardRows
  /\ Step(k, NoScan)
  /\ UNCHANGED <<second, release, payloads, listed, jobs, seal>>

\* An error, or the process is stopped.
Abort(k) ==
  /\ commands[k].step # "idle"
  /\ Step(k, NoScan)
  /\ UNCHANGED <<second, release, payloads, listed, jobs, seal, cardRows>>

RecoveryNext ==
  \/ SecondPasses \/ FetchCard \/ StoreCard \/ BeginSeal \/ SealWithCard \/ Restart
  \/ \E k \in Command : \/ ListPayloads(k) \/ ReadTip(k) \/ ReadSealCard(k)
                        \/ Verify(k) \/ Recover(k) \/ Abort(k)

RecoverySpec == RecoveryInit /\ [][RecoveryNext]_recoveryVars

(***************************************************************************)
(* Properties                                                              *)
(***************************************************************************)

\* Where the response behind the rated card was retained, a seal card is the
\* card that was rated: what came and went between, was answered and never
\* stored, or arrived within the second of the seal leaves it ambiguous.
RetainedIsRated == sealCard # Nothing /\ tip.rated.kept => sealCard = tip.rated.card

\* A tip the new server sealed has the card it was rated on, whatever was
\* retained and whichever commands ran across the seal.
NewSealsKeepTheirCard == tip # Nothing /\ sealedBy = "new" => sealCard = tip.rated.card /\ source = Nothing

\* A seal card the server did not keep names a retained response from before
\* the seal that lists it.
SourceIsKnown ==
  sealCard # Nothing /\ sealedBy = "old"
    => source \in payloads /\ source.card = sealCard /\ source.at < tip.at

\* Whatever was lost, the rating of the seal card is the tip that was sealed.
CardGivesTheTip == sealCard # Nothing => tip # Nothing /\ TipOf[sealCard] = TipOf[tip.rated.card]
=============================================================================
