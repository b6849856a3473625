# A verification of Races

Races is a server (Go, `apps/server`) that tips one horse per race, keeps an
honest record of those tips, learns from it, and serves both to an iOS app
(`apps/ios`) that shares a Swift package with its own copy of the rules
(`packages/RacesKit`). This directory holds TLA+ modules that model the parts
of it in which order, failure and concurrency matter, TLC configurations that
check them on small instances, and proofs that TLAPS checks.

The subject of the project is the **accuracy record**: the claim of
`docs/accuracy.md` that a tip is sealed before the off, never rewritten, and
settled once, by the result. Everything else the server does (fetching cards,
matching markets, rating, training) feeds that record or reads it.

## 1. Inventory

### Server

| Part | State | Operations | What makes it correct |
|---|---|---|---|
| Command (`cmd/races-server`) | the process | start (Bootstrap, every startup job), serve, stop | a restart changes nothing that was recorded |
| Jobs (`service/service.go`) | job mutex, in-flight locals | RefreshCards, RefreshCourses, RefreshMarkets, DraftTips, SealTips, CollectResults, Train | one job at a time; a decision still holds when it is written; partial failure leaves no half-made seal |
| Scheduler (`service/scheduler.go`) | the plan under way, the next minute | PlanFor, Execute, Run | every job runs when due, at least often enough |
| Weights (`service/training_promotion.go`, `manual_weights.go`, `model.go`) | active weight set, training document | Bootstrap, Train and publish, InstallWeights, EditWeight | one active set, promoted only by a report that earned it |
| Tip rules (`tracking`) | none (pure) | Decide, EvaluateTip, Settle, WithStartingPrices, AwaitingReconciliation | sealing window, finality, honest verdicts |
| Results archive (`tracking/archive.go`) | a JSON document of aggregates and ingested ids | Ingest, Merge | every race counted once |
| Accuracy (`tracking/accuracy.go`) | none (pure) | Report | the figures count each sealed tip once, in one bucket |
| Store (`store/store.go`, migrations) | one SQLite file, one connection | some forty statements and transactions | upserts that never lose what is final |
| Device import (`importer`, `service/import_store.go`) | none of its own | tips, archive, samples, weights of a phone | repeatable; never beats a server seal |
| Seal card recovery (`recovery`) | `seal_cards`, `seal_card_recoveries` | SealCards, a command run beside the server | a recovered card makes its tip, and is the rated one wherever that can be known |
| HTTP pipeline (`httpx`) | next slot of the limiter | Get, PostJSON, PostForm | spacing, bounded retries, never a repeated POST |
| Betfair (`betfair`) | token, its age, the permanent latch | Token, LogIn, KeepAliveIfNeeded, send, booksSplitting | one re-login per call, no login after the latch, no token known to be dead |
| Racing API (`racingapi`) | none | Racecards, Results, Courses | lenient decoding, answers are inputs here |
| Matching (`matching`) | none (pure) | MatchRaces, MatchRunners, Snapshot | never price a runner off another horse |
| Rating, training, backtest | none (pure, floating point) | Rate, Train, Run | as-of: only what was known before the off |
| API (`api`) | none | read models; admin jobs; import | decodes and delegates |

Interaction: the scheduler goroutine and admin requests start jobs, which run
one at a time under `Service.mu`; jobs call the two providers over `httpx` and
the store statement by statement. `ImportHistory` and `InstallWeights` run in
request goroutines **without** the mutex. The keep-alive goroutine and the jobs
share the Betfair session. SQLite runs with one connection, so single
statements and transactions are atomic, and sequences of them are not.

### RacesKit and the app

RacesKit mirrors `httpx` (HTTPClient, RateLimiter, RetryPolicy), `betfair`,
`racingapi`, `matching`, `rating` and `tracking` in Swift and adds the document
store (`Store/DocumentStore.swift`, atomic JSON files) and the server client.
The app (`App`, `Today`, `Tips`, `Race`, `Record`, `Courses`, `Model`,
`Settings`, `Credentials`) keeps view state, fetches from the server, and holds
credentials in the keychain. Since the server took over the providers
(`AppEnvironment.swift:11`, `SettingsViewModel.swift:8-10`) the app asks only the
server, through the HTTP client of RacesKit, keeps the last answers in its document
store, and uploads what it recorded before. What is left to interleave is on the
main actor, which gives way at every await of a screen.

### Hard behaviours

Interleaving of imports with jobs; values read before a network call and
written after it (the instant, the rows, the archive document, the session
token); jobs that die between two statements; results that arrive truncated,
late, or never; prices that come in parts; repeated uploads; a mutex that some
writers do not take; attempts and ages that both end a search.
`PROJECT.json` lists them one by one, at their lines.

## 2. The modules
| Module | Models | Interacts |
|---|---|---|
| `TipRules` | `internal/tracking`: the sealing rule, reconciliation, starting prices; `importer.prefer` | pure operators used by all below |
| `RecordStore` | the tables the record lives in, the statements on them, the job mutex, the clock, races being run, cards being revised | extended by the three below |
| `TipRecording` | `DraftTips`, `SealTips`, `rateAndRecord`, `priced` | one job of a worker, a step per statement |
| `ResultsCollection` | `CollectResults`, `startingPrices` | one job of a worker, a step per statement |
| `DeviceImport` | `importer.Import` without its weights | one import per phone, without the mutex |
| `RecordService` | all of it together, and the process that dies | `Next`, `Spec`, `LiveSpec`, the properties |
| `AccuracyRecord` | the abstract promise: at most one prediction per race, timely, unchanging, and at most one verdict | implemented by `RecordService` (`KeepsItsPromises`) |
| `RecordClaims` | sentences of the documentation the code does not keep | refuted by runs of their own |
| `MCRecordService` | the small worlds for TLC: ratings, published results, prices, uploads | |
| `RecordService_proofs`, `RecordFinality_proofs`, `RecordVerdict_proofs` | theorems | |
| `WeightSets`, `MCWeightSets` | the `weights` table, boot, training and its publication, manual installs, uploads | its jobs hold the same mutex; what it says of tips is which set rated them |
| `WeightRegister` | the abstract promise of an id: its numbers are given once, and what a rating leaves behind carries the set in force when it began | implemented by `WeightSets` (`KeepsTheRegister`) |
| `WeightSets_proofs` | theorems | |
| `ExchangeClient`, `MCExchangeClient` | `betfair.Session`, the calls of `betfair.Client`, the keep-alive goroutine | its answers are the inputs of `FetchPrices` and `FetchStartingPrices` |
| `ExchangeClient_proofs` | theorems | |
| `HttpPipeline` | `httpx`: limiter, retries, cancellation | every request of both providers goes through it; its failures are those of the jobs' calls |
| `Scheduler` | the timetable, the order of a plan, the minute loop | starts the jobs of `RecordService` and `WeightSets` |
| `Timing_proofs` | theorems about both | |
| `ResultsArchive` | the figures and recent windows of the archive | details the `archive` of `RecordStore`, where only the ids are kept |
| `Matching` | runners to selections, races to markets | decides which races of `TipRecording` have a book, and of which horses |
| `SealCardRecovery` | the command that finds the cards of seals made before `seal_cards`, and the server beside it, release by release | looks into `SaveSealedTip` of `RecordStore` from the side of the card |
| `ProviderData_proofs` | theorems about the three | |
| `MCParts` | the pipeline, scheduler, archive and matcher side by side, and their small worlds | |
| `MCSeals` | `RecordService` and `SealCardRecovery` side by side | |
| `RacecardScreens` | the app's Racing and Tips screens, their loader, memory and saved cards | reads what the jobs left on the server |
| `RecordScreen` | the app's Record tab, the set selected and the one record kept on the phone | reads the record the jobs made, a set at a time |
| `MCPhoneScreens` | the two above side by side | |
| `Phone_proofs` | theorems about both | |

### The accuracy record

The state of `RecordStore` is the database and the world. `tips[r]` is the row
of race `r` or `NoTip`; a tip keeps its off, its selection, the favourite,
whether it knows its market, the instant of its book, when it was made and
sealed, and both outcomes. `cards[r]` is `seal_cards`, `samples[r]`
`training_samples`, `snapshots[r]` the kept books, `results[r]` the fullest
stored result, `prices[r]` the stored starting prices, `archive` the ids in the
archive document, `lock` is `Service.mu`. `rec[w]` and `col[w]` are the locals
of the job that worker `w` (the scheduler or an admin request) runs, with a
program counter that names the next statement; `imp[d]` is the import of a
phone. A job takes the lock at its first action and lets it go with its last;
`AbortRecording` and `AbortCollecting` are any failing call, `Crash` the death
of the process, which loses jobs and lock and keeps the database.

What is read before a call and used after it is a local: `now` is the instant
at which the job started, `rec[w].tip` the decided tip, `col[w].waiting` and
`col[w].missing` the rows as they were read, `col[w].loaded` the archive
document, `imp[d].loaded` the same for an import. Where the code ignores an
error (`service.go:519`, `583`) the model chooses between the value and
nothing.

Abstractions, all of data: one day's races; the order in which a job walks its
races is arbitrary; assessments, result facts, payload rows and job rows are
left out; an outcome keeps no position, field size or settlement time; the
matches and the books of a job are one read; one market per race; instants are
small numbers; the rater's answer, the provider's results and the exchange's
prices are chosen from sets given by the instance. `RefreshCard` is the one
transaction of the cards job. A result is published once the race was run; the
answers may be truncated, but not to three finishers or more, which the code
cannot tell from whole ones.

### The weight sets

`WeightSets` models which set rates the next race: `rows` and `active` are the
`weights` table, `report` the training-report document, `job` the job that holds
the mutex with the set it read when it started, `stamps` the sets that rated
stored tips. Boot seeds the presets one by one and then may make v3 active;
training reads the active set, fits, and publishes set, activation and report in
one transaction; a manual install is one transaction that does not take the job
mutex, and neither does an upload. The process dies at any point. What training
finds is an input: any numbers, promoted or not, but none before there are
enough samples. A learned id is a function of the samples (`trainer.go:127`), so
training twice on the same samples, or a phone and the server training on the
same samples, give one id to different numbers; a manual id is random and is
modelled as never met before. Of the four presets the two that ever run are
kept.

`PresetsStayRetired` looks at the whole of it: boot, publication, installation and
upload each write `weights` without looking at the others, and yet, from the first
set trained or installed on, none of them, nor a death between any two statements,
leaves a preset in force or nothing. It breaks when the boot takes a set that is not
outdated for outdated, and when the publication's statements are not one transaction.

`WeightRegister` is what is left when tables, boots and requests are taken away: a
name is filed with its numbers once, or adopted with them; a rating begins with
the name in force and stamps what it leaves with that name and those numbers.
`KeepsTheRegister` maps a stored row to a name's meaning, `active` to the name in
force, the set a rating job read to `rating` and `stamps` to themselves. A
publication and an installation are each one `Adopt`, since their transactions
are one step; an upload files a name or does nothing. `MCWeightSets` gives three kinds of numbers and one upload whose id the
server's own training can arrive at.
### The exchange

`ExchangeClient` models a call to Betfair from the moment a job makes it:
`session` is `betfair.Session` (token, whether it is older than
`KeepAliveAfter`, the latch), `call` the stack of `Markets`, `Prices` or
`StartingPrices` over `books`, `booksSplitting`, `send` and `sendOnce`, and
`keepAlive` the goroutine of `main.go`. Calls are made by jobs, which hold the
job mutex, so there is one at a time; only the keep-alive runs beside it. The
session's own lock is let go before every request, so what is read before the
request and what is written after it are separate actions: `Authenticate` and
`LoginSucceeds`/`LoginFails`; `KeepAliveIfNeeded`, `KeepAliveAnswered` and
`KeepAliveApplied`.

`call.todo` is the set of batches still to be sent. The code sends them in
order and halves recursively; which is next makes no difference to the
properties, so the model takes any. `Batched` are the ways to cut a request
into full batches and a remainder, `Halves` into two, which of the ids going
where left open. `StartingPrices` asks once more, one by one, for markets that
no answer had (`recovering`).

The exchange is the environment: it honours some tokens (`honoured`), drops
them when it likes (`Lapse`), settles markets (`open`), calls any request too
large, and leaves settled markets out of an answer when a market of the request
is open. `calm` marks the time from which it stops misbehaving: it drops no
token, refuses no good login, and calls no single market too large. It still
halves requests and leaves markets out, and keep-alives are as late as ever.

### The request pipeline and the scheduler

`HttpPipeline` models one `httpx.Client` shared by its callers. A caller's
state is `step`: queued for a slot, sent, in backoff, returned. `Reserve` is
the part of `RateLimiter.Wait` under its mutex; the sleep, the request and the
backoff end in later actions, at the earliest when they are due and at most
`Late` after it. `Cancelled` is the context that ends any of the three, and the
slot stays taken, as in the code. What is retried is decided by `MayRetry`
(a GET, and attempts left), how long it waits by `Delays` (`Retry-After` capped,
or exponential with jitter). Distances are between the instants of sending, so
the promise of `NewRateLimiter` is `Interval - Late`: a timer that is late
shortens the distance to the one after it.

`Scheduler` counts minutes. `PlanFor` is the timetable, `Position` the order of
`Execute`; a step begins a job, and the minutes that pass before the next step
are what the job takes, up to `Slack` for a whole plan. The loop then sleeps to
the next whole minute and runs that minute's plan: the minutes between are
skipped, whatever was due in them. `NoRaceGoesOffUnseen` says what survives
this: whenever a minute begins, a sealing job began in the `SealWindow` before
it, so every race was looked at inside its window. It needs
`2 * Slack + 1 <= SealWindow`: two plans in a row, one sealing at its start and
the next at its end, with one minute's sleep between, must fit in five minutes.
That plans run over by two minutes at most is an assumption on the world
(`SchedulerAssumption`); with a job that hangs longer the code does miss races.
The quarter-hour jobs and the results pass of 23:55 have no such slack and are
lost when their minute is overrun.

### What the providers say

`ResultsArchive` keeps, for the server and for one phone, the ids ingested, a
strike rate per subject and the window of recent runs, and as history the runs
that were counted. A version of a result is any date it may carry, any listed
runners and any winners among them, so that the same race can be ingested from
different answers by the two. `Merge` is wholesale or nothing. Its comment
(`archive.go:285-288`) says that in a partial overlap the ids are added; the
code adds nothing, and `FiguresAreExact` (figures are those of the races whose
ids are held) is kept just because it does not. Of the dozen tables that are
bumped alike one is kept; the window shrinks from 50 to 2.

`Matching` is `MatchRaces`, a race at a time, with `MatchRunners` as the
composition of its three passes; a pass returns pairs, and what is left over
goes to the next. A name stands for its normalised key, the edit distance is a
constant, and each selection carries the horse it really is, which only the
properties read. Three of them divide the ground between names and numbers:
with all names spelled alike, no numbering can mislead (`NamesOverruleCloths`);
with numbers agreeing or left out, no selection under another's very name, and a
selection without a number nearer to its horse than any other such, no misspelling
can (`ClothsSettleMisspellings`); and which market a race takes rests on names
alone (`OwnMarketOnly`). Between them lies a case that the code does get wrong:
numbers shifted **and** one name misspelt. The guard of the cloth pass knows
exact names only, so the misspelt selection goes to the runner of its number.

`MCParts` puts the four modules side by side. They share no
variable; `part` says which one a behaviour is of. `MCPhoneScreens` and `MCSeals`
do the same for the screens and for the two kinds of seals.

### The screens of the app

`RacecardScreens` models `TodayViewModel`, `TipsViewModel` and the
`RacecardLoader` they share. All three live on the main actor, so what runs
between two awaits is one action, and each await is a place where another task
gets in: `BeginLoad` runs to the request, `Serve` is the server reading its
card, `SaveRacecard` the store's write, `Land` the rest, and on failure
`ReadSaved` and `LandSaved` the fall-back to the card saved on the phone. A
card is reduced to its day and the instant the server read it. The picker of
Racing (`Select`) starts a task per tap (`TodayView.swift:32`), appearing views
and pulls to refresh start others, and none is cancelled by the next.

Two loads of Racing that overlap can land in either order, and the code does
not look at the day again: `DayShownIsTheDayPicked` is refuted. What holds is
`AloneShowsTheDayPicked`: if the last load of Racing began with no other of
Racing under way, then when it has landed the day shown is the one picked,
whatever Tips does meanwhile.

### The Record tab

`RecordScreen` models `RecordViewModel`, its saved record, and as much of
`BuildRecord` as tells one answer from another: the set it is of and the instant
it was made. A load reads the selection when it sends its request
(`Ask`) and shows what comes, whatever is selected by then; a refresh
first waits for the job it asks for. The first record applied decides the
selection, and the one file on the phone is of whichever set was saved last.
`crossed`, a history variable, says that loads have overlapped since the last
selection: for those that have not, `AloneShowsTheSelected` and
`AloneGoesForward` hold; for the others, and off the network, three sentences of
the documents do not (end of section 3).

### The recovery of seal cards

`SealCardRecovery` follows one race. The server fetches a card, may fail to
retain the response (`main.go:104`, logged only), may fail to store it, and seals
on what is stored; its jobs run one at a time, so that nothing is fetched while
a tip is sealed. `release` is "old" until the upgrade: an old server seals without
a card, the new one with it, in one transaction. The command belongs to the new
release and reads payloads, tip and card in three statements, decides
(`Verify`), and inserts card and source in one transaction, only if there is no
card. Of a rating, only the tip it makes of a card is kept (`TipOf`); whether a
response was retained (`kept`) is history. What the code calls proof is
`Proven`: the newest response before the second of the seal, if all up to and
including that second list the same card. That is enough wherever the response
behind the rated card was retained (`RetainedIsRated`), including when the
response of that very second was never stored, since it then differs and the command
gives up. Where it was not retained, the command can take an earlier card of the
same tip, and `CardGivesTheTip` is all that is left.
## 3. The runs

| Run | Instance | Shows |
|---|---|---|
| `recording` | one race, two workers, off 1 or 2, clock to 3, failures and deaths | every table and local keeps its type (`TypeOK`); a decision still stands when it is written (`DecisionStands`); seal and card agree (`SealHasItsCard`); a sample is of the seal (`SampleIsOfTheSeal`); a seal is final (`ServerSealIsFinal`). Beside it, the recovery of older seals: three cards, two of one tip, two commands, two responses retained: a recovered card is the rated one where that was retained (`RetainedIsRated`), names its source (`SourceIsKnown`), no new seal is given another (`NewSealsKeepTheirCard`), and whatever was lost a recovered card makes the tip that was sealed (`CardGivesTheTip`) |
| `imports` | one race, one worker, one phone with three uploads | two ledgers uploaded in turn settle (`AlternatingUploadsSettle`); the table implements `AccuracyRecord` (`KeepsItsPromises`) |
| `settling` | full and truncated results, differing prices, failures, fairness | verdicts agree with the stored result (`VerdictMatchesResult`); a winner reaches a sample with the verdict only, and is the stored result's, whichever of the two statements fails (`TrainsOnTheVerdict`); prices are never replaced (`StartingPriceIsFinal`); every seal with an off is closed (`EverySealIsClosed`) |
| `no_failures` | two workers, off 2 or unknown, no failing call | every settled seal made on a book that names a favourite has a settled sample (`SettledSealTrains`) |
| `claim_sealed_rewritten` | with imports | refuted: "a sealed tip is never rewritten" (`apps/server/README.md:73-74`) |
| `claim_archive` | two races, one phone | refuted: results are "appended to the archive", permanently (`docs/providers.md:84`) |
| `weights` | two presets, samples to 2, two edits, one upload whose id the server can arrive at, three kinds of numbers, deaths | exactly one active set (`OneActive`); a set that did not come from the server was confirmed by it before it ran (`DeviceSetsEarnIt`); report and set are published together (`ReportedSetIsStored`); once a set was trained or installed no preset rates again, through deaths, boots and uploads (`PresetsStayRetired`); ids never change meaning and a tip leads back to the numbers that rated it: `WeightRegister` is implemented (`KeepsTheRegister`) |
| `claim_promotion` | an installation beside a training job | refuted: training is "promoted only if it beats the current weights" (`apps/server/README.md:27`) |
| `exchange` | three markets in books of two, three tokens, fairness | a call that succeeds lost nothing (`NothingLost`); a latched account is left alone (`LatchedForGood`); each call ends (`EveryCallReturns`); calls stop failing once the exchange behaves (`SessionHeals`) |
| `parts` | two calls of at most three attempts; a scheduler from 17:10 to 17:40 the next day; three races, two subjects, a window of 2; some twelve thousand meetings of two races and two markets | distances are kept (`RequestsKeepTheirDistance`), only reads are repeated (`OnlyReadsAreRepeated`), calls return (`EveryRequestReturns`); no race goes off unseen (`NoRaceGoesOffUnseen`); the archive's figures are exact (`FiguresAreExact`) and its windows the newest (`RecentAreTheNewest`); the matcher joins one to one (`JoinedOneToOne`) and never a horse to another (`NamesOverruleCloths`, `ClothsSettleMisspellings`, `OwnMarketOnly`) |
| `phone_screens` | two loads at once, two screens, two days, one tick; two loads of the Record tab, two sets with tips, one tick | memory answers with recent cards only (`FreshIsRecent`); a load alone shows the day picked (`AloneShowsTheDayPicked`); a load that the Record tab has to itself shows the set selected (`AloneShowsTheSelected`), never an older record (`AloneGoesForward`); every spinner goes away (`EveryScreenSettles`) |
| `claim_day_shown` | the same | refuted: with an explicit await, rapid taps do not "land their results out of order" (`TodayViewModel.swift:18-20`) |

What a theorem of section 4 says of every instance, and what another checked property
implies, is not checked again by a run: the type invariants but that of the record,
`JobsExclude`, `RowsAreFresh`, `TipsAreAttributable` and `StoredSetsNeverChange`
are proved, and TLC agreed with each before it was.

Bounds. One race is enough for the record because no rule relates two races:
jobs walk races independently, and the only sharing is the lock, the archive
document and the order of steps; the archive's runs use two. The clock runs to
3 with a window of 1 and offs of 1 and 2, so that a race is drafted, sealed,
run, settled and expired in one behaviour; `ExpiryDelay` 2 and
`MaximumAttempts` 2 keep both ends of a search within reach. Two workers are
the least that can interleave; where the jobs' interleaving is not the point
one is used. Three horses are the least for which a field counts as whole
(`domain/models.go:176`).

Fairness (`LiveSpec`, used by `settling` alone). The clock advances. A job that
has started runs on, since every call returns or fails: weak fairness of its
next statement. That passes which get through recur is an assumption on the
world, not on the scheduler: the timetable starts passes for ever, and the
assumption says only that not all of them fail. Nothing is assumed of drafting,
of imports or of what the answers contain, and failures stay possible at every
step. A tip without an off is sealed at once and never looked at again, which
is why `EverySealIsClosed` asks for an off.

`exchange` assumes weak fairness of `CallStep`: a request that was sent is
answered or fails, since `httpx` gives every request a timeout, and the job
goes on. Nothing is assumed of the keep-alive, which may hang for ever, nor
that jobs make calls. Three tokens are the least with a fresh one for every
login, as session and keep-alive can hold two apart; a token that nobody holds
has its name used again. Three markets in books of two give a full batch, a
remainder and a halving, and an answer from which one market is left out while
another is open. The remaining actions of the model have no fairness because
the code has no obligation to make them happen.

In `weights`, `MinimumRaces` 1 and `MaxSamples` 2 allow training too early, with
enough samples, twice on the same samples and again on more; two edits allow an
installation before and during a training job; the third kind of numbers tells
a learned or manual set from both presets.

In `parts`, two calls are the least that compete for slots, and three
attempts are those of `DefaultRetry`; the interval of 2 with timers 1 late makes
lateness count, `Retry-After` may be absent, short, or beyond the cap. The clock
runs to 18, and no behaviour of two calls gets there, so that the bound hides
nothing from `EveryRequestReturns`. The scheduler runs for a whole day from the
middle of one, with a slack of 2, the most that `SchedulerAssumption` allows
with a window of 5. Three races are the least for which a window of 2 overflows
across races, one of them with two runners of one stable; one date does not
parse, and dates disagree with the order of ids. The first meeting's market may
spell each of its three names in two or three ways, some of them as near to one
runner as to another, number each selection from 0 to 3, remove any, and start at
the other race's time; further meetings hold duplicates, a race without an off,
one without runners and one out of reach.

In `phone_screens`, two loads are enough for every overlap of two screens and of one
with itself; a freshness of 1 and one tick tell recent from old.

A second load of the Record tab is the least that overlaps. Both sets have tips; a
set without any, whose record is "No tips yet" and draws no list, adds nothing to
what a load can do. For the recovery of seal cards, two cards the rating cannot tell
apart and one it can are the least for the command to err or not; two responses give
it a newest one and a contradiction, two seconds a response before the seal and one
within its second, and two commands race for the one row. Workers, commands and
cards of one tip are interchangeable in every action, hence the symmetry; the run
has no liveness property.

Fairness of the parts and of the screens. In `parts`, time passes and `CallStep` of each call
goes on: timers fire and a request is answered or times out after the client's
`Timeout` (`httpx.go:249`). In
`phone_screens`, weak fairness of each task's step: requests time out, and actors get round to every task. No tap, no refresh and no
cancellation is assumed.

More sentences of the documents are not kept by the code, as variations of these
instances show; they have no run in this directory. A job decides
with the instant it started at (`service.go:310`), so that with slow calls a tip
is stored after its off, where `docs/accuracy.md:16` says nothing is recorded.
A job that dies between the seal and its sample (`service.go:406`, `416`), or
between a verdict and its winner (`535`, `543`), leaves a settled race without
training, where `docs/on-device-learning.md:3-5` says every settled race trains.
Ten attempts at one per quarter of an hour are used up long before
`ExpiryDays` (`reconcile.go:86`), where its comment says an expired tip is one
whose result was never published. An upload whose weights id is taken changes no row
(`importer.go:204`), so that a phone's tips can lead to the server's numbers, where
its comment says its sets are kept "so its tips stay attributable". Recovery may give
a seal an earlier card of the same tip when the response that listed the rated one
could not be retained, where `store.go:465` speaks of "the immutable race card used
at seal time". In the Record tab, a saved record is shown
whatever set is selected (`RecordViewModel.swift:52`), and the first record applied,
a saved one too, decides the selection for good (line 69), where `docs/accuracy.md:72-73`
says that each selection uses only tips with its id and that the tab "defaults to the
active `weightsID`"; and the time in its note is that of the failed load (line 55), where
`RecordView.swift:89` says it is that of the save.
## 4. The proofs

All theorems hold for every number of races, workers, phones and horses, every
window, delay and number of attempts, and every content of uploads, ratings,
results and prices allowed by the named assumptions (`ParametersAssumption`,
`AbsentValuesAssumption`, `AbsentRowsAssumption`, `StoreAssumption`, and those
of the three job modules), which TLC evaluates on every run. Those of the job
modules say what the code makes certain of its inputs: a result is a finite list
whose winners are among its finishers (`CollectionAssumption`,
`domain/models.go`), and a rating that has training inputs names its favourite
among them, and no other does (`RatingsAssumption`, `rater.go:221`, `259`: both hang on
the same `usable` book).

`TypeCorrect` is `Spec => []TypeOK`. The rest follows from the inductive
invariant

    IInv == TypeOK /\ JobsExclude /\ JobInv /\ TableInv

`JobsExclude` is mutual exclusion. `JobInv` says what a job in flight may rely
on: the tip it will write fits the card (`TipToWrite`), the sample it will
write is that of the seal it just stored (`SampleToWrite`), its decision stands
(`DecisionStands`), and the rows it read are the rows of the table wherever a
server seal is involved (`RowsRead`, `RowsAreFresh`). `TableInv` says what the
tables then keep: seals have their cards, samples are of the seal, and a price
is recorded on settled tips only. None of these is inductive alone: that a
decision stands needs that nobody else runs a job, and that imports leave
server seals alone; that rows are fresh needs the same; and the tables' part
needs both, because the writes put back locals.

The argument: by mutual exclusion the only writers beside the running job are
imports and crashes; an import takes a row of the phone's only when the current
row is not the server's (`importer.prefer`); so every step changes each row in
one of four ways (`RowStep`): it is sealed for the first time, or filled with a
price, or settled, or it is not a server seal before or after. Finality of
seals and prices, and the refinement, are read off `RowStep`:

| Theorem | States |
|---|---|
| `TypeCorrect` | every table and local keeps its type |
| `JobsNeverInterleave` | `[]JobsExclude` |
| `DecisionsStand` | `[]DecisionStands` |
| `SealedRowsAreFresh` | `[]RowsAreFresh` |
| `SealsHaveTheirCards` | `[]SealHasItsCard` |
| `SamplesAreOfTheSeal` | `[]SampleIsOfTheSeal` |
| `SealsAreFinal` | `ServerSealIsFinal` |
| `StartingPricesAreFinal` | `StartingPriceIsFinal` |
| `Implements` | `KeepsItsPromises`: the tips table implements `AccuracyRecord` |

`AlternatingUploadsAreStable` (`RecordService_proofs`) is `[]AlternatingUploadsSettle`:
`prefer` orders the rows of a race (`PreferIsAnOrder`) and strictly
(`PreferIsStrict`), so that the better of two uploads stays.

**Verdicts and samples** (`RecordVerdict_proofs`). Two more promises of the
record rest on the world outside, and are theorems under a condition on the
constants that is named in the statement:

| Theorem | States |
|---|---|
| `VerdictsMatchResults` | `WholeFieldsAgree /\ Spec => []VerdictMatchesResult` |
| `SettledSealsTrain` | `TrainingIsFed /\ Spec => []SettledSealTrains` |
| `TrainingFollowsTheVerdict` | `WholeFieldsAgree /\ Spec => []TrainsOnTheVerdict` |

`WholeFieldsAgree`: whole results of a race agree on who ran and who won; they may
differ in prices, come in any order, and short ones may come in between. Without it
the property is false: an amended result replaces the stored one
(`store.go:263`) and is never applied to the tip that was settled. The instances
of `settling` and `no_failures` satisfy it. The proof adds where results come from
(`ResultsArePublished`: what is stored or held was published), and that a pass
which settles from a whole field has stored a whole field before
(`WholeFieldsAreStored`, by `SaveResults`, whose statement never replaces a whole
field by a short one: `WholeFieldsStay`). A final row then is either one that was
final before (`FinalRows`), and its field is still whole and still the same, or one
`SettleRow` has just written (`SettledFrom`).

`TrainingIsFed`: no call fails, a whole field has a winner, and the horses covered
by the book a tip was made on include it (the database takes no other winner,
`store.go:712`). With failing calls the property is false, as the end of section 3
says. The instance of `no_failures` satisfies it. The invariant follows the two
chains of statements: a seal made on a book has its sample or the job that made it
is about to store it (`SealsHaveSamples`), and a settled one has its winner or the
pass that settled it is about to set it (`SettledHaveWinners`). That a pass never
gets in between a seal and its sample is mutual exclusion (`Alone`), and that a
phone's sample does not stand in the way is `SamplesGrow`: the server's inputs
replace those of a pending sample and leave a settled one.

`TrainsOnTheVerdict` holds with failing calls: the sample may stay without its
winner, but it never gets one that the record does not bear out. The invariant says
that a pass which holds a winner for a server seal has stored the verdict it comes
with (`WinnersAgree`): only `SettleRow` gives a pass a winner (`OnlySettleRowLearns`),
after a verdict from a whole field (`WinnerOfTheVerdict`), nobody seals the race while
it is held (`Alone`), and no step takes back a verdict or a winner (`AgreementStays`).

Only model-checked: `EverySealIsClosed` (liveness).

**Weight sets** (`WeightSets_proofs`). For any number of presets, ids, kinds of
numbers and uploads. The inductive invariant adds to the properties what holds
between the statements: manual ids not given out are free
(`ManualIdsAreFresh`), no phone's set has a preset's id (`PresetsAreOurs`), a
job's set is stored and only an operator changes the active one while it runs
(`JobKnowsItsSet`), training publishes its own set or a learned one
(`FoundIsOurs`), and what is active is stored even while the boot is not done
(`ActiveIsStored`). They are needed because publication acts on a set read
earlier, and is safe only since `EnsureWeights` never overwrites.

| Theorem | States |
|---|---|
| `AlwaysOneActive` | `[]OneActive` |
| `TipsStayAttributable` | `[]TipsAreAttributable` |
| `IdsNeverChangeMeaning` | `StoredSetsNeverChange` |
| `ReportsAreBacked` | `[]ReportedSetIsStored` |
| `DeviceSetsStayOff` | `[]DeviceSetsEarnIt` |
| `PresetsNeverComeBack` | `[]PresetsStayRetired` |

`WeightsTyped` states `[]TypeOK`. For `PresetsStayRetired`, storing a preset or a
phone's set chooses nothing (`SeedingChoosesNothing`), so that what was chosen is in
force already when a boot asks whether it is outdated; and what training publishes or
an operator installs is never named like a preset (`PresetsApart`, from
`FoundIsOurs`).

`ImplementsTheRegister` is `Spec => KeepsTheRegister`, step by step: rows only grow,
so a stored id keeps its one meaning (`StoringMeans`); an insert is a name filed or
nothing (`InsertingFiles`); what becomes active is stored in the same step
(`ActivatingAdopts`); and a job rates with the set it read because that set is
stored for good. Deaths end the rating. It says in one statement what
`TipsStayAttributable` and `IdsNeverChangeMeaning` say apart, for behaviours.

**Exchange** (`ExchangeClient_proofs`). For any finite set of markets, any cap
on a book, any requests and at least as many tokens as can be held apart and
one more (`ExchangeAssumption`). The invariant `CallInv` accounts for every
market of the call at every step: in the first round it is still in a batch, or
its book has come, or it was left out, and then it was settled and not alone;
in the second it is still in a batch of its own or has come. Markets that
settle meanwhile (`open` shrinks) take nothing away, because what must have
prices is fixed when the call begins (`settled`). That a lone market is never
left out is the exchange's behaviour (`Answers`), and `AtMostOne` turns "not
alone" into the code's `len(marketIDs) > 1`.

| Theorem | States |
|---|---|
| `ExchangeTyped` | `[]TypeOK` |
| `CallsLoseNothing` | `[]NothingLost` |
| `NoLoginOnceLatched` | `LatchedForGood` |

`EveryCallReturns` and `SessionHeals` are liveness and model-checked only.

**Pipeline and scheduler** (`Timing_proofs`). For any set of calls, interval,
lateness below it, delays and policy, and for any start, seal window and slack. That
requests keep their distance is not inductive: it needs that slots given out and
not yet used are `Interval` apart from each other and from the next one, and that
what was sent went out no later than `Late` after its slot (timers are not
overdue when time passes). For the scheduler, the invariant says where the last
sealing is: no earlier than the plan under way when that has sealed already, and
otherwise at most `Slack + 1` minutes before it (`Sealed`), because the plan
before it sealed too, ran over by `Slack` at most, and was followed by the sleep
to the next minute (`Watch`).

| Theorem | States |
|---|---|
| `PipelineTyped`, `SchedulerTyped` | `[]PipelineTypeOK`, `[]SchedulerTypeOK` |
| `RequestsStayApart` | `RequestsKeepTheirDistance` |
| `ReadsAloneAreRepeated` | `[]OnlyReadsAreRepeated` |
| `EveryRaceIsWatched` | `NoRaceGoesOffUnseen` |

**Archive and matcher** (`ProviderData_proofs`). For any results, versions and
merges, and for any meetings and any distance. The figures are exact because what
is ingested or merged is disjoint, by race, from what was counted, and the
cardinality of a disjoint union is the sum. That names overrule cloths follows
pass by pass: the guard leaves the cloth pass nothing but own horses or
selections whose name is nobody's, of which there are none when all names are
spelled alike; the later passes then find the name itself at distance zero.

| Theorem | States |
|---|---|
| `ArchiveTyped`, `MatchingTyped` | `[]ArchiveTypeOK`, `[]MatchingTypeOK` |
| `CountedExactly` | `[]FiguresAreExact` |
| `EverythingIsJoinedOnce` | `[]JoinedOneToOne` |
| `NamesAreBelieved` | `[]NamesOverruleCloths` |
| `WindowsHoldTheNewest` | `[]RecentAreTheNewest` |
| `JoinedOnEvidence` | `[]OwnMarketOnly` |
| `NumbersSettle` | `[]ClothsSettleMisspellings` |
| `RecoveryTyped` | `[]RecoveryTypeOK` |
| `RecoveredIsRated` | `[]RetainedIsRated` |
| `NewSealsHaveTheirCard` | `[]NewSealsKeepTheirCard` |
| `RecoveryNamesItsSource` | `[]SourceIsKnown` |
| `CardsGiveTheirTip` | `[]CardGivesTheTip` |

That windows hold the newest needs them to be equal to the newest of all dated
runs counted (`WindowsAreCut`), since cutting what was cut before loses nothing more
(`CutTwice`, `BothCut`). That a race takes
another's market on names only is `PairedByName`: without the cloth pass, every
pair is within the distance. For `NumbersSettle` the cloth pass takes every
selection told by its number to its own runner, and in the last pass the own runner
proposes too (`OwnProposesToo`), so that what is left goes to it or to nobody.
`ClothsSettleMisspellings` was stated for more than the code does, and the proof
found it: of three horses named alike, with one withdrawn and no numbers, a
misspelt selection can be the nearest of the wrong runner alone, while its own runner
is tied and proposes nothing. Its hypothesis now asks that such a selection be nearer
to its own horse than any other not told by its number (`NearestOf`), and that the
market lists no horse twice. `MatchingAssumption` says that fields are finite, that
distances are natural numbers, and that equal names are at distance zero.

The last five are of `SealCardRecovery`, for any cards, ratings, clock, responses
and number of commands. None is inductive: a command acts on payloads, tip
and card read at three moments. `RecoveryInv` adds, of the server (`ServerInv`), that
a seal under way excludes a fetch, that the card it rated came before the instant it
began, and that a retained answer stays retained; and of a command (`ScanInv`),
that one which found a tip without a card follows a seal of the old release, and
that the response behind its card, if retained, is among those it read. The
latter holds because the command runs only once the server is the new release:
whatever an old server sealed and retained was there before it listed the
payloads. `Proven` over what was read is then `Proven` over what matters
(`RecoveredIsRated`).

Model-checked only: `EveryRequestReturns` (liveness).

**Phone** (`Phone_proofs`). Screens, for any number of tasks and any
freshness. The invariant adds that a load that has Racing to itself is of the
day picked (`Alone`), and that every card, in memory or under way, was read by
the server after its load began (`Dated`): memory dates a card by the instant
before the request, which is what makes `FreshIsRecent` true of late answers.

| Theorem | States |
|---|---|
| `ScreensTyped` | `[]TypeOK` |
| `AloneIsRight` | `[]AloneShowsTheDayPicked` |
| `MemoryIsRecent` | `FreshIsRecent` |
| `RecordTabTyped` | `[]RecordTypeOK` |
| `RecordAloneIsRight` | `[]AloneShowsTheSelected` |
| `RecordAloneGoesForward` | `AloneGoesForward` |

For the Record tab, `TabInv` says that while no loads cross there is one at
most, and it asks for the set selected (`TabAlone`); that an answer is of the set
asked for (`Answered`); and that no record, shown, saved or under way, is from the
future, nor the answer to a load alone older than what was applied (`Recorded`).
The last gives `RecordAloneGoesForward`: such a load is answered after the last
record was applied, by a record made no earlier than its request reached the server.

`EveryScreenSettles` (`ScreensSettle` and `RecordSettles`) is liveness and
model-checked only.

## 5. Plan

Done, in this order: the record (rules, store, the two jobs, imports, their
composition, the abstract record), the weight sets, the exchange, the request
pipeline and the scheduler, the archive and the matcher, the screens of the app
that show a card, the Record tab, the recovery of seal cards, and the abstract
register of weight sets. What would come next, the most important first:

| Module | Models | Properties and theorems to state |
|---|---|---|
| `PhoneRequests` | `HTTPClient.swift`, `RateLimiter.swift` and `RetryPolicy.swift` as `RacesServerClient` uses them | the promises of `HttpPipeline`, with an actor for the mutex |
| `AccuracyFigures` | `accuracy.go` | every sealed tip in one bucket; a figure never counts a draft |

Compositions: the passes of `Scheduler` under `EverySealIsClosed`, so that the
recurrence of passes is derived from the timetable instead of assumed; the
`Join`s of `Matching` as the books of `TipRecording`. Theorems still to be
written on modules already there: that `RecordService` keeps `AccuracyRecord` when
a phone's rows are allowed to count.

## 6. What is not modelled

- **Floating point**: rating, fitting, backtests and the arithmetic of accuracy
  figures are inputs or left out; TLC has no reals and no property above
  depends on a number, only on which one it is.
- **Formats**: JSON of the providers and of the API, migrations, the HTML page.
  Decoding leniently changes which answers arrive, and every answer the models
  need is an input already.
- **Read models** (`queries.go`, `record.go`, `racecard.go`, `monitoring.go`):
  they change nothing.
- **The other screens of the app** load one document each; those that share the
  loader and the Record tab are modelled. Midnight passing between a request and
  its answer is not (`RacecardLoader.swift:44` names the date, the server the day).
- **The phone's copies** in `RacesKit` of provider clients, Betfair session,
  ledger, archive and matcher: they are from before the server talked to the
  providers and kept the record. `BetfairClient.send` and `keepAliveIfNeeded` have
  no caller left but their tests, so that what calls of theirs would do to each
  other happens in no program. The server's are modelled. The phone's HTTP client is
  used, by `RacesServerClient`; what a screen sees of it is an answer or an error.
- **Inside a transaction**: SQLite's are taken to be atomic, and each is one
  action. What depends on it is shown by the slips that split one: `PublishPiecemeal`,
  `SealThenCard` and `CardThenSource` each break a property.
- **Keys and distances** of the matcher (`CourseKey`, `HorseKey`,
  `NameDistance`): which strings are equal or near is given by the instance.
- **Bodies cut at 32 MiB** (`httpx.go:341`): JSON that is cut does not parse and
  is a decoding error, which the models have.
- **The tables of the archive that are not a strike rate or a recent window**:
  `Ingest` and `Merge` treat them alike.
- **Old data** other than seals without a card: rows from before a migration.
- **The clock going backwards**, and two server processes on one file: the
  deployment runs one.
