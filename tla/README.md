# Ticket listing reviewer: TLA+ models, checks and proofs

The program (Python, one process, SQLite) watches ticket marketplaces for pairs
of tickets, estimates what a pair would resell for, keeps what it saw and what
it estimated in a database and pushes a notification to the user's phone when
an estimate is good enough. The user records what became of a listing. This
directory holds the specifications of its core, the model-checking instances
and the proofs. Paths below are relative to `src/ticket_reviewer/`.

## Inventory

| Component | Source | State | Operations | Hard behaviour |
|---|---|---|---|---|
| Keyed locks | `services/keyed_locks.py` | table key -> (lock, users), guard | `hold` | entry deleted while others look it up or wait |
| Alert delivery | `services/alerts.py` | alert rows, flights, active evaluations | `evaluate_and_send`, `reconcile_unattempted`, `test_notification` | crash between reservation, push and result; unknown outcome; overlapping evaluations; repeat rule over many snapshots |
| Alert and outcome tables | `data/repositories.py`, `data/schema.py` | alerts, outcomes, opportunities | `claim_delivery`, `mark_sent`, `mark_failed`, `latest_for_lineage`, `OutcomeRepository.save`, `save_estimate` | which record is the latest of a listing |
| Scan coordinator | `services/scanner.py` | run rows, one transaction per connector | `run`, `_run_connector` | partial failure at every step, isolation of connectors, replays |
| Application lifecycle | `main.py`, `bootstrap.py`, `services/instance_guard.py`, `services/scheduler.py` | guard file, clients, engine, scheduler | `lifespan`, `_cleanup`, `build_services`, `close` | start-up that fails half way, shutdown under a running scan |
| Event matching | `domain/matching.py`, `data/repositories.py` | events, source events | `_upsert_matched_event`, `_manual_event`, `upsert` | alike events that are not alike to each other, a known source whose game changes, a store between the look and the write |
| Scoring | `domain/scoring.py`, `comparables.py`, `pricing.py`, `eligibility.py` | none (pure), over the observations | `estimate_opportunity`, `select_comparables`, `weighted_quantile` | repeated and unusable reports, late clocks, ageing evidence, boundaries of the quantile |
| Connectors | `connectors/*.py`, `services/retry.py` | StubHub token, refresh in flight | `get_token`, `invalidate`, `fetch_observations` | refresh races, what a summary becomes |
| Manual reviews | `web/routes.py`, `services/ocr.py` | review rows, files | `manual_extract`, `manual_confirm`, `manual_delete`, purge | file against row, crash between them, ids that come back |
| Settings | `config.py`, `data/repositories.py` | setting rows | `update_settings`, `effective` | settings that change between scoring and alert |
| Dashboard, logging, migrations | `web/viewmodels.py`, `services/secure_logging.py`, `data/migrations` | none | read-only or run once | none |

In production three threads meet: the scheduler's thread runs one scan at a
time (`max_instances=1`), the event loop runs the POST handlers and the startup
pass, and a thread pool serves the pages and the notification test. The scan
thread and the event loop both call the alert service; they share the database,
the lineage locks and the flights of deliveries. The lifespan starts and stops
all of it under the instance guard. `PROJECT.json` lists the components again
with what is modelled of each, and under `hazards` the places of this code that
a test would hardly reach, with the properties aimed at them.

What makes each component correct:

- *Keyed locks*: mutual exclusion per key, nothing retained, no lost waiter.
- *Alert delivery*: one accepted push per fingerprint; the reservation before
  the push; a table that tells the truth; the repeat rule; terminal outcomes;
  the backlog is taken up after a restart; no deadlock between lock and flight.
- *Outcomes*: the user's last choice rules the listing, at the alert gate and for
  new snapshots; a sale finds the cost of its purchase.
- *Scans*: a run row describes exactly what was stored; nothing is scored twice
  or handed over before it is committed; a failure stays with its connector.
- *Lifecycle*: one application per database; nothing left open; no hang.
- *StubHub tokens*: one refresh at a time, waiters get its result, a rejected
  token is never tried again.
- *Event matching*: prices are only compared when their sources speak of the
  same game.
- *Scoring*: a promised profit that somebody still asks for, a percentile that is
  one, evidence that never gets better by waiting, cheap reports that do not raise
  a price.
- *Manual reviews*: one score per screenshot, a file for every row, no private
  file without a row unless something failed twice or the process died.
- *Settings*: no alert outside the promised limits, whatever is sent when.

## Plan

The order is by what is at stake: what may disturb the user or lose a
notification first, then what decides, then what feeds it.

| Step | Modules | State |
|---|---|---|
| 1 | `KeyedMutex`, `KeyedLocks`, `KeyedLocksProofs` | done |
| 2 | `AlertLedger`, `AlertDelivery`, `AlertDeliveryProofs` | done |
| 3 | `Scanner`, `ScannerProofs` | done |
| 4 | `Lifecycle`, `LifecycleProofs`, `Outcomes`, `OutcomesProofs` | done |
| 5 | `StubHubTokens`, `StubHubTokensProofs` | done |
| 6 | `EventStore` and `Matching`, `ManualReview` on top of them, `ManualReviewProofs` | done |
| 7 | `Rounding`, `Scoring`, `Quotes`, `Valuation` on top of them, `ValuationProofs` | done |
| 8 | proofs that `RepeatNeedsImprovement` holds for any number of snapshots, and what is proved of the percentile, the cheap reports and the limits for any number of rows | done |

Composition: `AlertDelivery` uses `KeyedMutex` for the lineage locks, and
`KeyedLocks` is shown to implement `KeyedMutex`; `AlertLedger` is what the user
is promised of one fingerprint, and `AlertDelivery` is shown to implement it.
`Scanner` ends where `AlertDelivery` begins: `Offer(o)` there is what fills
`todo` here, and the pass that picks up what a crash kept from being offered is
`ReadPage` to `Swept` here. What `Scanner` leaves open, under which event its
rows are filed and what its pairs are worth, is `EventStore` and `Valuation`;
`ManualReview` contains `EventStore` and steps the scan thread together with the
handlers, and its instance takes the relation of alike events from `Matching`.
`Valuation` ends with the numbers `AlertDelivery` rejects by. `Lifecycle` gives the order in which that pass, the
scans and the shutdown happen.

## Models and code

Every definition that models code is listed in `PROJECT.json` under `map` with
its lines.

**KeyedMutex** is the abstract lock table: owner per key, `Acquire`, `Release`.
**KeyedLocks** is `KeyedLockRegistry.hold`: the guard, the lookup, the join, the
lock of the entry, and on the way out the count and the deletion, each a step of
its own, because a thread switch can come between any two of them. `Entries` is
a finite pool from which a new entry is taken. Waking order is free.

**AlertLedger** is the life of one fingerprint: reserved, open (on its way or
unknown), delivered, retry, rejected, simulated, and when the provider may
accept it.
**AlertDelivery** follows `evaluate_and_send`: `pc` of a thread is the place in
the call chain `evaluate_and_send` - `_evaluate` - `_deliver`. Each transaction
is one step and each point between two transactions a state, so that other
threads, the provider, the user and a crash come in between. `row` is the alerts
table, `mark` the outcomes, `newer` the comparison of their stamps, `flight` the
single-flight table, `wire` the requests under way. A request stays on the wire
through a timeout, a crash and a restart, and may be taken later. The parts of
the policy that do not depend on these tables (age, budget, thresholds,
confidence) are a choice: action `Reject`. The fingerprint is a function of the
opportunity, so it is the opportunity. `reconcile_unattempted` is `Start`,
`ReadPage`, `ReconcileNext`, `Swept`, with its keyset cursor and its high-water
mark.

**Scanner** is `ScanCoordinator.run`: run rows, the collection, the transaction
(one step per event, and a rollback possible before each), the commit, the
hand-over. What a marketplace shows is any set of snapshots of its source; what
is scored and how is a choice.

**Lifecycle** is `lifespan`, `_cleanup`, `build_services`, `close` and the
instance guard, for several processes. Every step of start-up may fail. The
interpreter joins the scan thread before the process is gone (`Exit`).

**Outcomes** is `update_outcome` with `OutcomeRepository.save`, and the status
that `save_estimate` gives a new snapshot. `order` is the order of `updated_at`.
The alert service reads the listing's status with a query of its own in `_load`;
it is modelled on its own (`Gate`), from the rows, and not by `Standing`, the query
of `save_estimate`, so that `ChoiceRulesTheListing` compares the two.

**StubHubTokens** is `StubHubTokenProvider` with the requests of
`StubHubConnector`. What happens under the condition is one step. Today one scan
thread uses the connector; the provider is written for several and is checked
for several. A retry inside `call_with_retry` does not touch this state and is
part of the remote call.

**EventStore** is `EventRepository.upsert` with what its two callers do before
it. A report is looked at in one step (`Look`) and written in another (`Store`),
since SQLite takes its write lock at the first insert and the scan thread and the
event loop both store events. A collision with the unique identity of an event
rolls the writer back.
**Matching** is `event_match_score` in ten-thousandths; a name is the set of its
tokens.
**ManualReview** is `manual_extract`, `manual_confirm`, `manual_delete` and
`_purge_stale_reviews`: rows, files, ids as SQLite gives them, a failure of the
file system or the database at every step, a crash anywhere. The handlers wait
for nothing between their look at a row and their commit, so `pc` is one for all
of them; only the body of an upload is awaited.

**Scoring** is `estimate_opportunity` and what it calls, as operators: prices in
cents, `Decimal.quantize` as `RoundHalfUp` of **Rounding**. The sorted walk of
`weighted_quantile` is the first row in the order by price at which the weight
reaches 40 per cent; `QuantileIsAQuantile` compares it with the definition of a
percentile, which knows no order.
**Quotes** is what the three connectors make of a price summary. A source knows
the game by one id, so the id of the event is left out of what tells snapshots and
listings of a source apart.
**Valuation** lets the sources report, the time pass, the user change the
settings and pairs be scored, in any order; `Alerted` is the numerical part of
`AlertPolicy.decide` at a later moment. No connector of this version reports
single listings (`LISTING_DETAIL` is not among their capabilities), so the
confirmed listings of today come from manual reviews only; the scan and the
scoring are written for connectors that do, and the model has them.

## Runs

| Run | Instance | Properties |
|---|---|---|
| `keyed_locks` | 3 threads, 2 keys, 3 entries to take from | mutual exclusion, nothing retained, refinement of `KeyedMutex`, waiters get in |
| `delivery_overlap` | 2 threads, 2 snapshots of one listing, one of them confirmed again, all modes, terminal outcomes, pages of one | at most one acceptance, reservation first, true table, no waiting inside the lock, terminal outcomes stop pushes, refinement of `AlertLedger`; locks come back, the startup pass reaches the backlog |
| `delivery_history` | 3 snapshots whose profit is 5, 4, 6 with an improvement of 2, watch marks | repeat rule |
| `scanner` | 2 connectors, 2 pairs of different events, an aggregate, 4 run rows (2 scans) | run rows, scoring, hand-over; all is offered, a scan ends |
| `lifecycle` | 2 processes, 3 resources | one application, nothing left, no scan or push without the guard, no hang |
| `outcomes` | 3 snapshots of one listing, 1 of another, one cost | tables agree, a sale knows its cost, the last choice rules the listing at the gate and through scans |
| `tokens` | 3 threads, one request each, the third late, tokens that expire or are not reusable | waiters find their result, nothing is kept, a retry has a newer token, a new token is needed, requests end |
| `manual_review` | 3 uploads, 3 reports of which the middle one is alike to both others, one marketplace key, purges of two rows | one score per upload, rows have their files, files have their rows, reports are filed right, purges spare new and confirmed uploads |
| `scoring` | 3 rows out of 6 listing reports and 3 price summaries, 4 moments of 75 minutes, stamps up to 10 minutes ahead, 2 pairs, 2 submissions of settings | promises are backed by standing asks, the percentile, ageing, cheap reports, hard limits |

Three runs show a disagreement between the code and what the repository says:

- `delivery_watch_rule`: README.md:7 and :107 ask $20 of every repeat; a watch
  mark newer than the last alert lowers the baseline to the marked snapshot, also
  when its profit is below what was pushed already (alerts.py:919).
- `lifecycle_overlap`: README.md:95 promises one process per database; the guard
  is given back while a scan may still run (main.py:68).
- `manual_reuse`: the design (2026-08-07, :206 and :209) says that a newly
  discovered opportunity is alerted and only its own outcome stops that; the event and the listing of a review are named by its id
  (routes.py:1213), the id of a deleted last review is given out again, and the
  pair on the next screenshot inherits the outcome of the deleted one.

Worth knowing, though no line of the repository says otherwise:

- An outcome that a snapshot already has is not stamped again
  (repositories.py:582), so submitting it does not take the listing back from a
  newer choice on another snapshot.
- A crash between the file and the row of a screenshot leaves the file for good:
  the purge looks at rows. `FilesHaveTheirRows` leaves such files out (`strays` of
  `ManualReview`): it shows that there are no others.
- A collision of two writers of the same new game rolls one of them back; the
  next scan or a second confirmation succeeds.
- The price trend takes every stamp for a moment of its own, whatever its source,
  so a cheap marketplace that reports last looks like a decline.
- The third cheap listing may raise a price: it ends the haircut for sparse
  evidence. `CheapReportsNeverRaisePrices` is therefore about the percentile and
  not about what is left after the haircuts.
- A listing that is reported again at a lower price may raise the price of its
  marketplace: when the new report puts it in another section than the pair's, it
  weighs less than before. The attempt to prove `CheapReportsNeverRaisePrices`
  without that exception found it; the instance has such a report.
- Two reports of one game match up to nine hours apart, not the twelve of
  `_MAX_KICKOFF_DIFFERENCE`: the threshold is the tighter bound.
- An opponent whose name is punctuation only is like no other, itself included,
  so that a second report of its game would meet the unique identity of the
  first and fail. The form refuses such a name; a marketplace is not known to
  give one, and `AlikeAssumption` leaves it out.
- A scan reads the clock for its scoring once, after the collection
  (scanner.py:242); what is stamped more than five minutes later, by the other
  thread or before the clock was set back, is not fresh for it and hides nothing.
- A manual pair never has high confidence, and with sparse evidence it has low
  confidence and is not alerted.

Bounds, and why they are enough. Two threads are what production has for
evaluations; three are used where three roles meet (the leader, a waiter, a
newcomer). Opportunities act on each other only through their listing, and every
rule compares one opportunity with the others of its listing, so two of them show
each interaction of two evaluations; the repeat rule compares with the latest of
several, so it has three, with a profit that falls before it rises. Pages of one
make the startup pass move its cursor at every opportunity. Two scans let a
snapshot come back after success, failure and crash. Two processes are what the
guard is about. Three uploads and purges of two rows let a row wait for a second
purge, with two games stored at most (`MCBound`); ids come back as soon as the last
review is deleted. Three rows give the quantile a tie, an exact 40 per cent and a
replaced report; with four rows the run takes minutes and finds nothing else. Four
moments let a row pass through fresh, outdated and gone. `MaxRuns`, `MaxCalls`,
`PageSize`, `PurgeLimit`, `MaxRows`, `MaxNow` and the constraint `MCBound` are the
named bounds; crashes, retries and late arrivals have none. The StubHub
generations have no guard either: that they stay within twice the number of
requests is part of `TypeOK`, and proved.

`CHECK_DEADLOCK FALSE` is said only for `StubHubTokens`,
whose instance stops when the bounded requests are made.

Fairness. `AlertDelivery`, `Scanner` and `StubHubTokens` assume weak fairness of a thread's own steps: remote calls have timeouts, a
transaction commits or fails, a thread that can run does. Locks need no strong
fairness for what is claimed: that they come back, not that one waiter wins;
`WaitersGetIn` of `KeyedLocks` says that some waiter of a key gets in, not which.
`Lifecycle` takes the start-up as strongly fair: the startup pass may begin push
after push, but its backlog is finite, which that model does not count. Nothing is assumed of users, providers, crashes, or of who starts the
application.

## Proofs

TLAPS proves for every value of the constants:

- `KeyedLocksProofs`: `TypeCorrect`, `MutexHolds`, `NothingLeaks`,
  `RegistryImplementsMutex`. Two threads inside for one key share an entry,
  because the entry of a user stays in the table, because nobody deletes an entry
  whose count, the number of its users, is not zero. That chain is `IInv`; the
  count makes it need a finite set of threads.
- `AlertDeliveryProofs`: `TypeCorrect`, `NoDuplicatePush`, `ReservationFirst`,
  `TableTellsTheTruth`, `FlightsNeverBlock`, `TerminalOutcomeStopsPushes` and
  `DeliveryImplementsLedger`. `AtMostOnce` is not inductive: a claim is safe only
  if a row that may be claimed was never sent (`Told`), and what a thread knows
  between claim and result stays true only because it holds the lock of the
  listing (`Local`). `IInv` adds `TypeOK` and that a process that is down has no
  thread inside. `TerminalOutcomeStopsPushes` also needs that the standing a
  thread read cannot change while it holds the lock.
- `ScannerProofs`: `TypeCorrect`, `RunRowsTellTheTruth`, `EachSnapshotScoredOnce`,
  `OnlyCommittedIsOffered`, `SummaryTellsTheTruth`. A commit is right because its
  run row is still open (`OpenRun`), because what is stored belongs to runs that
  finished well (`Books`), and because the open transaction holds only snapshots
  that are not stored and scores each once, its event being processed once
  (`OpenTransaction`). The summary needs in addition that the connectors before
  the current one, and no other, are in the report and own the rows of this scan
  (`Turn`). `SummaryIsRight` is in no run; the proof covers it.
- `ValuationProofs`: `TypeCorrect`, `EvidenceOnlyGetsWorse`,
  `ThePercentileIsOne`, `CheapReportsKeepPricesDown`, `HardLimits`,
  `ProfitsAreBacked`. As a pair waits, rows only cease to be fresh and none
  becomes fresh that was not, so each ground for lowering the confidence stays,
  but for one: when no fresh comparable is left it is no longer outdated
  evidence but none at all, and that has two grounds of its own. What is said of
  the percentile rests on the weight of a set of rows, a fold over rows in an
  order that `CHOOSE` picks: that the recursion has a solution, and that the
  weight of a set is that of a part and of the rest, is shown by a least
  counterexample (`AllNumbers`, `AllSubsets`), since an induction theorem cannot
  be applied. The rows are taken by price and id, so the invariant is that ids
  tell rows apart (`RowIds`). `HardLimits` needs that the settings in force stay
  within their ranges and that an actionable pair has a best marketplace and a
  profit that is an amount (`ProfitKnown`).
  `ProfitsAreBacked` follows a profit back to a row: the percentile is the price
  of one, and no haircut, fee or rounding adds to it; and a later report of that
  row's listing would be as fresh as the row and hide it (`CountsAndStands`).
- `LifecycleProofs`: `TypeCorrect`, `OneAtATime`, `EverythingIsClosed`,
  `GuardBeforeWork`. The guard is held exactly while a process is in its
  application (`Guarded`), only a process that builds, serves or closes has open
  resources (`Held`), and the job of the scheduler is added, running and gone in
  step with the start-up and the shutdown (`Scheduled`).
- `OutcomesProofs`: `TypeCorrect`, `RowsAndSnapshotsAgree`, `SalesFindTheirCost`,
  `TheLastChoiceRules`. The order lists each written row once, so a listing has a
  latest one, and a row stamped again moves to the end past all others, which keep
  their order (`Stamped`). The gate's query and that of `save_estimate` find the
  same row (`GateReadsIt`, `StandingReadsIt`); where there is none they differ, and
  it takes the invariant `Untouched` that every snapshot is then still new.
- `StubHubTokensProofs`: `TypeCorrect`, `WaitersAreServed`, `TablesStaySmall`,
  `RetryIsNewer`, `TokensAreNeeded`. One thread leads a refresh (`Leader`), the
  count of a generation is the number of its waiters (`Counted`), a generation
  that is over has a result while it has waiters (`Found`), a cached token is the
  last one given (`Newest`), and what is cached, published or used is newer than
  what a caller had refused (`Newer`). The generations stay within their type
  because a caller spends at most two refreshes on a request (`Budget`).
- `ManualReviewProofs`: `TypeCorrect`, `EachUploadScoredOnce`,
  `NoRowWithoutItsFile`, `NoFileWithoutItsRow`, `GamesAreNotMixed`,
  `OnlyOldUploadsArePurged`. A row that is being deleted still counts while its
  file is (`Held`): so seen, rows and kept files correspond one to one (`Kept`), a
  staged row has no opportunity and a confirmed one its own (`Scored`), and ids
  stay within the number of uploads (`Counted`). A purge visits rows that were
  expired when it began, and their ids are not given out before it ends
  (`Visited`). A writer of events aims at an event its report is alike to
  (`Aimed`), whatever the other thread stored since. Two theorems are about the
  score itself: `MatchesAreClose` says what a match means, and
  `MatchingIsALikeness` that the relation the code computes is what `EventStore`
  assumes.
- `AlertDeliveryProofs` also has `RepeatsImprove`, which needs the history of a
  listing (`RInv`): the stamps order its records strictly, any two that were
  written, of which there are finitely many at any time, so that there is a latest
  one (`Strict`, `Total`, `Finite`); each alert that may have reached the user
  beats every earlier one of its listing or was followed by a mark (`Chain`); and
  what an evaluation chose on these grounds stays true to the push, because it
  holds the lock of the listing (`Chosen`).

Proofs corrected the models where a run had not: `CheapReportsNeverRaisePrices`
was too strong (above), an instance without games made `EventStore` meaningless
(`AlikeAssumption`), and the types of `ManualReview` and `StubHubTokens` left open
which rows a thread may hold.

They rest on the assumptions named in the modules, all of them on the shape of
the constants. What the models themselves assume: stamps strictly increase in the
order of the writes; a refusal (no connection, 429, 5xx, other answers outside
2xx) means the message was not accepted; closing a session after its commit does
not fail; shutting down a running scheduler does not fail; the interpreter joins
the scan thread; each StubHub token is a new one.

Every invariant and every action property of the passing runs is a theorem, and
so are the two refinements. Only model-checked: liveness (`WaitersGetIn`,
`SweepReachesBacklog`, `LocksComeBack`, `EverythingIsOffered`, `ScanEnds`,
`StartAndStopEnd`, `CallsEnd`), which is out of the prover's reach; the three
counterexamples. The models use no recursive operators.

## Not modelled

- The notification test (`test_notification`): its flight keeps nothing and its
  message says nothing of a listing. A press that meets a flight which is over and
  not closed yet is answered with its result, and nothing is sent for it.
- Retries of remote calls (`services/retry.py`), discovery and paging of the
  connectors: loops around one remote call without shared state, part of the
  remote step of each model. With the tries as steps of their own the `tokens` run
  leaves TLC's reach.
- Parsing of marketplace answers, text recognition and its parser, normalization
  of names, the wording of messages, the hash of a fingerprint, the reasons of an
  estimate, popularity: validation of data and formatting without state.
- Reading the environment at start-up.
- Dashboard and view models: read-only. Logging and migrations: run once, before
  anything else.
- `AlertRepository.record`, which has no caller.
- The path checks of the lock file and the host checks of requests: hardening
  without influence on the protocols.
