# TLA+ models of the market regime engine

The engine ingests market data from external providers into a bitemporal
PostgreSQL store, computes features and a score per domain (liquidity, leverage,
capital flows, market stress, volatility) and aggregates the scores into a regime
state per asset and day.  This directory models that system in TLA+, checks it
with TLC and proves the most important properties with TLAPS.

## The system

| Component | State | Operations | Hard part |
|---|---|---|---|
| store: `internal/storage`, `migrations/` | rows stamped `ingested_at = now()` | `InTx`, `InsertX` (with or without `ON CONFLICT DO NOTHING`), as-of reads | overlapping transactions; a stamp older than the commit; unique indexes |
| domain services: `internal/{liquidity,leverage,capitalflows,marketstress,volatility}` | raw, feature and score tables (no state in memory between runs) | `RunOnce`, `RunBackfill`: ingest the feeds, take a cutoff, compute layers of features and a score per day and asset, publish | what a read as of the cutoff sees of the run's own writes; failures in the middle; providers revising data; midnight |
| regime engine: `internal/regime` | `regime_states` | `RunOnce`, `RunBackfill`, `computeOne` | scores saved between its reads; smoothing chained over days; normalisation |
| outbox: `internal/outbox`, `internal/infra/postgres/outbox` | `outbox_events` | `Publish` | separate transaction from the data it announces; no consumer in the repository |
| backtest: `internal/backtest`, `cmd/backtest-*` | `backtest_runs`, replayed states, metrics | `Replay`, `Sweep` | data changing under a replay, runs left `running` |
| orchestrator and daemons: `cmd/orchestrator`, `cmd/regime-engine`, `cmd/*-service` | none | run the steps in order, every `tick_every` | overlap of two daemons, ticks longer than the period |
| market cap ingester: `cmd/ingest-mcap` | raw market caps | one-shot ingestion | runs beside the services that read its rows |
| backtest statistics: `internal/backtest/metrics.go`, `cmd/backtest-metrics` | none | persistence, lead times, drawdown, toy strategy over labels and prices | edges of one-pass loops, missing days and prices |
| HTTP client and provider clients: `pkg/httpclient`, `internal/repo/webapi`, `internal/providers`, `internal/infra/provider` | throttle time; cursor of a loop | fetch | a history in pages, from a provider with its own page size and its own reading of the cursor, that publishes meanwhile |
| gateway, web, configuration: `cmd/gateway`, `internal/api`, `web`, `internal/config` | none | reads | none: they change no state |

The components meet only in the database.  A service reads the rows of another
(the market cap, the Binance klines, the leverage basis, the domain scores) and
never waits for it.  Correctness is therefore about *which version of which row*
a computation sees: that it is the newest at the cutoff, that it can be found out
again later, that it was known at the time, and that it catches up in the end.

## Modules

| Module | Models |
|---|---|
| `AsOfStore` | the abstract store: rows are only added, a settled cutoff gets no more of them.  `Bitemporal` and `DomainService` implement it (`ImplementsStore`) |
| `Bitemporal` | the store at the level of transactions: `Begin` freezes `now()`, `Insert`, `InsertConflict` (primary key violated, batch rolled back), `InsertSkipped` (`ON CONFLICT` drops the row), `Commit`, `Rollback`, `ReadAsOf` |
| `Stages` | the vocabulary of the domain tables: feeds, the kinds of reads, alternatives |
| `DomainService` | the control all five services share, one action per transaction: `RunOnce`, `RunBackfill`, `IngestSave`, `IngestNothing`, `IngestFails`, `IngestPublish`, `TakeCutoff`, `ComputeStage`, `LoseFeature`, `EnterAssets`, `SaveScore`, `Announce`, `Abort`, and the outside world: `NextDay`, `Revise`, `ForeignIngest` |
| `Liquidity`, `Leverage`, `CapitalFlows`, `MarketStress`, `Volatility` | each service's feeds in order, its queries, its feature stages in order and the inputs of its score, under the names of the functions they translate |
| `ScoreStore` | the domain scores and the queries the engine and the backtest share: `GetLatestAll`, `GetDomainScoreOnDate`, `GetDomainScoreHistory` |
| `RegimeEngine` | `RunOnce` and `RunBackfill` of the engine; `computeOne` as `ReadScores` or `InsufficientCoverage`, `ReadHistory`, `ReadPast`, `ReadTrail`, `Save` or `SaveRejected`, `Publish`; `Fail`, `Crash`; `SaveDomainScore` by the services and `NextDay` at any time |
| `Backtest` | `Replay`: `CollectSnapshot`, `SaveRun`, per day and asset `ReadScores` or `InsufficientCoverage`, `ReadHistory`, `ReadPast`, `SaveState` or `SkipState`, `UpdateStatus`; `Sweep`: `SweepValue`, `SweepRow`, `CompleteSeed`; `ComputeMetrics`: `GetByRun`, `SaveMetrics`; an error path for each, `Crash`, and the live system beside them |
| `Programs` | the table of programs under `cmd/`: the services each runs, in order, and which services' rows a service reads |
| `Orchestrator` | programs run their steps: `StartDaemon`, `Command`, `TakeTick`, `BeginStep`, `DomainStep`, `RegimeStep`, `StepFailed`, `Crash`; `Revise` and `NextDay` at any time |
| `Aggregation` | the sums: `computeScore` of the five services and the engine's `redistributeWeights` and `weightedSumRaw`; inputs `Arrive` and `Drop` one by one |
| `RegimePipeline` | from the weighted sum to the saved state: clip, `computeTransitionRisk`, `emaSmooth` over `GetSmoothingTrailing`, `Validate`; `Compute` for any day up to today, again and in any order |
| `Classifier` | `ClassifyHysteresis` over the days of a replay (`NextDay`) |
| `Metrics` | `PersistenceMetrics`, `EventLeadTimes`, `maxDrawdown`, `ToyStrategy` and `forwardFillDaily` as functions of the days of a run and the prices, which `AddDay` adds one by one |
| `Pagination` | the loops over the pages of a history, one action per request: Binance (`FetchFundingRateHistory`, `FetchLiquidations`, `FetchKlines`, `FetchOpenInterest` in its two requests), Coinbase, Bybit, Coin Metrics, OKX, and the loops of the leverage service over CoinGlass; the provider may `Publish`, a request may `Fail` |
| `Bitemporal_proofs`, `DomainService_proofs`, `RegimeEngine_proofs`, `Backtest_proofs`, `Orchestrator_proofs`, `Classifier_proofs`, `Pagination_proofs` | theorems |
| `Maxima` | lemmas: a query that orders by a time and takes the first row finds one; a page of a history has a first and a last time; of numbers that qualify there is a least |
| `MC*` | TLC instances: an `MC` module of a domain puts its table and `DomainService` together, `MCServices` does so for the five domains at once and states what the proofs suppose of their tables (`TablesWellOrdered`, `TablesOnePath`, `TablesOneWindow`, `TablesRanked`), `MCPipelines` runs one of the four modules of arithmetic |

`Bitemporal` maps `rows` to its table and `settled` to the cutoffs up to `MaxNow` at which
no transaction can commit any more; `DomainService`, which commits one row per instant,
maps `rows` to its four tables and `settled` to all cutoffs up to now.  What a service assumes
of the database is thus what the database is shown to give, for settled cutoffs.
A row of a score or state carries the version of its program as a part of its primary key
(`SameVersion`), and the reads of these tables do not ask for it: `LatestUnique` promises them
one newest row per version only.
`RegimeEngine` and `Backtest` extend `ScoreStore`; the services meet the engine in
`Orchestrator`, which keeps of each run only what it reads and what it saves.

### Abstractions

- A value is its *provenance*: a feature is the set of raw samples (feed, day filed
  under, day observed, provider revision) behind its current observation, a regime
  state the score rows behind it.  The base of a comparison (`PctChange` against
  30 days ago) must exist but does not make a value newer.
- The arithmetic is apart, in `Aggregation`, `RegimePipeline`, `Classifier` and `Metrics`: numbers are
  integers in units of 0.01 or 0.0001, divisions round down.  Transcendental functions and
  z-scores are not computed: a squashed input is any value of `Values`, the tanh of the
  two z-scores of the transition risk any pair of `Tanhs`.  An input that is NaN is one
  that is not available, as the code's `IsNaN` guards have it.  Probabilities
  (products of the sigmoid and `1 - tr`), top drivers and `data_quality` are left out.
  `Metrics` computes with fractions, exactly.  The signal of `EventLeadTimes` is the
  set of dates on which it fires.
- One feed is one transaction, also where the code loops over assets, exchanges
  or pages (the loop over pages is `Pagination`); so is one set of per-domain queries of the engine.
- In `Pagination` a point is a time and, for liquidation orders, a side.  What a provider
  does is assumed from how the code uses it: pages ascend for Binance, Coin Metrics and
  Bybit's open interest and hold the newest points for the others; a page may be smaller than
  the limit asked for (`Caps`); the cursor of a descending loop is an upper bound as the loop has it,
  or `reversed`, a lower bound (OKX), or `ignored` by the provider (every loop whose requests depend on
  an earlier page).  A provider that ignores the two ends of a window is left out, and so are
  rows the code skips because they are too short.
- `Lag`, `Window` and `MinObs` are the same for all stages of an instance.  In the
  code each feature has its own; only their existence matters to the properties.
- In `DomainService`, `RegimeEngine` and `Backtest` every write takes one unit of time and the
  clocks of application and database agree, and all programs have one configuration, so
  no two rows of a key are equally new.  Overlapping transactions, late commits and rows of two
  configurations with one stamp are the subject of `Bitemporal`.
- An error that the code returns ends the run; one it logs skips a feed or a
  feature.  `MaxFaults` bounds how many happen; where they happen is free.
- `RegimePipeline` reads the newest state of each earlier day: which version a cutoff
  gives is the subject of `RegimeEngine`.  `Absent` leaves out inputs of a mean that
  are like others of it.
- `RegimeEngine` has one engine process, `Backtest` one runner.  Overlapping programs
  are the subject of `Orchestrator`.
- In `Orchestrator` a service's run is a read and a save, and data is the revision of
  the providers' data.  A live run scores the features that the last run has left, a
  backfill its own: the layers of features between the two are those of
  `DomainService`, which lengthen the lag without changing who overwrites whom.
- The ticker and its channel are merged into `TakeTick`: a tick is taken at any time
  after a run, for the date of that moment.  A program that is told to stop is one
  that crashes.
- In `Backtest` the queries of `gatherTransitionRiskInputs` are one step, and so are
  the metrics of one asset.  The hash of a snapshot is the snapshot.

### Correspondence of the state

`raws`, `feats`, `scores`, `states` and `events` are the tables; `at` is
`ingested_at`.  `mode`, `from`, `to`, `day`, `ai`, `idx`, `phase` (`pc`) are the
position of the running call in its loops, `cutoff` the local variable handed
down through `computeRange`, `mem` and `cur`, `hist`, `past`, `trail` the local
variables of `computeAssetDay` and `computeOne`; in `Bitemporal`, `buf` are the uncommitted
rows of a session and `txAt` is its `now()`.  In `Backtest`, `snap`, `run`, `seed`, `vi`, `cfg` are the local variables of `Replay` and
`Sweep`, and `cfg` also the field `engineCfg` that a sweep changes and restores; in
`Orchestrator`, `seen` is what a step has read.  `clean`, `streak`, `last`, `began` and `reads`
of the services and the engine, `reads` and `skipped` of `Bitemporal`, `did` and `alone` of the programs, and the fields
`cfg`, `began` and `ended` of a backtest run, `change` of `Classifier` and `norm` of a
state in `RegimePipeline` and `first` of `Pagination` are history that only properties read.
In `Pagination`, `cursor` is the local variable of that name (`beginParam`, `pageToken`, `end`), `pages`
the slice or map that is returned, with the page each point came on; `cap` and `reading` are the provider's.  A score or state row
also remembers the cutoff and mode of its run; the database does not.

## Runs

| Run | Shows |
|---|---|
| `store` | `LatestUnique`, `RawDeduped`, `SettledReadsRepeatable` for two sessions of programs with different configurations, a raw key and a score key, two payloads, three clock values, reads up to one unit into the future; the store is an as-of store (`ImplementsStore`) |
| `liquidity_faults` | two runs of any kind, one fault anywhere, midnight and revisions inside the ingestion: types; a backfill is up to date for every day it scores within its horizon (`BackfillConverges`), also where it outlives it; nothing goes back to older data (`FreshnessMonotone`); live scores can be replayed at their cutoff (`LiveReplayable`), no look-ahead, no event without its score, and the tables are an as-of store |
| `services_live` | liquidity, leverage, capital flows, market stress and volatility, of which each behaviour runs one, with the rows they read from others arriving in between: a score is up to date after four, three, four, three and four undisturbed ticks (`AllConverge`); one pass of a backfill is enough (`BackfillsConverge`); no input lies outside its window, be it a live snapshot of capital flows or the last observation before a gap of days (`InputsInWindow`) |
| `regime` | two assets, two days, two domains of which one is global, two runs of any kind, a fault, scores saved between any two transactions: a tick and a backfill leave current states, recomputing never goes back to older scores, inputs are of one cutoff |
| `backtest` | a replay or a sweep over two values and their metrics, two assets, two days, a fault anywhere, live scores and states saved between any two transactions: what is replayed is what was hashed; the values of a sweep, and any two replays of a settled day, rest on the same scores of the day and of the days it is compared with, and on the same history and raw series as long as nothing is saved that these, read without a cutoff, would show (`ReplaysAgree`); a completed seed has all its values, a completed run is final, commands end |
| `orchestrator` | two deployments, three domains: the two daemons of `deploy/docker-compose.yml` side by side, or the orchestrator's with an engine and a leverage command beside it; a domain service that always fails, a command, failed step or crash anywhere, one revision, one midnight: a run's data flows down its steps, the state becomes and stays current although two engines overwrite each other's states, the daemons keep computing the current day |
| `pipelines` | the default weights of every mode need no clipping (`ClipIdle`); one input that comes or goes moves a score by at most half its range (`OneInputBounded`); the engine's raw indicator stays between the scores it has (`MissingDomainsNeutral`); days in range are saved whatever became of the days before (`ModerateDaysSaved`); labels do not flip-flop (`NoFlipFlop`); the statistics are what their names say (`MetricsExact`: runs and flip-flops, lead times, filled prices, drawdown, the strategy under one label) |
| `pagination` | one call of each loop over any history: it ends (`Ends`), also when the provider reads the cursor the other way, and, but for the six loops that would not notice (observations), when it ignores it; without an error it has every point asked for (`Complete`), if the provider's pages are as large as the limit; if not, it is cut at one end only (`NoHoles`); nothing that a call returns is counted twice (`CountedOnce`) |
| `store_corrections`, `liquidity_outbox`, `pipeline_span`, `backtest_look_ahead` | statements of the repository's documents that the code does not keep, each with a counterexample (below) |

The bounds are small because the properties relate at most two runs, two versions
of a row, or a day and the one before: `Lag = 1` and `LastDay = 1` give a past
sample, `Window = 2` a series with a gap, `MaxRev = 1` a row with two versions,
`MaxRuns = Depth + 1` a full catch-up after an interference.  With `Depth - 1`
`AllConverge` fails in every domain, so the depths are exact: the longest
chain of features read from the store, plus one.  In `store` four rows are two
for each of the two keys, and one remembered read or skipped insert is enough since both properties
speak of one at a time; a feature key is a raw key that is not deduplicated.  Leverage is
faster than its longest chain of features since `computeAssetDay` hands the
daily values on in local variables.

In `backtest` a sweep of two values (three runs) is the shortest with a value to
compare and a value left to fail; `DayLen = 2` with `SLA = 1` puts scores on both sides of
a day's cutoff.  `MaxNow = 3` with `MinSamples = 1` lets a score that is saved between two replays
change the history of the second; the raw series would need further days to differ, and of
`ReplaysAgree` only the theorem says more about it.  `setup` in `Orchestrator` is what is deployed: daemons, commands that may be given, services that
always fail; the two daemons are checked with every service working and with leverage failing,
the daemon and its commands with any one service failing.  In `orchestrator` `MinCover = 2` of three domains lets one service fail
for ever; the three domains contain the two dependencies that point against and along
the order of the steps (leverage on capital flows, market stress on leverage).
`MaxEvents = 1` allows a command, a failure or a crash.

In `pipelines` inputs are at the ends of their range or missing, where a weighted sum is
extreme; three days, two of them before the last, and a span of 2 make a chain whose weights
are 1/3 and 2/3; the weighted sums lie in range, just beyond it (refused alone, saved
when smoothed) and beyond the clip; the classifier's values lie on both sides of each
threshold of `DefaultHysteresis`.

`Horizon` stands for the 24 hours a backfill's cutoff lies ahead: 15 writes in
`liquidity_faults`, so that a backfill of two days ends within it or passes it on its
way (without the exception for what is scored after it `BackfillConverges` fails there), and
out of reach in `services_live`.  Days that are left out need `LastDay = 2` and, for a
series, an observation two days old: the two `backfill` instances of `services_live`.

In `pagination` five times of six are in the range asked for, `Limit = 2` and `Caps` of 1 to 3 make
short, full and larger pages of up to three requests and more, windows of 2 have a border inside the
range, `MaxPages = 3` is fewer than a history may need, and `DayLen = 2` puts two values into a
day.  `MaxRepeats = 3` bounds the pages of the loops that do not notice an ignored cursor, and no others:
a loop that has taken a second page goes on for ever, so further pages show nothing new.  All histories within these bounds are initial states.

For `Metrics`, four days with gaps of one or two, three labels and prices 1, 2 and 4 or
none: runs of up to four days around `ShortRun = 1`, prices older and
younger than `maxGapDays = 1`, a rise and two falls.  Four days are the fewest with a flip-flop and a run
before and after it.

`CHECK_DEADLOCK FALSE`, where it is said: a bounded number of runs of a one-shot service
stops, and so does one call of a loop over pages.

### Fairness

The services, the engine and the arithmetic assume none: that ticks catch up is stated as a bounded
safety property (after `Depth` undisturbed ticks), which is stronger than an
eventuality.

- `Pagination`: weak fairness of `Step`.  A call is one goroutine whose requests return or
  fail (the client has a timeout).  Publishing is not fair, and a newer point is possible
  only up to `MaxTime`: only finitely much is published during a call, without which a loop that
  chases its provider need not end.  Loops over an ignored cursor that do not notice are exempt from `Ends`.
- `Backtest`: weak fairness of `RunnerStep`, the next transaction of the command
  under way.  The runner is one goroutine whose query returns or fails.
  Nothing is assumed of the live system, or of commands being started.
- `Orchestrator`: weak fairness of `Work(p)`, for the same reason, and because a
  `time.Ticker` fires again; weak fairness of `Restart(p)` for daemons, which
  `deploy/docker-compose.yml` runs with `restart: unless-stopped`.  Commands need not
  be given, revisions need not come, and crashes and failures are never fair.
  `Converges` is of a quiet end: the bounds on revisions, days and events end
  the disturbances, which is the hypothesis of the property.

### Disagreements with the documents

- `README.md` calls results "reproducible and point-in-time correct" by their
  ingestion timestamp.  What holds: reads at a *settled* cutoff are repeatable
  (proved), and a live score is reproduced at the cutoff of its run (proved), though
  not at its `ingested_at` (observations).
- "avoid look-ahead": holds for the features of every service whose feeds are
  dated (proved under `TimelyFeeds`).  But a replay normalises a day by a history without cutoff and upper bound, and compares it with
  raw indicators without cutoff (`backtest_look_ahead`).  What does hold of replays:
  the scores of the day itself and of the days it is compared with are those of
  the day's cutoff (`SnapshotFaithful`, `ReplaysAgree`), once that cutoff has passed.  Its history and raw
  series are not: two values of a sweep share them only while the live system saves
  nothing that belongs to them (the conditions of `ReplaysAgree`).
- "transactional outbox": data and event are two transactions (`liquidity_outbox`).
  The weaker `EventsFollowData` holds and is proved.
- `migrations/00001_init.sql` says that a different payload inserts a new row: not if the
  key has ever had that payload before.  In `store_corrections` a provider reports one value, corrects it and
  goes back to the first: that insert is dropped while the other value is the current one.
- `configs/regime-engine.yaml` says that a span of 0 disables smoothing: `Defaults`,
  which `NewService` calls, makes it 21 (`pipeline_span`).  A span of 1 does disable it.

### Observations

Met while modelling, with no document that says otherwise:

- A replay that dies, or whose status cannot be updated, stays `running` for ever:
  no code sets `failed`, and nothing cleans up.  `Sweep` saves its seed run before it
  looks at the parameter or the period, so a refused sweep leaves a `running` seed.
- `liquidity` and `leverage` come before `capital_flows`, whose market cap they read:
  live runs catch up at the next tick; a backfill by the orchestrator on an empty
  store computes them without that market cap, and needs a second pass.
- A backfill of a single day is a `RunOnce`, with the cutoff of one.
- The cutoff of a run is not stored.  A tick writes its features after its cutoff and
  before its score, so a replay at the score's own `ingested_at`, the only time that is
  stored, sees features that the score did not.
- The volatility service files live option snapshots under the requested day (feeds
  of kind `asked`), so a run of a past day scores it with values observed later.
- A day whose normalised indicator lies beyond [-1, 1] is clipped to [-2, 2] and then
  refused by `Validate`, unless smoothing brings it back: strong days are missing.
- The live EMA runs over states that are smoothed already.  A replay calls `EmaSmooth`
  without a trail, so it never smooths, and a sweep of `smoothing.span_days`
  compares equal runs.
- A weight configured as 0 is replaced by its default.
- The loops over Binance and Coin Metrics end at a page that is shorter than the limit or has no token: a
  provider whose own limit is smaller ends the history early, without an error.
  `FetchKlines` asks for 1500.
- `FetchLiquidations` loses orders of the millisecond at which a full page ends.  A forward
  loop that reaches the last millisecond but one with a full page leaves out a point at the end.
- Whether the loops over OKX and CoinGlass return more than the newest page depends on a
  provider that reads `begin`, `before` and `end_time` as upper bounds.
- Six loops do not compare a page with the last, and never end if the provider ignores their cursor or
  repeats a token while its page is one that asks for more: Binance's funding, liquidations and
  klines, the netflow of Coin Metrics, Bybit's open interest and OKX's funding
  (`internal/repo/webapi/okx/client.go:140`); the points they collect grow without bound.  Loops over windows, Binance's open interest,
  OKX's open interest and both loops over CoinGlass end whatever the provider does.
- Rows of `domain_scores` and `regime_states` may differ in `model_version` and `config_version` alone
  (`migrations/00001_init.sql:88`, `migrations/00009_regime_states.sql:24`), and no read of them
  asks for a version (`internal/storage/regime.go:55`, `:110`, `:274`); nor does
  `GetLatestLeverageFeatureAnyVersion` (`internal/storage/leverage.go:426`).  After a change
  of configuration the rows of both are read as one series, and if two programs of different
  configurations save with the same `now()`, which row is the newest is left to the database.
- `FetchOpenInterest` of Binance joins daily values in USD with a live value in contracts.
- Windows of Coinbase and Bybit share their borders, so a point there is returned twice; the
  dedupe index of its table drops it.  A window of 300 granularities has 301 candles.
- `waitThrottle` of the HTTP client checks and updates `lastRequest` in two critical sections.
  No program calls a client from two goroutines, so nothing depends on it.
- Days of one label on both sides of a gap are two runs: `PersistenceMetrics` counts a
  transition there, and may count a flip-flop, where the report says "reversed within 7d".
  `MetricsExact` claims that count for runs without gaps only.
- `maxDrawdown` of `ToyStrategy` starts after the first return, so a fall on the first day is
  not a drawdown.  The label of a day is applied to the return that ends on it.
- Leverage reads the open interest along two paths, its own value of the day and the last
  value of a series of its ratio to the market cap.  A later run that finds the ratio of an
  earlier day only can replace the day's own open interest by that older one.
- A score of market stress or volatility can rest on observations that are almost two windows old: a
  correlation falls back on an earlier day when a fetch of klines comes back empty,
  and the z-score of a later day on that correlation.
- A read as of a cutoff that is not settled can miss a row whose transaction has
  begun; only settled cutoffs are repeatable.

## Proofs

All theorems hold for every value of the constants that satisfies the assumption of the
module: any sessions and keys (`BitemporalAssumption`), any tables of feeds and stages
(`DomainAssumption`), any assets, domains and windows (`RegimeAssumption`,
`BacktestAssumption`), any programs and dependencies (`OrchestratorAssumption`), any
thresholds that pass `Validate` (`ClassifierAssumption`), any range, page sizes and
histories (`PaginationAssumption`), and any bounds.  What the
assumptions say beyond types, and why the code keeps it:

- `MinCover` of `Backtest` is at least 1: `Defaults` of `internal/regime/config.go` replaces
  a coverage of 0, and `cmd/backtest-runner/main.go` applies it.  With 0, a day without
  scores would be replayed and never hashed.
- `OrchestratorAssumption`: no program has one step twice.  The steps are the fixed list
  of `cmd/orchestrator/main.go`, or one.
- `PaginationAssumption`: the range is not empty and pages and windows are not of size 0.
  The page sizes and the length of a window are constants of the clients, and their loops
  (`for cursor < endMs`) make no request for a range that ends where it starts.

`Bitemporal_proofs`:

- `TypeCorrect`.
- `LatestIsUnique`, `RawIsDeduped`: inductive with the invariant that rows of open
  transactions carry their transaction's stamp, that no two rows, committed or
  buffered, in any session, agree on (key, `ingested_at`, version), nor raw rows on
  (key, payload).  A newest row is unique for raw tables and versions of features, and per
  version for scores and states.  The conflict checks alone are not inductive: the
  invariant has to speak about pairs of open transactions, which PostgreSQL's wait
  on a concurrent insert (`MustWait`) keeps apart.
- `SettledReadsAreRepeatable`: inductive with "a remembered settled cutoff stays
  below the clock and below the stamp of every open transaction", so no
  later commit can add a row under it.
- `StoreImplementsAsOf` (the refinement): a settled cutoff stays settled, since the clock
  only grows and a transaction begins at the clock (`SettledGrows`), and a commit adds only rows with the
  stamp of its transaction, which lies above every settled cutoff (`RowsGrow`).
- `SettledAnswersAreFinal`: a property of the abstract store, that a step only adds rows that no settled
  cutoff sees, carried over to this one by the refinement.

`DomainService_proofs`:

- `TypeCorrect`: with the loop bounds of `computeRange` and `computeDay`.
- `LiveScoresReplayable`: rows are only added, and with stamps after the clock; a live
  run's cutoff does not lie after the clock.  So reads as of any cutoff up to the clock
  never change, and neither do the inputs of a live score.
- `ServiceImplementsAsOf` (the refinement): each action adds rows stamped with the instant after
  the clock, or none.
- `ReadsAreFinal`: the same property of the abstract store, for the tables of a service, whose
  cutoffs up to the clock are all settled.
- `EventsComeAfterScores`: inductive with "in phase `announce` the score of the
  asset and day at hand is stored".
- `AllScoresReplayable`: what a live run or a backfill scored can be read back for ever as of its
  cutoff, or of the instant before the score if that is earlier.  For a backfill, whose cutoff lies
  in the future, that is the only time at which the same inputs are found again.
- `TimelyScoresDoNotLookAhead`: if no feed is of kind `asked` or `feature`, raw rows are
  observed on their day, features of day d rest on samples observed by d
  whatever the stage reads, so do local values and scores.

Four theorems depend on the tables of feeds and stages.  Their hypotheses are operators of
`DomainService`, and `MCServices` has TLC evaluate for each of the five services which of them
it satisfies:

| Hypothesis | Says | Satisfied by |
|---|---|---|
| `WellOrdered` | a stage reads features that earlier stages compute, and from local variables those computed from raw tables alone; no feature is computed twice; live snapshots are no features of a stage | all five |
| `OnePath` | two reads of a stage that can find samples of the same feed find them in the same row, and a series is of features whose samples are of one window | liquidity, capital flows, market stress |
| `OneWindow` | no feature is read through several windows | liquidity, capital flows, leverage |
| `Ranked` | a feature is ranked above those whose value of the day its stage reads from the table, and the highest rank is below `Depth` (values of earlier days, kind `past`, are of no rank: `Lag` is positive) | all five, with a `Depth` of 4, 3, 4, 3, 4 |

- `BackfillsConvergeInOnePass` (`WellOrdered`): a backfill reads as of a cutoff that has not come,
  so a stage sees what the stages before it have just written.  Inductive with two
  invariants that do not depend on it being a backfill: a stored feature can be
  computed again, since what its stage found can be found for ever (`RecomputableStep`, over `FoundHas` and
  `HasFound`), so a pass leaves no old feature standing; and raw
  rows are ordered as their revisions (`RawOrdered`).  Then, for an
  undisturbed pass: days ahead have no fresh feature to lose (`AheadStep`), features behind the loop
  are what their stage would find now, from the newest revisions (`PassFreshStep`), and so are the scores (`PassUpToDateStep`).
- `RecomputingIsMonotone` (`OnePath`): every stored feature was found at a time of its own, at which it can
  be found again (`FeatOrigins`, over `OriginView`).  Two versions of a feature are two such times, and
  a read at the later one never finds older samples (`OriginOrder`).  That needs the versions of
  other features to be ordered, too (`FeatOrdered`, by induction over the steps of the service),
  and `OnePath`: without it, one version may take a feed's sample
  from one of its reads and the next from the other.
- `OneWindowBoundsStaleness` (`OneWindow`): samples behind a feature of one window lie in the window
  of its day, those behind a daily feature on the day (`FeatRecent`).

- `TicksConverge` (`WellOrdered`, `Ranked`): a tick reads as of a cutoff before its own writes, so what a
  stage computes is a function of the tables as of that cutoff: local variables hold what the stages of raw
  tables alone give (`ValueOf`, `MemExactStep`, `StageIsValue`).  While nothing changes outside,
  a tick ingests only what is there (`Ingests`, `NothingNew`), so no raw row is younger than its
  cutoff (`RawsPast`).  What it stores is the value of the stage (`Computed`), and where there is none
  nothing is stored for the day (`NothingLeft`: what could be computed once can be computed again).
  So a tick settles the features whose reads were settled before it: their value as of its
  cutoff is what is stored already, and rests on the newest revisions (`Settling`, `Settled`,
  by the rank of the feature and the number of ticks).  After `Depth` ticks all features are settled
  since the tick before, whose values the last score has read (`TickScores`).

`RegimeEngine_proofs`:

- `TypeCorrect`.
- `PointInTime`: inductive with `Inputs`: what the computation under way has read are scores
  of its asset and day up to its cutoff, a tick's cutoff is its beginning, every saved
  state rests on such rows.  The raw indicators, which are read without a cutoff, are
  scores behind states of earlier days: the invariant has to speak about all states of the
  run under way (`StateRests`) to see that these scores lie within the cutoff, too.
- `RecomputedFresher`: inductive with `ReadsFresher`: what has been read since is at
  least as new as what is behind every state of that asset and day.  A newer score of a domain may
  only be missed if it is not visible at the cutoff; but then no state rests on it
  either, because it would have needed a later cutoff.  `NewestExists` of `Maxima` gives the row
  that a query takes.
- `TickLeavesCurrent`, `BackfillChains`: inductive with `CleanRun`: while nothing else
  writes, no score is younger than the run (`Undisturbed`), what was read is what a read
  would give now (`CleanReads`), and what is behind the run is current (`CleanStates`).
  Saving a state for a day leaves the smoothing windows of that day and of all days
  before it as they were (`TrailKept`), which is why the order of the days matters.
  `BackfillCurrent` speaks of backfills within `Horizon`: the cutoff is 24 hours after
  their beginning, and what they save later they do not read.

`Backtest_proofs`:

- `TypeCorrect`.
- `CompletedRunsFinal`: inductive with `CurrentRun`: the run that is written to is the one
  saved for the period under way, a replay, and still `running`.
- `HashFaithful`, `ReplaysRepeat`: inductive with `Faithful`.  For a period whose cutoffs had passed when
  `Replay` began, rows saved later are invisible, so all its reads give the rows of the
  cutoff (`ReadsSettled`, `ReplayedRest`), the snapshot has those of the days and assets behind
  the loop (`SnapshotTaken`), and the hash of a saved run those of its whole period
  (`HashComplete`).  The link between the two passes over the days is that
  both are over the same period, hence `CurrentRun`.  What is read without a cutoff is compared through
  the present (`Still`): if nothing that belongs to it has been saved since a run began, what the run read, however long
  ago, is what a read would give now (`ReadsStill`, `ReplayedStill`); so two runs read the same.
- `SweepsComplete`: inductive with `Progress`: each value before the one at hand has a
  run of its own that ended, and the configuration is the value's while it is replayed.

`Orchestrator_proofs`:

- `RunsFlowDown`: inductive with: a run that is alone has no other running program that scores
  beside it (`AloneKept`); what it has saved are the domains of its earlier steps
  (`DidEarlier`); these rows are still in the tables (`DidCurrent`), also after
  features were saved by a step that then failed; and what the step under way has read
  is what they hold (`SeenCurrent`).  Without `AloneKept` the tables could be
  overwritten, without `DidEarlier` the step itself could overwrite them.

`Classifier_proofs`:

- `TypeCorrect`, `LabelsDoNotFlipFlop`: inductive with "the values of the last change lie beyond
  the thresholds it crossed" (`Crossed`).  A return to the label before crosses the
  opposite threshold of the same pair, and `Validate` keeps the two of a pair apart.  The
  label alone says nothing about past values, so the invariant has to remember them.

`Pagination_proofs`:

- Lemmas about pages, for any finite history: its order is total (`Total`, `Ordered`), a page of the
  oldest points comes before all others, is all of them if it is not full, and is empty only if
  they are none (`OldestPage`; `NewestPage` for the newest).  Both are instances of one lemma about
  the first points of a set in any total order (`FirstPoints`).
- `NothingTwice`: inductive with `Counted`: the cursor is beyond every point returned (`Beyond`), or,
  where the provider reads it the other way or not at all, what was returned is taken out; so pages are
  disjoint (`Apart`).  The loops that take nothing out and do not notice that their cursor is ignored return
  nothing at all once they take a second page (`Looping`): the first one told them to go on, and
  so does every other, since points published meanwhile are newer and leave the oldest of
  the range, and the newest page as full, as they were (`OldestStays`, `FullStays`).  The pages of a loop over windows lie in consecutive windows
  (`WindowPages`), so that a point is on two only at a border.
- `CutAtOneEnd`: inductive with `AllAhead`: a point not yet returned is still ahead of the cursor, or is an
  order of the millisecond at which a page ended.  `Beyond` and `AllAhead` are the two
  halves: what is behind the cursor has been returned, what is ahead has not.  Over an ignored cursor
  every page of an ascending loop is the oldest of the range.
- `EndsComplete`: each reason to end leaves nothing ahead of the cursor.  Two of them
  need more: ten full pages of CoinGlass have all points if they hold no
  fewer than there are, hence the count in `Reading`; and a window can only lose a point to a full page if there are
  more points in it than it is long (`WindowFull`), hence `WindowsWhole`.

Only model-checked:

- By name: `AllConverge` and `BackfillsConverge`.  They are `LiveConverges` and `BackfillConverges` for the tables of
  five and of three services, whose hypotheses TLC evaluates (`TablesWellOrdered`, `TablesRanked`); the theorems
  `TicksConverge` and `BackfillsConvergeInOnePass` state them for any tables that satisfy these.
- Of `InputsInWindow`: that the last observation before a gap is no older than a window in market stress, which is
  not `OneWindow`, and that capital flows do not look ahead, although it has feeds of kind `feature`.
- Not claimed: `FreshnessMonotone` of leverage, `StalenessBounded` of market stress with failing
  fetches and of volatility, which do not hold (observations), and `FreshnessMonotone` of volatility,
  which is not `OnePath`: the series of its spread reaches back through a second window.
- The arithmetic (`ClipIdle`, `OneInputBounded`, `MissingDomainsNeutral`, `ModerateDaysSaved`, `MetricsExact`): sums
  and averages over sequences need induction over data, which is beyond the prover.
- `Converges`, `KeepsTicking`, `CommandEnds`, `Ends`: liveness under fairness is
  beyond it, too.

## Not modelled

- Clients of one request (CoinGlass, Deribit, DefiLlama and others), configuration, gateway and
  web are I/O, decoding or read-only.
- Of the statistics: forward returns and their bootstrap, and whatever is annualised or in
  logarithms.
- The arithmetic of the features (`pipeline.go` and `features/` of the domains): floating
  point and transcendental.
- The contents of the configuration: that `liquidity.yaml` may change under one
  `config_version` is listed as a hazard without a property.
- `-klines-only` of the market stress service.

## Plan

1. All six steps in `Orchestrator`, and `-klines-only`.
