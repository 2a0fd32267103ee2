# PortfolioEngine: specifications

TLA+ specifications of the PortfolioEngine services, the TLC runs that check
them on small instances, and proofs for every instance that TLAPS checks.
Paths below are relative to the repository (`ingestion/main.go` is
`src/ingestion/main.go` in `PROJECT.json`).

    tlc -config Portfolio.cfg MCPortfolioEngine.tla
    tlapm PortfolioEngine_proofs.tla

`PROJECT.json` lists the runs, which definition stands for which lines of the
code (`map`), the hazards the properties are aimed at, and for every property a
plausible bug (`mutants`; the operators commented "Mistake" in the modules)
that makes it fail.

## 1. The system

Five services, a Redis server and a TimescaleDB database. Services never call
each other: they meet in two Redis streams, one Redis key and six tables.

| part | state | operations | talks to |
|---|---|---|---|
| **Ingestion** (Go) `ingestion/` | WebSocket connection; the backfill goroutine's place; nothing persistent of its own | dial, start the backfill, read frames for ever; the backfill fetches each symbol's history with retries, pushes it row by row and writes `backfill_status` | exchange (WebSocket, REST) -> `kline_stream`, `backfill_status` |
| **Feature engineering** (Python) `feature_engineering/` | position in the stream and one ring buffer per symbol, both in memory only | XREAD; per message: insert the price, push the buffer, insert a feature row | `kline_stream` -> `prices`, `features` |
| **Forecasting** (Python) `forecasting/` | dictionary of models under a lock, two threads | wait for data; train all symbols and sleep; forecast rows without one, label old forecasts, rolling losses | `prices`, `features`, `backfill_status` -> `forecasts`, `model_metrics` |
| **Portfolio engine** (Python) `portfolio_engine/` | `next_rebalance_at` | wait for data; once a day read prices, forecasts and the last row, compute weights and P&L, write a row, publish it | `prices`, `forecasts` -> `portfolio_state`, `portfolio_state_stream`, `PORTFOLIO_LATEST_KEY` |
| **API gateway** (Go) `api_gateway/` | map of clients and its lock, a counter, two stream positions | a handler and a reader goroutine per connection, a goroutine that forwards stream entries, one that repeats the latest portfolio; REST queries | both streams, the key, the tables -> WebSocket clients |

What makes the system hard:

* **Two producers, one stream.** History (REST) and live candles (WebSocket) are
  pushed concurrently, and each restart pushes history again. Whether the seam has
  a hole depends on when the socket was opened and which `endTime` was asked for.
* **At-least-once with an in-memory position.** Feature engineering reads the
  stream from "0" after each restart, into tables with ON CONFLICT DO NOTHING and
  ring buffers without.
* **Failures that are logged and skipped**: an XADD, a status write, a training, a
  rebalance. What must still hold afterwards is nowhere written down. Some of them are
  for good: the Python services never open a second database connection.
* **A day is a transaction over three stores** (table, stream, key), any step of
  which may fail or be the last before a crash.
* **Threads**: trainer and inference share the models; broadcasters, handlers and
  readers share connections and one read-write lock.
* **Waiting by polling tables** that other services fill, and sometimes create.

What makes each part correct:

* ingestion: no candle lost at the seam, only closed candles, a final status for
  each symbol, one goroutine never holding up the other;
* feature engineering: whatever was read is stored; a feature row is computed from
  the candles its time says;
* forecasting: labels span the window they claim, losses are the newest, every valid
  row gets a forecast, every symbol with data a model;
* portfolio engine: one row per scheduled time, rows form a chain, no price move is
  counted twice, nothing is published that was not committed;
* the allocator: weights are long only, a whole, and within the cap where that can be
  promised; projection keeps the order of preferences and ends by itself;
* gateway: metrics are those of the newest rows; clients end up with the portfolio the
  key holds, entries are forwarded once and in order, the counter is right, nothing
  deadlocks, nothing is leaked;
* all: services do not wait in a circle, and run only on the data they waited for.

## 2. Modules

| module | models | code |
|---|---|---|
| `RedisStream` | a stream: append with approximate MAXLEN, read after an id (external: from how XADD and XREAD are used) | `ingestion/main.go`, `feature_engineering/main.py` |
| `KlineIngestion` | main loop, backfill goroutine, exchange | `ingestion/main.go`, `backfill.go`, `types.go` |
| `RetryableGet` | the HTTP helper and its caller's loop | `ingestion/httpclient.go` |
| `IngestionProcess` | `KlineIngestion` whose history requests go through `RetryableGet` | `ingestion/*.go` |
| `FeaturePipeline` | any number of instances of feature engineering | `feature_engineering/*.py` |
| `CandleStore` | abstract: what the tables `prices` and `features` promise | -- |
| `MarketPipeline` | `KlineIngestion` and `FeaturePipeline` over one stream | both |
| `ForecastingService` | the two threads and what they share | `forecasting/*.py` |
| `PortfolioEngine` | the daily rebalance with its failures | `portfolio_engine/main.py`, `db.py` |
| `PortfolioLedger` | abstract: an append-only ledger of rows that continue one another | -- |
| `Allocator` | from an optimiser's step and volatilities to the new weights | `portfolio_engine/allocator.py`, `main.py` |
| `VolatilityModels` | a symbol's two models from training to a forecast row | `forecasting/models/`, `train.py`, `inference.py` |
| `RiskMetrics` | a request for the equity curve or the risk metrics | `api_gateway/main.go` |
| `Calculations` | these three side by side; they share nothing while they run | -- |
| `ClientRegistry` | goroutines, lock, map and counter of the WebSocket side | `api_gateway/main.go` |
| `EventFeed` | what clients are sent, and in which order | `api_gateway/main.go` |
| `Startup` | connecting, creating tables and waiting, of all services | `infra/docker-compose.yml`, the `wait_for_*` and `connect` functions |
| `*_proofs` | theorems | |
| `MC*` | values for constants that a `.cfg` cannot write (sequences, negative numbers) | |

How state and actions correspond to the code:

* **`KlineIngestion`.** `pc` is the place of `main()`; `bf` is the goroutine: the
  index in `symbols`, and the rows still to push; `ws` is what ReadMessage has not
  returned yet. `BeginSymbol`, `FetchOk`/`FetchFailed`/`ParseError`, `PushRow`,
  `MarkDone`, `GiveUp` are the statements of `backfillHistorical`; a candle is its
  symbol and minute, prices and volumes play no part. `signalling` says whether
  `TIMESCALEDB_DSN` is set: without it `pg` is nil, `setBackfillStatus` writes nothing and
  reports no error, and every status stays absent. `lost`, `covered` and `glitch` are
  history variables: what was logged as failed, and which rows an answered request
  covered.
* **`RetryableGet`.** One action for the loop's head with its sleep, one for the
  request with the switch on its answer. Durations are in units of 200 ms. Any answer may
  carry a Retry-After, in seconds or as a date. `heard` and `asked` are history variables:
  the header of the last answer, and for how much longer it wants silence, whether or not
  the helper looks at it; `Heeded` says when it does.
* **`IngestionProcess`.** `Get` is `retryableGet` at work, attempt by attempt and sleep
  by sleep; only when it has returned does `KlineIngestion`'s `FetchOk`, `FetchFailed`
  or `ParseError` happen. `endTime` was fixed before the first attempt, and all the
  while minutes pass, live frames are read, and the process may die.
* **`FeaturePipeline`.** An XREAD, the handling of a message up to the price, and
  the insert of features are separate steps; a crash fits between any two. A
  feature row is its key and the candles its longest window was computed from, so
  that "computed from the wrong candles" is visible. The stream takes any candle at any
  time: late, twice, with holes; trimming asks nobody, and `skipped` records what an
  instance lost by it. `Sorted` is the sort in `_buffer_to_df`, candle by candle
  (`Place`).
* **`ForecastingService`.** A model is its mode (none, GARCH, both), a label the
  closes it was computed from. `trainer` and `forecaster` are the two threads;
  `trainer.new` is what `train_models` has built so far, `forecaster.snapshot` the
  copy of the dictionary. Prices and features arrive in any order. `lost` are the threads
  whose one connection is gone: from then on every query of theirs fails (`Refused`).
  `SleepFor` decides how long the trainer sleeps; a short sleep ends, a day's need not
  (`DayOver` has no fairness), so that choosing wrongly is visible. `missed` is history:
  candles that came after a label had been computed across their place.
* **`PortfolioEngine`.** `_run_rebalance` is `Begin` (now_utc), `Compute` (reads
  and arithmetic), `Insert`, `PublishStream`, `PublishKey`; `Fail` is an exception
  anywhere in it, `Reschedule` the code after `except`. `LoseConnection` is for good:
  the connection is opened once, and every later rebalance is refused (`Refused`) until
  the process is started again. Weights are abstracted to
  the net return of a period, any number of `Returns`.
* **`Allocator`.** Weights are integers, `Unit` being 1.0. `Project` is the first clip
  of `_project_weights`, each `Spread` one round of its loop, `Return` its end with the
  normalisation; `Ascend` is the last step of the gradient ascent, which starts from any
  weights and moves each by at most `MaxMove`, in place of the gradient's value;
  `Diverge` is a NaN; `Combine` takes the mean of both weightings, or only one. `Grain`
  makes every division exact: a round that could not divide would be a deadlock, and
  the run checks for deadlocks.
* **`VolatilityModels`.** `TooShort` to `FallBack` are `GARCHModel.fit`, return by
  return; `Predictions` is everything `predict` may come to. A volatility is zero or
  positive, a variance negative, zero or positive.
* **`RiskMetrics`.** Rows are read one by one, newest first, as the cursor yields them;
  `EndOfRows` may come early, because `rows.Err` is not asked. `ScanRow` is the body of the
  loop. A quotient is a pair of integers, compared by cross-multiplication. The same loop
  is in the code twice, in `handleRiskMetrics` and `computeRiskMetrics`.
* **`ClientRegistry`.** A handler goroutine is named like its connection. What is
  done between Lock and Unlock is one step; a waiting Lock keeps new readers out, as
  `sync.RWMutex` does. `writing` is the set of WriteJSON calls under way, `clashed` those
  that met another on the same connection. Such a call may panic: in a handler gin
  recovers and the deferred `unregisterClient` runs (`GreetPanics`), in a broadcaster
  nothing does and the gateway is gone (`Crash`).
* **`EventFeed`.** Entries and rows are numbered; "$" is resolved when XREAD is called.
  `engine` is the portfolio engine between its row, its XADD and its SET; it may give up
  at each (`GiveUp`), so not every row becomes an entry, and the key may stay behind.
  Registration and locking are `ClientRegistry`'s matter, so broadcasting one
  message is one step here.
* **`Startup`.** Each service's `main()` up to its loop is a path of stages; a
  stage is passed, or the service exits. What running services do is reduced to
  rows others wait for. A backfill that got an answer is marked done however many rows
  it brought (`Publishes`); one that failed, or whose answer was no JSON, is `spoiled`.
  `fetched`, `spoiled` and `orphans` are history.

## 3. Runs

Each checks all its properties in at most a few minutes. Bounds are the smallest
at which the situation a property is about can arise, with one to spare where
that was affordable; every mutant fails within them, which shows that the
situations do arise.

| run | shows | bounds |
|---|---|---|
| `ingestion` | `NoGap`: from the first row of an answered history request on, each candle sent is in the stream, on its way, or logged as lost, however long the helper retried. `SettledUnlessGlitch`: when signalling is on, only a failed status write or a bad answer leaves a symbol unsettled. `RequestsBounded`, `RetryAfterHonoured`, `WaitsBounded`: within a call the helper keeps to its limits, to the Retry-After it looks at, and to its own back-off after all other answers. `BackfillEnds`, `LiveDrained`: neither goroutine waits for the other | two symbols (so two calls), one fault, 2 minutes, history of 2 rows: the seam falls before, in and after a request; one retry, back-off from 2 up to a cap of 3, and a Retry-After of 5, above the cap, in seconds or as a date, on any answer; DSN set or not |
| `features` | `FeatureWindow`: while the stream is in order and no running instance is overtaken by trimming, rows come from the consecutive candles up to their time, in spite of crashes, replays of a trimmed stream and a second instance. `ReadIsStored`: nothing read is missing, whatever the order. `CatchesUp`: an instance gets to the end of the stream again and again | 2 instances, one crash, 4 entries of any of 3 candles, MAXLEN 2 (so unread entries are trimmed), window of 2 closes, buffer of 3 |
| `market` | the composition, while the stream keeps its entries: `NoCandleMissing` end to end, `DoneAfterHistory` (a status of done means that the whole history was offered), `FeaturesRightInOrder`, `StoreSpec` (the tables implement `CandleStore`) | 2 starts of ingestion, one crash of feature engineering, 3 minutes |
| `market_row_at_wrong_time` | *violation*, see 6 | 3 minutes |
| `portfolio` | `OncePerSlot`, `NoMoveCountedTwice`, `PublishedIsCommitted`, `LedgerSpec` (implements `PortfolioLedger`), `EverySlotAnswered`: each scheduled minute that finds the engine waiting is answered by a row, if its connection survived the last fault | days of 3 minutes, 2 scheduled times, 2 faults (a failed step, a connection lost for good, a crash), returns -200 %, 0, +100 %: equity is cut off at zero and recovers. *Hypothetical in one point*: a driver that takes the weights (`AdaptsDict`), which psycopg 3 does not |
| `portfolio_no_row` | *violation*, see 6 | no fault |
| `forecasting` | `LabelSpansWindow`: a label spans its window unless a candle was missing when it was computed. `LossesFromNewest`. `EventuallyForecast`: valid rows are forecast, unless as many older ones as the query's LIMIT never can be, or the connection is lost. `EventuallyModelled`: a symbol with enough data gets its model by a quick retry, not a day later | two symbols (one with a model while the other has none), 3 minutes in any order, 4 rows, two holes or rows with NULLs, one failing call or lost connection; a LIMIT of 1, so that two rows take two passes and one row with NULLs starves the next |
| `registry` | `CounterMatches`, `NoWriteAfterClose`; `GoneIsCleanedUp` and `BroadcastEnds`, unless two writes to one connection have met and the gateway has died of it | 2 connections, the 2 broadcasters of the code |
| `feed` | `EventsConsecutive`; `ViewStays`: a client ends up with the portfolio the key holds | one client, 2 candles, 3 rows (one may be lost before the stream, one before the key, one be published), one failed call, XREAD of 1 |
| `feed_state_missed` | *violation*, see 6 | 2 states |
| `calculations` | `Constrained`: results are long only, a whole, and within the cap where `SmallMove` or `AllShare` say so. `OrderKept`, `FewRounds`: projection keeps the order of what it is given and needs no more rounds than there are weights, so that its limit of 200 never ends it. `DrawdownIsWorst`: of all pairs of rows. `ReturnsOfAdjacent`: every return is that of a row and the positive one right before it, zeros and NULLs included, up to the table's newest row. `VolatilityKnown`: fits that fail cost no forecast | 3 assets, weights in tenths, a cap of 0.4 (two weights at the cap leave something over; with the default 0.6 the results are the same), moves up to 0.2; up to 5 rows with equities 0 to 3 and NULL, limits below, at and above the number of rows; all outcomes of two fits |
| `startup` | `RunsOnData`: a service that runs has the data it waited for. `AllRun`: in an undisturbed start, however short the answers, each service ends up running, unless it, or one it waits for, asked for a table before anybody had created it | one symbol, an answer of 0 to 2 rows, 3 candles before the portfolio engine goes on, 2 before forecasting does; two attempts to connect, one failed backfill, one outage or death of a service, one service started again |

Deadlock is checked only in `forecasting`, whose inference polls for ever, and in
`calculations`, where a next rebalance, training or request always follows. The other
models may stop: their clock, candles, starts or calls are bounded, and when the
bounds are used up and every process waits there is no step left.

**Bounds by name.** `Horizon` (minutes, candles), `MaxRuns`, `MaxRelaunches`,
`MaxCrashes`, `MaxFaults`, `MaxErrors`, `MaxTroubles`, `MaxFailed`, `MaxFlaws` (how often
something goes wrong or is started again), `MaxUpdates` (frames of an open candle queued),
`MaxRows`, `MaxEntries`, `MaxKlines`, `MaxStates` (rows and entries), `MaxMove` (of a
weight in one ascent).

**Premises and assumptions about the environment.** `FeatureWindow` has two premises, and
the model allows both to fail: `Unbroken` (each symbol's candles one after the other, every
one once) and `NoneSkipped` (no running instance was overtaken by trimming). `MarketPipeline`
says what it says end to end of a stream that still has its first entry (`Untrimmed`).
`Prompt` in `PortfolioEngine`: a rebalance ends within a day. `AdaptsDict`: whether the
database driver turns a Python dict into JSONB. psycopg 3, which `requirements.txt` asks
for, does not by itself, so of the two branches of `Insert` today's build takes only the
refusal; the run `portfolio` and the proofs about rows show what the code would do once
inserts succeed.

**Fairness.** Weak fairness on the steps of running goroutines, threads and
processes: the Go and Python schedulers run them, HTTP calls, reads, writes and
pings have deadlines, sleeps end -- but for the trainer's sleep of a day, so that
`EventuallyModelled` means minutes. None on starting a dead process again, on frames
from the exchange, on connecting clients, on failures, on the engine's publishing what it
has written (`EventFeed`), nor on `Cast` (a broadcast begins only when there is something
to say). `Startup` adds that the database comes back, that the exchange closes a candle
every minute and that running services do their work; `PortfolioEngine`, that the clock
ticks.

## 4. Proofs

`tlapm` checks all of them; nothing is assumed but the constants' assumptions named
in the modules.

**`PortfolioEngine_proofs`** -- for every length of the day, scheduled time, set of
returns, number of faults (lost connections included) and horizon, and for both values of
`AdaptsDict`: `TypeOK`, `OncePerSlot`, `LedgerChain` (each row continues the one before;
the refinement says so, too), `NoMoveCountedTwice`, `PublishedIsCommitted`,
`LatestKeyCurrent`, and that `Spec` implements `PortfolioLedger` (`LedgerSpec`). With
`AdaptsDict` false they are true because no row is ever written.

None of these is inductive: each says something of rows in the table, and a step
can break it only by inserting a row made several steps earlier. `IInv` therefore
relates the row being made (`draft`) to the table while it is made:

* `Scheduled`: all rows belong to scheduled times before `next_at` (idle) and before
  `draft.time` (while a row is made), so `draft` gets a slot of its own. This
  survives a crash because `Ready` computes the next time from a clock no row is
  ahead of (`Clock`), and `NextRebalance` is monotonic (`NextRebalanceMonotonic`,
  which needs the arithmetic of `%`: lemmas `DayOfMinute` to `DaysApart`);
* `Continued`: once computed, `draft` continues the newest row; `Priced`: rows end
  with a candle that was there at the time, which is why a later look-up at the
  same time cannot give an earlier candle;
* `Committed`: between insert and publication `draft` is in the table and newer
  than the stream's entries; `KeyFollows`: without faults, key and table agree.

There is one lemma per action; `InsertAppends` (the upsert never replaces a row: it
adds a newest one) and `InsertAdjacent` (it makes one new pair of neighbours) carry
the weight. The refinement follows from `InsertExtends`: only inserting changes the
table, and it extends the ledger.

**`ClientRegistry_proofs`** -- for any finite set of connections and any
broadcasters, writes that meet and panics included: `TypeOK`, `CounterMatches`,
`NoWriteAfterClose`. `IInv` adds `Held`
(what a broadcaster that holds the read lock has left to write to is registered),
`Fresh` (a connection that never was registered is known to nobody) and `Apart`. Who
unregisters a client first counts it down; cardinalities come from
`FiniteSetTheorems`.

**`MarketPipeline_proofs`** -- the way of a candle, in four steps.

* The helper (`RetryableGet`), for any limits and any header on any answer: `TypeOK`,
  `RequestsBounded`, `RetryAfterHonoured`, `WaitsBounded`. `RInv` adds that the number
  of requests follows the attempt, and that the next sleep covers what a header the helper
  looks at asked for. What it does after headers it ignores is in `WaitsBounded`.
* Ingestion's two goroutines, for any list of symbols without repetition, any limit,
  horizon, trimming and number of restarts and faults, with a DSN and without: `ITypeOK`,
  `NoGap`, `SettledUnlessGlitch` (which claims nothing without a DSN), `DoneAfterHistory`.
  `NoGap` is not inductive: it speaks of rows that have been fetched and of frames the
  socket still holds. `KInv` therefore says where every candle is: the exchange has sent
  nothing ahead of its clock (`SentInTime`); each candle it sent from a request's
  `endTime` on is queued in the socket, in the stream, or logged as lost (`Seam`: the
  socket is open before `endTime` is taken); so are the rows of an answer up to the one to
  push next (`Pushed`); the goroutine is at a symbol, and those it has passed are settled
  but for a glitch (`Started`, `AtSymbol`, `Walked`).
* Both together (`IngestionProcess`): every step is one of the helper's or one of
  ingestion's, and leaves the other's invariant alone.
* The composition with feature engineering (`MarketPipeline`): `NoCandleMissing`,
  `FeaturesRightInOrder`, `DoneAfterHistory`, `StoreSpec`. `MInv` joins `KInv` with as
  much of `FeaturePipeline`'s invariant as a stream filled by ingestion allows.

**`FeaturePipeline_proofs`** -- for any symbols, number of instances, windows, MAXLEN
and crashes: `FTypeOK`, `FeatureWindow`, `StoreSpec`; and `ReadIsStored` on the condition
`BufferSize >= MinBuffer`. (With a buffer that is one row shorter, "MAX_ROLLING_WINDOW
+ 1 at minimum" by `config.py:20`, no feature row would ever be computed;
the defaults are 120 and 62.) The invariant comes in three layers:

* of any stream (`Basic`): types, and the place in a batch of a worker in the middle of it
  (`AtMessage`). `StoreSpec` needs no more;
* of any stream, too (`Reader`): prices and rows of all entries a running worker got so
  far are stored, and the ring buffer holds the last of them, entries it was overtaken by
  left out (`skipped`);
* on the premises of `FeatureWindow`, `Unbroken` and `NoneSkipped`: `Runs` -- the buffer is
  a run of consecutive candles, so that a window cut from it is one -- and `RowsRight`. A
  replay after a restart computes the same rows again. Once a premise fails it stays
  false, so the invariant has to hold only until then.

**`ForecastingService_proofs`** -- for any symbols, windows, limits, order of candles, NULL
rows, failures and lost connections: `TypeOK`, `LabelSpansWindow`, `LossesFromNewest`.
`IInv` adds that a label was computed when its window had closed, from closes in the table
(`LabelsWhole`), and that losses are current but for the symbol whose pass is under way
(`LossesCurrent`). `ForwardRowsSpan` carries
the weight: the first `ForwardWindow` rows after a time are just the window if its candles
are there.

**`Startup_proofs`** -- for any symbols, thresholds, lengths of answers, failed backfills,
outages, deaths and restarts: `RunsOnData`. `IInv` adds that what was waited for stays
(`Waited`), place by place of the path, and that "done" is written only after an answer
has been gone through (`DoneFetched`). A status may leave "done" again, when ingestion is
restarted; what was fetched stays.

**`Calculations_proofs`** -- the three calculations.

* *Allocator*, for any finite set of assets, any cap, any moves and any amounts spread:
  `OrderKept`, `FewRounds`, `Constrained`. `OInv` adds to the order that all weights lie
  within their bounds while they are spread, so that a weight which is not free lies at
  zero or at the cap, where no other can pass it. `PInv` adds `RoundsLeft` (as many
  rounds are left as there are free weights) and `LowWeightsClimb` (if something is missing
  now, something was missing all the time and no weight was lowered). The first holds
  because a round that pins no weight gives out exactly what is missing
  (`SpreadPins`). From the second follows `Constrained`: with every weight pinned
  and something missing, those at zero were never wanted above zero; after a small move
  they started from so little that with those at the cap they cannot have been a whole
  (`SmallMoveFills`, and `TooLittle`, the arithmetic of it).
* *Risk metrics*, for windows of any length and any equities that are not negative:
  `DrawdownIsWorst`, `ReturnsOfAdjacent`. `DInv` adds that the peak is the highest of the
  rows passed and one of them. `ReturnsInv` adds which rows of the table were read
  (`FromNewest`, and `ToNewest` when they have been turned round) and that the returns so
  far are those of the rows passed that can be divided by (`SoFar`): the place of a return
  is the number of such rows up to its own (`DivisibleGrows`). Quotients are compared by
  products, hence the lemmas on these.
* *Volatility models*: `VolatilityKnown`, of which `MInv` says where a model is missing
  and why.

The sum of weights is a fold over a set. What is needed of it is proved in the same
module from the least element of a set of numbers (`Least`, the one use of
well-foundedness): `OverSubsets` is induction over the subsets of a finite set,
`RecursionExists` says that a recursion over them defines a function, `TotalSums` that
the fold is such a function. From there `TotalLinear`, `TotalCounts` and `TotalMonotone`
are what the proofs cite.

**`EventFeed_proofs`** -- for streams of any length, any `XREAD` count and any number of
failed calls, and an engine that gives up anywhere: `EventsConsecutive`. `IInv` ties the
loop's place to what has been forwarded: the id kept for a stream is that of its last
entry forwarded (`Kept`), XREAD waits past it (`Waits`), and the messages left to forward
continue it (`InOrder`: prices before portfolios, ascending, the first of each kind next
in line). `BothStreams` says so of a fresh answer, `AfterFirst` that forwarding one
message leaves it true of the rest.

The type invariants of `PortfolioEngine`, `ClientRegistry` and `RetryableGet`, and
`LedgerChain` and `LatestKeyCurrent`, are proved and in no run.

**Assumptions.** The proofs use the `ASSUME`s of the modules and nothing else. Those worth
a word: the list of symbols is not empty and names none twice (`types.go`, a literal
list); `None`, which stands for Python's, is no number and no name of a distribution
(`NoneAssumption`); `MarketAssumption` says of the composition what `FeatureAssumption`
says of feature engineering alone. Bounds (`Horizon`, `MaxRuns` and so on) may be any
number. In `Allocator` a round needs an amount that is a whole number of units: a theorem
speaks of the rounds that divide exactly, for units as small as one likes; the rounding of
floating-point numbers is left out.

**Model-checked only:** liveness (`BackfillEnds`, `LiveDrained`, `CatchesUp`,
`EverySlotAnswered`, `EventuallyForecast`, `EventuallyModelled`, `GoneIsCleanedUp`,
`BroadcastEnds`, `ViewStays`, `AllRun`), which is out of the prover's reach. Every
safety property that a passing run checks is also a theorem.

## 5. Not modelled

* Likelihoods, boosting, gradients, covariances and the values of features: floating-point
  computations without state that others see. `VolatilityModels` and `Allocator` have the
  control around them. In particular no unit is modelled, hence nothing is said of
  `GARCHModel.scale` (see 6).
* The Sharpe ratio and the averages of turnover and fees in the risk metrics; REST
  endpoints that hand on one row of a table.
* The Redis clients' own retries. `requirements.txt` leaves `redis>=5.0` unpinned; a client
  that repeats an XADD whose answer got lost would publish an entry twice, which
  `PublishedIsCommitted` does not consider. go-redis retries by default, too; a repeated
  candle in `kline_stream` is among what `FeaturePipeline` accepts.
* A prediction that is NaN (`garch_model.py:88-93` lets it through: no comparison with NaN
  is true). The outcomes of `predict` are a volatility or none.
* `PortfolioEngine` and `Allocator` are not composed: there, a period's net return is any
  number of a small set, whatever the weights were.
* `start.sh`, container health checks, races of CREATE TABLE between services, and
  the gateway's start, which waits for nobody.
* Labels of `forecasts` are made again at each pass until there are enough rows; the
  time at which a forecast counts as old enough is left open in the model (the clock has
  passed every candle in the table).

## 6. Disagreements

### Shown by a run

* **`market_row_at_wrong_time`** -- `feature_engineering/main.py:90`: a candle of
  history that arrives after a newer live one is sorted before it in the ring
  buffer, and the features of the *newer* candle are stored under the older one's
  time, for good. `feature_engineering/db.py:138`: "Insert one feature row for (time,
  symbol)." `FeaturesRightInOrder` says what does hold: as long as the stream has kept
  its entries and has had each symbol's candles one after the other, rows are right.
  The second condition is more than an order: after a pause longer than a history
  request goes back (`backfill.go`), a restarted ingestion leaves a hole in the stream, and
  rows behind it are computed across the hole, as if it were not there.
* **`portfolio_no_row`** -- `portfolio_engine/db.py:249`: weights are passed as a dict
  for a JSONB column, which psycopg 3 refuses; the exception is logged and no row is
  ever written. README.md:243 promises "historical portfolio states". The runs and
  proofs that speak of rows suppose a driver that takes the dict.
* **`feed_state_missed`** -- `api_gateway/main.go:543`: until the first portfolio entry
  has been seen each XREAD starts at "$" anew; an entry between two calls is never
  forwarded. README.md:259: "Broadcasts price, forecast, and portfolio updates". The
  snapshots make up for it within ten seconds (`ViewStays`), if the key was set.

### Found by reading

These were met while modelling; the models do what the code does, and no run is
spent on them.

* Reconnection is promised (README.md:150); a read error ends the process
  (`ingestion/main.go:87`).
* Live frames are said to be held during the backfill (`ingestion/main.go:76-77`); they
  are published at once (`:85`).
* "Backpressure handling" (README.md:153): there is none, MAXLEN trims unread entries
  (`ingestion/main.go:119-122`), and a reader that was overtaken goes on behind the hole
  without a trace (`skipped` in `FeaturePipeline`). "~7 days" of MAXLEN is about 2.3 days
  for three symbols.
* A candle pushed twice is dropped by the table and counted twice in the ring buffer
  (`feature_engineering/main.py:86`, against `ingestion/main.go:77-79`).
* `MIN_BUFFER` is the longest window plus 2 (`feature_engineering/main.py:21`);
  `config.py:20` says plus 1.
* A row with NULL features, or a gap in the prices, stretches a label beyond five
  minutes (`forecasting/labels.py:14-15`, against `:7`). A label computed across a gap is
  not made again when history fills the gap. `LabelSpansWindow` is stated for windows of
  which no candle was missing then.
* The 5000 oldest rows without a forecast are tried at each pass (`forecasting/db.py:181-193`);
  once 5000 of a symbol can never be forecast, no other one is. `EventuallyForecast` has
  the exception (`Crowded`), and its run reaches it.
* Without `TIMESCALEDB_DSN` signalling is off (`ingestion/main.go:29-32`) and every status
  stays absent: forecasting and the portfolio engine wait for ever. "optional but
  recommended" (`:28`) holds for ingestion alone.
* "If the server sends a Retry-After header (seconds), that value is preferred"
  (`httpclient.go:27-28`): the helper does so after 429, 503, 418 and 403. After 408 and
  other 5xx it backs off without a look at the header (`:84-97`). Nor does it read a header
  that is an HTTP date (`:108-117`). In both cases it may ask again while the server wants
  silence. `RetryAfterHonoured` is stated for the answers it looks at; `WaitsBounded`
  says what it does after the others.
* A failed backfill keeps forecasting and the portfolio engine waiting for ever
  (`forecasting/db.py:34-50`), against "Handles backfill and partial training
  scenarios" (README.md:195).
* Forecasting and the portfolio engine keep a database connection for life
  (`forecasting/main.py:106-123`, `portfolio_engine/main.py:173, 189-193`): after an outage
  each pass, training and rebalance fails, is logged and tried again, for ever. What is
  promised of them is promised as long as the connection lives.
* Training is daily in the code, every 4 hours in README.md; a model without XGBoost
  leaves `xgb_vol` NULL for good.
* A failed rebalance is not tried again before the next day
  (`portfolio_engine/main.py:191-193`); price moves of candles that arrive after the
  row that ends at their time are in no period (`db.py:300-302`).
* A service that asks for a table before its owner has created it dies of it, and nobody
  starts it again (`portfolio_engine/db.py:73-78`, `forecasting/db.py:53-79`), against
  "Services: Wait for upstream dependencies before starting" (README.md:404). `Startup` has
  this as `TableMissing`; `AllRun` makes the exception and says that there is no other.
* A symbol is marked done however few rows its answer brought, and although XADDs failed
  (`ingestion/backfill.go:125-140`): "done" is no promise of a history. `RunsOnData` says
  that the answer was gone through, and which rows are there because they were counted.
* An XADD or SET of the engine that fails is logged, and the row is not published again
  (`portfolio_engine/main.py:73-74, 191-193`). When only the SET failed, clients are sent the
  new portfolio as an event and taken back to the old one by the next snapshot, until the
  next day. `ViewStays` says that a client ends up with what the key holds.
* Two broadcasters, and the greeting of a new client, may write to one connection at
  once (`api_gateway/main.go:509-511, 594`). gorilla/websocket allows one writer and panics
  ("concurrent write to websocket connection") when it notices; in a broadcaster nothing
  recovers, and the gateway dies. `BroadcastEnds` and `GoneIsCleanedUp` hold short of that.
* Normalisation may lift weights above the cap (`allocator.py:31`, against README.md:231,
  "optional weight caps"): from (1, 0, 0), which is clipped to (cap, 0, 0) and has no free
  weight, it makes (1, 0, 0) again; and whenever the cap leaves no room for a whole.
  `Constrained` says when it does not.
* The fee in `portfolio_state` is a share of equity already (`portfolio_engine/db.py:337`);
  `AvgFeeDrag` divides it by equity again (`api_gateway/main.go:399`).
  Drawdown starts from the window's first row, so a loss before it does not count.
* A connection lost while rows are read leaves a shorter window without an error
  (`api_gateway/main.go:359`).
* `arch_model(..., rescale=True)` (`garch_model.py:53`) allows the library to multiply the
  data by a factor of its own, and `predict` divides by `self.scale` only. Whether forecasts
  come in the unit of the data depends on the library, which is not part of the repository.
* The counter of connections may be seen one short, even at -1, while a registration
  is under way (`api_gateway/main.go:605-609`); `CounterMatches` says by how much.
* Nothing broadcasts forecasts (README.md:259), and the endpoint is `/ws/live`, not `/ws`.
* The first wait of a retry is 400 ms, not `initialBackoff` (`httpclient.go:52`, against
  `:26`), and the next symbol's first request ignores a Retry-After of the previous
  one; `RetryAfterHonoured` is therefore stated within a call.
* `mark_backfill_done` is never called.

## 7. State of the plan

The market data path came first (everything else feeds on it), then the daily rebalance,
then forecasting, gateway, calculations and start-up, each with its properties, then the
proofs. Sections 2 to 4 say what is there: every safety property of a passing run is a
theorem, and liveness is checked.

What a continuation would model, in the order of what it would tell:

1. `Allocator` under `PortfolioEngine`: turnover and fee in place of a bare net return.
2. Which forecasts (`fetch_latest_forecasts`) and prices a rebalance sees while forecasting
   and feature engineering go on: `PortfolioEngine` over `ForecastingService`'s tables.
3. `EventFeed` over `ClientRegistry`: broadcasting client by client.
4. The unit of a volatility through `VolatilityModels`, with arch's own scaling as an
   external choice.
