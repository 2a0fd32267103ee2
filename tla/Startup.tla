------------------------------ MODULE Startup ------------------------------
(***************************************************************************)
(* How the four background services come up together.  docker compose      *)
(* starts each of them once, in no particular order, as soon as            *)
(* TimescaleDB is healthy; from then on they meet only in its tables: each *)
(* connects, creates its own tables, waits until the tables it reads are   *)
(* filled far enough, and runs.                                            *)
(*                                                                         *)
(* What the services do once they run is cut down to the rows others wait  *)
(* for; KlineIngestion, FeaturePipeline and ForecastingService have the    *)
(* rest.                                                                   *)
(***************************************************************************)
EXTENDS Integers, Sequences, FiniteSets

CONSTANTS
  Symbols,
  History,        \* at most as many rows has a symbol's backfill (1500)
  Warmup,         \* candles before a symbol's first feature row: MIN_BUFFER - 1
  MinFeatureRows, \* min_rows of wait_for_features (100)
  MinPriceRows,   \* MIN_PRICE_ROWS (500)
  MaxRetries,     \* _MAX_RETRIES (10)
  MaxRows,        \* bound: candles of a symbol
  MaxFailed,      \* bound: symbols whose backfill fails
  MaxTroubles,    \* bound: outages of the database, and services that die
  MaxRelaunches   \* bound: services somebody starts again

ASSUME StartupAssumption ==
  /\ History \in Nat /\ Warmup \in Nat
  /\ MinFeatureRows \in Nat \ {0} /\ MinPriceRows \in Nat \ {0}
  /\ MaxRetries \in Nat \ {0}
  /\ MaxRows \in Nat
  /\ MaxFailed \in Nat /\ MaxTroubles \in Nat /\ MaxRelaunches \in Nat

VARIABLES
  up,             \* the database answers
  at,             \* [service -> its place on its path; 0 when it does not run]
  tried,          \* [service -> failed attempts of connect()]
  conn,           \* [service -> the connection it opened is alive]
  tables,         \* names of the tables that exist
  pending,        \* symbols this run of ingestion has yet to backfill
  busy,           \* the symbol whose history is being fetched, if there is one
  status,         \* table backfill_status
  published,      \* [symbol -> candles in the stream]
  prices,         \* [symbol -> rows in table prices]
  forecasted,     \* symbols with rows in table forecasts
  fetched,        \* history: symbols whose backfill went through its answer
  spoiled,        \* history: symbols whose backfill did not
  orphans,        \* history: services that asked for a table nobody had created
  launched,       \* services compose has started
  relaunches, troubles \* history, for MaxRelaunches and MaxTroubles

started == << launched, relaunches, orphans >>
services == << at, tried, conn, started >>
backfill == << pending, busy, status, fetched, spoiled >>
stored == << status, fetched, spoiled, published, prices, forecasted >>
data == << pending, busy, stored >>
vars == << up, services, tables, data, troubles >>

\* main() of each service, up to its loop.
Path == [ingestion           |-> << "connect", "ensure", "running" >>,
         feature_engineering |-> << "connect", "ensure", "running" >>,
         forecasting         |-> << "connect", "ensure", "backfill", "features",
                                    "running" >>,
         portfolio_engine    |-> << "connect", "ensure", "backfill", "prices",
                                    "forecasts", "running" >>]
Services == DOMAIN Path
Gates == {"backfill", "features", "prices", "forecasts"}

Stage(svc) == IF at[svc] = 0 THEN "off" ELSE Path[svc][at[svc]]
Running(svc) == Stage(svc) = "running"

\* CREATE TABLE IF NOT EXISTS.  The portfolio engine reads backfill_status but
\* does not create it.
Creates == [ingestion           |-> {"backfill_status"},
            feature_engineering |-> {"prices", "features"},
            forecasting         |-> {"forecasts", "backfill_status"},
            portfolio_engine    |-> {"portfolio_state"}]
TableOf == [backfill |-> "backfill_status", features |-> "features",
            prices |-> "prices", forecasts |-> "forecasts"]

Zero == [s \in Symbols |-> 0]

\* "docker compose down -v" has removed the volumes.
Init ==
  /\ up = TRUE
  /\ at = [svc \in Services |-> 0]
  /\ tried = [svc \in Services |-> 0]
  /\ conn = [svc \in Services |-> FALSE]
  /\ tables = {}
  /\ pending = {} /\ busy = {}
  /\ status = [s \in Symbols |-> "absent"]
  /\ published = Zero /\ prices = Zero
  /\ forecasted = {}
  /\ fetched = {} /\ spoiled = {} /\ orphans = {}
  /\ launched = {} /\ relaunches = 0
  /\ troubles = 0

-----------------------------------------------------------------------------
(* The database.                                                           *)

Trouble == troubles < MaxTroubles /\ troubles' = troubles + 1

\* A restart of the server: the open connections are gone for good.
Outage ==
  /\ up
  /\ Trouble
  /\ up' = FALSE
  /\ conn' = [svc \in Services |-> FALSE]
  /\ UNCHANGED << at, tried, started, tables, data >>

Recover ==
  /\ ~up
  /\ up' = TRUE
  /\ UNCHANGED << services, tables, data, troubles >>

\* Ingestion has a pool that connects anew (database/sql); the Python services
\* keep the one connection they opened.
CanQuery(svc) == IF svc = "ingestion" THEN up ELSE conn[svc]

-----------------------------------------------------------------------------
(* A service on its way.                                                   *)

Begin(svc) ==
  /\ at[svc] = 0
  /\ at' = [at EXCEPT ![svc] = 1]
  /\ orphans' = orphans \ {svc}
  /\ pending' = IF svc = "ingestion" THEN Symbols ELSE pending
  /\ UNCHANGED << up, tried, conn, tables, busy, status, fetched, spoiled, published, prices,
                  forecasted, troubles >>

\* compose starts every service once; after that only somebody by hand does.
Launch(svc) ==
  /\ svc \notin launched
  /\ launched' = launched \cup {svc}
  /\ Begin(svc)
  /\ UNCHANGED relaunches

Relaunch(svc) ==
  /\ svc \in launched
  /\ relaunches < MaxRelaunches /\ relaunches' = relaunches + 1
  /\ Begin(svc)
  /\ UNCHANGED launched

Advance(svc) == at' = [at EXCEPT ![svc] = @ + 1]

\* What a process keeps in memory dies with it.
Exit(svc) ==
  /\ at' = [at EXCEPT ![svc] = 0]
  /\ tried' = [tried EXCEPT ![svc] = 0]
  /\ conn' = [conn EXCEPT ![svc] = FALSE]
  /\ IF svc = "ingestion" THEN pending' = {} /\ busy' = {}
                          ELSE UNCHANGED << pending, busy >>

Connect(svc) ==
  /\ Stage(svc) = "connect"
  /\ up
  /\ conn' = [conn EXCEPT ![svc] = TRUE]
  /\ tried' = [tried EXCEPT ![svc] = 0]
  /\ Advance(svc)
  /\ UNCHANGED << up, started, tables, data, troubles >>

\* Ingestion pings once; connect() of the others raises after its last attempt.
Attempts(svc) == IF svc = "ingestion" THEN 1 ELSE MaxRetries

ConnectFails(svc) ==
  /\ Stage(svc) = "connect"
  /\ ~up
  /\ IF tried[svc] + 1 = Attempts(svc)
       THEN Exit(svc)
       ELSE /\ tried' = [tried EXCEPT ![svc] = @ + 1]
            /\ UNCHANGED << at, conn, pending, busy >>
  /\ UNCHANGED << up, started, tables, stored, troubles >>

Ensure(svc) ==
  /\ Stage(svc) = "ensure"
  /\ CanQuery(svc)
  /\ tables' = tables \cup Creates[svc]
  /\ Advance(svc)
  /\ UNCHANGED << up, tried, conn, started, data, troubles >>

\* HandlePrice and HandleFeatures of FeaturePipeline: a feature row for every
\* candle after the first Warmup.
FeatureRows(s) == IF prices[s] > Warmup THEN prices[s] - Warmup ELSE 0

\* Mistake: any row of backfill_status will do.
ReadyWhenSettled(gate, s) == CASE gate = "backfill"  -> status[s] # "absent"
                               [] gate = "features"  -> FeatureRows(s) >= MinFeatureRows
                               [] gate = "prices"    -> prices[s] >= MinPriceRows
                               [] gate = "forecasts" -> s \in forecasted

\* What the wait_for_... functions wait for, of every symbol.
Ready(gate, s) == CASE gate = "backfill"  -> status[s] = "done"
                    [] gate = "features"  -> FeatureRows(s) >= MinFeatureRows
                    [] gate = "prices"    -> prices[s] >= MinPriceRows
                    [] gate = "forecasts" -> s \in forecasted

Pass(svc) ==
  LET gate == Stage(svc)
  IN /\ gate \in Gates
     /\ CanQuery(svc)
     /\ TableOf[gate] \in tables
     /\ \A s \in Symbols : Ready(gate, s)
     /\ Advance(svc)
     /\ UNCHANGED << up, tried, conn, started, tables, data, troubles >>

\* A query on a table nobody has created raises, and nothing catches it.
TableMissing(svc) ==
  /\ Stage(svc) \in Gates
  /\ CanQuery(svc)
  /\ TableOf[Stage(svc)] \notin tables
  /\ Exit(svc)
  /\ orphans' = orphans \cup {svc}
  /\ UNCHANGED << up, launched, relaunches, tables, stored, troubles >>

\* Neither does anything catch a lost connection, but for the loops of ingestion,
\* forecasting and the portfolio engine, which log it and go on.
QueryFails(svc) ==
  /\ Stage(svc) \in Gates \cup {"ensure", "running"}
  /\ Running(svc) => svc = "feature_engineering"
  /\ ~CanQuery(svc)
  /\ Exit(svc)
  /\ UNCHANGED << up, started, tables, stored, troubles >>

\* A service dies of something else: ingestion when the exchange closes its socket,
\* feature engineering when Redis does not answer.
Stop(svc) ==
  /\ at[svc] # 0
  /\ Trouble
  /\ Exit(svc)
  /\ UNCHANGED << up, started, tables, stored >>

-----------------------------------------------------------------------------
(* What the running services give each other.                              *)

\* Mistake: ON CONFLICT DO NOTHING.
SetStatusOnce(s, v) ==
  status' = IF up /\ status[s] = "absent" THEN [status EXCEPT ![s] = v] ELSE status

\* A failed write is logged.
SetStatus(s, v) == status' = IF up THEN [status EXCEPT ![s] = v] ELSE status

\* backfillHistorical, symbol by symbol.
BackfillBegins(s) ==
  /\ Running("ingestion")
  /\ busy = {} /\ s \in pending
  /\ pending' = pending \ {s}
  /\ busy' = {s}
  /\ SetStatus(s, "in_progress")
  /\ UNCHANGED << up, services, tables, fetched, spoiled, published, prices, forecasted,
                  troubles >>

\* Any number of rows: the answer may be short or empty, its rows may overlap with live
\* candles or those of an earlier run, and an XADD that fails is logged.
Atmost(n) == IF n < MaxRows THEN n ELSE MaxRows
Publishes(s) == \E m \in published[s] .. Atmost(published[s] + History) :
                  published' = [published EXCEPT ![s] = m]

\* No answer after all retries, or one that is not JSON, which leaves "in_progress".
Spoils(s) ==
  /\ Cardinality(spoiled \cup {s}) <= MaxFailed
  /\ spoiled' = spoiled \cup {s}
  /\ SetStatus(s, "failed") \/ UNCHANGED status

BackfillEnds(s) ==
  /\ Running("ingestion")
  /\ s \in busy
  /\ busy' = {}
  /\ \/ Publishes(s) /\ SetStatus(s, "done")
        /\ fetched' = fetched \cup {s} /\ UNCHANGED spoiled
     \/ Spoils(s) /\ UNCHANGED << fetched, published >>
  /\ UNCHANGED << up, services, tables, pending, prices, forecasted, troubles >>

LiveCandle(s) ==
  /\ Running("ingestion")
  /\ published[s] < MaxRows
  /\ published' = [published EXCEPT ![s] = @ + 1]
  /\ UNCHANGED << up, services, tables, backfill, prices, forecasted, troubles >>

Store(s) ==
  /\ Running("feature_engineering")
  /\ CanQuery("feature_engineering")
  /\ prices[s] < published[s]
  /\ prices' = [prices EXCEPT ![s] = @ + 1]
  /\ UNCHANGED << up, services, tables, backfill, published, forecasted, troubles >>

Forecast(s) ==
  /\ Running("forecasting")
  /\ CanQuery("forecasting")
  /\ FeatureRows(s) >= MinFeatureRows
  /\ s \notin forecasted
  /\ forecasted' = forecasted \cup {s}
  /\ UNCHANGED << up, services, tables, backfill, published, prices, troubles >>

-----------------------------------------------------------------------------
Go(svc) == \/ Launch(svc) \/ Connect(svc) \/ ConnectFails(svc) \/ Ensure(svc)
           \/ Pass(svc) \/ TableMissing(svc) \/ QueryFails(svc)
Backfill(s) == BackfillBegins(s) \/ BackfillEnds(s)

Next == \/ Outage \/ Recover
        \/ \E svc \in Services : Go(svc) \/ Relaunch(svc) \/ Stop(svc)
        \/ \E s \in Symbols : Backfill(s) \/ LiveCandle(s) \/ Store(s) \/ Forecast(s)

\* Services are scheduled and their sleeps end, the database comes back, and running
\* services do what they are there for; the exchange closes a candle every minute.
\* Nobody need start a dead service again.
Fairness == /\ WF_vars(Recover)
            /\ \A svc \in Services : WF_vars(Go(svc))
            /\ \A s \in Symbols : /\ WF_vars(Backfill(s)) /\ WF_vars(LiveCandle(s))
                                  /\ WF_vars(Store(s)) /\ WF_vars(Forecast(s))

Spec == Init /\ [][Next]_vars /\ Fairness

-----------------------------------------------------------------------------
(* Properties.                                                             *)

\* Whatever fails or is started again meanwhile, a service that runs finds what it
\* works on: of every symbol the backfill has been gone through, though it may have
\* brought few rows or none, and there are the features forecasting needs, the prices
\* and the forecasts the portfolio engine needs (forecasting/db.py:34-79,
\* portfolio_engine/db.py:73-137).
RunsOnData ==
  \A s \in Symbols :
    /\ Running("forecasting") => s \in fetched /\ FeatureRows(s) >= MinFeatureRows
    /\ Running("portfolio_engine") => /\ s \in fetched /\ prices[s] >= MinPriceRows
                                      /\ s \in forecasted

\* Those without whom a service never gets to run.
WaitsOn == [ingestion |-> {}, feature_engineering |-> {}, forecasting |-> {"forecasting"},
            portfolio_engine |-> {"forecasting", "portfolio_engine"}]

\* The services do not wait for one another in a circle, nor for what never comes: when
\* every backfill gets an answer, however short, and nothing breaks, each of the four
\* ends up running, unless it, or one it waits for, asked for a table before anybody
\* had created it; nothing else ends a service (forecasting/main.py:146-170,
\* portfolio_engine/main.py:169-184).
Undisturbed == spoiled = {} /\ troubles = 0
AllRun == []Undisturbed =>
            \A svc \in Services : <>[]Running(svc) \/ <>(WaitsOn[svc] \cap orphans # {})
=============================================================================
