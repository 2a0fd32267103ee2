-------------------------- MODULE PortfolioEngine --------------------------
(***************************************************************************)
(* The portfolio engine (src/portfolio_engine/main.py): one process that   *)
(* waits for the services upstream, then once a day rebalances: it reads   *)
(* prices, forecasts and its own last state, computes weights and P&L,     *)
(* writes a row of portfolio_state, and publishes it to Redis.  Any step   *)
(* may fail; main() logs it and waits for the next day.  The connection to *)
(* the database is opened once: when it is lost, so is every rebalance     *)
(* until the process is started again.                                     *)
(*                                                                         *)
(* Time is counted in minutes.  Weights are left to Allocator; here a      *)
(* period's net return is a number from a small set.                       *)
(***************************************************************************)
EXTENDS Integers, Sequences

CONSTANTS
  Day,            \* minutes of a day
  Offset,         \* REBALANCE_HOUR_UTC:REBALANCE_MINUTE_UTC, in minutes
  Returns,        \* net returns of a period: equity' = equity * (1 + r)
  InitialEquity,  \* 1.0 in the code
  AdaptsDict,     \* the PostgreSQL driver accepts a dict for a JSONB column:
                  \* no release of psycopg 3 does
  FirstNow,       \* minute in which the run starts
  Horizon,        \* bound: last minute of the run
  MaxFaults       \* bound: failed steps, lost connections and crashes

ASSUME PortfolioAssumption ==
  /\ Day \in Nat \ {0}
  /\ Offset \in 0 .. Day - 1
  /\ Returns \subseteq Int /\ 0 \in Returns
  /\ InitialEquity \in Nat
  /\ AdaptsDict \in BOOLEAN
  /\ FirstNow \in Nat /\ FirstNow >= Day
  /\ Horizon \in Nat
  /\ MaxFaults \in Nat

VARIABLES
  now,            \* the minute
  candle,         \* open time of the newest candle in "prices"
  pc,             \* down, waiting, idle, or the step of _run_rebalance
  connected,      \* conn is open
  next_at,        \* next_rebalance_at
  draft,          \* the row being made: now_utc and what follows from it
  table,          \* portfolio_state: a set of rows, one per time
  stream,         \* PORTFOLIO_STREAM
  latest,         \* PORTFOLIO_LATEST_KEY: its rows, none or one
  faults          \* history: number of faults, for MaxFaults

vars == << now, candle, pc, connected, next_at, draft, table, stream, latest, faults >>

\* A row: "prev" is the time of the state it continues (0: none), "from" and
\* "to" are the candles its period return was computed from.
Row == [time : Nat, equity : Nat, period : Int, cumulative : Int,
        prev : Nat, from : Nat, to : Nat]
NoDraft == [time |-> 0, equity |-> 0, period |-> 0, cumulative |-> 0,
            prev |-> 0, from |-> 0, to |-> 0]

Rebalancing == {"begun", "computed", "inserted", "streamed", "ended"}

\* Types; nothing is bounded but by the run.
TypeOK ==
  /\ now \in Nat
  /\ candle \in Nat
  /\ pc \in {"down", "waiting", "idle"} \cup Rebalancing
  /\ connected \in BOOLEAN
  /\ next_at \in Nat
  /\ draft \in Row
  /\ table \subseteq Row
  /\ stream \in Seq(Row)
  /\ latest \subseteq Row
  /\ faults \in Nat

Init ==
  /\ now = FirstNow
  /\ candle = FirstNow - 1
  /\ pc = "down"
  /\ connected = FALSE
  /\ next_at = 0
  /\ draft = NoDraft
  /\ table = {}
  /\ stream = << >>
  /\ latest = {}
  /\ faults = 0

-----------------------------------------------------------------------------
(* The world.                                                              *)

\* main() keeps up with the clock: a rebalance that is due or under way ends
\* before the next one is due.
Prompt == pc \in {"idle"} \cup Rebalancing => now + 1 < next_at + Day

Tick ==
  /\ now < Horizon
  /\ Prompt
  /\ now' = now + 1
  /\ UNCHANGED << candle, pc, connected, next_at, draft, table, stream, latest, faults >>

\* Feature engineering stores the next candle, some time after it closed.
Candle ==
  /\ candle < now - 1
  /\ candle' = candle + 1
  /\ UNCHANGED << now, pc, connected, next_at, draft, table, stream, latest, faults >>

\* The database restarts, or the network drops the connection.
LoseConnection ==
  /\ connected
  /\ faults < MaxFaults
  /\ connected' = FALSE
  /\ faults' = faults + 1
  /\ UNCHANGED << now, candle, pc, next_at, draft, table, stream, latest >>

-----------------------------------------------------------------------------
(* main().                                                                 *)

Start ==
  /\ pc = "down"
  /\ pc' = "waiting"
  /\ connected' = TRUE
  /\ UNCHANGED << now, candle, next_at, draft, table, stream, latest, faults >>

\* Mistake: at the scheduled time itself the day is not over.
NextRebalanceAgain(t) ==
  LET target == t - (t % Day) + Offset
  IN  IF t > target THEN target + Day ELSE target

\* _next_rebalance_from
NextRebalance(t) ==
  LET target == t - (t % Day) + Offset
  IN  IF t >= target THEN target + Day ELSE target

\* wait_for_backfill, wait_for_prices and wait_for_forecasts have returned.
Ready ==
  /\ pc = "waiting"
  /\ connected
  /\ pc' = "idle"
  /\ next_at' = NextRebalance(now)
  /\ UNCHANGED << now, candle, connected, draft, table, stream, latest, faults >>

\* They do not catch what a query raises: the process ends.
WaitFails ==
  /\ pc = "waiting"
  /\ ~connected
  /\ pc' = "down"
  /\ UNCHANGED << now, candle, connected, next_at, draft, table, stream, latest, faults >>

\* Mistake: only in the scheduled minute itself.
DueInItsMinute == now = next_at

Due == now >= next_at

\* _run_rebalance: now_utc is taken first.
Begin ==
  /\ pc = "idle"
  /\ Due
  /\ pc' = "begun"
  /\ draft' = [NoDraft EXCEPT !.time = now]
  /\ UNCHANGED << now, candle, connected, next_at, table, stream, latest, faults >>

\* fetch_latest_portfolio_state: ORDER BY time DESC LIMIT 1, or the defaults.
Latest == CHOOSE r \in table : \A q \in table : q.time <= r.time
\* Mistake: always the day before, whenever the last rebalance was.
PrevStateDaily ==
  [time |-> draft.time - Day,
   equity |-> IF table = {} THEN InitialEquity ELSE Latest.equity,
   cumulative |-> IF table = {} THEN 0 ELSE Latest.cumulative]

PrevState == IF table = {}
             THEN [time |-> draft.time - Day, equity |-> InitialEquity, cumulative |-> 0]
             ELSE [time |-> Latest.time, equity |-> Latest.equity,
                   cumulative |-> Latest.cumulative]

\* fetch_latest_prices: the newest candle whose open time is not after asOf.
PriceAsOf(asOf) == IF candle < asOf THEN candle ELSE asOf

\* main.py:126: max(0, equity)
Clamp(e) == IF e < 0 THEN 0 ELSE e

\* Mistake: cumulative_pnl starts from zero every time.
NewRowAnew(p, r) ==
  LET equity == Clamp(p.equity * (1 + r))
  IN  [time |-> draft.time, equity |-> equity, period |-> equity - p.equity,
       cumulative |-> equity - p.equity,
       prev |-> IF table = {} THEN 0 ELSE p.time,
       from |-> PriceAsOf(p.time), to |-> PriceAsOf(draft.time)]

\* The row for period return r on the previous state p (main.py:99-128).
NewRow(p, r) ==
  LET equity == Clamp(p.equity * (1 + r))
  IN  [time |-> draft.time, equity |-> equity, period |-> equity - p.equity,
       cumulative |-> p.cumulative + (equity - p.equity),
       prev |-> IF table = {} THEN 0 ELSE p.time,
       from |-> PriceAsOf(p.time), to |-> PriceAsOf(draft.time)]

Compute ==
  /\ pc = "begun"
  /\ connected
  /\ \E r \in Returns : draft' = NewRow(PrevState, r)
  /\ pc' = "computed"
  /\ UNCHANGED << now, candle, connected, next_at, table, stream, latest, faults >>

\* insert_portfolio_state: ON CONFLICT (time) DO UPDATE.
Upsert(r) == { q \in table : q.time # r.time } \cup {r}

\* Mistake: an insert that raises is logged, and the row published.
InsertOrNot ==
  /\ pc = "computed"
  /\ table' \in {table, Upsert(draft)}
  /\ pc' = "inserted"
  /\ UNCHANGED << now, candle, connected, next_at, draft, stream, latest, faults >>

\* A driver that does not adapt the dict raises before anything is sent.
Insert ==
  /\ pc = "computed"
  /\ connected
  /\ IF AdaptsDict THEN table' = Upsert(draft) /\ pc' = "inserted"
                   ELSE pc' = "ended" /\ UNCHANGED table
  /\ UNCHANGED << now, candle, connected, next_at, draft, stream, latest, faults >>

\* _publish: the stream, then the key.  The Redis client connects anew by itself.
PublishStream ==
  /\ pc = "inserted"
  /\ stream' = Append(stream, draft)
  /\ pc' = "streamed"
  /\ UNCHANGED << now, candle, connected, next_at, draft, table, latest, faults >>

PublishKey ==
  /\ pc = "streamed"
  /\ latest' = {draft}
  /\ pc' = "ended"
  /\ UNCHANGED << now, candle, connected, next_at, draft, table, stream, faults >>

\* A read, a write or a computation raises: REBALANCE_FAILED.
Fail ==
  /\ pc \in Rebalancing \ {"ended"}
  /\ faults < MaxFaults
  /\ pc' = "ended"
  /\ faults' = faults + 1
  /\ UNCHANGED << now, candle, connected, next_at, draft, table, stream, latest >>

\* On a lost connection every query raises, today and on the days to come.
Refused ==
  /\ pc \in {"begun", "computed"}
  /\ ~connected
  /\ pc' = "ended"
  /\ UNCHANGED << now, candle, connected, next_at, draft, table, stream, latest, faults >>

\* After a rebalance, whatever became of it.
Reschedule ==
  /\ pc = "ended"
  /\ next_at' = NextRebalance(now)
  /\ pc' = "idle"
  /\ UNCHANGED << now, candle, connected, draft, table, stream, latest, faults >>

Crash ==
  /\ pc # "down"
  /\ faults < MaxFaults
  /\ pc' = "down"
  /\ connected' = FALSE
  /\ faults' = faults + 1
  /\ UNCHANGED << now, candle, next_at, draft, table, stream, latest >>

-----------------------------------------------------------------------------
Rebalance == \/ Begin \/ Compute \/ Insert \/ PublishStream
             \/ PublishKey \/ Fail \/ Refused \/ Reschedule

Next == \/ Tick \/ Candle \/ LoseConnection
        \/ Start \/ Ready \/ WaitFails \/ Rebalance \/ Crash

\* The process and its calls go on (the loop sleeps at most 30 seconds); the
\* clock does too.  Nothing obliges an operator to start it again.
Fairness == WF_vars(Ready) /\ WF_vars(Rebalance) /\ WF_vars(Tick)

Spec == Init /\ [][Next]_vars /\ Fairness

-----------------------------------------------------------------------------
(* Properties.                                                             *)

\* The scheduled time that a rebalance at t answers to.
Slot(t) == NextRebalance(t) - Day

\* A slot is answered by at most one row, however the process fails, is killed
\* or restarted around it (main.py:54-58, 187-193).
OncePerSlot == \A q, r \in table : Slot(q.time) = Slot(r.time) => q = r

\* q is the row written just before r.
Adjacent(q, r) == /\ q \in table /\ r \in table /\ q.time < r.time
                  /\ \A x \in table : x.time <= q.time \/ x.time >= r.time

\* Rows form one chain: each continues the row written just before it, and the
\* cumulative P&L of any row is its equity less the initial one.
LedgerChain ==
  /\ \A q, r \in table : Adjacent(q, r) => /\ r.prev = q.time
                                           /\ r.period = r.equity - q.equity
  /\ \A r \in table : r.cumulative = r.equity - InitialEquity

\* No price move is counted in two periods: a period starts from a candle not
\* before the one the previous period ended with (db.py:300-312).
NoMoveCountedTwice == \A q, r \in table : Adjacent(q, r) => q.to <= r.from

\* What Redis says was committed first: the stream and the key hold rows of the
\* table, the stream in time order, and the key is never ahead of the stream.
PublishedIsCommitted ==
  /\ \A i \in 1 .. Len(stream) : stream[i] \in table
  /\ \A i, j \in 1 .. Len(stream) : i < j => stream[i].time < stream[j].time
  /\ \A r \in latest : \E i \in 1 .. Len(stream) : stream[i] = r

\* The key the API serves first holds the newest row, unless a call failed; it is
\* a rebalance behind at most while one is under way (main.py:133-157).
LatestKeyCurrent == pc = "idle" /\ faults = 0 /\ table # {} => latest = {Latest}

\* The table implements the append-only ledger.
Ledger == INSTANCE PortfolioLedger WITH ledger <-
  { [time |-> r.time, equity |-> r.equity, period |-> r.period,
     cumulative |-> r.cumulative] : r \in table }
LedgerSpec == Ledger!Spec

\* Every scheduled minute that finds the engine waiting for it is answered by a
\* row before the next one comes, as long as nothing fails any more and the
\* connection has survived what failed before (main.py:54-58, 171-194).
SlotAnswered(s) ==
  pc = "idle" /\ now < s /\ connected /\ faults = MaxFaults
    ~> \E r \in table : s <= r.time /\ r.time < s + Day
EverySlotAnswered ==
  \A s \in { t \in FirstNow .. Horizon : t % Day = Offset } : SlotAnswered(s)

\* "portfolio_state table -> TimescaleDB (historical portfolio states)"
\* (README.md:243): a rebalance leaves its row behind, if nothing fails any more
\* and its connection is open.
EventuallyARow ==
  pc = "begun" /\ connected /\ faults = MaxFaults ~> pc = "ended" /\ draft \in table
=============================================================================
