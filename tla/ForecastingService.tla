------------------------- MODULE ForecastingService -------------------------
(***************************************************************************)
(* The forecasting service (src/forecasting): after an initial training,   *)
(* one thread retrains the models of all symbols and another forecasts     *)
(* every feature row that has no forecast yet, labels old forecasts with   *)
(* the volatility that was realized, and updates the rolling losses.  The  *)
(* threads share the dictionary "models" under a lock; each keeps one      *)
(* database connection for life.                                           *)
(*                                                                         *)
(* Time is counted in minutes.  A model is known by its symbol, a label by *)
(* the closes it was computed from; what a model predicts, and what becomes *)
(* of one that fails, is left to VolatilityModels.                         *)
(***************************************************************************)
EXTENDS Integers, Sequences, FiniteSets, SequencesExt

CONSTANTS
  Order,          \* config.py: SYMBOLS
  ForwardWindow,  \* FORWARD_WINDOW
  MinRows,        \* labelled rows a training needs (100)
  BatchLimit,     \* LIMIT of fetch_unforecasted_features (5000)
  LossPoints,     \* ROLLING_LOSS_POINTS
  Horizon,        \* bound: minutes of the run
  MaxRows,        \* bound: candles in the tables
  MaxFlaws,       \* bound: feature rows with a NULL column
  MaxFaults       \* bound: failures of a call and lost connections

Symbols == ToSet(Order)
Minutes == 0 .. Horizon
NoSymbol == Len(Order) + 1

ASSUME ForecastingAssumption ==
  /\ Order \in Seq(Symbols)
  /\ ForwardWindow \in Nat \ {0}
  /\ MinRows \in Nat \ {0}
  /\ BatchLimit \in Nat \ {0}
  /\ LossPoints \in Nat \ {0}
  /\ Horizon \in Nat
  /\ MaxRows \in Nat /\ MaxFlaws \in Nat /\ MaxFaults \in Nat

VARIABLES
  prices,         \* [symbol -> times in table prices]
  valid, invalid, \* [symbol -> times in table features, without and with NULLs]
  missed,         \* history: [symbol -> candles stored after a label crossed them]
  models,         \* the shared dictionary: the symbols with a model
  trainer,        \* the training thread (before the start: main)
  forecaster,     \* the inference thread
  lost,           \* the threads whose connection is lost
  forecasts,      \* [symbol -> times in table forecasts]
  label,          \* [symbol -> [time -> times of closes behind realized_vol]]
  losses,         \* [symbol -> times behind the last row of model_metrics]
  faults          \* history: failures so far, for MaxFaults

market == << prices, valid, invalid, missed >>
tables == << forecasts, label, losses >>
vars == << market, models, trainer, forecaster, lost, tables, faults >>

PerSymbol(S) == [s \in Symbols |-> S]
Threads == {"training", "inference"}

\* started: the two threads run; at, i: where the thread is and with which symbol;
\* new: what train_models has built so far; sleep: for how long it will wait.
Trainers == [started : BOOLEAN, at : {"train", "asleep"},
             i : 1 .. NoSymbol, new : SUBSET Symbols,
             sleep : {"none", "minute", "minutes", "day"}]
\* snapshot: this pass's copy of models; batch: the valid rows fetched.
Forecasters == [at : {"poll", "fetch", "insert", "label", "losses"},
                i : 1 .. NoSymbol, snapshot : SUBSET Symbols,
                batch : SUBSET Minutes]

\* Types, with the bounds of the run.
TypeOK ==
  /\ \A v \in {prices, valid, invalid, missed, forecasts, losses} :
       v \in [Symbols -> SUBSET Minutes]
  /\ models \in SUBSET Symbols
  /\ trainer \in Trainers
  /\ forecaster \in Forecasters
  /\ lost \in SUBSET Threads
  /\ label \in [Symbols -> [Minutes -> SUBSET Minutes]]
  /\ faults \in 0 .. MaxFaults

Polling == [at |-> "poll", i |-> 1, snapshot |-> {}, batch |-> {}]

Init ==
  /\ prices = PerSymbol({}) /\ valid = PerSymbol({}) /\ invalid = PerSymbol({})
  /\ missed = PerSymbol({})
  /\ models = {}
  /\ trainer = [started |-> FALSE, at |-> "train", i |-> 1, new |-> {}, sleep |-> "none"]
  /\ forecaster = Polling
  /\ lost = {}
  /\ forecasts = PerSymbol({})
  /\ label = PerSymbol([t \in Minutes |-> {}])
  /\ losses = PerSymbol({})
  /\ faults = 0

-----------------------------------------------------------------------------
(* Feature engineering: candles reach the table in any order, history after  *)
(* live ones, and some never; their features later, or not at all.          *)

Labelled(s) == { t \in forecasts[s] : label[s][t] # {} }

\* A label was computed from closes before and after u.
Crossed(s, u) == \E t \in Labelled(s) : \E q \in label[s][t] : t < u /\ u < q

Rows(table) == UNION { {s} \X table[s] : s \in Symbols }

StorePrice(s) ==
  /\ Cardinality(Rows(prices)) < MaxRows
  /\ \E u \in Minutes \ prices[s] :
       /\ prices' = [prices EXCEPT ![s] = @ \cup {u}]
       /\ missed' = [missed EXCEPT ![s] = IF Crossed(s, u) THEN @ \cup {u} ELSE @]
  /\ UNCHANGED << valid, invalid, models, trainer, forecaster, lost, tables, faults >>

StoreFeatures(s) ==
  /\ \E u \in prices[s] \ (valid[s] \cup invalid[s]) :
       \/ valid' = [valid EXCEPT ![s] = @ \cup {u}] /\ UNCHANGED invalid
       \/ /\ Cardinality(Rows(invalid)) < MaxFlaws
          /\ invalid' = [invalid EXCEPT ![s] = @ \cup {u}] /\ UNCHANGED valid
  /\ UNCHANGED << prices, missed, models, trainer, forecaster, lost, tables, faults >>

Fault == faults < MaxFaults /\ faults' = faults + 1

\* Each thread opens its connection once and keeps it, whatever happens to it.
LoseConnection(c) ==
  /\ c \notin lost
  /\ c = "inference" => trainer.started
  /\ Fault
  /\ lost' = lost \cup {c}
  /\ UNCHANGED << market, models, trainer, forecaster, tables >>

-----------------------------------------------------------------------------
(* compute_forward_realized_vol: for the row at index i, the returns of the *)
(* next ForwardWindow rows; nothing if there are not that many, or no row.  *)

\* The oldest, the newest n members of a set of minutes.
Oldest(S, n) == { t \in S : Cardinality({ u \in S : u < t }) < n }
Newest(S, n) == { t \in S : Cardinality({ u \in S : u > t }) < n }

\* Mistake: the window starts with the row itself.
ForwardRowsFrom(P, t) ==
  LET after == { p \in P : p >= t }
  IN  IF t \notin P \/ Cardinality(after) < ForwardWindow THEN {} ELSE {t} \cup Oldest(after, ForwardWindow)

ForwardRows(P, t) ==
  LET after == { p \in P : p > t }
  IN  IF t \notin P \/ Cardinality(after) < ForwardWindow THEN {} ELSE {t} \cup Oldest(after, ForwardWindow)

-----------------------------------------------------------------------------
(* training_loop, and the initial training in main().                      *)

TrainSymbol == Order[trainer.i]

\* Rows left after dropna: valid features with a label.  The label is computed
\* over the rows of the join, that is over rows with features.
TrainingRows(s) ==
  { t \in valid[s] : ForwardRows(valid[s] \cup invalid[s], t) # {} }

\* One symbol of train_models: a model, or none when there are too few rows or
\* something raises, which is caught.
Built(new) == trainer' = [trainer EXCEPT !.new = @ \cup new, !.i = @ + 1]

Enough(s) == Cardinality(TrainingRows(s)) >= MinRows

TrainOne ==
  /\ trainer.at = "train"
  /\ trainer.i < NoSymbol
  /\ \/ /\ "training" \notin lost /\ Enough(TrainSymbol)
        /\ \/ Built({TrainSymbol}) /\ UNCHANGED faults
           \/ Built({}) /\ Fault
     \/ /\ "training" \in lost \/ ~Enough(TrainSymbol)
        /\ Built({}) /\ UNCHANGED faults
  /\ UNCHANGED << market, models, forecaster, lost, tables >>

\* main() installs the first models and starts the threads, which connect anew.
Launch ==
  /\ ~trainer.started
  /\ trainer.at = "train" /\ trainer.i = NoSymbol
  /\ models' = trainer.new
  /\ trainer' = [trainer EXCEPT !.started = TRUE, !.i = 1, !.new = {}]
  /\ lost' = {}
  /\ UNCHANGED << market, forecaster, tables, faults >>

\* Mistake: a cycle that built nothing is content with the models of earlier ones.
SleepForNew(new) ==
  IF new = {} /\ models = {} THEN "minute"
  ELSE IF new # {} /\ models \cup new # Symbols THEN "minutes" ELSE "day"

\* The wait after a cycle that has built new: 60 s when there is no model at all,
\* 300 s when symbols are missing, else until the next daily training.
SleepFor(new) ==
  IF new = {} /\ models = {} THEN "minute"
  ELSE IF models \cup new # Symbols THEN "minutes" ELSE "day"

\* models.update(new_models): symbols not in new_models keep what they had.
Install ==
  /\ trainer.started
  /\ trainer.at = "train" /\ trainer.i = NoSymbol
  /\ models' = models \cup trainer.new
  /\ trainer' = [trainer EXCEPT !.at = "asleep", !.sleep = SleepFor(trainer.new)]
  /\ UNCHANGED << market, forecaster, lost, tables, faults >>

\* The cycle itself raises: 60 s if symbols are missing.
CycleFails ==
  /\ trainer.started
  /\ trainer.at = "train"
  /\ Fault
  /\ trainer' = [trainer EXCEPT !.at = "asleep",
                                !.sleep = IF models # Symbols THEN "minute" ELSE "day"]
  /\ UNCHANGED << market, models, forecaster, lost, tables >>

\* Mistake: counting from zero.
WakeAtZero ==
  /\ trainer.at = "asleep"
  /\ trainer' = [trainer EXCEPT !.at = "train", !.i = 0, !.new = {}, !.sleep = "none"]
  /\ UNCHANGED << market, models, forecaster, lost, tables, faults >>

Wake ==
  /\ trainer.at = "asleep"
  /\ trainer' = [trainer EXCEPT !.at = "train", !.i = 1, !.new = {}, !.sleep = "none"]
  /\ UNCHANGED << market, models, forecaster, lost, tables, faults >>

Retry == trainer.sleep # "day" /\ Wake
DayOver == trainer.sleep = "day" /\ Wake

-----------------------------------------------------------------------------
(* inference_loop and run_inference.                                       *)

Sym == Order[forecaster.i]

\* The snapshot of the dictionary; a pass only starts when it is not empty.
Poll ==
  /\ trainer.started
  /\ forecaster.at = "poll"
  /\ models # {}
  /\ forecaster' = [Polling EXCEPT !.at = "fetch", !.snapshot = models]
  /\ UNCHANGED << market, models, trainer, lost, tables, faults >>

\* On to the next symbol; the pass ends after the last.
NextSymbol == IF forecaster.i < Len(Order)
              THEN [forecaster EXCEPT !.at = "fetch", !.i = @ + 1, !.batch = {}]
              ELSE Polling

HasModel(s) == s \in forecaster.snapshot
CanQuery == "inference" \notin lost

SkipSymbol ==
  /\ forecaster.at = "fetch"
  /\ ~HasModel(Sym)
  /\ forecaster' = NextSymbol
  /\ UNCHANGED << market, models, trainer, lost, tables, faults >>

\* Mistake: the rows that have a forecast are not left out.
OldestFeatures(s) == Oldest(valid[s] \cup invalid[s], BatchLimit)

\* fetch_unforecasted_features: ORDER BY time LIMIT, invalid rows included.
Unforecasted(s) == Oldest((valid[s] \cup invalid[s]) \ forecasts[s], BatchLimit)

Fetch ==
  /\ forecaster.at = "fetch"
  /\ HasModel(Sym) /\ CanQuery
  /\ LET batch == Unforecasted(Sym) \cap valid[Sym]
     IN  forecaster' = [forecaster EXCEPT !.batch = batch,
                                          !.at = IF batch = {} THEN "label" ELSE "insert"]
  /\ UNCHANGED << market, models, trainer, lost, tables, faults >>

\* ON CONFLICT (symbol, time) DO NOTHING, row by row in autocommit: a failure may
\* leave the older part of the batch behind.
InsertRows(s, rows) ==
  /\ forecasts' = [forecasts EXCEPT ![s] = @ \cup rows]
  /\ UNCHANGED << label, losses >>

Insert ==
  /\ forecaster.at = "insert" /\ CanQuery
  /\ InsertRows(Sym, forecaster.batch)
  /\ forecaster' = [forecaster EXCEPT !.at = "label"]
  /\ UNCHANGED << market, models, trainer, lost, faults >>

\* fetch_forecasts_missing_realized: unlabelled and at least ForwardWindow old.
\* The clock has passed every candle that arrived; it may be any later.
Missing(s) == { t \in forecasts[s] : label[s][t] = {} }

\* _backfill_realized_vol: prices from the oldest such time on.
Label ==
  /\ forecaster.at = "label" /\ CanQuery
  /\ label' = [label EXCEPT ![Sym] = [t \in Minutes |->
                 IF t \in Missing(Sym) THEN ForwardRows(prices[Sym], t) ELSE @[t]]]
  /\ forecaster' = [forecaster EXCEPT !.at = "losses"]
  /\ UNCHANGED << market, models, trainer, lost, forecasts, losses, faults >>

\* Mistake: DESC forgotten.
OldestLosses ==
  /\ forecaster.at = "losses"
  /\ losses' = [losses EXCEPT ![Sym] = Oldest(Labelled(Sym), LossPoints)]
  /\ forecaster' = NextSymbol
  /\ UNCHANGED << market, models, trainer, lost, forecasts, label, faults >>

\* write_rolling_model_metrics: nothing is written without a labelled forecast.
Losses ==
  /\ forecaster.at = "losses" /\ CanQuery
  /\ losses' = [losses EXCEPT ![Sym] = Newest(Labelled(Sym), LossPoints)]
  /\ forecaster' = NextSymbol
  /\ UNCHANGED << market, models, trainer, lost, forecasts, label, faults >>

\* A call fails: the exception ends the pass, for all symbols.
PassFails ==
  /\ forecaster.at # "poll"
  /\ Fault
  /\ \/ forecaster.at = "insert"
        /\ \E n \in 0 .. Cardinality(forecaster.batch) :
             InsertRows(Sym, Oldest(forecaster.batch, n))
     \/ UNCHANGED tables
  /\ forecaster' = Polling
  /\ UNCHANGED << market, models, trainer, lost >>

\* On a lost connection every query raises, in this pass and in all to come.
Refused ==
  /\ forecaster.at # "poll" /\ ~CanQuery
  /\ forecaster.at = "fetch" => HasModel(Sym)
  /\ forecaster' = Polling
  /\ UNCHANGED << market, models, trainer, lost, tables, faults >>

-----------------------------------------------------------------------------
Training  == TrainOne \/ Launch \/ Install \/ CycleFails \/ Retry
Inference == Poll \/ SkipSymbol \/ Fetch \/ Insert \/ Label \/ Losses \/ PassFails \/ Refused

Next == \/ \E s \in Symbols : StorePrice(s) \/ StoreFeatures(s)
        \/ \E c \in Threads : LoseConnection(c)
        \/ Training \/ DayOver \/ Inference

\* Both threads keep being scheduled, and every sleep but the day's ends: what is
\* promised below is promised within minutes, not for tomorrow.
Fairness == WF_vars(Training) /\ WF_vars(Inference)

Spec == Init /\ [][Next]_vars /\ Fairness

-----------------------------------------------------------------------------
(* Properties.                                                             *)

\* "5-min forward realized volatility" (labels.py:7): the label of a forecast for
\* t is computed from the closes t .. t + ForwardWindow, unless one of them never
\* reached the table or did so when a label had been computed across it: however
\* history fills gaps, and however often a label was put off.
Span(t) == t .. (t + ForwardWindow)
LabelSpansWindow ==
  \A s \in Symbols : \A t \in Labelled(s) :
    Span(t) \subseteq prices[s] \ missed[s] => label[s][t] = Span(t)

\* Losses are computed from labelled forecasts only; between passes, when no call
\* has failed, from the newest of them (db.py:263-270).
LossesFromNewest ==
  \A s \in Symbols :
    /\ losses[s] \subseteq Labelled(s)
    /\ forecaster.at = "poll" /\ faults = 0 =>
         losses[s] = Newest(Labelled(s), LossPoints)

\* Again and again every valid feature row of a symbol with a model is forecast,
\* whatever failed in between, unless older rows that never can be fill the LIMIT (db.py:181-193) or
\* the thread has lost its connection (main.py:106-123).
Crowded(s, t) == Cardinality({ u \in invalid[s] : u < t }) >= BatchLimit
EventuallyForecast ==
  \A s \in Symbols : []<>(s \in models /\ CanQuery =>
                           \A t \in valid[s] : t \in forecasts[s] \/ Crowded(s, t))

\* A symbol with enough data gets a model by a quick retry, however late its data
\* came and whatever became of other symbols, unless the connection is lost.
EventuallyModelled ==
  \A s \in Symbols : Enough(s) ~> s \in models \/ "training" \in lost
=============================================================================
