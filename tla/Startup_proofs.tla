--------------------------- MODULE Startup_proofs ---------------------------
(***************************************************************************)
(* Proof that the services start on the data they wait for, for any set of *)
(* symbols, any thresholds, answers of any length, and any number of       *)
(* failed backfills, outages, deaths and restarts.                         *)
(***************************************************************************)
EXTENDS Startup, TLAPS

\* What the proof is about; the rest of the state plays no part in it.
Types ==
  /\ at \in [Services -> Nat] /\ \A svc \in Services : at[svc] <= Len(Path[svc])
  /\ status \in [Symbols -> {"absent", "in_progress", "done", "failed"}]
  /\ published \in [Symbols -> Nat] /\ prices \in [Symbols -> Nat]

\* "done" is written after the answer has been gone through, and what an earlier run
\* fetched stays in the stream.
DoneFetched == \A s \in Symbols : status[s] = "done" => s \in fetched

\* What a service has waited for is still there: by its place on its path.
Waited ==
  \A s \in Symbols :
    /\ at["forecasting"] > 3 => s \in fetched
    /\ at["forecasting"] > 4 => FeatureRows(s) >= MinFeatureRows
    /\ at["portfolio_engine"] > 3 => s \in fetched
    /\ at["portfolio_engine"] > 4 => prices[s] >= MinPriceRows
    /\ at["portfolio_engine"] > 5 => s \in forecasted

IInv == Types /\ DoneFetched /\ Waited

-----------------------------------------------------------------------------
\* The places of the two services that wait.
LEMMA Places ==
  ASSUME Types
  PROVE  /\ {"forecasting", "portfolio_engine"} \subseteq Services
         /\ Running("forecasting") <=> at["forecasting"] = 5
         /\ Stage("forecasting") = "backfill" <=> at["forecasting"] = 3
         /\ Stage("forecasting") = "features" <=> at["forecasting"] = 4
         /\ Stage("forecasting") \in Gates => at["forecasting"] \in {3, 4}
         /\ Running("portfolio_engine") <=> at["portfolio_engine"] = 6
         /\ Stage("portfolio_engine") = "backfill" <=> at["portfolio_engine"] = 3
         /\ Stage("portfolio_engine") = "prices" <=> at["portfolio_engine"] = 4
         /\ Stage("portfolio_engine") = "forecasts" <=> at["portfolio_engine"] = 5
         /\ Stage("portfolio_engine") \in Gates => at["portfolio_engine"] \in {3, 4, 5}
PROOF
<1>1. Services = {"ingestion", "feature_engineering", "forecasting", "portfolio_engine"}
  BY DEF Services, Path
<1>2. /\ Path["forecasting"] = << "connect", "ensure", "backfill", "features", "running" >>
      /\ Path["portfolio_engine"] = << "connect", "ensure", "backfill", "prices", "forecasts",
                                       "running" >>
  BY DEF Path
<1>3. /\ at["forecasting"] \in 0 .. 5 /\ at["portfolio_engine"] \in 0 .. 6
  <2>1. Len(Path["forecasting"]) = 5 /\ Len(Path["portfolio_engine"]) = 6
    BY <1>2
  <2>2. /\ at["forecasting"] \in Nat /\ at["forecasting"] <= Len(Path["forecasting"])
        /\ at["portfolio_engine"] \in Nat
        /\ at["portfolio_engine"] <= Len(Path["portfolio_engine"])
    BY <1>1 DEF Types
  <2> QED
    BY <2>1, <2>2
<1>4. /\ at["forecasting"] = 0 => Stage("forecasting") = "off"
      /\ at["forecasting"] = 1 => Stage("forecasting") = "connect"
      /\ at["forecasting"] = 2 => Stage("forecasting") = "ensure"
      /\ at["forecasting"] = 3 => Stage("forecasting") = "backfill"
      /\ at["forecasting"] = 4 => Stage("forecasting") = "features"
      /\ at["forecasting"] = 5 => Stage("forecasting") = "running"
  BY <1>2 DEF Stage
<1>5. /\ at["portfolio_engine"] = 0 => Stage("portfolio_engine") = "off"
      /\ at["portfolio_engine"] = 1 => Stage("portfolio_engine") = "connect"
      /\ at["portfolio_engine"] = 2 => Stage("portfolio_engine") = "ensure"
      /\ at["portfolio_engine"] = 3 => Stage("portfolio_engine") = "backfill"
      /\ at["portfolio_engine"] = 4 => Stage("portfolio_engine") = "prices"
      /\ at["portfolio_engine"] = 5 => Stage("portfolio_engine") = "forecasts"
      /\ at["portfolio_engine"] = 6 => Stage("portfolio_engine") = "running"
  BY <1>2 DEF Stage
<1>6. at["forecasting"] \in {0, 1, 2, 3, 4, 5} /\ at["portfolio_engine"] \in {0, 1, 2, 3, 4, 5, 6}
  BY <1>3
<1>7. /\ Running("forecasting") <=> at["forecasting"] = 5
      /\ Stage("forecasting") = "backfill" <=> at["forecasting"] = 3
      /\ Stage("forecasting") = "features" <=> at["forecasting"] = 4
      /\ Stage("forecasting") \in Gates => at["forecasting"] \in {3, 4}
  BY <1>4, <1>6 DEF Running, Gates
<1>8. /\ Running("portfolio_engine") <=> at["portfolio_engine"] = 6
      /\ Stage("portfolio_engine") = "backfill" <=> at["portfolio_engine"] = 3
      /\ Stage("portfolio_engine") = "prices" <=> at["portfolio_engine"] = 4
      /\ Stage("portfolio_engine") = "forecasts" <=> at["portfolio_engine"] = 5
      /\ Stage("portfolio_engine") \in Gates => at["portfolio_engine"] \in {3, 4, 5}
  BY <1>5, <1>6 DEF Running, Gates
<1> QED
  BY <1>1, <1>7, <1>8

\* A service that goes on is not beyond the end of its path.
LEMMA RunningIsLast ==
  ASSUME NEW svc \in Services, at[svc] \in Nat, at[svc] <= Len(Path[svc]),
         Stage(svc) \in {"connect", "ensure"} \cup Gates
  PROVE  at[svc] + 1 <= Len(Path[svc])
PROOF
<1>1. svc \in {"ingestion", "feature_engineering", "forecasting", "portfolio_engine"}
  BY DEF Services, Path
<1>2. at[svc] # 0 /\ Stage(svc) = Path[svc][at[svc]]
  BY DEF Stage, Gates
<1>3. Path[svc][at[svc]] # "running"
  BY <1>2 DEF Gates
<1>4. Len(Path[svc]) \in Nat /\ Path[svc][Len(Path[svc])] = "running"
  <2>1. CASE svc \in {"ingestion", "feature_engineering"}
    <3>1. Path[svc] = << "connect", "ensure", "running" >>
      BY <2>1 DEF Path
    <3> QED
      BY <3>1
  <2>2. CASE svc = "forecasting"
    <3>1. Path[svc] = << "connect", "ensure", "backfill", "features", "running" >>
      BY <2>2 DEF Path
    <3> QED
      BY <3>1
  <2>3. CASE svc = "portfolio_engine"
    <3>1. Path[svc] = << "connect", "ensure", "backfill", "prices", "forecasts", "running" >>
      BY <2>3 DEF Path
    <3> QED
      BY <3>1
  <2> QED
    BY <1>1, <2>1, <2>2, <2>3
<1>5. at[svc] # Len(Path[svc])
  BY <1>3, <1>4
<1> QED
  BY <1>4, <1>5

LEMMA InitEstablishes == Init => IInv
PROOF
<1> SUFFICES ASSUME Init PROVE IInv
  OBVIOUS
<1>1. \A svc \in Services : Len(Path[svc]) \in Nat
  BY DEF Services, Path
<1>2. Types
  BY <1>1 DEF Init, Types, Zero
<1>3. {"forecasting", "portfolio_engine"} \subseteq Services
  BY DEF Services, Path
<1>4. DoneFetched /\ Waited
  BY <1>3 DEF Init, DoneFetched, Waited
<1> QED
  BY <1>2, <1>4 DEF IInv

\* A service that begins or exits waits for everything again.
LEMMA BackToStart ==
  ASSUME IInv, NEW svc \in Services, NEW n \in {0, 1},
         at' = [at EXCEPT ![svc] = n],
         UNCHANGED << status, fetched, published, prices, forecasted >>
  PROVE  IInv'
PROOF
<1>1. \A q \in Services : Len(Path[q]) \in Nat /\ n <= Len(Path[q])
  <2>1. Services = {"ingestion", "feature_engineering", "forecasting", "portfolio_engine"}
    BY DEF Services, Path
  <2>2. /\ Len(Path["ingestion"]) = 3 /\ Len(Path["feature_engineering"]) = 3
        /\ Len(Path["forecasting"]) = 5 /\ Len(Path["portfolio_engine"]) = 6
    BY DEF Path
  <2>3. SUFFICES ASSUME NEW q \in Services PROVE Len(Path[q]) \in Nat /\ n <= Len(Path[q])
    OBVIOUS
  <2>4. Len(Path[q]) \in {3, 5, 6}
    BY <2>1, <2>2, <2>3
  <2>5. \A l \in {3, 5, 6} : l \in Nat /\ n <= l
    OBVIOUS
  <2> QED
    BY <2>4, <2>5
<1>2. {"forecasting", "portfolio_engine"} \subseteq Services
  BY DEF Services, Path
<1>3. Types'
  BY <1>1 DEF IInv, Types
<1>4. \A q \in Services : at'[q] \in {at[q], 0, 1}
  BY DEF IInv, Types
<1>5. Waited'
  BY <1>2, <1>4 DEF IInv, Waited, FeatureRows
<1> QED
  BY <1>3, <1>5 DEF IInv, DoneFetched

\* A service goes on: past a gate only when it has found what it waits for.
LEMMA GoesOn ==
  ASSUME IInv, NEW svc \in Services, Stage(svc) \in {"connect", "ensure"} \cup Gates,
         Advance(svc), Stage(svc) \in Gates => \A s \in Symbols : Ready(Stage(svc), s),
         UNCHANGED << status, fetched, published, prices, forecasted >>
  PROVE  IInv'
PROOF
<1>1. /\ at[svc] + 1 <= Len(Path[svc])
      /\ at' = [at EXCEPT ![svc] = @ + 1]
  BY RunningIsLast DEF IInv, Types, Advance
<1>2. Types'
  BY <1>1 DEF IInv, Types
<1>3. \A q \in Services : at'[q] = IF q = svc THEN at[q] + 1 ELSE at[q]
  BY <1>1 DEF IInv, Types
<1>4. /\ {"forecasting", "portfolio_engine"} \subseteq Services
      /\ at["forecasting"] \in Nat /\ at["portfolio_engine"] \in Nat
  BY Places DEF IInv, Types
<1>5. Waited'
  <2> SUFFICES ASSUME NEW s \in Symbols
               PROVE  /\ at'["forecasting"] > 3 => s \in fetched
                      /\ at'["forecasting"] > 4 => FeatureRows(s) >= MinFeatureRows
                      /\ at'["portfolio_engine"] > 3 => s \in fetched
                      /\ at'["portfolio_engine"] > 4 => prices[s] >= MinPriceRows
                      /\ at'["portfolio_engine"] > 5 => s \in forecasted
    BY DEF Waited, FeatureRows
  <2>1. CASE svc = "forecasting"
    <3>1. at["forecasting"] = 3 => s \in fetched
      BY <2>1, Places DEF IInv, DoneFetched, Ready, Gates
    <3>2. at["forecasting"] = 4 => FeatureRows(s) >= MinFeatureRows
      BY <2>1, Places DEF IInv, Ready, Gates
    <3> QED
      BY <1>3, <1>4, <2>1, <3>1, <3>2 DEF IInv, Waited
  <2>2. CASE svc = "portfolio_engine"
    <3>1. at["portfolio_engine"] = 4 => prices[s] >= MinPriceRows
      BY <2>2, Places DEF IInv, Ready, Gates
    <3>2. at["portfolio_engine"] = 5 => s \in forecasted
      BY <2>2, Places DEF IInv, Ready, Gates
    <3>3. at["portfolio_engine"] = 3 => s \in fetched
      BY <2>2, Places DEF IInv, DoneFetched, Ready, Gates
    <3> QED
      BY <1>3, <1>4, <2>2, <3>1, <3>2, <3>3 DEF IInv, Waited
  <2>3. CASE svc \notin {"forecasting", "portfolio_engine"}
    BY <1>3, <1>4, <2>3 DEF IInv, Waited
  <2> QED
    BY <2>1, <2>2, <2>3
<1> QED
  BY <1>2, <1>5 DEF IInv, DoneFetched

\* Rows only become more, and what has been fetched stays fetched.
LEMMA RowsGrow ==
  ASSUME IInv, UNCHANGED at,
         status' \in [Symbols -> {"absent", "in_progress", "done", "failed"}],
         published' \in [Symbols -> Nat], prices' \in [Symbols -> Nat],
         \A s \in Symbols : /\ prices[s] <= prices'[s]
                            /\ status'[s] = "done" => status[s] = "done" \/ s \in fetched',
         fetched \subseteq fetched', forecasted \subseteq forecasted'
  PROVE  IInv'
PROOF
<1>1. Types'
  BY DEF IInv, Types
<1>2. ASSUME NEW s \in Symbols
      PROVE  /\ FeatureRows(s) >= MinFeatureRows => FeatureRows(s)' >= MinFeatureRows
             /\ prices[s] >= MinPriceRows => prices'[s] >= MinPriceRows
  <2>1. /\ prices[s] \in Nat /\ prices'[s] \in Nat /\ prices[s] <= prices'[s]
        /\ Warmup \in Nat /\ MinFeatureRows \in Nat /\ MinPriceRows \in Nat
    BY StartupAssumption DEF IInv, Types
  <2> QED
    BY <2>1 DEF FeatureRows
<1>3. DoneFetched'
  BY DEF IInv, DoneFetched
<1>4. Waited'
  BY <1>2 DEF IInv, Waited
<1> QED
  BY <1>1, <1>3, <1>4 DEF IInv

LEMMA BackfillKeeps == ASSUME NEW s \in Symbols PROVE IInv /\ Backfill(s) => IInv'
PROOF
<1> SUFFICES ASSUME IInv, Backfill(s) PROVE IInv'
  OBVIOUS
<1>1. UNCHANGED << at, prices, forecasted >>
  BY DEF Backfill, BackfillBegins, BackfillEnds, services
<1>2. /\ status \in [Symbols -> {"absent", "in_progress", "done", "failed"}]
      /\ published \in [Symbols -> Nat] /\ prices \in [Symbols -> Nat]
  BY DEF IInv, Types
<1>3. \A q \in Symbols : prices[q] <= prices'[q]
  BY <1>1, <1>2
<1>4. CASE BackfillBegins(s)
  <2>1. UNCHANGED << fetched, published >> /\ SetStatus(s, "in_progress")
    BY <1>4 DEF BackfillBegins
  <2>2. /\ status' \in [Symbols -> {"absent", "in_progress", "done", "failed"}]
        /\ \A q \in Symbols : status'[q] = "done" => status[q] = "done"
    BY <1>2, <2>1 DEF SetStatus
  <2> QED
    BY <1>1, <1>2, <1>3, <2>1, <2>2, RowsGrow
<1>5. CASE Publishes(s) /\ SetStatus(s, "done") /\ fetched' = fetched \cup {s}
  <2>1. PICK m \in published[s] .. Atmost(published[s] + History) :
               published' = [published EXCEPT ![s] = m]
    BY <1>5 DEF Publishes
  <2>2. m \in Nat
    BY <1>2, <2>1, StartupAssumption DEF Atmost
  <2>3. published' \in [Symbols -> Nat]
    BY <1>2, <2>1, <2>2
  <2>4. /\ status' \in [Symbols -> {"absent", "in_progress", "done", "failed"}]
        /\ \A q \in Symbols : status'[q] = "done" => status[q] = "done" \/ q = s
    BY <1>2, <1>5 DEF SetStatus
  <2> QED
    BY <1>1, <1>2, <1>3, <1>5, <2>3, <2>4, RowsGrow
<1>6. CASE Spoils(s) /\ UNCHANGED << fetched, published >>
  <2>1. /\ status' \in [Symbols -> {"absent", "in_progress", "done", "failed"}]
        /\ \A q \in Symbols : status'[q] = "done" => status[q] = "done"
    BY <1>2, <1>6 DEF Spoils, SetStatus
  <2> QED
    BY <1>1, <1>2, <1>3, <1>6, <2>1, RowsGrow
<1> QED
  BY <1>4, <1>5, <1>6 DEF Backfill, BackfillEnds

LEMMA MoreRowsKeep ==
  ASSUME NEW s \in Symbols PROVE IInv /\ (LiveCandle(s) \/ Store(s) \/ Forecast(s)) => IInv'
PROOF
<1> SUFFICES ASSUME IInv, LiveCandle(s) \/ Store(s) \/ Forecast(s) PROVE IInv'
  OBVIOUS
<1>1. /\ status \in [Symbols -> {"absent", "in_progress", "done", "failed"}]
      /\ published \in [Symbols -> Nat] /\ prices \in [Symbols -> Nat]
  BY DEF IInv, Types
<1>2. UNCHANGED << at, status, fetched >>
  BY DEF LiveCandle, Store, Forecast, services, backfill
<1>3. /\ published' \in {published, [published EXCEPT ![s] = @ + 1]}
      /\ prices' \in {prices, [prices EXCEPT ![s] = @ + 1]}
      /\ forecasted \subseteq forecasted'
  BY DEF LiveCandle, Store, Forecast
<1>4. published' \in [Symbols -> Nat] /\ prices' \in [Symbols -> Nat]
  BY <1>1, <1>3
<1>5. \A q \in Symbols : prices[q] <= prices'[q]
  BY <1>1, <1>3
<1> QED
  BY <1>1, <1>2, <1>3, <1>4, <1>5, RowsGrow

-----------------------------------------------------------------------------
LEMMA GoKeeps ==
  ASSUME NEW svc \in Services PROVE IInv /\ (Go(svc) \/ Relaunch(svc) \/ Stop(svc)) => IInv'
PROOF
<1> SUFFICES ASSUME IInv, Go(svc) \/ Relaunch(svc) \/ Stop(svc) PROVE IInv'
  OBVIOUS
<1>1. CASE Launch(svc) \/ Relaunch(svc)
  BY <1>1, BackToStart DEF Launch, Relaunch, Begin
<1>2. CASE Connect(svc)
  BY <1>2, GoesOn DEF Connect, Gates, data, stored
<1>3. CASE Ensure(svc)
  BY <1>3, GoesOn DEF Ensure, Gates, data, stored
<1>4. CASE Pass(svc)
  BY <1>4, GoesOn DEF Pass, data, stored
<1>5. CASE ConnectFails(svc) /\ Exit(svc)
  BY <1>5, BackToStart DEF ConnectFails, Exit, stored
<1>6. CASE ConnectFails(svc) /\ UNCHANGED at
  BY <1>6 DEF ConnectFails, stored, IInv, Types, DoneFetched, Waited, FeatureRows
<1>7. CASE TableMissing(svc) \/ QueryFails(svc) \/ Stop(svc)
  BY <1>7, BackToStart DEF TableMissing, QueryFails, Stop, Exit, stored
<1> QED
  BY <1>1, <1>2, <1>3, <1>4, <1>5, <1>6, <1>7 DEF Go, ConnectFails

LEMMA StepKeeps == IInv /\ [Next]_vars => IInv'
PROOF
<1> SUFFICES ASSUME IInv, [Next]_vars PROVE IInv'
  OBVIOUS
<1>1. CASE Outage \/ Recover \/ UNCHANGED vars
  BY <1>1 DEF Outage, Recover, vars, services, data, stored,
              IInv, Types, DoneFetched, Waited, FeatureRows
<1>2. CASE \E svc \in Services : Go(svc) \/ Relaunch(svc) \/ Stop(svc)
  BY <1>2, GoKeeps
<1>3. CASE \E s \in Symbols : Backfill(s) \/ LiveCandle(s) \/ Store(s) \/ Forecast(s)
  BY <1>3, BackfillKeeps, MoreRowsKeep
<1> QED
  BY <1>1, <1>2, <1>3 DEF Next

\* Whatever fails or is started again meanwhile, a service that runs finds what it works
\* on: of every symbol the backfill has been gone through and there are the features it
\* needs, or the prices and the forecasts (forecasting/db.py:34-79, portfolio_engine/db.py:73-137).
THEOREM RunningOnData == Spec => []RunsOnData
PROOF
<1>1. IInv => RunsOnData
  BY Places DEF IInv, Waited, RunsOnData
<1> QED
  BY InitEstablishes, StepKeeps, <1>1, PTL DEF Spec
=============================================================================
