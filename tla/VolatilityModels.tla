-------------------------- MODULE VolatilityModels --------------------------
(***************************************************************************)
(* A symbol's two models from training to a forecast: GARCHModel (src/     *)
(* forecasting/models/garch_model.py) tries two distributions and falls    *)
(* back on the sample deviation; XGBVolModel may not be there              *)
(* (train.py:57-94, inference.py:49-64).                                   *)
(*                                                                         *)
(* A volatility is zero or positive.  What arch and xgboost compute is     *)
(* left open, and so is the unit of it.                                    *)
(***************************************************************************)
EXTENDS Integers, Sequences

CONSTANT None     \* neither a number nor the name of a distribution

ASSUME NoneAssumption == None \notin Int /\ None \notin {"normal", "t"}

VARIABLES
  mpc,            \* fit, attempt, fitted, predicted, bundle, failed
  data,           \* the returns: too short, flat (no variance) or usual
  attempt,        \* index in Attempts
  fitted,         \* self.fitted: a distribution, or None
  fallback_vol,   \* self.fallback_vol: a volatility, or None
  xgb,            \* the other model: none, unfitted, fitted
  raised,         \* history: arch raised when it was last asked for a forecast
  forecast        \* the last row's volatilities

mvars == << mpc, data, attempt, fitted, fallback_vol, xgb, raised, forecast >>

Attempts == << "normal", "t" >>
SampleStd == [flat |-> 0, usual |-> 1]
NoForecast == [garch |-> None, xgb |-> None]

\* A new pair of models.
MInit ==
  /\ mpc = "fit" /\ data \in {"short", "flat", "usual"} /\ attempt = 1
  /\ fitted = None /\ fallback_vol = None /\ xgb = "none"
  /\ raised = FALSE /\ forecast = NoForecast

-----------------------------------------------------------------------------
(* GARCHModel.fit.                                                         *)

\* Fewer than 20 finite returns: ValueError, and the symbol has failed.
TooShort ==
  /\ mpc = "fit" /\ data = "short"
  /\ mpc' = "failed"
  /\ UNCHANGED << data, attempt, fitted, fallback_vol, xgb, raised, forecast >>

NearZeroVariance ==
  /\ mpc = "fit" /\ data = "flat"
  /\ mpc' = "fitted" /\ fallback_vol' = SampleStd[data]
  /\ UNCHANGED << data, attempt, fitted, xgb, raised, forecast >>

Scale ==
  /\ mpc = "fit" /\ data = "usual"
  /\ mpc' = "attempt"
  /\ UNCHANGED << data, attempt, fitted, fallback_vol, xgb, raised, forecast >>

\* convergence_flag = 0
Converges ==
  /\ mpc = "attempt" /\ attempt <= Len(Attempts)
  /\ mpc' = "fitted" /\ fitted' = Attempts[attempt]
  /\ UNCHANGED << data, attempt, fallback_vol, xgb, raised, forecast >>

\* Another flag, or an exception, which is caught.
TryNext ==
  /\ mpc = "attempt" /\ attempt <= Len(Attempts)
  /\ attempt' = attempt + 1
  /\ UNCHANGED << mpc, data, fitted, fallback_vol, xgb, raised, forecast >>

\* Mistake: nothing is put in the place of a model that did not converge.
NoFallback ==
  /\ mpc = "attempt" /\ attempt > Len(Attempts)
  /\ mpc' = "fitted"
  /\ UNCHANGED << data, attempt, fitted, fallback_vol, xgb, raised, forecast >>

FallBack ==
  /\ mpc = "attempt" /\ attempt > Len(Attempts)
  /\ mpc' = "fitted" /\ fallback_vol' = SampleStd[data]
  /\ UNCHANGED << data, attempt, fitted, xgb, raised, forecast >>

-----------------------------------------------------------------------------
(* GARCHModel.predict, once in training, then in every inference pass.     *)

CutOff(variance) == IF variance < 0 THEN 0 ELSE variance

\* What predict may come to: arch forecasts some variance or raises; the fallback;
\* or "GARCH model not fitted".
Predictions ==
  IF fitted = None
  THEN {[vol |-> fallback_vol, raises |-> FALSE]}
  ELSE {[vol |-> CutOff(variance), raises |-> FALSE] : variance \in {-1, 0, 1}}
       \cup {[vol |-> None, raises |-> TRUE]}

\* train_models: a symbol whose prediction raises has failed.
PredictInTraining ==
  /\ mpc = "fitted"
  /\ \E p \in Predictions :
       raised' = p.raises /\ mpc' = IF p.vol = None THEN "failed" ELSE "predicted"
  /\ UNCHANGED << data, attempt, fitted, fallback_vol, xgb, forecast >>

\* XGBVolModel.fit: whatever goes wrong, the symbol has its bundle.
TrainXgb ==
  /\ mpc = "predicted"
  /\ mpc' = "bundle" /\ xgb' \in {"none", "unfitted", "fitted"}
  /\ UNCHANGED << data, attempt, fitted, fallback_vol, raised, forecast >>

\* run_inference: the two predictions of one row; one that raises is left out.
Infer ==
  /\ mpc = "bundle"
  /\ \E p \in Predictions : \E x \in {None} \cup (IF xgb = "fitted" THEN {-1, 0, 1} ELSE {}) :
       raised' = p.raises /\ forecast' = [garch |-> p.vol, xgb |-> x]
  /\ UNCHANGED << mpc, data, attempt, fitted, fallback_vol, xgb >>

\* The next training makes new models.
Retrain ==
  /\ mpc \in {"bundle", "failed"}
  /\ mpc' = "fit" /\ data' \in {"short", "flat", "usual"} /\ attempt' = 1
  /\ fitted' = None /\ fallback_vol' = None /\ xgb' = "none"
  /\ raised' = FALSE /\ forecast' = NoForecast

MNext == \/ TooShort \/ NearZeroVariance \/ Scale \/ Converges \/ TryNext \/ FallBack
         \/ PredictInTraining \/ TrainXgb \/ Infer \/ Retrain

MSpec == MInit /\ [][MNext]_mvars

-----------------------------------------------------------------------------
(* Properties.                                                             *)

\* A fit that fails to converge, twice, costs no symbol its forecasts: training fails
\* on too few returns or when arch raises later, on a model that had converged, and a
\* bundle yields a GARCH volatility, never below zero, unless arch raises again
\* (garch_model.py:44-93, train.py:54-61, inference.py:49-53).
VolatilityKnown ==
  /\ mpc = "failed" => data = "short" \/ raised
  /\ mpc = "bundle" /\ forecast # NoForecast =>
       IF forecast.garch = None THEN raised ELSE forecast.garch >= 0
=============================================================================
