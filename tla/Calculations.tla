---------------------------- MODULE Calculations ----------------------------
(***************************************************************************)
(* The three calculations that share no state with anything while they     *)
(* run, each looked at by itself: a symbol's volatility models             *)
(* (forecasting), the allocation that uses their forecasts (portfolio      *)
(* engine), and the metrics of the equity it leads to (API gateway).       *)
(***************************************************************************)
EXTENDS Allocator, RiskMetrics, VolatilityModels

VARIABLE part     \* the calculation that is looked at; the others rest

cvars == << part, avars, rvars, mvars >>

AtRest ==
  /\ part # "allocation" => start = CHOOSE f \in Simplex : TRUE
  /\ part # "models" => data = "usual"

CInit == part \in {"allocation", "risk", "models"} /\ AInit /\ RInit /\ MInit /\ AtRest

CNext ==
  \/ part = "allocation" /\ ANext /\ UNCHANGED << part, rvars, mvars >>
  \/ part = "risk"       /\ RNext /\ UNCHANGED << part, avars, mvars >>
  \/ part = "models"     /\ MNext /\ UNCHANGED << part, avars, rvars >>

CSpec == CInit /\ [][CNext]_cvars
=============================================================================
