----------------------------- MODULE Allocator -----------------------------
(***************************************************************************)
(* How the portfolio engine arrives at its weights (src/portfolio_engine/  *)
(* allocator.py and main.py:84-97): steps of a gradient ascent, each       *)
(* followed by _project_weights, which pushes weights back between 0 and   *)
(* the cap and spreads what is then missing or too much; inverse-          *)
(* volatility weights, projected likewise; and the mean of the two.        *)
(*                                                                         *)
(* Weights are integers, Unit being 1.0.  What the gradient and the        *)
(* volatilities are is left open: an ascent moves every weight by at most  *)
(* MaxMove, and inverse volatilities are any positive shares.  All weights *)
(* are multiples of Grain, which makes every division here exact.          *)
(***************************************************************************)
EXTENDS Integers, FiniteSets, Functions

CONSTANTS
  Assets,         \* SYMBOLS
  Unit,           \* 1.0
  Cap,            \* WEIGHT_CAP
  Grain,          \* inputs are multiples of it, and it is one of every number up to Cardinality(Assets)!
  MaxMove         \* bound: the largest move of a weight in one ascent

ASSUME AllocatorAssumption ==
  /\ IsFiniteSet(Assets)
  /\ Unit \in Nat \ {0}
  /\ Cap \in Nat \ {0}
  /\ Grain \in Nat \ {0}
  /\ MaxMove \in Nat

VARIABLES
  stage,          \* of one computation: where it is
  source,         \* ascent or inverse volatility
  start,          \* the weights the ascent started from
  target,         \* the argument of _project_weights
  v,              \* its local v
  rounds,         \* rounds of its loop
  opt, iv,        \* the two results, NoWeights before
  weights         \* the new allocation, NoWeights before

avars == << stage, source, start, target, v, rounds, opt, iv, weights >>

\* Weights: shares of a total.
Shares(f, t) == [share |-> f, total |-> t]
Total(f) == FoldFunctionOnSet(+, 0, f, Assets)
Zeros == [a \in Assets |-> 0]
NoWeights == Shares(Zeros, 1)
EqualWeights == Shares([a \in Assets |-> 1], Cardinality(Assets))

Grid(S) == { n \in S : n % Grain = 0 }
Simplex == { f \in [Assets -> Grid(0 .. Unit)] : Total(f) = Unit }
Moves == [Assets -> Grid(-MaxMove .. MaxMove)]

\* The ascent may be anywhere: its weights are those of the step before.
AInit ==
  /\ stage = "ascend" /\ source = "ascent"
  /\ start \in Simplex
  /\ target = start /\ v = start /\ rounds = 0
  /\ opt = NoWeights /\ iv = NoWeights /\ weights = NoWeights

-----------------------------------------------------------------------------
(* _project_weights.                                                       *)

\* np.clip
Clip(x) == IF x < 0 THEN 0 ELSE IF x > Cap THEN Cap ELSE x

Project(from, f) ==
  /\ source' = from /\ target' = f
  /\ v' = [a \in Assets |-> Clip(f[a])]
  /\ rounds' = 0
  /\ stage' = "spread"

\* The weights strictly inside of their bounds.
Free(f) == { a \in Assets : f[a] > 0 /\ f[a] < Cap }

\* Mistake: clipped at the end only.
Overfilled(x, d) == x + d

\* Mistake: the sum goes to a copy.
Untouched(x, d) == x

Refilled(x, d) == Clip(x + d)

\* What one weight may be given: from too much to all that is missing.
Amounts == -(Cap * Cardinality(Assets)) .. Unit

\* One round: what is missing is spread over the free weights.
Spread ==
  /\ stage = "spread"
  /\ Total(v) # Unit /\ Free(v) # {}
  /\ \E d \in Amounts :
       /\ d * Cardinality(Free(v)) = Unit - Total(v)
       /\ v' = [a \in Assets |-> IF a \in Free(v) THEN Refilled(v[a], d) ELSE v[a]]
  /\ rounds' = rounds + 1
  /\ UNCHANGED << stage, source, start, target, opt, iv, weights >>

\* Mistake: the sum is not looked at again.
Raw(f) == Shares(f, Unit)

\* "v / total", or equal weights when all are zero.
Normalised(f) == IF Total(f) <= 0 THEN EqualWeights ELSE Shares(f, Total(f))

\* The loop ends when nothing is missing, or nobody is left to take it.
Return ==
  /\ stage = "spread"
  /\ Total(v) = Unit \/ Free(v) = {}
  /\ stage' = "returned"
  /\ IF source = "ascent" THEN opt' = Normalised(v) /\ UNCHANGED iv
                          ELSE iv' = Normalised(v) /\ UNCHANGED opt
  /\ UNCHANGED << source, start, target, v, rounds, weights >>

-----------------------------------------------------------------------------
(* _run_rebalance, lines 84 to 97.                                         *)

\* The last step of optimize_sharpe_proxy.
Ascend ==
  /\ stage = "ascend"
  /\ \E m \in Moves : Project("ascent", [a \in Assets |-> start[a] + m[a]])
  /\ UNCHANGED << start, opt, iv, weights >>

\* A NaN anywhere makes all weights NaN; main() falls back on equal ones.
Diverge ==
  /\ stage = "ascend"
  /\ opt' = EqualWeights
  /\ stage' = "returned"
  /\ UNCHANGED << source, start, target, v, rounds, iv, weights >>

\* inverse_vol_weights, a share of zero being that of an asset whose volatility is
\* out of all proportion to another's, which counts as 1e-12 when it is zero.
InverseVol ==
  /\ stage = "returned" /\ source = "ascent"
  /\ \E f \in Simplex : Project("inverse", f)
  /\ start' = Zeros
  /\ UNCHANGED << opt, iv, weights >>

\* choose_target_vols: the mean of two forecasts or the only one, else zero.  It is
\* positive or not; nothing keeps a predicted volatility above zero, so that it may
\* fail to be with forecasts present, too.
Missing == 99
Forecast == {Missing, -1, 0, 1}
TargetVol(garch, xgb) ==
  CASE garch # Missing /\ xgb # Missing -> garch + xgb
    [] garch = Missing /\ xgb # Missing -> 2 * xgb
    [] garch # Missing /\ xgb = Missing -> 2 * garch
    [] OTHER                      -> 0
HasVol == { TargetVol(g, x) > 0 : g, x \in Forecast }

\* 0.5 * p + 0.5 * q, over twice the product of the totals.
Mean(p, q) == [a \in Assets |-> p.share[a] * q.total + q.share[a] * p.total]

\* Inverse volatilities only count when there is one for every asset.
Combine ==
  /\ stage = "returned" /\ source = "inverse"
  /\ stage' = "combined"
  /\ \E hasVol \in [Assets -> HasVol] :
       weights' = IF \E a \in Assets : ~ hasVol[a] THEN opt
                  ELSE Shares(Mean(opt, iv), Total(Mean(opt, iv)))
  /\ UNCHANGED << source, start, target, v, rounds, opt, iv >>

\* The next rebalance.
NextAscent ==
  /\ stage = "combined"
  /\ stage' = "ascend" /\ source' = "ascent"
  /\ start' \in Simplex
  /\ target' = start' /\ v' = start' /\ rounds' = 0
  /\ opt' = NoWeights /\ iv' = NoWeights /\ weights' = NoWeights

-----------------------------------------------------------------------------
ANext == Ascend \/ Diverge \/ Spread \/ Return \/ InverseVol \/ Combine \/ NextAscent

ASpec == AInit /\ [][ANext]_avars

-----------------------------------------------------------------------------
(* Properties.                                                             *)

\* w is long only, fully invested, and no weight is above the cap.
WithinCap(w) == \A a \in Assets : w.share[a] * Unit <= Cap * w.total
Invested(w)  == Total(w.share) = w.total /\ \A a \in Assets : w.share[a] >= 0

\* The ascent was within a cap that leaves room for a whole, and took so little from
\* every weight that they cannot all come to lie at zero or at the cap and yet be
\* less than a whole.
SmallMove ==
  LET AtCap == Unit \div Cap
  IN  /\ Cap * Cardinality(Assets) >= Unit
      /\ \A a \in Assets :
           /\ start[a] <= Cap
           /\ (Cardinality(Assets) - AtCap) * (start[a] - target[a]) < Unit - AtCap * Cap

\* No volatility is out of proportion, and the cap leaves room.
AllShare == Cap * Cardinality(Assets) >= Unit /\ \A a \in Assets : target[a] > 0

\* "Long-only, fully invested, optional weight caps" (README.md:231): every result is
\* long only and fully invested.  Normalisation may lift a weight above the cap, but
\* neither after a small move from within the cap nor for inverse volatilities of
\* which none is out of proportion; and the mean keeps a cap that both have kept
\* (allocator.py:7-31, 70-74, main.py:92-97).
Constrained ==
  /\ stage = "returned" =>
       \/ source = "ascent"  /\ Invested(opt) /\ (SmallMove => WithinCap(opt))
       \/ source = "inverse" /\ Invested(iv) /\ (AllShare => WithinCap(iv))
  /\ stage = "combined" =>
       /\ Invested(weights)
       /\ WithinCap(opt) /\ WithinCap(iv) => WithinCap(weights)

\* Projection never reverses a preference: the asset with the larger target does not
\* end up with the smaller weight.
OrderKept ==
  stage = "spread" =>
    \A a, b \in Assets : target[a] <= target[b] => v[a] <= v[b]

\* Every round but the last one pins a weight for good, so that the loop needs no
\* more rounds than there are weights: its limit of 200 is never what ends it, with a
\* sum that is still off.
FewRounds == stage = "spread" => rounds + Cardinality(Free(v)) <= Cardinality(Assets) + 1
=============================================================================
