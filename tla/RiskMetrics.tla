----------------------------- MODULE RiskMetrics -----------------------------
(***************************************************************************)
(* What the API gateway tells of the portfolio's past (src/api_gateway/    *)
(* main.go): a request reads the newest rows of portfolio_state, newest    *)
(* first, turns them round, and, for the risk metrics, goes through them   *)
(* once.  handleRiskMetrics and computeRiskMetrics are the same code twice,*)
(* handleEquityCurve is its first half.                                    *)
(*                                                                         *)
(* Of a row only its equity is modelled, and a quotient is a pair of       *)
(* integers; averages and the Sharpe ratio are left out.                   *)
(***************************************************************************)
EXTENDS Integers, Sequences, FiniteSets, SequencesExt

CONSTANTS
  Equities,       \* what a row's equity may be; never negative (portfolio_engine/main.py:126)
  NULL,           \* an equity that is
  MaxRows,        \* bound: rows of the table
  RawLimits,      \* the query parameter; 0 if it is missing or no number
  DefaultLimit,   \* 200 or 90
  MaxLimit        \* 5000 or 2000

ASSUME RiskAssumption ==
  /\ Equities \subseteq Nat
  /\ NULL \notin Nat
  /\ MaxRows \in Nat
  /\ RawLimits \subseteq Int
  /\ DefaultLimit \in Nat \ {0}
  /\ MaxLimit \in Nat \ {0}

VARIABLES
  phase,          \* of one request: idle, reading, read, scanning, answered, error
  table,          \* portfolio_state as the query sees it, oldest row first
  limit,
  series,         \* the rows read so far
  i,              \* of the loop: the next row
  peak,
  maxDrawdown,    \* << numerator, denominator >>
  returns         \* quotients of equities; 1 is to be subtracted

rvars == << phase, table, limit, series, i, peak, maxDrawdown, returns >>

RInit ==
  /\ phase = "idle" /\ table = << >> /\ limit = DefaultLimit /\ series = << >>
  /\ i = 1 /\ peak = 0 /\ maxDrawdown = << 0, 1 >> /\ returns = << >>

-----------------------------------------------------------------------------
ClampLimit(raw) == IF raw <= 0 THEN DefaultLimit ELSE IF raw > MaxLimit THEN MaxLimit ELSE raw

ValueOrZero(x) == IF x = NULL THEN 0 ELSE x

\* A request; the query sees the table as it is now, whatever is inserted later.
Query ==
  /\ phase = "idle"
  /\ \E n \in 0 .. MaxRows : table' \in [1 .. n -> Equities \cup {NULL}]
  /\ \E raw \in RawLimits : limit' = ClampLimit(raw)
  /\ phase' \in {"reading", "error"}
  /\ UNCHANGED << series, i, peak, maxDrawdown, returns >>

Unread == Len(series) < Len(table) /\ Len(series) < limit

\* Mistake: ORDER BY time, without DESC.
OldestFirst == table[Len(series) + 1]

\* ORDER BY time DESC
NextRow == table[Len(table) - Len(series)]

\* rows.Next and rows.Scan
Read ==
  /\ phase = "reading" /\ Unread
  /\ series' = Append(series, ValueOrZero(NextRow))
  /\ UNCHANGED << phase, table, limit, i, peak, maxDrawdown, returns >>

ScanFails ==
  /\ phase = "reading" /\ Unread
  /\ phase' = "error"
  /\ UNCHANGED << table, limit, series, i, peak, maxDrawdown, returns >>

\* rows.Next is false after the last row and after a lost connection alike, and
\* rows.Err is not asked which it was.  An empty answer ends the request.
EndOfRows ==
  /\ phase = "reading"
  /\ phase' = IF series = << >> THEN "answered" ELSE "read"
  /\ UNCHANGED << table, limit, series, i, peak, maxDrawdown, returns >>

\* The rows are turned round.  An equity curve is answered with them.
Forward ==
  /\ phase = "read"
  /\ phase' \in {"scanning", "answered"}
  /\ series' = Reverse(series) /\ peak' = series'[1]
  /\ i' = 1 /\ maxDrawdown' = << 0, 1 >> /\ returns' = << >>
  /\ UNCHANGED << table, limit >>

Less(p, q) == p[1] * q[2] < q[1] * p[2]

ReturnPair(k) == << series[k], series[k - 1] >>

\* Mistake: the row itself is looked at, not the one that is divided by.
InvestedNow == i > 1 /\ series[i] > 0

HasReturn == i > 1 /\ series[i - 1] > 0

Drawdown(top, eq) == << top - eq, top >>

\* Mistake: the drawdown is taken before the peak is brought up to date.
ScanRowLate ==
  /\ phase = "scanning" /\ i <= Len(series)
  /\ peak' = IF series[i] > peak THEN series[i] ELSE peak
  /\ maxDrawdown' = IF peak > 0 /\ series[i] < peak THEN Drawdown(peak, series[i])
                    ELSE maxDrawdown
  /\ returns' = IF HasReturn THEN Append(returns, ReturnPair(i)) ELSE returns
  /\ i' = i + 1
  /\ UNCHANGED << phase, table, limit, series >>

\* The loop's body.
ScanRow ==
  /\ phase = "scanning" /\ i <= Len(series)
  /\ peak' = IF series[i] > peak THEN series[i] ELSE peak
  /\ maxDrawdown' = IF peak' > 0 /\ Less(maxDrawdown, Drawdown(peak', series[i]))
                    THEN Drawdown(peak', series[i]) ELSE maxDrawdown
  /\ returns' = IF HasReturn THEN Append(returns, ReturnPair(i)) ELSE returns
  /\ i' = i + 1
  /\ UNCHANGED << phase, table, limit, series >>

\* The averages, and the answer.
Rate ==
  /\ phase = "scanning" /\ i > Len(series)
  /\ phase' = "answered"
  /\ UNCHANGED << table, limit, series, i, peak, maxDrawdown, returns >>

\* The next request.
Done ==
  /\ phase \in {"answered", "error"}
  /\ phase' = "idle" /\ table' = << >> /\ limit' = DefaultLimit /\ series' = << >>
  /\ i' = 1 /\ peak' = 0 /\ maxDrawdown' = << 0, 1 >> /\ returns' = << >>

RNext == \/ Query \/ Read \/ ScanFails \/ EndOfRows \/ Forward \/ ScanRow \/ Rate \/ Done

RSpec == RInit /\ [][RNext]_rvars

-----------------------------------------------------------------------------
(* Properties.                                                             *)

\* No pair of rows read so far, the one not before the other, lost a larger share.
NoneWorse ==
  \A k \in 1 .. (i - 1) : \A j \in 1 .. k :
    series[j] > 0 => ~ Less(maxDrawdown, Drawdown(series[j], series[k]))

\* A pair of rows lost just that share.
Attained ==
  \/ maxDrawdown = << 0, 1 >>
  \/ \E k \in 1 .. (i - 1) : \E j \in 1 .. k :
       series[j] > 0 /\ maxDrawdown = Drawdown(series[j], series[k])

\* One pass with a running peak finds the worst of all drawdowns between any two
\* rows of the window, and no other, whatever zeros are among them (main.go:382-396).
DrawdownIsWorst == phase = "scanning" => NoneWorse /\ Attained

\* The rows of the window up to the k-th of the table that can be divided by.
Divisible(k) ==
  { j \in (Len(table) - Len(series) + 1) .. k : ValueOrZero(table[j]) > 0 }

\* The returns are those from each row of the window that can be divided by to the row
\* right after it, in the order of time and no others: a zero or a NULL is a loss of
\* everything and then no return, never bridged, and the window ends at the table's
\* newest row wherever the query broke off (main.go:327-404).
ReturnsOfAdjacent ==
  phase = "answered" /\ i > Len(series) =>
    /\ Len(returns) = Cardinality(Divisible(Len(table) - 1))
    /\ \A k \in Divisible(Len(table) - 1) :
         returns[Cardinality(Divisible(k))] = << ValueOrZero(table[k + 1]), table[k] >>
=============================================================================
