-------------------------- MODULE PortfolioLedger --------------------------
(***************************************************************************)
(* What the table portfolio_state promises to its readers (the equity      *)
(* curve and the risk metrics of the API): a ledger that only grows at its *)
(* end, in which every row continues the one before it -- its period P&L   *)
(* is the change of equity since that row and its cumulative P&L the sum   *)
(* of all periods -- and equity never goes below zero.                     *)
(***************************************************************************)
EXTENDS Integers

CONSTANT InitialEquity      \* equity before the first row

VARIABLE ledger             \* a set of rows [time, equity, period, cumulative]

\* The row that q continues; the start of the simulation if it is the first.
Origin == [time |-> 0, equity |-> InitialEquity, period |-> 0, cumulative |-> 0]
Continues(q, p) == /\ q.period = q.equity - p.equity
                   /\ q.cumulative = p.cumulative + q.period
                   /\ q.equity >= 0

IsLast(p) == \A r \in ledger : r.time <= p.time

Extend(q) ==
  /\ \A r \in ledger : r.time < q.time
  /\ \/ ledger = {} /\ Continues(q, Origin)
     \/ \E p \in ledger : IsLast(p) /\ Continues(q, p)
  /\ ledger' = ledger \cup {q}

Init == ledger = {}
Next == \E q \in ledger' : Extend(q)
Spec == Init /\ [][Next]_ledger
=============================================================================
