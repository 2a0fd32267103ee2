---------------------------- MODULE CandleStore ----------------------------
(***************************************************************************)
(* What feature engineering promises to the services that read its two     *)
(* tables: a price, once there, stays; there is at most one feature row    *)
(* for a (time, symbol); a feature row never changes after it was read;    *)
(* and it appears only after the price it belongs to                       *)
(* (UNIQUE (symbol, time) and ON CONFLICT DO NOTHING, feature_engineering/ *)
(* db.py:112-147).                                                         *)
(***************************************************************************)
VARIABLES prices, features

vars == << prices, features >>

SameKey(r, q) == r.symbol = q.symbol /\ r.time = q.time

Init == prices = {} /\ features = {}

\* The candle and the row are drawn from what is there after the step: any may be.
AddPrice(c) == c \notin prices /\ prices' = prices \cup {c} /\ UNCHANGED features

AddFeatures(r) ==
  /\ \A q \in features : ~SameKey(r, q)
  /\ \E c \in prices : SameKey(r, c)
  /\ features' = features \cup {r}
  /\ UNCHANGED prices

Next == \/ \E c \in prices' : AddPrice(c)
        \/ \E r \in features' : AddFeatures(r)

Spec == Init /\ [][Next]_vars
=============================================================================
