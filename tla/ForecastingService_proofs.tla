---------------------- MODULE ForecastingService_proofs ----------------------
(***************************************************************************)
(* Proofs about ForecastingService, for any list of symbols, any windows   *)
(* and limits, candles in any order, and any number of NULL rows, failures *)
(* and lost connections.                                                   *)
(*                                                                         *)
(* A label ends with a close at least ForwardWindow minutes after its own, *)
(* so a candle of its window that comes later comes to be crossed by it,   *)
(* and is among those missed.                                              *)
(***************************************************************************)
EXTENDS ForecastingService, FiniteSetTheorems, WellFoundedInduction, TLAPS

\* A thread in the middle of its work is at one of the symbols.
AtSymbol == forecaster.at # "poll" => forecaster.i \in 1 .. Len(Order)

\* A label belongs to a forecast, and was computed when its window had closed, from
\* closes in the table: from all of its window that were not missed.
LabelWhole(s, t) ==
  /\ t \in forecasts[s]
  /\ t \in label[s][t] /\ label[s][t] \subseteq prices[s]
  /\ \E q \in label[s][t] : t + ForwardWindow <= q
  /\ Span(t) \subseteq prices[s] \ missed[s] => label[s][t] = Span(t)
LabelsWhole ==
  \A s \in Symbols : \A t \in Minutes : label[s][t] # {} => LabelWhole(s, t)

\* The losses are up to date but for the symbol whose pass has not come to them.
LossesCurrent ==
  \A s \in Symbols :
    /\ losses[s] \subseteq Labelled(s)
    /\ faults = 0 => \/ losses[s] = Newest(Labelled(s), LossPoints)
                     \/ forecaster.at = "losses" /\ s = Sym

IInv == TypeOK /\ AtSymbol /\ LabelsWhole /\ LossesCurrent

\* A lost connection is a fault.
LostIsFault == faults = 0 => lost = {}

-----------------------------------------------------------------------------
(* Minutes and their number.                                               *)

LEMMA Bounds ==
  /\ Horizon \in Nat /\ ForwardWindow \in Nat \ {0} /\ Len(Order) \in Nat
  /\ NoSymbol = Len(Order) + 1 /\ \A t \in Minutes : t \in Nat /\ t <= Horizon
  /\ \A i \in 1 .. Len(Order) : Order[i] \in Symbols
PROOF
BY ForecastingAssumption DEF Minutes, NoSymbol

LEMMA IntervalSize ==
  ASSUME NEW a \in Int, NEW b \in Int
  PROVE  IsFiniteSet(a .. b) /\ (a <= b => Cardinality(a .. b) = b - a + 1)
                             /\ (b < a => Cardinality(a .. b) = 0)
PROOF
BY FS_Interval

LEMMA Before ==
  ASSUME NEW a \in Int, NEW b \in Int, a <= b
  PROVE  IsFiniteSet(a .. (b - 1)) /\ Cardinality(a .. (b - 1)) = b - a
PROOF
<1> DEFINE c == b - 1
<1>1. c \in Int /\ (a <= c <=> a < b) /\ c - a + 1 = b - a /\ (a = b => c < a)
  OBVIOUS
<1> HIDE DEF c
<1>2. /\ IsFiniteSet(a .. c) /\ (a <= c => Cardinality(a .. c) = c - a + 1)
      /\ (c < a => Cardinality(a .. c) = 0)
  BY <1>1, IntervalSize
<1>3. Cardinality(a .. c) = b - a
  BY <1>1, <1>2
<1> QED
  BY <1>2, <1>3 DEF c

LEMMA Between ==
  ASSUME NEW t \in Nat, NEW w \in Nat \ {0}
  PROVE  /\ IsFiniteSet((t + 1) .. (t + w - 1))
         /\ Cardinality((t + 1) .. (t + w - 1)) \in Nat
         /\ Cardinality((t + 1) .. (t + w - 1)) < w
PROOF
<1> DEFINE a == t + 1
           b == t + w - 1
<1>1. a \in Int /\ b \in Int /\ b - a + 1 < w
  OBVIOUS
<1> HIDE DEF a, b
<1>2. /\ IsFiniteSet(a .. b) /\ (a <= b => Cardinality(a .. b) = b - a + 1)
      /\ (b < a => Cardinality(a .. b) = 0)
  BY <1>1, IntervalSize
<1>3. Cardinality(a .. b) < w /\ Cardinality(a .. b) \in Nat
  BY <1>1, <1>2
<1> QED
  BY <1>2, <1>3 DEF a, b

\* The order of the numbers, as the library's relation that is well founded.
LEMMA LessThan ==
  \E R : IsWellFoundedOn(R, Nat) /\ \A x, y \in Nat : <<y, x>> \in R <=> y < x
PROOF
<1>1. \A x, y \in Nat : <<y, x>> \in OpToRel(<, Nat) <=> y < x
  BY DEF OpToRel
<1> QED
  BY Zenon, NatLessThanWellFounded, <1>1

\* Every set of numbers that is not empty has a least one.
LEMMA LeastOf ==
  ASSUME NEW T, T \subseteq Nat, T # {}
  PROVE  \E x \in T : \A y \in T : x <= y
PROOF
<1>1. PICK R : IsWellFoundedOn(R, Nat) /\ \A x, y \in Nat : <<y, x>> \in R <=> y < x
  BY LessThan
<1>2. PICK x \in T : \A y \in T : ~ (<<y, x>> \in R)
  BY <1>1, WFMin
<1>3. ASSUME NEW y \in T PROVE x <= y
  <2>1. x \in Nat /\ y \in Nat /\ ~(y < x)
    BY <1>1, <1>2
  <2> QED
    BY <2>1
<1> QED
  BY <1>3

\* What a label is computed from: closes of the table, the row's own, one that is at
\* least the window later, and all of the window if they are there.
LEMMA ForwardRowsSpan ==
  ASSUME NEW P \in SUBSET Minutes, NEW t \in Minutes, ForwardRows(P, t) # {}
  PROVE  /\ t \in ForwardRows(P, t) /\ ForwardRows(P, t) \subseteq P
         /\ \E q \in ForwardRows(P, t) : t + ForwardWindow <= q
         /\ Span(t) \subseteq P => ForwardRows(P, t) = Span(t)
PROOF
<1> DEFINE after == { p \in P : p > t }
           w == ForwardWindow
<1>1. /\ w \in Nat \ {0} /\ t \in Nat
      /\ \A p \in P : p \in Nat /\ p <= Horizon
      /\ Horizon \in Nat
  BY Bounds
<1>2. after \subseteq 0 .. Horizon /\ \A u \in after : u \in Int /\ t < u
  <2>1. P \subseteq 0 .. Horizon
    BY DEF Minutes
  <2>2. ASSUME NEW u \in after PROVE u \in 0 .. Horizon /\ u \in Int /\ t < u
    BY <1>1, <2>1
  <2> QED
    BY <2>2
<1>3. IsFiniteSet(0 .. Horizon)
  BY <1>1, IntervalSize
<1>4. IsFiniteSet(after) /\ Cardinality(after) \in Nat
  BY <1>2, <1>3, FS_Subset, FS_CardinalityType
<1>5. /\ t \in P /\ Cardinality(after) >= w /\ ForwardRows(P, t) = {t} \cup Oldest(after, w)
  <2>1. t \in P /\ ~(Cardinality(after) < w)
    BY DEF ForwardRows
  <2>2. Cardinality(after) >= w
    BY <1>1, <1>4, <2>1
  <2>3. ForwardRows(P, t) = {t} \cup Oldest(after, w)
    BY <2>1 DEF ForwardRows
  <2> QED
    BY <2>1, <2>2, <2>3
<1>6. ASSUME Span(t) \subseteq P PROVE Oldest(after, w) = (t + 1) .. (t + w)
  <2>1. (t + 1) .. (t + w) \subseteq after
    BY <1>1, <1>6 DEF Span
  <2>2. ASSUME NEW p \in (t + 1) .. (t + w)
        PROVE  p \in Oldest(after, w)
    <3>1. { u \in after : u < p } \subseteq (t + 1) .. (p - 1)
      <4> SUFFICES ASSUME NEW u \in after, u < p PROVE u \in (t + 1) .. (p - 1)
        OBVIOUS
      <4>1. u \in Int /\ t < u /\ p \in Int
        BY <1>1, <1>2
      <4> QED
        BY <1>1, <4>1
    <3>2. /\ t + 1 \in Int /\ p - 1 \in Int /\ p \in Int
          /\ t + 1 <= p /\ p <= t + w
      BY <1>1
    <3>3. /\ IsFiniteSet((t + 1) .. (p - 1))
          /\ Cardinality((t + 1) .. (p - 1)) = p - (t + 1)
      BY <3>2, Before
    <3>4. /\ Cardinality({ u \in after : u < p }) \in Nat
          /\ Cardinality({ u \in after : u < p }) <= Cardinality((t + 1) .. (p - 1))
      BY <3>1, <3>3, FS_Subset, FS_CardinalityType
    <3>5. Cardinality({ u \in after : u < p }) < w
      BY <1>1, <3>2, <3>3, <3>4
    <3> QED
      BY <2>1, <3>5 DEF Oldest
  <2>3. ASSUME NEW p \in Oldest(after, w)
        PROVE  p \in (t + 1) .. (t + w)
    <3>1. p \in after /\ Cardinality({ u \in after : u < p }) < w
      BY DEF Oldest
    <3>2. SUFFICES ASSUME p > t + w PROVE FALSE
      BY <1>1, <1>2, <3>1
    <3>3. (t + 1) .. (t + w) \subseteq { u \in after : u < p }
      BY <1>1, <1>2, <2>1, <3>1, <3>2
    <3>4. IsFiniteSet({ u \in after : u < p })
      BY <1>4, FS_Subset
    <3>5. Cardinality((t + 1) .. (t + w)) <= Cardinality({ u \in after : u < p })
      BY <3>3, <3>4, FS_Subset
    <3> QED
      BY <1>1, <3>1, <3>4, <3>5, IntervalSize, FS_CardinalityType
  <2> QED
    BY <2>2, <2>3
<1>7. {t} \cup (t + 1) .. (t + w) = Span(t)
  BY <1>1 DEF Span
<1>8. \E q \in Oldest(after, w) : t + w <= q
  <2> DEFINE beyond == { p \in after : t + w <= p }
             before == (t + 1) .. (t + w - 1)
  <2>1. /\ IsFiniteSet(before) /\ Cardinality(before) \in Nat /\ Cardinality(before) < w
    BY <1>1, Between
  <2>2. beyond # {}
    <3>1. SUFFICES ASSUME beyond = {} PROVE FALSE
      OBVIOUS
    <3>2. after \subseteq before
      <4> SUFFICES ASSUME NEW u \in after PROVE u \in before
        OBVIOUS
      <4>1. u \in Int /\ t < u /\ ~(t + w <= u)
        BY <1>2, <3>1
      <4> QED
        BY <1>1, <4>1
    <3>3. Cardinality(after) <= Cardinality(before)
      BY <2>1, <3>2, FS_Subset
    <3> QED
      BY <1>1, <1>4, <1>5, <2>1, <3>3
  <2>3. PICK q \in beyond : \A p \in beyond : q <= p
    <3>1. beyond \subseteq Nat
      BY <1>2
    <3> HIDE DEF beyond
    <3> QED
      BY <2>2, <3>1, LeastOf
  <2>4. { u \in after : u < q } \subseteq before
    <3> SUFFICES ASSUME NEW u \in after, u < q PROVE u \in before
      OBVIOUS
    <3>1. u \in Int /\ t < u /\ q \in Int
      BY <1>2, <2>3
    <3>2. ~(t + w <= u)
      BY <2>3, <3>1
    <3> QED
      BY <1>1, <3>1, <3>2
  <2>5. /\ Cardinality({ u \in after : u < q }) \in Nat
        /\ Cardinality({ u \in after : u < q }) <= Cardinality(before)
    BY <2>1, <2>4, FS_Subset, FS_CardinalityType
  <2>6. Cardinality({ u \in after : u < q }) < w
    BY <1>1, <2>1, <2>5
  <2> QED
    BY <2>3, <2>6 DEF Oldest
<1>9. ForwardRows(P, t) \subseteq P
  BY <1>5 DEF Oldest
<1> QED
  BY <1>5, <1>6, <1>7, <1>8, <1>9

-----------------------------------------------------------------------------
(* What the steps leave alone.                                             *)

LEMMA SomeSymbol == Symbols # {} => Len(Order) >= 1
PROOF
<1> SUFFICES ASSUME NEW s \in Symbols PROVE Len(Order) >= 1
  OBVIOUS
<1>1. PICK i \in DOMAIN Order : s = Order[i]
  BY DEF Symbols, ToSet
<1> QED
  BY <1>1, ForecastingAssumption

LEMMA Current ==
  ASSUME TypeOK, AtSymbol, forecaster.at # "poll"
  PROVE  /\ forecaster.i \in 1 .. Len(Order) /\ Sym \in Symbols
         /\ NextSymbol \in Forecasters /\ NextSymbol.at \in {"poll", "fetch"}
         /\ NextSymbol.at # "poll" => NextSymbol.i \in 1 .. Len(Order)
PROOF
<1>1. forecaster.i \in 1 .. Len(Order) /\ Sym \in Symbols
  BY Bounds DEF AtSymbol, Sym
<1>2. CASE forecaster.i < Len(Order)
  <2>1. NextSymbol = [forecaster EXCEPT !.at = "fetch", !.i = @ + 1, !.batch = {}]
    BY <1>2 DEF NextSymbol
  <2>2. forecaster.i + 1 \in 1 .. Len(Order) /\ forecaster.i + 1 \in 1 .. NoSymbol
    BY <1>1, <1>2, Bounds
  <2>3. /\ NextSymbol.at = "fetch" /\ NextSymbol.i = forecaster.i + 1
        /\ NextSymbol = [at |-> "fetch", i |-> forecaster.i + 1,
                         snapshot |-> forecaster.snapshot, batch |-> {}]
        /\ forecaster.snapshot \in SUBSET Symbols
    BY <2>1 DEF TypeOK, Forecasters
  <2> QED
    <3>1. NextSymbol \in Forecasters
      BY <2>2, <2>3 DEF Forecasters
    <3>2. NextSymbol.i \in 1 .. Len(Order) /\ NextSymbol.at \in {"poll", "fetch"}
      BY <2>2, <2>3
    <3> QED
      BY <1>1, <3>1, <3>2
<1>3. CASE ~(forecaster.i < Len(Order))
  BY <1>1, <1>3, Bounds DEF NextSymbol, Polling, Forecasters
<1> QED
  BY <1>1, <1>2, <1>3

LEMMA Idle == 1 \in 1 .. NoSymbol /\ Polling \in Forecasters /\ Polling.at = "poll"
PROOF
BY Bounds DEF Polling, Forecasters

\* Only forecasts have labels, so a forecast for a new time brings no label along.
LEMMA LabelledIs ==
  ASSUME LabelsWhole, TypeOK
  PROVE  \A s \in Symbols : Labelled(s) = { t \in Minutes : label[s][t] # {} }
PROOF
BY DEF LabelsWhole, LabelWhole, Labelled, TypeOK

LEMMA Quiet ==
  ASSUME IInv, UNCHANGED << prices, missed, tables, faults >>,
         forecaster.at # "losses" \/ UNCHANGED forecaster
  PROVE  LabelsWhole' /\ LossesCurrent'
PROOF
<1>1. LabelsWhole'
  BY DEF IInv, LabelsWhole, LabelWhole, Span, tables
<1>2. ASSUME NEW s \in Symbols PROVE Labelled(s)' = Labelled(s)
  BY DEF Labelled, tables
<1>3. LossesCurrent'
  BY <1>2 DEF IInv, LossesCurrent, Sym, tables
<1> QED
  BY <1>1, <1>3

-----------------------------------------------------------------------------
(* The invariant.                                                          *)

LEMMA InitEstablishes == Init => IInv
PROOF
<1> SUFFICES ASSUME Init PROVE IInv
  OBVIOUS
<1> USE DEF Init, PerSymbol
<1>1. TypeOK
  <2>1. trainer \in Trainers /\ forecaster \in Forecasters /\ models \in SUBSET Symbols
    BY Idle DEF Trainers
  <2>2. faults \in 0 .. MaxFaults
    BY ForecastingAssumption
  <2> QED
    BY <2>1, <2>2 DEF TypeOK
<1>2. AtSymbol /\ LabelsWhole
  BY Idle DEF AtSymbol, LabelsWhole
<1>3. LossesCurrent
  BY DEF LossesCurrent, Labelled, Newest
<1> QED
  BY <1>1, <1>2, <1>3 DEF IInv

\* A candle of a label's window that comes after the label is crossed by it.
LEMMA StorePriceKeeps == ASSUME IInv, NEW s \in Symbols, StorePrice(s) PROVE IInv'
PROOF
<1>1. PICK u \in Minutes \ prices[s] :
        /\ prices' = [prices EXCEPT ![s] = @ \cup {u}]
        /\ missed' = [missed EXCEPT ![s] = IF Crossed(s, u) THEN @ \cup {u} ELSE @]
  BY DEF StorePrice
<1>2. UNCHANGED << valid, invalid, models, trainer, forecaster, lost, tables, faults >>
  BY DEF StorePrice
<1>3. /\ prices \in [Symbols -> SUBSET Minutes] /\ missed \in [Symbols -> SUBSET Minutes]
      /\ label \in [Symbols -> [Minutes -> SUBSET Minutes]]
  BY DEF IInv, TypeOK
<1>4. /\ prices'[s] = prices[s] \cup {u}
      /\ missed'[s] = IF Crossed(s, u) THEN missed[s] \cup {u} ELSE missed[s]
      /\ \A r \in Symbols \ {s} : prices'[r] = prices[r] /\ missed'[r] = missed[r]
      /\ prices' \in [Symbols -> SUBSET Minutes] /\ missed' \in [Symbols -> SUBSET Minutes]
  BY <1>1, <1>3
<1>5. TypeOK'
  BY <1>2, <1>4 DEF IInv, TypeOK, tables
<1>6. AtSymbol'
  BY <1>2 DEF IInv, AtSymbol
<1>7. ASSUME NEW r \in Symbols, NEW t \in Minutes, label[r][t] # {}
      PROVE  LabelWhole(r, t)'
  <2>1. LabelWhole(r, t)
    BY <1>7 DEF IInv, LabelsWhole
  <2>2. CASE r # s
    BY <1>2, <1>4, <2>1, <2>2 DEF LabelWhole, Span, tables
  <2>3. CASE r = s
    <3>1. ASSUME Span(t) \subseteq prices'[s] \ missed'[s]
          PROVE  Span(t) \subseteq prices[s] \ missed[s]
      <4>1. CASE u \notin Span(t)
        BY <1>4, <3>1, <4>1
      <4>2. CASE u \in Span(t)
        <5>1. PICK q \in label[s][t] : t + ForwardWindow <= q
          BY <2>1, <2>3 DEF LabelWhole
        <5>2. /\ t \in prices[s] /\ q \in prices[s] /\ u \notin prices[s]
              /\ q \in Nat /\ t \in Nat /\ u \in Nat
          BY <1>3, <2>1, <2>3, <5>1, Bounds DEF LabelWhole
        <5>3. t < u /\ u < q
          BY <4>2, <5>1, <5>2, Bounds DEF Span
        <5>4. t \in Labelled(s)
          BY <1>7, <2>1, <2>3 DEF LabelWhole, Labelled
        <5>5. Crossed(s, u)
          BY <5>1, <5>3, <5>4 DEF Crossed
        <5> QED
          BY <1>4, <3>1, <4>2, <5>5
      <4> QED
        BY <4>1, <4>2
    <3> QED
      BY <1>2, <1>4, <2>1, <2>3, <3>1 DEF LabelWhole, Span, tables
  <2> QED
    BY <2>2, <2>3
<1>8. LabelsWhole'
  BY <1>2, <1>7 DEF LabelsWhole, tables
<1>9. LossesCurrent'
  <2>1. ASSUME NEW r \in Symbols PROVE Labelled(r)' = Labelled(r)
    BY <1>2 DEF Labelled, tables
  <2> QED
    BY <1>2, <2>1 DEF IInv, LossesCurrent, Sym, tables
<1> QED
  BY <1>5, <1>6, <1>8, <1>9 DEF IInv

LEMMA StoreFeaturesKeeps == ASSUME IInv, NEW s \in Symbols, StoreFeatures(s) PROVE IInv'
PROOF
<1>1. UNCHANGED << prices, missed, models, trainer, forecaster, lost, tables, faults >>
  BY DEF StoreFeatures
<1>2. /\ valid' \in [Symbols -> SUBSET Minutes]
      /\ invalid' \in [Symbols -> SUBSET Minutes]
  <2>1. /\ valid \in [Symbols -> SUBSET Minutes] /\ prices \in [Symbols -> SUBSET Minutes]
        /\ invalid \in [Symbols -> SUBSET Minutes]
    BY DEF IInv, TypeOK
  <2>2. PICK u \in prices[s] \ (valid[s] \cup invalid[s]) :
          /\ valid' = valid \/ valid' = [valid EXCEPT ![s] = @ \cup {u}]
          /\ invalid' = invalid \/ invalid' = [invalid EXCEPT ![s] = @ \cup {u}]
    BY DEF StoreFeatures
  <2> QED
    BY <2>1, <2>2
<1>3. TypeOK' /\ AtSymbol'
  BY <1>1, <1>2 DEF IInv, TypeOK, AtSymbol, tables
<1>4. LabelsWhole' /\ LossesCurrent'
  BY <1>1, Quiet
<1> QED
  BY <1>3, <1>4 DEF IInv

LEMMA LoseConnectionKeeps == ASSUME IInv, NEW c \in Threads, LoseConnection(c) PROVE IInv'
PROOF
<1>1. /\ UNCHANGED << market, models, trainer, forecaster, tables >>
      /\ Fault /\ lost' = lost \cup {c}
  BY DEF LoseConnection
<1>2. faults' \in 0 .. MaxFaults /\ faults' # 0
  BY <1>1, ForecastingAssumption DEF IInv, TypeOK, Fault
<1>3. TypeOK' /\ AtSymbol'
  BY <1>1, <1>2 DEF IInv, TypeOK, AtSymbol, market, tables
<1>4. LabelsWhole'
  BY <1>1 DEF IInv, LabelsWhole, LabelWhole, Span, market, tables
<1>5. LossesCurrent'
  <2>1. ASSUME NEW r \in Symbols PROVE Labelled(r)' = Labelled(r)
    BY <1>1 DEF Labelled, tables
  <2> QED
    BY <1>1, <1>2, <2>1 DEF IInv, LossesCurrent, tables
<1> QED
  BY <1>3, <1>4, <1>5 DEF IInv

LEMMA TrainingKeeps == ASSUME IInv, Training \/ DayOver PROVE IInv'
PROOF
<1>1. UNCHANGED << market, forecaster, tables >>
  BY DEF Training, TrainOne, Launch, Install, CycleFails, Retry, DayOver, Wake
<1>2. /\ models' \in SUBSET Symbols /\ trainer' \in Trainers
      /\ lost' \in SUBSET Threads /\ faults' \in 0 .. MaxFaults
  <2> USE DEF IInv, TypeOK, Trainers
  <2>1. CASE TrainOne
    <3>1. trainer.i + 1 \in 1 .. NoSymbol /\ TrainSymbol \in Symbols
      BY <2>1, Bounds DEF TrainOne, TrainSymbol
    <3>2. ASSUME NEW new \in SUBSET Symbols, Built(new) PROVE trainer' \in Trainers
      BY <3>1, <3>2 DEF Built
    <3>3. trainer' \in Trainers
      BY <2>1, <3>1, <3>2 DEF TrainOne
    <3>4. models' = models /\ lost' = lost /\ (faults' = faults \/ Fault)
      BY <2>1 DEF TrainOne
    <3> QED
      BY <3>3, <3>4, ForecastingAssumption DEF Fault
  <2>2. CASE Launch
    BY <2>2, Idle DEF Launch
  <2>3. CASE Install
    <3>1. SleepFor(trainer.new) \in {"none", "minute", "minutes", "day"}
      BY DEF SleepFor
    <3> QED
      BY <2>3, <3>1 DEF Install
  <2>4. CASE CycleFails
    <3>1. faults' \in 0 .. MaxFaults
      BY <2>4, ForecastingAssumption DEF CycleFails, Fault
    <3> QED
      BY <2>4, <3>1 DEF CycleFails
  <2>5. CASE Wake
    BY <2>5, Idle DEF Wake
  <2> QED
    BY <2>1, <2>2, <2>3, <2>4, <2>5 DEF Training, Retry, DayOver
<1>3. TypeOK'
  BY <1>1, <1>2 DEF IInv, TypeOK, market, tables
<1>4. AtSymbol' /\ LabelsWhole'
  BY <1>1 DEF IInv, AtSymbol, LabelsWhole, LabelWhole, Span, market, tables
<1>5. LossesCurrent'
  <2>1. ASSUME NEW r \in Symbols PROVE Labelled(r)' = Labelled(r)
    BY <1>1 DEF Labelled, tables
  <2>2. faults' = 0 => faults = 0
    BY ForecastingAssumption
       DEF Training, TrainOne, Launch, Install, CycleFails, Retry, DayOver, Wake, Fault,
           IInv, TypeOK
  <2> QED
    BY <1>1, <2>1, <2>2 DEF IInv, LossesCurrent, Sym, tables
<1> QED
  BY <1>3, <1>4, <1>5 DEF IInv

\* Rows are added to forecasts without a label.
LEMMA RowsKeep ==
  ASSUME IInv, NEW s \in Symbols, NEW rows \in SUBSET Minutes,
         InsertRows(s, rows), UNCHANGED market
  PROVE  /\ forecasts' \in [Symbols -> SUBSET Minutes]
         /\ LabelsWhole' /\ UNCHANGED << label, losses >>
         /\ \A r \in Symbols : Labelled(r)' = Labelled(r)
PROOF
<1>1. /\ forecasts' = [forecasts EXCEPT ![s] = @ \cup rows]
      /\ UNCHANGED << label, losses >> /\ UNCHANGED << prices, missed >>
  BY DEF InsertRows, market
<1>2. /\ forecasts \in [Symbols -> SUBSET Minutes]
  BY DEF IInv, TypeOK
<1>3. /\ forecasts' \in [Symbols -> SUBSET Minutes]
  BY <1>1, <1>2
<1>4. \A r \in Symbols : forecasts[r] \subseteq forecasts'[r]
  BY <1>1, <1>2
<1>5. LabelsWhole'
  BY <1>1, <1>4 DEF IInv, LabelsWhole, LabelWhole, Span
<1>6. ASSUME NEW r \in Symbols PROVE Labelled(r)' = Labelled(r)
  <2>1. Labelled(r)' = { t \in forecasts'[r] : label[r][t] # {} }
    BY <1>1 DEF Labelled
  <2>2. \A t \in Minutes : label[r][t] # {} => t \in forecasts[r]
    BY DEF IInv, LabelsWhole, LabelWhole
  <2> QED
    BY <1>3, <1>4, <2>1, <2>2 DEF Labelled
<1> QED
  BY <1>1, <1>3, <1>5, <1>6

LEMMA InsertKeeps == ASSUME IInv, Insert PROVE IInv'
PROOF
<1>1. /\ InsertRows(Sym, forecaster.batch)
      /\ forecaster.at = "insert" /\ forecaster' = [forecaster EXCEPT !.at = "label"]
      /\ UNCHANGED << market, models, trainer, lost, faults >>
  BY DEF Insert
<1>2. Sym \in Symbols /\ forecaster.i \in 1 .. Len(Order) /\ forecaster.batch \in SUBSET Minutes
  BY <1>1, Current DEF IInv, TypeOK, Forecasters
<1>3. /\ forecasts' \in [Symbols -> SUBSET Minutes]
      /\ LabelsWhole' /\ UNCHANGED << label, losses >>
      /\ \A r \in Symbols : Labelled(r)' = Labelled(r)
  BY <1>1, <1>2, RowsKeep
<1>4. forecaster' \in Forecasters /\ AtSymbol'
  BY <1>1, <1>2 DEF IInv, TypeOK, Forecasters, AtSymbol
<1>5. TypeOK'
  BY <1>1, <1>3, <1>4 DEF IInv, TypeOK, market
<1>6. LossesCurrent'
  BY <1>1, <1>3 DEF IInv, LossesCurrent
<1> QED
  BY <1>3, <1>4, <1>5, <1>6 DEF IInv

LEMMA PassFailsKeeps == ASSUME IInv, PassFails PROVE IInv'
PROOF
<1>1. /\ forecaster.at # "poll" /\ Fault /\ forecaster' = Polling
      /\ UNCHANGED << market, models, trainer, lost >>
  BY DEF PassFails
<1>2. faults' \in 0 .. MaxFaults /\ faults' # 0
  BY <1>1, ForecastingAssumption DEF IInv, TypeOK, Fault
<1>3. /\ forecasts' \in [Symbols -> SUBSET Minutes]
      /\ LabelsWhole' /\ UNCHANGED << label, losses >>
      /\ \A r \in Symbols : Labelled(r)' = Labelled(r)
  <2>1. CASE UNCHANGED tables
    BY <1>1, <2>1 DEF IInv, TypeOK, LabelsWhole, LabelWhole, Span, Labelled, market, tables
  <2>2. CASE \E n \in 0 .. Cardinality(forecaster.batch) :
               InsertRows(Sym, Oldest(forecaster.batch, n))
    <3>1. PICK n \in 0 .. Cardinality(forecaster.batch) :
            InsertRows(Sym, Oldest(forecaster.batch, n))
      BY <2>2
    <3>2. Sym \in Symbols /\ Oldest(forecaster.batch, n) \in SUBSET Minutes
      BY <1>1, Current DEF IInv, TypeOK, Forecasters, Oldest
    <3> QED
      BY <1>1, <3>1, <3>2, RowsKeep
  <2> QED
    BY <2>1, <2>2 DEF PassFails
<1>4. TypeOK' /\ AtSymbol'
  BY <1>1, <1>2, <1>3, Idle DEF IInv, TypeOK, AtSymbol, market
<1>5. LossesCurrent'
  BY <1>2, <1>3 DEF IInv, LossesCurrent
<1> QED
  BY <1>3, <1>4, <1>5 DEF IInv

LEMMA ReadingKeeps == ASSUME IInv, LostIsFault, Poll \/ SkipSymbol \/ Fetch \/ Refused PROVE IInv'
PROOF
<1>1. /\ UNCHANGED << market, models, trainer, lost, tables, faults >>
      /\ forecaster.at \in {"poll", "fetch"} \/ forecaster' = Polling
  BY DEF Poll, SkipSymbol, Fetch, Refused
<1>2. forecaster' \in Forecasters /\ AtSymbol'
  <2>1. CASE Poll
    <3>1. Len(Order) >= 1
      BY <2>1, SomeSymbol DEF Poll, IInv, TypeOK
    <3>2. forecaster' = [at |-> "fetch", i |-> 1, snapshot |-> models, batch |-> {}]
      BY <2>1 DEF Poll, Polling
    <3> QED
      BY <3>1, <3>2, Bounds, Idle DEF IInv, TypeOK, Forecasters, AtSymbol
  <2>2. CASE SkipSymbol
    BY <2>2, Current DEF IInv, SkipSymbol, AtSymbol
  <2>3. CASE Fetch
    <3>1. PICK batch : /\ batch = Unforecasted(Sym) \cap valid[Sym]
                       /\ forecaster' = [forecaster EXCEPT !.batch = batch,
                                !.at = IF batch = {} THEN "label" ELSE "insert"]
      BY <2>3 DEF Fetch
    <3>2. Sym \in Symbols /\ forecaster.i \in 1 .. Len(Order)
      BY <2>3, Current DEF IInv, Fetch
    <3>3. batch \in SUBSET Minutes
      BY <3>1, <3>2 DEF IInv, TypeOK
    <3> QED
      BY <3>1, <3>2, <3>3 DEF IInv, TypeOK, Forecasters, AtSymbol
  <2>4. CASE Refused
    BY <2>4, Idle DEF Refused, AtSymbol
  <2> QED
    BY <2>1, <2>2, <2>3, <2>4
<1>3. TypeOK'
  BY <1>1, <1>2 DEF IInv, TypeOK, market, tables
<1>4. LabelsWhole' /\ LossesCurrent'
  <2>1. LabelsWhole'
    BY <1>1 DEF IInv, LabelsWhole, LabelWhole, Span, market, tables
  <2>2. ASSUME NEW r \in Symbols PROVE Labelled(r)' = Labelled(r)
    BY <1>1 DEF Labelled, tables
  <2>3. faults = 0 => forecaster.at # "losses"
    BY DEF LostIsFault, Poll, SkipSymbol, Fetch, Refused, CanQuery
  <2>4. LossesCurrent'
    BY <1>1, <2>2, <2>3 DEF IInv, LossesCurrent, tables
  <2> QED
    BY <2>1, <2>4
<1> QED
  BY <1>2, <1>3, <1>4 DEF IInv

LEMMA LabelKeeps == ASSUME IInv, Label PROVE IInv'
PROOF
<1>1. PICK c : c = Sym
  OBVIOUS
<1>2. /\ forecaster.at = "label" /\ forecaster' = [forecaster EXCEPT !.at = "losses"]
      /\ label' = [label EXCEPT ![c] = [t \in Minutes |->
                    IF t \in Missing(c) THEN ForwardRows(prices[c], t) ELSE @[t]]]
      /\ UNCHANGED << market, models, trainer, lost, forecasts, losses, faults >>
  BY <1>1 DEF Label
<1>3. c \in Symbols /\ forecaster.i \in 1 .. Len(Order) /\ Sym' = c
  BY <1>1, <1>2, Current DEF IInv, TypeOK, Forecasters, Sym
<1>4. /\ \A s \in Symbols \ {c} : label'[s] = label[s]
      /\ \A t \in Minutes : label'[c][t] = IF t \in Missing(c) THEN ForwardRows(prices[c], t)
                                                               ELSE label[c][t]
  BY <1>2, <1>3 DEF IInv, TypeOK
<1>5. ASSUME NEW t \in Minutes, t \in Missing(c), ForwardRows(prices[c], t) # {}
      PROVE  /\ t \in forecasts[c]
             /\ t \in ForwardRows(prices[c], t) /\ ForwardRows(prices[c], t) \subseteq prices[c]
             /\ \E q \in ForwardRows(prices[c], t) : t + ForwardWindow <= q
             /\ Span(t) \subseteq prices[c] => ForwardRows(prices[c], t) = Span(t)
  <2>1. prices[c] \in SUBSET Minutes
    BY <1>3 DEF IInv, TypeOK
  <2> QED
    BY <1>5, <2>1, ForwardRowsSpan DEF Missing
<1>6. LabelsWhole'
  <2> SUFFICES ASSUME NEW s \in Symbols, NEW t \in Minutes, label'[s][t] # {}
               PROVE  LabelWhole(s, t)'
    BY DEF LabelsWhole
  <2>1. CASE label'[s][t] = label[s][t]
    <3>1. LabelWhole(s, t)
      BY <2>1 DEF IInv, LabelsWhole
    <3> QED
      BY <1>2, <2>1, <3>1 DEF LabelWhole, Span, market
  <2>2. CASE s = c /\ t \in Missing(c) /\ label'[s][t] = ForwardRows(prices[c], t)
    <3>1. label'[c][t] = ForwardRows(prices[c], t) /\ ForwardRows(prices[c], t) # {}
      BY <2>2
    <3>2. /\ t \in forecasts[c]
          /\ t \in label'[c][t] /\ label'[c][t] \subseteq prices[c]
          /\ \E q \in label'[c][t] : t + ForwardWindow <= q
          /\ Span(t) \subseteq prices[c] => label'[c][t] = Span(t)
      BY <1>5, <2>2, <3>1
    <3>3. UNCHANGED << prices, missed, forecasts >>
      BY <1>2 DEF market
    <3> QED
      BY <2>2, <3>2, <3>3 DEF LabelWhole, Span
  <2> QED
    BY <1>4, <2>1, <2>2
<1>7. TypeOK' /\ AtSymbol'
  <2>1. \A t \in Minutes : ForwardRows(prices[c], t) \in SUBSET Minutes
    BY <1>3 DEF IInv, TypeOK, ForwardRows, Oldest
  <2>2. label' \in [Symbols -> [Minutes -> SUBSET Minutes]]
    BY <1>2, <1>3, <2>1 DEF IInv, TypeOK
  <2>3. forecaster' \in Forecasters
    BY <1>2 DEF IInv, TypeOK, Forecasters
  <2> QED
    BY <1>2, <1>3, <2>2, <2>3 DEF IInv, TypeOK, Forecasters, AtSymbol, market
<1>8. LossesCurrent'
  <2>1. ASSUME NEW s \in Symbols PROVE Labelled(s) \subseteq Labelled(s)'
    BY <1>2, <1>3, <1>4 DEF IInv, TypeOK, Labelled, Missing
  <2>2. ASSUME NEW s \in Symbols \ {c} PROVE Labelled(s) = Labelled(s)'
    BY <1>2, <1>4 DEF Labelled
  <2> QED
    BY <1>2, <1>3, <2>1, <2>2 DEF IInv, TypeOK, Forecasters, LossesCurrent
<1> QED
  BY <1>6, <1>7, <1>8 DEF IInv

LEMMA LossesKeeps == ASSUME IInv, Losses PROVE IInv'
PROOF
<1>1. PICK c : c = Sym
  OBVIOUS
<1>2. /\ forecaster.at = "losses" /\ forecaster' = NextSymbol
      /\ losses' = [losses EXCEPT ![c] = Newest(Labelled(c), LossPoints)]
      /\ UNCHANGED << market, models, trainer, lost, forecasts, label, faults >>
  BY <1>1 DEF Losses
<1>3. /\ c \in Symbols /\ forecaster' \in Forecasters
      /\ forecaster'.at # "poll" => forecaster'.i \in 1 .. Len(Order)
  BY <1>1, <1>2, Current DEF IInv
<1>4. ASSUME NEW s \in Symbols
      PROVE  Labelled(s)' = Labelled(s) /\ Labelled(s) \in SUBSET Minutes
  BY <1>2 DEF Labelled, IInv, TypeOK
<1>5. losses' \in [Symbols -> SUBSET Minutes]
  BY <1>2, <1>3, <1>4 DEF IInv, TypeOK, Newest
<1>6. TypeOK' /\ AtSymbol' /\ LabelsWhole'
  BY <1>2, <1>3, <1>5
     DEF IInv, TypeOK, AtSymbol, LabelsWhole, LabelWhole, Span, market
<1>7. LossesCurrent'
  <2> SUFFICES ASSUME NEW s \in Symbols
               PROVE  /\ losses'[s] \subseteq Labelled(s)
                      /\ faults = 0 => losses'[s] = Newest(Labelled(s), LossPoints)
    BY <1>2, <1>4 DEF LossesCurrent
  <2>1. CASE s = c
    BY <1>2, <1>3, <2>1 DEF IInv, TypeOK, Newest
  <2>2. CASE s # c
    BY <1>1, <1>2, <2>2 DEF IInv, TypeOK, LossesCurrent
  <2> QED
    BY <2>1, <2>2
<1> QED
  BY <1>6, <1>7 DEF IInv

LEMMA LostKeeps == IInv /\ LostIsFault /\ [Next]_vars => LostIsFault'
PROOF
<1> SUFFICES ASSUME IInv, LostIsFault, [Next]_vars PROVE LostIsFault'
  OBVIOUS
<1>1. faults \in Nat
  BY ForecastingAssumption DEF IInv, TypeOK
<1>2. ASSUME NEW s \in Symbols, StorePrice(s) \/ StoreFeatures(s) PROVE LostIsFault'
  BY <1>2 DEF StorePrice, StoreFeatures, LostIsFault
<1>3. ASSUME NEW c \in Threads, LoseConnection(c) PROVE LostIsFault'
  BY <1>1, <1>3 DEF LoseConnection, Fault, LostIsFault
<1>4. CASE Training \/ DayOver
  BY <1>1, <1>4 DEF Training, TrainOne, Launch, Install, CycleFails, Retry, DayOver, Wake,
                    Fault, LostIsFault
<1>5. CASE Inference
  BY <1>1, <1>5 DEF Inference, Poll, SkipSymbol, Fetch, Insert, Label, Losses, PassFails,
                    Refused, Fault, LostIsFault
<1>6. CASE UNCHANGED vars
  BY <1>6 DEF vars, LostIsFault
<1> QED
  BY <1>2, <1>3, <1>4, <1>5, <1>6 DEF Next

LEMMA StepKeeps == IInv /\ LostIsFault /\ [Next]_vars => IInv'
PROOF
<1> SUFFICES ASSUME IInv, LostIsFault, [Next]_vars PROVE IInv'
  OBVIOUS
<1>1. CASE UNCHANGED vars
  <2>1. LabelsWhole' /\ LossesCurrent'
    BY <1>1, Quiet DEF vars, market
  <2> QED
    BY <1>1, <2>1 DEF IInv, TypeOK, AtSymbol, vars, market, tables
<1>2. CASE Next
  BY <1>2, StorePriceKeeps, StoreFeaturesKeeps, LoseConnectionKeeps, TrainingKeeps,
     ReadingKeeps, InsertKeeps, LabelKeeps, LossesKeeps, PassFailsKeeps
     DEF Next, Inference
<1> QED
  BY <1>1, <1>2

-----------------------------------------------------------------------------
(* The theorems.                                                           *)

THEOREM Invariance == Spec => [](IInv /\ LostIsFault)
PROOF
<1>1. Init => LostIsFault
  BY DEF Init, LostIsFault
<1> QED
  BY InitEstablishes, <1>1, StepKeeps, LostKeeps, PTL DEF Spec

\* The threads and the tables keep their types: above all the two threads' positions
\* in the list of symbols (main.py: training_loop, inference_loop).
THEOREM TypesHold == Spec => []TypeOK
PROOF
<1>1. IInv => TypeOK
  BY DEF IInv
<1> QED
  BY <1>1, Invariance, PTL

\* Whenever a forecast is labelled, by however many passes later than it was due and
\* in whatever order candles come, its realized volatility is that of the
\* ForwardWindow minutes after it, unless one of their closes is not in the table or
\* came when a label had been computed across it (labels.py, _backfill_realized_vol).
THEOREM LabelsAreRight == Spec => []LabelSpansWindow
PROOF
<1>1. IInv => LabelSpansWindow
  BY LabelledIs DEF IInv, LabelsWhole, LabelWhole, LabelSpansWindow
<1> QED
  BY <1>1, Invariance, PTL

\* The rolling losses are made of labelled forecasts, and after a pass without failure
\* of the newest ones (db.py: write_rolling_model_metrics).
THEOREM LossesAreRecent == Spec => []LossesFromNewest
PROOF
<1>1. IInv => LossesFromNewest
  BY DEF IInv, LossesCurrent, LossesFromNewest
<1> QED
  BY <1>1, Invariance, PTL
=============================================================================
