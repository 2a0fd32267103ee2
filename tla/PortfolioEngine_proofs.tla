----------------------- MODULE PortfolioEngine_proofs -----------------------
(***************************************************************************)
(* Proofs about PortfolioEngine: for every length of the day, scheduled    *)
(* time, set of returns and number of faults, each scheduled time has at   *)
(* most one row, rows form one chain, nothing is published before it is    *)
(* committed, and the table implements PortfolioLedger.                    *)
(*                                                                         *)
(* The inductive invariant relates the row being made to the table: while  *)
(* it is made, all rows belong to earlier scheduled times, and it          *)
(* continues the newest of them.                                           *)
(***************************************************************************)
EXTENDS PortfolioEngine, TLAPS

-----------------------------------------------------------------------------
(* The schedule.                                                           *)

Midnight(t) == t - (t % Day)

LEMMA DayOfMinute ==
  ASSUME NEW t \in Nat
  PROVE  /\ t % Day \in 0 .. Day - 1
         /\ t \div Day \in Nat
         /\ t = Day * (t \div Day) + (t % Day)
  BY PortfolioAssumption

LEMMA LaterMultiple ==
  ASSUME NEW a \in Nat, NEW b \in Nat, NEW d \in Nat, a < b
  PROVE  d * a + d <= d * b
  <1>1. d * (b - a - 1) >= 0
    OBVIOUS
  <1>2. d * (b - a - 1) = d * b - d * a - d
    OBVIOUS
  <1>3. d * b \in Nat /\ d * a \in Nat
    OBVIOUS
  <1>4. QED
    BY <1>1, <1>2, <1>3

\* Two minutes of one day, or of days apart.
LEMMA DaysApart ==
  ASSUME NEW t \in Nat, NEW u \in Nat, t <= u
  PROVE  Midnight(t) = Midnight(u) \/ Midnight(t) + Day <= Midnight(u)
  <1> DEFINE a == t \div Day
             b == u \div Day
             p == t % Day
             q == u % Day
  <1>1. /\ a \in Nat /\ p \in Nat /\ p < Day /\ t = Day * a + p
        /\ b \in Nat /\ q \in Nat /\ q < Day /\ u = Day * b + q
        /\ Day \in Nat
    BY DayOfMinute, PortfolioAssumption
  <1>2. Day * a \in Nat /\ Day * b \in Nat
    BY <1>1
  <1>3. Midnight(t) = Day * a /\ Midnight(u) = Day * b
    BY <1>1, <1>2 DEF Midnight
  <1> HIDE DEF a, b, p, q
  <1>4. CASE a = b
    BY <1>3, <1>4
  <1>5. CASE a < b
    BY <1>1, <1>3, <1>5, LaterMultiple
  <1>6. CASE b < a
    <2>1. Day * b + Day <= Day * a
      BY <1>1, <1>6, LaterMultiple
    <2>2. QED
      BY <1>1, <1>2, <2>1
  <1>7. QED
    BY <1>1, <1>4, <1>5, <1>6

\* The next rebalance is later than the given time, by a day at most, and never
\* earlier for a later time.
LEMMA NextRebalanceLater ==
  ASSUME NEW t \in Nat
  PROVE  NextRebalance(t) \in Nat /\ t < NextRebalance(t) /\ NextRebalance(t) <= t + Day
  BY DayOfMinute, PortfolioAssumption DEF NextRebalance

LEMMA NextRebalanceMonotonic ==
  ASSUME NEW t \in Nat, NEW u \in Nat, t <= u
  PROVE  NextRebalance(t) <= NextRebalance(u)
  <1>1. /\ Midnight(t) \in Nat /\ Midnight(t) <= t
        /\ Midnight(u) \in Nat /\ Midnight(u) <= u
    BY DayOfMinute, PortfolioAssumption DEF Midnight
  <1>2. /\ NextRebalance(t) = IF t >= Midnight(t) + Offset
                              THEN Midnight(t) + Offset + Day ELSE Midnight(t) + Offset
        /\ NextRebalance(u) = IF u >= Midnight(u) + Offset
                              THEN Midnight(u) + Offset + Day ELSE Midnight(u) + Offset
    BY DEF NextRebalance, Midnight
  <1>3. Midnight(t) = Midnight(u) \/ Midnight(t) + Day <= Midnight(u)
    BY DaysApart
  <1>4. QED
    BY <1>1, <1>2, <1>3, PortfolioAssumption

-----------------------------------------------------------------------------
(* The inductive invariant.                                                *)

\* Rows are of the past, and so is the row being made.
Clock ==
  /\ now >= Day
  /\ pc \in Rebalancing => draft.time >= Day /\ draft.time <= now
  /\ \A r \in table : r.time <= now

\* There is a newest row.
HasLatest == table # {} => \E r \in table : \A q \in table : q.time <= r.time

\* Every row belongs to a scheduled time before the next one, and before that of
\* the row being made.
Scheduled ==
  /\ pc = "idle" => \A r \in table : NextRebalance(r.time) <= next_at
  /\ pc \in {"begun", "computed"} => \A r \in table : NextRebalance(r.time) <= draft.time

\* Rows end with a candle that was there, not after their own time.
Priced == \A r \in table : r.to <= r.time /\ r.to <= candle

\* The row being made continues the newest one.
Continued ==
  pc = "computed" =>
    /\ draft.to <= draft.time /\ draft.to <= candle
    /\ table = {} => draft.period = draft.equity - InitialEquity
                     /\ draft.cumulative = draft.period
    /\ table # {} => /\ draft.prev = Latest.time
                     /\ draft.period = draft.equity - Latest.equity
                     /\ draft.cumulative = Latest.cumulative + draft.period
                     /\ Latest.to <= draft.from

\* A row is committed before it is published, and published in order.
Committed ==
  /\ pc \in {"inserted", "streamed"} => draft \in table
  /\ pc = "inserted" => \A i \in 1 .. Len(stream) : stream[i].time < draft.time
  /\ pc = "streamed" => \E i \in 1 .. Len(stream) : stream[i] = draft

\* Without a fault the key follows the table.
KeyFollows ==
  faults = 0 =>
    /\ pc \in {"down", "waiting"} => table = {}
    /\ pc \in {"idle", "begun", "computed", "ended"} /\ table # {} => latest = {Latest}
    /\ pc \in {"inserted", "streamed"} => draft = Latest

IInv == /\ TypeOK /\ Clock /\ HasLatest /\ Scheduled /\ Priced /\ Continued /\ Committed
        /\ KeyFollows /\ OncePerSlot /\ LedgerChain /\ NoMoveCountedTwice
        /\ PublishedIsCommitted

-----------------------------------------------------------------------------
\* Latest is the newest row.
LEMMA LatestIsNewest ==
  ASSUME HasLatest, table # {}
  PROVE  Latest \in table /\ \A q \in table : q.time <= Latest.time
  BY DEF HasLatest, Latest

\* Rows are known by their times.
LEMMA TimeIsKey ==
  ASSUME OncePerSlot, NEW q \in table, NEW r \in table, q.time = r.time
  PROVE  q = r
  BY DEF OncePerSlot, Slot

\* A row whose scheduled time is over when another one begins is older than it.
LEMMA OlderRow ==
  ASSUME TypeOK, NEW t \in Nat, NEW r \in table, NextRebalance(r.time) <= t
  PROVE  r.time < t /\ Slot(r.time) # Slot(t)
  <1>1. r.time \in Nat
    BY DEF TypeOK, Row
  <1>2. r.time < NextRebalance(r.time) /\ NextRebalance(r.time) \in Nat
        /\ t < NextRebalance(t) /\ NextRebalance(t) \in Nat
    BY <1>1, NextRebalanceLater
  <1>3. QED
    BY <1>1, <1>2, PortfolioAssumption DEF Slot

\* Nothing is earlier than the start of the run.
LEMMA InitInvariant == Init => IInv
  <1> SUFFICES ASSUME Init PROVE IInv
    OBVIOUS
  <1> USE PortfolioAssumption DEF Init
  <1>0. connected \in BOOLEAN
    OBVIOUS
  <1>1. TypeOK
    BY <1>0 DEF TypeOK, Row, NoDraft
  <1>2. Clock /\ HasLatest /\ Scheduled /\ Priced /\ Continued /\ Committed /\ KeyFollows
    BY DEF Clock, HasLatest, Scheduled, Priced, Continued, Committed, KeyFollows, Rebalancing
  <1>3. OncePerSlot /\ LedgerChain /\ NoMoveCountedTwice /\ PublishedIsCommitted
    BY DEF OncePerSlot, LedgerChain, NoMoveCountedTwice, PublishedIsCommitted, Adjacent
  <1>4. QED
    BY <1>1, <1>2, <1>3 DEF IInv

\* Steps that leave the stores alone leave what is said about them alone.
LEMMA StoresUnchanged ==
  ASSUME IInv, UNCHANGED << table, stream, latest >>
  PROVE  HasLatest' /\ OncePerSlot' /\ LedgerChain' /\ NoMoveCountedTwice'
         /\ PublishedIsCommitted' /\ Latest' = Latest
  <1>1. Latest' = Latest
    BY DEF Latest
  <1>2. HasLatest' /\ OncePerSlot'
    BY DEF IInv, HasLatest, OncePerSlot
  <1>3. LedgerChain' /\ NoMoveCountedTwice'
    BY DEF IInv, LedgerChain, NoMoveCountedTwice, Adjacent
  <1>4. PublishedIsCommitted'
    BY DEF IInv, PublishedIsCommitted
  <1>5. QED
    BY <1>1, <1>2, <1>3, <1>4

-----------------------------------------------------------------------------
(* One lemma per action.                                                   *)

LEMMA TickStep == IInv /\ Tick => IInv'
  <1> SUFFICES ASSUME IInv, Tick PROVE IInv'
    OBVIOUS
  <1> USE PortfolioAssumption DEF Tick
  <1>1. HasLatest' /\ OncePerSlot' /\ LedgerChain' /\ NoMoveCountedTwice'
        /\ PublishedIsCommitted' /\ Latest' = Latest
    BY StoresUnchanged
  <1>2. TypeOK'
    BY DEF IInv, TypeOK
  <1>3. Clock'
    BY DEF IInv, Clock, TypeOK, Row
  <1>4. Scheduled' /\ Priced' /\ Committed'
    BY DEF IInv, Scheduled, Priced, Committed
  <1>5. Continued' /\ KeyFollows'
    BY <1>1 DEF IInv, Continued, KeyFollows
  <1>6. QED
    BY <1>1, <1>2, <1>3, <1>4, <1>5 DEF IInv

LEMMA CandleStep == IInv /\ Candle => IInv'
  <1> SUFFICES ASSUME IInv, Candle PROVE IInv'
    OBVIOUS
  <1> USE PortfolioAssumption DEF Candle
  <1>1. HasLatest' /\ OncePerSlot' /\ LedgerChain' /\ NoMoveCountedTwice'
        /\ PublishedIsCommitted' /\ Latest' = Latest
    BY StoresUnchanged
  <1>2. TypeOK'
    BY DEF IInv, TypeOK
  <1>3. Clock' /\ Scheduled' /\ Committed'
    BY DEF IInv, Clock, Scheduled, Committed
  <1>4. Priced'
    BY DEF IInv, Priced, TypeOK, Row
  <1>5. Continued'
    <2>1. draft.to <= candle => draft.to <= candle + 1
      BY DEF IInv, TypeOK, Row
    <2>2. QED
      BY <1>1, <2>1 DEF IInv, Continued
  <1>6. KeyFollows'
    BY <1>1 DEF IInv, KeyFollows
  <1>7. QED
    BY <1>1, <1>2, <1>3, <1>4, <1>5, <1>6 DEF IInv

LEMMA LoseConnectionStep == IInv /\ LoseConnection => IInv'
  <1> SUFFICES ASSUME IInv, LoseConnection PROVE IInv'
    OBVIOUS
  <1>1. HasLatest' /\ OncePerSlot' /\ LedgerChain' /\ NoMoveCountedTwice'
        /\ PublishedIsCommitted' /\ Latest' = Latest
    BY StoresUnchanged DEF LoseConnection
  <1>0. connected' \in BOOLEAN
    BY DEF LoseConnection
  <1>2. TypeOK' /\ Clock'
    BY <1>0 DEF LoseConnection, IInv, TypeOK, Clock
  <1>3. Scheduled' /\ Priced' /\ Committed'
    BY DEF LoseConnection, IInv, Scheduled, Priced, Committed
  <1>4. Continued'
    BY <1>1 DEF LoseConnection, IInv, Continued
  <1>5. faults' # 0
    BY DEF LoseConnection, IInv, TypeOK
  <1>6. QED
    BY <1>1, <1>2, <1>3, <1>4, <1>5 DEF IInv, KeyFollows

LEMMA StartStep == IInv /\ Start => IInv'
  <1> SUFFICES ASSUME IInv, Start PROVE IInv'
    OBVIOUS
  <1> USE PortfolioAssumption DEF Start
  <1>1. HasLatest' /\ OncePerSlot' /\ LedgerChain' /\ NoMoveCountedTwice'
        /\ PublishedIsCommitted' /\ Latest' = Latest
    BY StoresUnchanged
  <1>2. TypeOK'
    BY DEF IInv, TypeOK
  <1>3. Clock' /\ Scheduled' /\ Priced' /\ Continued' /\ Committed'
    BY DEF IInv, Clock, Scheduled, Priced, Continued, Committed, Rebalancing
  <1>4. KeyFollows'
    BY DEF IInv, KeyFollows
  <1>5. QED
    BY <1>1, <1>2, <1>3, <1>4 DEF IInv

\* The next scheduled time is later than every row, however long the process was
\* down: it is computed from a time no row is later than.
LEMMA ReadyStep == IInv /\ Ready => IInv'
  <1> SUFFICES ASSUME IInv, Ready PROVE IInv'
    OBVIOUS
  <1> USE PortfolioAssumption DEF Ready
  <1>1. HasLatest' /\ OncePerSlot' /\ LedgerChain' /\ NoMoveCountedTwice'
        /\ PublishedIsCommitted' /\ Latest' = Latest
    BY StoresUnchanged
  <1>2. TypeOK'
    BY NextRebalanceLater DEF IInv, TypeOK
  <1>3. Clock' /\ Priced' /\ Continued' /\ Committed'
    BY DEF IInv, Clock, Priced, Continued, Committed, Rebalancing
  <1>4. Scheduled'
    BY NextRebalanceMonotonic DEF IInv, TypeOK, Row, Clock, Scheduled
  <1>5. KeyFollows'
    BY DEF IInv, KeyFollows
  <1>6. QED
    BY <1>1, <1>2, <1>3, <1>4, <1>5 DEF IInv

LEMMA WaitFailsStep == IInv /\ WaitFails => IInv'
  <1> SUFFICES ASSUME IInv, WaitFails PROVE IInv'
    OBVIOUS
  <1>1. HasLatest' /\ OncePerSlot' /\ LedgerChain' /\ NoMoveCountedTwice'
        /\ PublishedIsCommitted' /\ Latest' = Latest
    BY StoresUnchanged DEF WaitFails
  <1>2. TypeOK' /\ Clock'
    BY DEF WaitFails, IInv, TypeOK, Clock, Rebalancing
  <1>3. Scheduled' /\ Priced' /\ Continued' /\ Committed'
    BY DEF WaitFails, IInv, Scheduled, Priced, Continued, Committed
  <1>4. KeyFollows'
    BY DEF WaitFails, IInv, KeyFollows
  <1>5. QED
    BY <1>1, <1>2, <1>3, <1>4 DEF IInv

LEMMA BeginStep == IInv /\ Begin => IInv'
  <1> SUFFICES ASSUME IInv, Begin PROVE IInv'
    OBVIOUS
  <1> USE PortfolioAssumption DEF Begin
  <1>1. HasLatest' /\ OncePerSlot' /\ LedgerChain' /\ NoMoveCountedTwice'
        /\ PublishedIsCommitted' /\ Latest' = Latest
    BY StoresUnchanged
  <1>2. TypeOK' /\ draft'.time = now
    BY DEF IInv, TypeOK, Row, NoDraft, Rebalancing
  <1>3. Clock'
    BY <1>2 DEF IInv, Clock, TypeOK
  <1>4. Scheduled'
    <2> SUFFICES ASSUME NEW r \in table PROVE NextRebalance(r.time) <= now
      BY <1>2 DEF Scheduled
    <2>1. NextRebalance(r.time) <= next_at /\ next_at <= now
      BY DEF IInv, Scheduled, Due
    <2>2. NextRebalance(r.time) \in Nat
      BY NextRebalanceLater DEF IInv, TypeOK, Row
    <2>3. QED
      BY <2>1, <2>2 DEF IInv, TypeOK
  <1>5. Priced' /\ Continued' /\ Committed'
    BY DEF IInv, Priced, Continued, Committed
  <1>6. KeyFollows'
    BY <1>1 DEF IInv, KeyFollows
  <1>7. QED
    BY <1>1, <1>2, <1>3, <1>4, <1>5, <1>6 DEF IInv

\* The state a rebalance starts from: the newest row, or the start of the ledger.
LEMMA PrevStateType ==
  ASSUME IInv, pc = "begun"
  PROVE  /\ PrevState.time \in Nat
         /\ PrevState.equity \in Nat
         /\ PrevState.cumulative \in Int
         /\ table # {} => /\ Latest \in table
                          /\ PrevState.time = Latest.time
                          /\ PrevState.equity = Latest.equity
                          /\ PrevState.cumulative = Latest.cumulative
         /\ table = {} => /\ PrevState.equity = InitialEquity
                          /\ PrevState.cumulative = 0
  <1>1. CASE table = {}
    <2>1. draft.time \in Nat /\ draft.time >= Day /\ Day \in Nat
      BY PortfolioAssumption DEF IInv, TypeOK, Row, Clock, Rebalancing
    <2>2. QED
      BY <1>1, <2>1, PortfolioAssumption DEF PrevState
  <1>2. CASE table # {}
    <2>1. Latest \in table
      BY <1>2, LatestIsNewest DEF IInv
    <2>2. QED
      BY <1>2, <2>1 DEF PrevState, IInv, TypeOK, Row
  <1>3. QED
    BY <1>1, <1>2

\* A row continues the state it is made from.
LEMMA NewRowContinues ==
  ASSUME IInv, pc = "begun", NEW r \in Returns
  PROVE  LET n == NewRow(PrevState, r) IN
         /\ n \in Row
         /\ n.time = draft.time
         /\ n.to <= draft.time /\ n.to <= candle
         /\ n.prev = IF table = {} THEN 0 ELSE PrevState.time
         /\ n.period = n.equity - PrevState.equity
         /\ n.cumulative = PrevState.cumulative + n.period
         /\ n.from = PriceAsOf(PrevState.time)
  <1> DEFINE e == Clamp(PrevState.equity * (1 + r))
             n == NewRow(PrevState, r)
  <1>1. PrevState.time \in Nat /\ PrevState.equity \in Nat /\ PrevState.cumulative \in Int
    BY PrevStateType
  <1>2. r \in Int
    BY PortfolioAssumption
  <1>3. PrevState.equity * (1 + r) \in Int
    BY <1>1, <1>2
  <1>4. e \in Nat
    BY <1>3 DEF Clamp
  <1>5. draft.time \in Nat /\ candle \in Nat
    BY DEF IInv, TypeOK, Row
  <1>6. /\ PriceAsOf(PrevState.time) \in Nat
        /\ PriceAsOf(draft.time) \in Nat
        /\ PriceAsOf(draft.time) <= draft.time /\ PriceAsOf(draft.time) <= candle
    BY <1>1, <1>5 DEF PriceAsOf
  <1>7. n = [time |-> draft.time, equity |-> e, period |-> e - PrevState.equity,
             cumulative |-> PrevState.cumulative + (e - PrevState.equity),
             prev |-> IF table = {} THEN 0 ELSE PrevState.time,
             from |-> PriceAsOf(PrevState.time), to |-> PriceAsOf(draft.time)]
    BY DEF NewRow
  <1> HIDE DEF e, n
  <1>8. n \in Row
    BY <1>1, <1>4, <1>5, <1>6, <1>7 DEF Row
  <1>9. QED
    BY <1>6, <1>7, <1>8 DEF n

LEMMA ComputeStep == IInv /\ Compute => IInv'
  <1> SUFFICES ASSUME IInv, Compute PROVE IInv'
    OBVIOUS
  <1> USE PortfolioAssumption
  <1>1. HasLatest' /\ OncePerSlot' /\ LedgerChain' /\ NoMoveCountedTwice'
        /\ PublishedIsCommitted' /\ Latest' = Latest
    BY StoresUnchanged DEF Compute
  <1>2. PICK r \in Returns : draft' = NewRow(PrevState, r)
    BY DEF Compute
  <1>3. pc = "begun"
    BY DEF Compute
  <1>4. /\ draft' \in Row
        /\ draft'.time = draft.time
        /\ draft'.to <= draft.time /\ draft'.to <= candle
        /\ draft'.prev = IF table = {} THEN 0 ELSE PrevState.time
        /\ draft'.period = draft'.equity - PrevState.equity
        /\ draft'.cumulative = PrevState.cumulative + draft'.period
        /\ draft'.from = PriceAsOf(PrevState.time)
    BY <1>2, <1>3, NewRowContinues
  <1>5. TypeOK'
    BY <1>4 DEF Compute, IInv, TypeOK, Rebalancing
  <1>6. Clock' /\ Scheduled' /\ Priced' /\ Committed'
    BY <1>4 DEF Compute, IInv, Clock, Scheduled, Priced, Committed, Rebalancing
  <1>7. Continued'
    <2>1. CASE table = {}
      <3>1. draft'.period = draft'.equity - InitialEquity
        BY <1>3, <1>4, <2>1, PrevStateType
      <3>2. draft'.cumulative = 0 + draft'.period /\ draft'.period \in Int
        BY <1>3, <1>4, <2>1, PrevStateType DEF Row
      <3>3. QED
        BY <1>4, <2>1, <3>1, <3>2 DEF Compute, Continued
    <2>2. CASE table # {}
      <3>1. /\ Latest \in table
            /\ PrevState.time = Latest.time
            /\ PrevState.equity = Latest.equity
            /\ PrevState.cumulative = Latest.cumulative
        BY <1>3, <2>2, PrevStateType
      <3>2. Latest.to <= Latest.time /\ Latest.to <= candle
        BY <3>1 DEF IInv, Priced
      <3>3. Latest.to <= draft'.from
        BY <1>4, <3>1, <3>2 DEF PriceAsOf
      <3>4. QED
        BY <1>1, <1>4, <2>2, <3>1, <3>3 DEF Compute, Continued
    <2>3. QED
      BY <2>1, <2>2
  <1>8. KeyFollows'
    BY <1>1 DEF Compute, IInv, KeyFollows
  <1>9. QED
    BY <1>1, <1>5, <1>6, <1>7, <1>8 DEF IInv

\* Inserting the row that was made adds it to the table, after all the others.
LEMMA InsertAppends ==
  ASSUME IInv, Insert, AdaptsDict
  PROVE  /\ table' = table \cup {draft}
         /\ \A q \in table : q.time < draft.time /\ Slot(q.time) # Slot(draft.time)
         /\ Latest' = draft
  <1>1. pc = "computed" /\ draft \in Row /\ draft.time \in Nat /\ table \subseteq Row
    BY DEF IInv, TypeOK, Insert, Row
  <1>2. ASSUME NEW q \in table
        PROVE  q.time < draft.time /\ Slot(q.time) # Slot(draft.time)
    <2>1. NextRebalance(q.time) <= draft.time
      BY <1>1 DEF IInv, Scheduled
    <2>2. QED
      BY <1>1, <2>1, OlderRow DEF IInv
  <1>3. \A q \in table : q.time # draft.time
    <2> SUFFICES ASSUME NEW q \in table PROVE q.time # draft.time
      OBVIOUS
    <2>1. q.time < draft.time /\ q.time \in Nat
      BY <1>1, <1>2 DEF Row
    <2>2. QED
      BY <1>1, <2>1
  <1>4. table' = table \cup {draft}
    BY <1>3 DEF Insert, Upsert
  <1>5. Latest' = draft
    <2>1. \A q \in table' : q.time <= draft.time
      BY <1>1, <1>2, <1>4 DEF Row
    <2>2. ASSUME NEW r \in table', \A q \in table' : q.time <= r.time
          PROVE  r = draft
      <3>1. draft.time <= r.time
        BY <1>4, <2>2
      <3>2. ~ (r \in table)
        BY <1>1, <1>2, <3>1 DEF Row
      <3>3. QED
        BY <1>4, <3>2
    <2>3. QED
      BY <1>4, <2>1, <2>2 DEF Latest
  <1>6. QED
    BY <1>2, <1>4, <1>5

\* The rows next to each other after an insert: those before it, and the newest
\* one with the inserted.
LEMMA InsertAdjacent ==
  ASSUME IInv, Insert, AdaptsDict, NEW q, NEW r, Adjacent(q, r)'
  PROVE  Adjacent(q, r) \/ (table # {} /\ q = Latest /\ r = draft)
  <1>1. /\ table' = table \cup {draft}
        /\ \A x \in table : x.time < draft.time
    BY InsertAppends
  <1>2. /\ draft.time \in Nat
        /\ \A x \in table : x.time \in Nat
    BY DEF IInv, TypeOK, Row
  <1>3. /\ q \in table \cup {draft} /\ r \in table \cup {draft} /\ q.time < r.time
        /\ \A x \in table : x.time <= q.time \/ x.time >= r.time
    BY <1>1 DEF Adjacent
  <1>4. q \in table
    BY <1>1, <1>2, <1>3
  <1>5. CASE r \in table
    BY <1>3, <1>4, <1>5 DEF Adjacent
  <1>6. CASE r = draft
    <2>1. Latest \in table /\ q.time <= Latest.time
      BY <1>4, LatestIsNewest DEF IInv
    <2>2. Latest.time <= q.time
      BY <1>1, <1>2, <1>3, <1>6, <2>1
    <2>3. q.time = Latest.time
      BY <1>2, <1>4, <2>1, <2>2
    <2>4. q = Latest
      BY <1>4, <2>1, <2>3, TimeIsKey DEF IInv
    <2>5. QED
      BY <1>4, <1>6, <2>4
  <1>7. QED
    BY <1>3, <1>5, <1>6

LEMMA InsertStep == IInv /\ Insert => IInv'
  <1> SUFFICES ASSUME IInv, Insert PROVE IInv'
    OBVIOUS
  <1> USE PortfolioAssumption
  <1>1. CASE ~AdaptsDict
    <2>1. pc = "computed" /\ pc' = "ended" /\ UNCHANGED table
          /\ UNCHANGED << now, candle, connected, next_at, draft, stream, latest, faults >>
      BY <1>1 DEF Insert
    <2>2. HasLatest' /\ OncePerSlot' /\ LedgerChain' /\ NoMoveCountedTwice'
          /\ PublishedIsCommitted' /\ Latest' = Latest
      BY <2>1, StoresUnchanged
    <2>3. TypeOK' /\ Clock'
      BY <2>1 DEF IInv, TypeOK, Clock, Rebalancing
    <2>4. Scheduled' /\ Priced' /\ Continued' /\ Committed'
      BY <2>1 DEF IInv, Scheduled, Priced, Continued, Committed
    <2>5. KeyFollows'
      BY <2>1, <2>2 DEF IInv, KeyFollows
    <2>6. QED
      BY <2>2, <2>3, <2>4, <2>5 DEF IInv
  <1>2. CASE AdaptsDict
    <2>1. /\ pc = "computed" /\ pc' = "inserted"
          /\ UNCHANGED << now, candle, connected, next_at, draft, stream, latest, faults >>
      BY <1>2 DEF Insert
    <2>2. /\ table' = table \cup {draft}
          /\ \A q \in table : q.time < draft.time /\ Slot(q.time) # Slot(draft.time)
          /\ Latest' = draft
      BY <1>2, InsertAppends
    <2>3. draft \in Row /\ table \subseteq Row
      BY DEF IInv, TypeOK
    <2>4. TypeOK'
      BY <2>1, <2>2, <2>3 DEF IInv, TypeOK, Rebalancing
    <2>5. Clock'
      BY <2>1, <2>2 DEF IInv, Clock, Rebalancing
    <2>6. HasLatest'
      <3>1. \A q \in table' : q.time <= draft.time
        BY <2>2, <2>3 DEF Row
      <3>2. QED
        BY <2>2, <3>1 DEF HasLatest
    <2>7. Scheduled' /\ Continued'
      BY <2>1 DEF Scheduled, Continued
    <2>8. Priced'
      BY <2>1, <2>2 DEF IInv, Priced, Continued
    <2>9. Committed'
      <3>1. ASSUME NEW i \in 1 .. Len(stream) PROVE stream[i].time < draft.time
        BY <2>2 DEF IInv, PublishedIsCommitted
      <3>2. QED
        BY <2>1, <2>2, <3>1 DEF Committed
    <2>10. KeyFollows'
      BY <2>1, <2>2 DEF KeyFollows
    <2>11. OncePerSlot'
      <3>1. \A q, r \in table : Slot(q.time) = Slot(r.time) => q = r
        BY DEF IInv, OncePerSlot
      <3> HIDE DEF Slot
      <3>2. ASSUME NEW q \in table', NEW r \in table', Slot(q.time) = Slot(r.time)
            PROVE  q = r
        BY <2>2, <3>1, <3>2
      <3>3. QED
        BY <3>2 DEF OncePerSlot, Slot
    <2>12. LedgerChain'
      <3>1. ASSUME NEW q \in table', NEW r \in table', Adjacent(q, r)'
            PROVE  r.prev = q.time /\ r.period = r.equity - q.equity
        <4>1. CASE Adjacent(q, r)
          <5>1. q \in table /\ r \in table
            BY <4>1 DEF Adjacent
          <5>2. QED
            BY <4>1, <5>1 DEF IInv, LedgerChain
        <4>2. CASE table # {} /\ q = Latest /\ r = draft
          BY <2>1, <4>2 DEF IInv, Continued
        <4>3. QED
          BY <1>2, <3>1, <4>1, <4>2, InsertAdjacent
      <3>2. draft.cumulative = draft.equity - InitialEquity
        <4>1. CASE table = {}
          BY <2>1, <4>1 DEF IInv, Continued
        <4>2. CASE table # {}
          <5>1. Latest \in table
            BY <4>2, LatestIsNewest DEF IInv
          <5>2. Latest.cumulative = Latest.equity - InitialEquity
            BY <5>1 DEF IInv, LedgerChain
          <5>3. /\ draft.period = draft.equity - Latest.equity
                /\ draft.cumulative = Latest.cumulative + draft.period
            BY <2>1, <4>2 DEF IInv, Continued
          <5>4. Latest.equity \in Nat /\ draft.equity \in Nat
            BY <2>3, <5>1 DEF Row
          <5>5. QED
            BY <5>2, <5>3, <5>4
        <4>3. QED
          BY <4>1, <4>2
      <3>3. \A r \in table' : r.cumulative = r.equity - InitialEquity
        BY <2>2, <3>2 DEF IInv, LedgerChain
      <3>4. QED
        BY <3>1, <3>3 DEF LedgerChain
    <2>13. NoMoveCountedTwice'
      <3>1. ASSUME NEW q \in table', NEW r \in table', Adjacent(q, r)'
            PROVE  q.to <= r.from
        <4>1. CASE Adjacent(q, r)
          <5>1. q \in table /\ r \in table
            BY <4>1 DEF Adjacent
          <5>2. QED
            BY <4>1, <5>1 DEF IInv, NoMoveCountedTwice
        <4>2. CASE table # {} /\ q = Latest /\ r = draft
          BY <2>1, <4>2 DEF IInv, Continued
        <4>3. QED
          BY <1>2, <3>1, <4>1, <4>2, InsertAdjacent
      <3>2. QED
        BY <3>1 DEF NoMoveCountedTwice
    <2>14. PublishedIsCommitted'
      BY <2>1, <2>2 DEF IInv, PublishedIsCommitted
    <2>15. QED
      BY <2>4, <2>5, <2>6, <2>7, <2>8, <2>9, <2>10, <2>11, <2>12, <2>13, <2>14 DEF IInv
  <1>3. QED
    BY <1>1, <1>2

LEMMA PublishStreamStep == IInv /\ PublishStream => IInv'
  <1> SUFFICES ASSUME IInv, PublishStream PROVE IInv'
    OBVIOUS
  <1> USE PortfolioAssumption
  <1>1. /\ pc = "inserted" /\ pc' = "streamed" /\ stream' = Append(stream, draft)
        /\ UNCHANGED << now, candle, connected, next_at, draft, table, latest, faults >>
    BY DEF PublishStream
  <1>2. Latest' = Latest
    BY <1>1 DEF Latest
  <1>3. HasLatest' /\ OncePerSlot'
    BY <1>1 DEF IInv, HasLatest, OncePerSlot
  <1>4. LedgerChain' /\ NoMoveCountedTwice'
    BY <1>1 DEF IInv, LedgerChain, NoMoveCountedTwice, Adjacent
  <1>5. stream \in Seq(Row) /\ draft \in Row /\ draft \in table
    BY <1>1 DEF IInv, TypeOK, Committed
  <1>6. /\ stream' \in Seq(Row)
        /\ Len(stream') = Len(stream) + 1 /\ Len(stream) \in Nat
        /\ \A i \in 1 .. Len(stream) : stream'[i] = stream[i]
        /\ stream'[Len(stream) + 1] = draft
    BY <1>1, <1>5
  <1>7. TypeOK' /\ Clock'
    BY <1>1, <1>6 DEF IInv, TypeOK, Clock, Rebalancing
  <1>8. Scheduled' /\ Priced' /\ Continued'
    BY <1>1 DEF IInv, Scheduled, Priced, Continued
  <1>9. Committed'
    <2>1. \E i \in 1 .. Len(stream') : stream'[i] = draft
      BY <1>6
    <2>2. QED
      BY <1>1, <1>5, <2>1 DEF Committed
  <1>10. KeyFollows'
    BY <1>1, <1>2 DEF IInv, KeyFollows
  <1>11. PublishedIsCommitted'
    <2>1. ASSUME NEW i \in 1 .. Len(stream') PROVE stream'[i] \in table
      BY <1>5, <1>6 DEF IInv, PublishedIsCommitted
    <2>2. ASSUME NEW i \in 1 .. Len(stream'), NEW j \in 1 .. Len(stream'), i < j
          PROVE  stream'[i].time < stream'[j].time
      <3>1. i \in 1 .. Len(stream)
        BY <1>6, <2>2
      <3>2. CASE j \in 1 .. Len(stream)
        BY <1>6, <2>2, <3>1, <3>2 DEF IInv, PublishedIsCommitted
      <3>3. CASE j = Len(stream) + 1
        BY <1>1, <1>6, <3>1, <3>3 DEF IInv, Committed
      <3>4. QED
        BY <1>6, <3>2, <3>3
    <2>3. ASSUME NEW r \in latest PROVE \E i \in 1 .. Len(stream') : stream'[i] = r
      <3>1. PICK i \in 1 .. Len(stream) : stream[i] = r
        BY DEF IInv, PublishedIsCommitted
      <3>2. i \in 1 .. Len(stream') /\ stream'[i] = r
        BY <1>6, <3>1
      <3>3. QED
        BY <3>2
    <2>4. QED
      BY <1>1, <2>1, <2>2, <2>3 DEF PublishedIsCommitted
  <1>12. QED
    BY <1>3, <1>4, <1>7, <1>8, <1>9, <1>10, <1>11 DEF IInv

LEMMA PublishKeyStep == IInv /\ PublishKey => IInv'
  <1> SUFFICES ASSUME IInv, PublishKey PROVE IInv'
    OBVIOUS
  <1>1. /\ pc = "streamed" /\ pc' = "ended" /\ latest' = {draft}
        /\ UNCHANGED << now, candle, connected, next_at, draft, table, stream, faults >>
    BY DEF PublishKey
  <1>2. Latest' = Latest
    BY <1>1 DEF Latest
  <1>3. HasLatest' /\ OncePerSlot'
    BY <1>1 DEF IInv, HasLatest, OncePerSlot
  <1>4. LedgerChain' /\ NoMoveCountedTwice'
    BY <1>1 DEF IInv, LedgerChain, NoMoveCountedTwice, Adjacent
  <1>5. TypeOK' /\ Clock'
    BY <1>1 DEF IInv, TypeOK, Clock, Rebalancing
  <1>6. Scheduled' /\ Priced' /\ Continued' /\ Committed'
    BY <1>1 DEF IInv, Scheduled, Priced, Continued, Committed
  <1>7. KeyFollows'
    BY <1>1, <1>2 DEF IInv, KeyFollows
  <1>8. PublishedIsCommitted'
    BY <1>1 DEF IInv, PublishedIsCommitted, Committed
  <1>9. QED
    BY <1>3, <1>4, <1>5, <1>6, <1>7, <1>8 DEF IInv

LEMMA FailStep == IInv /\ Fail => IInv'
  <1> SUFFICES ASSUME IInv, Fail PROVE IInv'
    OBVIOUS
  <1>1. HasLatest' /\ OncePerSlot' /\ LedgerChain' /\ NoMoveCountedTwice'
        /\ PublishedIsCommitted' /\ Latest' = Latest
    BY StoresUnchanged DEF Fail
  <1>2. TypeOK' /\ Clock'
    BY DEF Fail, IInv, TypeOK, Clock, Rebalancing
  <1>3. Scheduled' /\ Priced' /\ Continued' /\ Committed'
    BY DEF Fail, IInv, Scheduled, Priced, Continued, Committed
  <1>4. faults' # 0
    BY DEF Fail, IInv, TypeOK
  <1>5. QED
    BY <1>1, <1>2, <1>3, <1>4 DEF IInv, KeyFollows

\* Nothing was written yet: the key follows the table as before.
LEMMA RefusedStep == IInv /\ Refused => IInv'
  <1> SUFFICES ASSUME IInv, Refused PROVE IInv'
    OBVIOUS
  <1>1. HasLatest' /\ OncePerSlot' /\ LedgerChain' /\ NoMoveCountedTwice'
        /\ PublishedIsCommitted' /\ Latest' = Latest
    BY StoresUnchanged DEF Refused
  <1>2. TypeOK' /\ Clock'
    BY DEF Refused, IInv, TypeOK, Clock, Rebalancing
  <1>3. Scheduled' /\ Priced' /\ Continued' /\ Committed'
    BY DEF Refused, IInv, Scheduled, Priced, Continued, Committed
  <1>4. KeyFollows'
    BY <1>1 DEF Refused, IInv, KeyFollows
  <1>5. QED
    BY <1>1, <1>2, <1>3, <1>4 DEF IInv

LEMMA RescheduleStep == IInv /\ Reschedule => IInv'
  <1> SUFFICES ASSUME IInv, Reschedule PROVE IInv'
    OBVIOUS
  <1>1. HasLatest' /\ OncePerSlot' /\ LedgerChain' /\ NoMoveCountedTwice'
        /\ PublishedIsCommitted' /\ Latest' = Latest
    BY StoresUnchanged DEF Reschedule
  <1>2. TypeOK'
    BY NextRebalanceLater DEF Reschedule, IInv, TypeOK
  <1>3. Clock' /\ Priced' /\ Continued' /\ Committed'
    BY DEF Reschedule, IInv, Clock, Priced, Continued, Committed, Rebalancing
  <1>4. Scheduled'
    BY NextRebalanceMonotonic DEF Reschedule, IInv, TypeOK, Row, Clock, Scheduled
  <1>5. KeyFollows'
    BY <1>1 DEF Reschedule, IInv, KeyFollows
  <1>6. QED
    BY <1>1, <1>2, <1>3, <1>4, <1>5 DEF IInv

LEMMA CrashStep == IInv /\ Crash => IInv'
  <1> SUFFICES ASSUME IInv, Crash PROVE IInv'
    OBVIOUS
  <1>1. HasLatest' /\ OncePerSlot' /\ LedgerChain' /\ NoMoveCountedTwice'
        /\ PublishedIsCommitted' /\ Latest' = Latest
    BY StoresUnchanged DEF Crash
  <1>0. connected' \in BOOLEAN
    BY DEF Crash
  <1>2. TypeOK' /\ Clock'
    BY <1>0 DEF Crash, IInv, TypeOK, Clock, Rebalancing
  <1>3. Scheduled' /\ Priced' /\ Continued' /\ Committed'
    BY DEF Crash, IInv, Scheduled, Priced, Continued, Committed
  <1>4. faults' # 0
    BY DEF Crash, IInv, TypeOK
  <1>5. QED
    BY <1>1, <1>2, <1>3, <1>4 DEF IInv, KeyFollows

LEMMA StutterStep == IInv /\ UNCHANGED vars => IInv'
  <1> SUFFICES ASSUME IInv, UNCHANGED vars PROVE IInv'
    OBVIOUS
  <1>1. HasLatest' /\ OncePerSlot' /\ LedgerChain' /\ NoMoveCountedTwice'
        /\ PublishedIsCommitted' /\ Latest' = Latest
    BY StoresUnchanged DEF vars
  <1>2. TypeOK' /\ Clock'
    BY DEF vars, IInv, TypeOK, Clock
  <1>3. Scheduled' /\ Priced' /\ Committed'
    BY DEF vars, IInv, Scheduled, Priced, Committed
  <1>4. Continued' /\ KeyFollows'
    BY <1>1 DEF vars, IInv, Continued, KeyFollows
  <1>5. QED
    BY <1>1, <1>2, <1>3, <1>4 DEF IInv

-----------------------------------------------------------------------------
\* The invariant holds of every run (src/portfolio_engine/main.py:54-193).
THEOREM Invariant == Spec => []IInv
  <1>1. IInv /\ [Next]_vars => IInv'
    BY TickStep, CandleStep, LoseConnectionStep, StartStep, ReadyStep, WaitFailsStep,
       BeginStep, ComputeStep, InsertStep, PublishStreamStep, PublishKeyStep, FailStep,
       RefusedStep, RescheduleStep, CrashStep, StutterStep
       DEF Next, Rebalance
  <1>2. QED
    BY InitInvariant, <1>1, PTL DEF Spec

\* Types hold of every run: in particular equity is never negative (main.py:126).
THEOREM TypesHold == Spec => []TypeOK
  <1>1. IInv => TypeOK
    BY DEF IInv
  <1>2. QED
    BY Invariant, <1>1, PTL

\* However the process fails, is killed or restarted, a scheduled time has at
\* most one row (main.py:54-58, 187-193).
THEOREM SlotsAnsweredOnce == Spec => []OncePerSlot
  <1>1. IInv => OncePerSlot
    BY DEF IInv
  <1>2. QED
    BY Invariant, <1>1, PTL

\* Every row continues the one before it, whatever days are missing between them
\* (main.py:99-128, db.py:227-259).
THEOREM RowsFormAChain == Spec => []LedgerChain
  <1>1. IInv => LedgerChain
    BY DEF IInv
  <1>2. QED
    BY Invariant, <1>1, PTL

\* No price move is counted in two periods (db.py:300-312).
THEOREM MovesCountedOnce == Spec => []NoMoveCountedTwice
  <1>1. IInv => NoMoveCountedTwice
    BY DEF IInv
  <1>2. QED
    BY Invariant, <1>1, PTL

\* What Redis holds was committed, in order, the stream first (main.py:130-157).
THEOREM PublishedAfterCommit == Spec => []PublishedIsCommitted
  <1>1. IInv => PublishedIsCommitted
    BY DEF IInv
  <1>2. QED
    BY Invariant, <1>1, PTL

\* Without a fault, the key the API serves first is the newest row (main.py:133-157).
THEOREM KeyIsCurrent == Spec => []LatestKeyCurrent
  <1>1. IInv => LatestKeyCurrent
    BY DEF IInv, KeyFollows, LatestKeyCurrent
  <1>2. QED
    BY Invariant, <1>1, PTL

-----------------------------------------------------------------------------
(* The table implements the ledger.                                        *)

\* What the ledger shows of a row, and of the table.
Entry(r) == [time |-> r.time, equity |-> r.equity, period |-> r.period,
             cumulative |-> r.cumulative]
Entries == { [time |-> r.time, equity |-> r.equity, period |-> r.period,
              cumulative |-> r.cumulative] : r \in table }

\* Inserting the row that was made extends the ledger with its entry.
LEMMA InsertExtends ==
  ASSUME IInv, Insert, AdaptsDict
  PROVE  Ledger!Extend(Entry(draft)) /\ Entry(draft) \in Entries'
  <1>1. /\ table' = table \cup {draft}
        /\ \A q \in table : q.time < draft.time
    BY InsertAppends
  <1>2. draft \in Row /\ table \subseteq Row /\ pc = "computed"
    BY DEF IInv, TypeOK, Insert
  <1>3. Entries' = Entries \cup {Entry(draft)}
    BY <1>1, <1>2 DEF Entries, Entry, Insert
  <1>4. \A e \in Entries : e.time < Entry(draft).time
    BY <1>1 DEF Entries, Entry
  <1>5. Entry(draft).equity >= 0
    BY <1>2 DEF Row, Entry
  <1>6. CASE table = {}
    <2>1. Entries = {}
      BY <1>6 DEF Entries
    <2>2. Ledger!Continues(Entry(draft), Ledger!Origin)
      <3>1. draft.period = draft.equity - InitialEquity /\ draft.cumulative = draft.period
        BY <1>2, <1>6 DEF IInv, Continued
      <3>2. 0 + draft.period = draft.period
        BY <1>2 DEF Row
      <3>3. QED
        BY <1>5, <3>1, <3>2 DEF Ledger!Continues, Ledger!Origin, Entry
    <2>3. QED
      BY <1>3, <1>4, <2>1, <2>2 DEF Ledger!Extend, Entries
  <1>7. CASE table # {}
    <2>1. Latest \in table /\ \A q \in table : q.time <= Latest.time
      BY <1>7, LatestIsNewest DEF IInv
    <2>2. Entry(Latest) \in Entries
      BY <2>1 DEF Entries, Entry
    <2>3. Ledger!IsLast(Entry(Latest))
      BY <2>1 DEF Ledger!IsLast, Entry
    <2>4. Ledger!Continues(Entry(draft), Entry(Latest))
      BY <1>2, <1>5, <1>7 DEF IInv, Continued, Ledger!Continues, Entry
    <2>5. QED
      BY <1>3, <1>4, <2>2, <2>3, <2>4 DEF Ledger!Extend, Entries
  <1>8. QED
    BY <1>3, <1>6, <1>7

\* Only inserting touches the table; every other step is none of the ledger.
LEMMA StepExtends ==
  ASSUME IInv, [Next]_vars
  PROVE  [Ledger!Next]_Entries
  <1>1. CASE Insert /\ AdaptsDict
    <2>1. Ledger!Extend(Entry(draft)) /\ Entry(draft) \in Entries'
      BY <1>1, InsertExtends
    <2>2. Ledger!Next
      BY <2>1 DEF Ledger!Next, Ledger!Extend, Entries
    <2>3. QED
      BY <2>2
  <1>2. CASE UNCHANGED table
    BY <1>2 DEF Entries
  <1>3. ~(Insert /\ AdaptsDict) => UNCHANGED table
    BY DEF Next, Rebalance, vars, Tick, Candle, LoseConnection, Start, Ready, WaitFails,
           Begin, Compute, Insert, PublishStream, PublishKey, Fail, Refused, Reschedule,
           Crash
  <1>4. QED
    BY <1>1, <1>2, <1>3

\* The table portfolio_state is an append-only ledger in which every row
\* continues the one before it (db.py:262-297, main.py:99-128).
THEOREM ImplementsLedger == Spec => LedgerSpec
  <1>1. Init => Ledger!Init
    BY DEF Init, Ledger!Init
  <1>2. IInv /\ [Next]_vars => [Ledger!Next]_Entries
    BY StepExtends
  <1>3. QED
    BY Invariant, <1>1, <1>2, PTL DEF Spec, LedgerSpec, Ledger!Spec, Entries
=============================================================================
