----------------------- MODULE FeaturePipeline_proofs -----------------------
(***************************************************************************)
(* Proofs about FeaturePipeline, for any symbols, any number of instances, *)
(* any windows and any number of crashes.                                  *)
(*                                                                         *)
(* What the instances do is kept apart from who fills the stream, so that  *)
(* MarketPipeline can use it, too.  There are three layers: types and      *)
(* messages (Basic), what an instance has taken, with no entry passed over *)
(* but those trimmed before it came to them (Reader), and what holds as    *)
(* long as each symbol's candles come one after the other and nothing was  *)
(* passed over (Runs).                                                     *)
(***************************************************************************)
EXTENDS FeaturePipeline, FiniteSetTheorems, SequenceTheorems, TLAPS

Log == kline_stream.log

\* Somebody publishes a candle.
Grow == /\ \E c \in Candles : kline_stream' \in XAdd(kline_stream, c, StreamMaxLen)
        /\ UNCHANGED << worker, tables, crashes >>

WorkerStep(w) == (Start(w) \/ Work(w) \/ Crash(w)) /\ UNCHANGED kline_stream

Quiet == UNCHANGED << kline_stream, worker, tables, crashes >>

Step == Grow \/ Quiet \/ \E w \in Workers : WorkerStep(w)

Up(w) == pc[w] # "down"

-----------------------------------------------------------------------------
(* The stream.                                                             *)

StreamTyped == kline_stream.log \in Seq(Candles) /\ kline_stream.first \in Nat \ {0}

LEMMA XAddIs ==
  ASSUME StreamTyped, NEW c \in Candles, kline_stream' \in XAdd(kline_stream, c, StreamMaxLen)
  PROVE  /\ StreamTyped'
         /\ Log' = Append(Log, c) /\ Len(Log) \in Nat /\ Len(Log') = Len(Log) + 1
         /\ \A i \in 1 .. Len(Log) : Log'[i] = Log[i]
         /\ Log'[Len(Log) + 1] = c
         /\ kline_stream.first <= kline_stream'.first
         /\ \/ kline_stream'.first = kline_stream.first
            \/ kline_stream'.first <= Len(Log) + 2 - StreamMaxLen
PROOF
<1>1. PICK f \in kline_stream.first .. (LastId(kline_stream) + 1) :
        /\ f = kline_stream.first \/ LastId(kline_stream) + 2 - f >= StreamMaxLen
        /\ kline_stream' = [log |-> Append(kline_stream.log, c), first |-> f]
  BY DEF XAdd
<1>2. Len(Log) \in Nat /\ Log' = Append(Log, c) /\ kline_stream'.first = f
  BY <1>1 DEF StreamTyped, Log
<1>3. /\ Log' \in Seq(Candles) /\ Len(Log') = Len(Log) + 1
      /\ \A i \in 1 .. Len(Log) : Log'[i] = Log[i]
      /\ Log'[Len(Log) + 1] = c
  BY <1>2 DEF StreamTyped, Log
<1>4. /\ f \in Nat \ {0} /\ kline_stream.first <= f
      /\ f = kline_stream.first \/ f <= Len(Log) + 2 - StreamMaxLen
  BY <1>1, <1>2, FeatureAssumption DEF StreamTyped, LastId, Log
<1> QED
  BY <1>2, <1>3, <1>4 DEF StreamTyped, Log

\* XREAD returns entries the stream has, after the position and consecutive.
LEMMA XReadIs ==
  ASSUME StreamTyped, NEW w \in Workers, last_id \in [Workers -> Nat],
         pc \in [Workers -> {"down", "reading", "message", "features"}],
         batch \in [Workers -> [next : Nat, end : Nat]], since \in [Workers -> Nat],
         skipped \in [Workers -> SUBSET Nat], XRead(w)
  PROVE  \E lo, hi \in 1 .. Len(Log) :
           /\ last_id[w] < lo /\ kline_stream.first <= lo /\ lo <= hi
           /\ \A i \in 1 .. Len(Log) : last_id[w] < i /\ kline_stream.first <= i => lo <= i
           /\ batch' = [batch EXCEPT ![w] = [next |-> lo, end |-> hi]]
           /\ since' = [since EXCEPT ![w] = IF @ = 0 THEN lo ELSE @]
           /\ skipped' = [skipped EXCEPT ![w] =
                             IF since[w] = 0 THEN @ ELSE @ \cup (last_id[w] + 1) .. (lo - 1)]
           /\ pc' = [pc EXCEPT ![w] = "message"]
PROOF
<1> DEFINE ids == Readable(kline_stream, last_id[w])
<1>1. PICK lo \in ids, hi \in ids :
        /\ \A i \in ids : lo <= i
        /\ batch' = [batch EXCEPT ![w] = [next |-> lo, end |-> hi]]
        /\ since' = [since EXCEPT ![w] = IF @ = 0 THEN lo ELSE @]
        /\ skipped' = [skipped EXCEPT ![w] =
                          IF since[w] = 0 THEN @ ELSE @ \cup (last_id[w] + 1) .. (lo - 1)]
  BY DEF XRead
<1>2. ids = { i \in 1 .. Len(Log) : i > last_id[w] /\ i >= kline_stream.first }
  BY DEF Readable, LastId, Log
<1>3. Len(Log) \in Nat /\ last_id[w] \in Nat /\ kline_stream.first \in Nat
  BY DEF StreamTyped, Log
<1> HIDE DEF ids
<1>4. lo \in 1 .. Len(Log) /\ hi \in 1 .. Len(Log) /\ lo <= hi
  BY <1>1, <1>2
<1>5. pc' = [pc EXCEPT ![w] = "message"]
  BY DEF XRead
<1>6. /\ last_id[w] < lo /\ kline_stream.first <= lo
      /\ \A i \in 1 .. Len(Log) : last_id[w] < i /\ kline_stream.first <= i => lo <= i
  BY <1>1, <1>2, <1>3
<1> QED
  BY <1>1, <1>4, <1>5, <1>6

-----------------------------------------------------------------------------
(* Ring buffers.                                                           *)

LEMMA PushIs ==
  ASSUME NEW b \in Seq(Minutes), Len(b) <= BufferSize, NEW t \in Minutes
  PROVE  /\ Push(b, t) \in Seq(Minutes)
         /\ Len(Push(b, t)) = IF Len(b) < BufferSize THEN Len(b) + 1 ELSE BufferSize
         /\ Len(b) \in Nat /\ Len(Push(b, t)) > 0
         /\ Push(b, t)[Len(Push(b, t))] = t
         /\ \A k \in 1 .. (Len(Push(b, t)) - 1) :
              Push(b, t)[k] = b[Len(b) - Len(Push(b, t)) + 1 + k]
PROOF
<1>0. BufferSize \in Nat /\ BufferSize > 1 /\ Len(b) \in Nat
  BY FeatureAssumption
<1>1. CASE Len(b) < BufferSize
  BY <1>0, <1>1 DEF Push
<1>2. CASE ~(Len(b) < BufferSize)
  <2>1. Len(b) = BufferSize /\ b # << >>
    BY <1>0, <1>2
  <2>2. /\ Tail(b) \in Seq(Minutes) /\ Len(Tail(b)) = Len(b) - 1
        /\ \A k \in 1 .. (Len(b) - 1) : Tail(b)[k] = b[k + 1]
    BY <2>1
  <2>3. Push(b, t) = Append(Tail(b), t)
    BY <1>2 DEF Push
  <2> QED
    BY <1>0, <2>1, <2>2, <2>3
<1> QED
  BY <1>1, <1>2

\* Sorting leaves candles alone that are in order.
LEMMA SortedInOrder ==
  ASSUME NEW b \in Seq(Int), \A i, j \in 1 .. Len(b) : i < j => b[i] < b[j]
  PROVE  Sorted(b) = b
PROOF
<1>1. Len(b) \in Nat /\ DOMAIN b = 1 .. Len(b) /\ \A i \in 1 .. Len(b) : b[i] \in Int
  OBVIOUS
<1>2. ASSUME NEW i \in 1 .. Len(b) PROVE Place(b, i) = i
  <2>1. { j \in DOMAIN b : b[j] < b[i] \/ (b[j] = b[i] /\ j <= i) } = 1 .. i
    <3>1. ASSUME NEW j \in 1 .. Len(b)
          PROVE  (b[j] < b[i] \/ (b[j] = b[i] /\ j <= i)) <=> j <= i
      <4>1. b[i] \in Int /\ b[j] \in Int /\ i \in Int /\ j \in Int
        BY <1>1
      <4>2. (j < i => b[j] < b[i]) /\ (i < j => b[i] < b[j])
        OBVIOUS
      <4>3. i = j => b[i] = b[j]
        OBVIOUS
      <4> QED
        BY <4>1, <4>2, <4>3
    <3> QED
      BY <1>1, <3>1
  <2>2. Cardinality(1 .. i) = i
    BY <1>1, FS_Interval
  <2> QED
    BY <2>1, <2>2 DEF Place
<1>3. ASSUME NEW k \in 1 .. Len(b) PROVE (CHOOSE i \in DOMAIN b : Place(b, i) = k) = k
  BY <1>1, <1>2
<1>4. ASSUME NEW k \in 1 .. Len(b) PROVE Sorted(b)[k] = b[k]
  <2>1. Sorted(b)[k] = b[CHOOSE i \in DOMAIN b : Place(b, i) = k]
    BY <1>1, Zenon DEF Sorted
  <2> QED
    BY <1>3, <2>1
<1>5. Sorted(b) = [k \in 1 .. Len(b) |-> Sorted(b)[k]]
  <2> DEFINE f(k) == b[CHOOSE i \in DOMAIN b : Place(b, i) = k]
  <2>1. Sorted(b) = [k \in 1 .. Len(b) |-> f(k)]
    BY <1>1 DEF Sorted
  <2> HIDE DEF f
  <2> QED
    BY <2>1
<1>6. b = [k \in 1 .. Len(b) |-> b[k]]
  BY <1>1
<1> HIDE DEF Sorted
<1> QED
  BY <1>4, <1>5, <1>6

\* Consecutive candles in the buffer: the window is the run that ends with the last.
LEMMA WindowIs ==
  ASSUME NEW b \in Seq(Minutes), Len(b) > MaxWindow,
         \A k \in 1 .. Len(b) : b[k] = b[Len(b)] - (Len(b) - k)
  PROVE  /\ LatestWindow(b) \in Seq(Minutes)
         /\ LatestWindow(b) = [i \in 1 .. MaxWindow + 1 |-> b[Len(b)] - MaxWindow + i - 1]
PROOF
<1>1. MaxWindow \in Nat /\ Len(b) \in Nat /\ \A k \in 1 .. Len(b) : b[k] \in Int
  BY FeatureAssumption DEF Minutes
<1>2. b[Len(b)] \in Int
  BY <1>1
<1>3. \A i, j \in 1 .. Len(b) : i < j => b[i] < b[j]
  BY <1>1, <1>2
<1>4. Sorted(b) = b
  BY <1>1, <1>3, SortedInOrder
<1>5. LatestWindow(b) = SubSeq(b, Len(b) - MaxWindow, Len(b))
  BY <1>4 DEF LatestWindow
<1>6. Len(b) - MaxWindow \in 1 .. Len(b)
  BY <1>1
<1>7. /\ LatestWindow(b) \in Seq(Minutes) /\ Len(LatestWindow(b)) = MaxWindow + 1
      /\ \A i \in 1 .. MaxWindow + 1 : LatestWindow(b)[i] = b[Len(b) - MaxWindow + i - 1]
  BY <1>1, <1>5, <1>6, SubSeqProperties
<1>8. LatestWindow(b) = [i \in 1 .. MaxWindow + 1 |-> LatestWindow(b)[i]]
  BY <1>7
<1>9. \A i \in 1 .. MaxWindow + 1 : LatestWindow(b)[i] = b[Len(b)] - MaxWindow + i - 1
  <2> SUFFICES ASSUME NEW i \in 1 .. MaxWindow + 1
               PROVE  LatestWindow(b)[i] = b[Len(b)] - MaxWindow + i - 1
    OBVIOUS
  <2>1. PICK m : m = Len(b) - MaxWindow + i - 1
    OBVIOUS
  <2>2. m \in 1 .. Len(b) /\ Len(b) - m = MaxWindow - i + 1 /\ i \in Int
    BY <1>1, <2>1
  <2>3. LatestWindow(b)[i] = b[m] /\ b[m] = b[Len(b)] - (Len(b) - m)
    BY <1>7, <2>1, <2>2
  <2> QED
    BY <1>1, <1>2, <2>2, <2>3
<1> QED
  BY <1>7, <1>8, <1>9

\* Any buffer with enough history has a window: sorting permutes the buffer.
LEMMA PlaceIsOnto ==
  ASSUME NEW b \in Seq(Int), NEW k \in 1 .. Len(b)
  PROVE  \E i \in DOMAIN b : Place(b, i) = k
PROOF
<1> DEFINE n == Len(b)
<1> DEFINE upTo(i) == { j \in DOMAIN b : b[j] < b[i] \/ (b[j] = b[i] /\ j <= i) }
<1> DEFINE place == [i \in 1 .. n |-> Place(b, i)]
<1>1. n \in Nat /\ DOMAIN b = 1 .. n /\ \A i \in 1 .. n : b[i] \in Int
  OBVIOUS
<1> HIDE DEF n
<1>2. IsFiniteSet(1 .. n) /\ Cardinality(1 .. n) = n
  BY <1>1, FS_Interval
<1>3. ASSUME NEW i \in 1 .. n
      PROVE  /\ i \in upTo(i) /\ upTo(i) \subseteq 1 .. n /\ IsFiniteSet(upTo(i))
             /\ Place(b, i) = Cardinality(upTo(i)) /\ Place(b, i) \in 1 .. n
  <2>1. i \in upTo(i) /\ upTo(i) \subseteq 1 .. n
    BY <1>1
  <2>2. Place(b, i) = Cardinality(upTo(i))
    BY DEF Place
  <2> HIDE DEF upTo
  <2>3. IsFiniteSet(upTo(i)) /\ Cardinality(upTo(i)) <= n
    BY <1>2, <2>1, FS_Subset
  <2>4. Cardinality(upTo(i)) \in Nat /\ Cardinality(upTo(i)) # 0
    BY <2>1, <2>3, FS_CardinalityType, FS_EmptySet
  <2> QED
    BY <1>1, <2>1, <2>2, <2>3, <2>4
<1>4. ASSUME NEW i \in 1 .. n, NEW j \in 1 .. n, b[i] < b[j] \/ (b[i] = b[j] /\ i < j)
      PROVE  Place(b, i) # Place(b, j)
  <2>1. upTo(i) \subseteq upTo(j) /\ j \notin upTo(i)
    BY <1>1, <1>4
  <2>2. /\ j \in upTo(j) /\ IsFiniteSet(upTo(j)) /\ Place(b, j) = Cardinality(upTo(j))
        /\ Place(b, i) = Cardinality(upTo(i))
    BY <1>3
  <2> HIDE DEF upTo
  <2> QED
    BY <2>1, <2>2, FS_Subset
<1>5. ASSUME NEW i \in 1 .. n, NEW j \in 1 .. n, i # j PROVE Place(b, i) # Place(b, j)
  <2>1. \/ b[i] < b[j] \/ (b[i] = b[j] /\ i < j)
        \/ b[j] < b[i] \/ (b[j] = b[i] /\ j < i)
    BY <1>1, <1>5
  <2> QED
    BY <1>4, <2>1
<1> HIDE DEF upTo
<1>6. place \in Injection(1 .. n, 1 .. n)
  BY <1>3, <1>5 DEF Injection, IsInjective
<1>7. place \in Surjection(1 .. n, 1 .. n)
  BY <1>2, <1>6, FS_Injection
<1> QED
  BY <1>1, <1>7 DEF Surjection, n

LEMMA WindowTyped ==
  ASSUME NEW b \in Seq(Minutes), Len(b) >= MinBuffer
  PROVE  LatestWindow(b) \in Seq(Minutes)
PROOF
<1>1. /\ MaxWindow \in Nat /\ Len(b) \in Nat /\ Len(b) > MaxWindow /\ b \in Seq(Int)
      /\ DOMAIN b = 1 .. Len(b) /\ \A i \in 1 .. Len(b) : b[i] \in Minutes
  BY FeatureAssumption DEF MinBuffer, Minutes
<1>2. ASSUME NEW k \in 1 .. Len(b)
      PROVE  b[CHOOSE i \in DOMAIN b : Place(b, i) = k] \in Minutes
  <2>1. (CHOOSE i \in DOMAIN b : Place(b, i) = k) \in DOMAIN b
    BY <1>1, PlaceIsOnto
  <2> QED
    BY <1>1, <2>1
<1>3. Sorted(b) \in [1 .. Len(b) -> Minutes]
  BY <1>1, <1>2, Zenon DEF Sorted
<1>4. Sorted(b) \in Seq(Minutes) /\ Len(Sorted(b)) = Len(b)
  BY <1>1, <1>3
<1>5. Len(b) - MaxWindow \in 1 .. Len(b)
  BY <1>1
<1> QED
  BY <1>1, <1>4, <1>5, SubSeqProperties DEF LatestWindow

-----------------------------------------------------------------------------
(* The first layer: types, and messages that are in the stream.            *)

Types ==
  /\ StreamTyped
  /\ pc \in [Workers -> {"down", "reading", "message", "features"}]
  /\ last_id \in [Workers -> Nat]
  /\ batch \in [Workers -> [next : Nat, end : Nat]]
  /\ buffers \in [Workers -> [Symbols -> Seq(Minutes)]]
  /\ \A w \in Workers : \A s \in Symbols : Len(buffers[w][s]) <= BufferSize
  /\ since \in [Workers -> Nat]
  /\ skipped \in [Workers -> SUBSET Nat]
  /\ prices \subseteq Candles
  /\ features \subseteq FeatureRows
  /\ crashes \in 0 .. MaxCrashes

\* An instance that has messages to handle has them from the stream, what was trimmed
\* lies before them, and it has stored the price and has enough history when it comes to
\* the features.
AtMessage(w) ==
  /\ \A j \in skipped[w] : j < kline_stream.first
  /\ pc[w] \in {"message", "features"} =>
       /\ batch[w].next \in 1 .. batch[w].end /\ batch[w].end \in 1 .. Len(Log)
       /\ \A j \in skipped[w] : j < batch[w].next
  /\ pc[w] = "features" => /\ Message(w) \in prices
                           /\ Len(buffers[w][Message(w).symbol]) >= MinBuffer

Basic == Types /\ \A w \in Workers : AtMessage(w)

\* A step of one instance that leaves the stream and the others as they are.
LEMMA OthersKept ==
  ASSUME Types, NEW w \in Workers, WorkerStep(w)
  PROVE  /\ \A u \in Workers \ {w} : /\ pc'[u] = pc[u] /\ last_id'[u] = last_id[u]
                                     /\ batch'[u] = batch[u] /\ buffers'[u] = buffers[u]
                                     /\ since'[u] = since[u] /\ skipped'[u] = skipped[u]
         /\ kline_stream' = kline_stream
PROOF
<1>0. kline_stream' = kline_stream
  BY DEF WorkerStep
<1>1. CASE Start(w)
  BY <1>0, <1>1 DEF Types, Start, Fresh
<1>2. CASE XRead(w)
  BY <1>0, <1>2 DEF Types, XRead
<1>3. CASE HandlePrice(w)
  BY <1>0, <1>3 DEF Types, HandlePrice, NextMessage, MoveTo
<1>4. CASE HandleFeatures(w)
  BY <1>0, <1>4 DEF Types, HandleFeatures, NextMessage
<1>5. CASE Crash(w)
  BY <1>0, <1>5 DEF Types, Crash, Fresh
<1> QED
  BY <1>1, <1>2, <1>3, <1>4, <1>5 DEF WorkerStep, Work

LEMMA MessageIs ==
  ASSUME Types, NEW w \in Workers, AtMessage(w), pc[w] \in {"message", "features"}
  PROVE  /\ Message(w) \in Candles /\ Message(w) = Log[batch[w].next]
         /\ Message(w).symbol \in Symbols /\ Message(w).time \in Minutes
         /\ batch[w].next \in 1 .. Len(Log) /\ Len(Log) \in Nat
         /\ batch[w].next \in Nat /\ batch[w].end \in Nat
PROOF
<1>1. /\ batch[w].next \in 1 .. batch[w].end /\ batch[w].end \in 1 .. Len(Log)
      /\ Len(Log) \in Nat /\ Log \in Seq(Candles)
  BY DEF AtMessage, Types, StreamTyped, Log
<1>2. batch[w].next \in 1 .. Len(Log)
  BY <1>1
<1>3. Message(w) \in Candles /\ Message(w) = Log[batch[w].next]
  BY <1>1, <1>2 DEF Message, Log
<1> QED
  BY <1>1, <1>2, <1>3 DEF Candles

\* What NextMessage does to the instance that takes the step.
LEMMA NextIs ==
  ASSUME Types, NEW w \in Workers, AtMessage(w), pc[w] \in {"message", "features"},
         NextMessage(w)
  PROVE  /\ pc' \in [Workers -> {"down", "reading", "message", "features"}]
         /\ batch' \in [Workers -> [next : Nat, end : Nat]]
         /\ batch'[w].next = batch[w].next + 1 /\ batch'[w].end = batch[w].end
         /\ \/ pc'[w] = "message" /\ batch[w].next < batch[w].end
            \/ pc'[w] = "reading"
PROOF
<1>1. /\ batch[w] \in [next : Nat, end : Nat]
      /\ batch' = [batch EXCEPT ![w].next = @ + 1]
      /\ pc' = [pc EXCEPT ![w] = IF batch[w].next < batch[w].end THEN "message" ELSE "reading"]
  BY DEF Types, NextMessage
<1>2. /\ batch' \in [Workers -> [next : Nat, end : Nat]]
      /\ batch'[w].next = batch[w].next + 1 /\ batch'[w].end = batch[w].end
  <2> DEFINE n == [batch[w] EXCEPT !.next = @ + 1]
  <2>1. batch' = [batch EXCEPT ![w] = n]
    BY <1>1
  <2>2. batch[w].next \in Nat /\ batch[w].end \in Nat
    BY <1>1
  <2>3. n \in [next : Nat, end : Nat] /\ n.next = batch[w].next + 1 /\ n.end = batch[w].end
    BY <1>1, <2>2
  <2> HIDE DEF n
  <2> QED
    BY <2>1, <2>3 DEF Types
<1>3. /\ pc' \in [Workers -> {"down", "reading", "message", "features"}]
      /\ \/ pc'[w] = "message" /\ batch[w].next < batch[w].end
         \/ pc'[w] = "reading"
  BY <1>1 DEF Types
<1> QED
  BY <1>2, <1>3

LEMMA StartBasic ==
  ASSUME Basic, NEW w \in Workers, Start(w)
  PROVE  Types' /\ AtMessage(w)'
PROOF
<1>1. pc'[w] = "reading" /\ skipped' = skipped /\ kline_stream' = kline_stream
  BY DEF Start, Basic, Types
<1>2. EmptyBuffers \in [Symbols -> Seq(Minutes)] /\ \A s \in Symbols : Len(EmptyBuffers[s]) <= BufferSize
  BY FeatureAssumption DEF EmptyBuffers
<1>3. buffers' = [buffers EXCEPT ![w] = EmptyBuffers] /\ NoBatch \in [next : Nat, end : Nat]
  BY DEF Start, Fresh, NoBatch
<1>4. /\ buffers' \in [Workers -> [Symbols -> Seq(Minutes)]]
      /\ \A u \in Workers : \A s \in Symbols : Len(buffers'[u][s]) <= BufferSize
  BY <1>2, <1>3 DEF Basic, Types
<1>5. Types'
  BY <1>3, <1>4 DEF Basic, Types, Start, Fresh, InitialId, StreamTyped, tables
<1> QED
  BY <1>1, <1>5 DEF Basic, AtMessage

LEMMA XReadBasic ==
  ASSUME Basic, NEW w \in Workers, XRead(w)
  PROVE  Types' /\ AtMessage(w)'
PROOF
<1>1. PICK lo \in 1 .. Len(Log), hi \in 1 .. Len(Log) :
           /\ last_id[w] < lo /\ kline_stream.first <= lo /\ lo <= hi
           /\ \A i \in 1 .. Len(Log) : last_id[w] < i /\ kline_stream.first <= i => lo <= i
           /\ batch' = [batch EXCEPT ![w] = [next |-> lo, end |-> hi]]
           /\ since' = [since EXCEPT ![w] = IF @ = 0 THEN lo ELSE @]
           /\ skipped' = [skipped EXCEPT ![w] =
                             IF since[w] = 0 THEN @ ELSE @ \cup (last_id[w] + 1) .. (lo - 1)]
           /\ pc' = [pc EXCEPT ![w] = "message"]
  BY XReadIs DEF Basic, Types
<1>2. Len(Log) \in Nat /\ last_id[w] \in Nat /\ kline_stream.first \in Nat
  BY DEF Basic, Types, StreamTyped, Log
<1>3. /\ batch' \in [Workers -> [next : Nat, end : Nat]]
      /\ since' \in [Workers -> Nat]
      /\ pc' \in [Workers -> {"down", "reading", "message", "features"}]
      /\ batch'[w].next = lo /\ batch'[w].end = hi /\ pc'[w] = "message"
  BY <1>1, <1>2 DEF Basic, Types
<1>4. UNCHANGED << kline_stream, last_id, buffers, tables, crashes >>
  BY DEF XRead
<1>5. skipped' \in [Workers -> SUBSET Nat]
  <2>1. (last_id[w] + 1) .. (lo - 1) \subseteq Nat
    BY <1>2
  <2> QED
    BY <1>1, <2>1 DEF Basic, Types
<1>6. \A j \in skipped'[w] : j < kline_stream.first
  <2>1. \A j \in skipped[w] : j < kline_stream.first
    BY DEF Basic, AtMessage
  <2>2. \A j \in (last_id[w] + 1) .. (lo - 1) : j < kline_stream.first
    BY <1>1, <1>2
  <2>3. skipped'[w] \subseteq skipped[w] \cup (last_id[w] + 1) .. (lo - 1)
    BY <1>1 DEF Basic, Types
  <2> QED
    BY <2>1, <2>2, <2>3
<1>7. \A j \in skipped'[w] : j < lo
  BY <1>1, <1>2, <1>5, <1>6
<1>8. Types'
  BY <1>3, <1>4, <1>5 DEF Basic, Types, StreamTyped, tables
<1> QED
  BY <1>1, <1>3, <1>4, <1>6, <1>7, <1>8 DEF AtMessage, Log

LEMMA HandlePriceBasic ==
  ASSUME Basic, NEW w \in Workers, HandlePrice(w)
  PROVE  Types' /\ AtMessage(w)' /\ prices' = prices \cup {Message(w)}
PROOF
<1>1. PICK c, b :
        /\ c = Message(w) /\ b = Push(buffers[w][c.symbol], c.time)
        /\ pc[w] = "message"
        /\ last_id' = [last_id EXCEPT ![w] = batch[w].next]
        /\ prices' = prices \cup {c}
        /\ buffers' = [buffers EXCEPT ![w][c.symbol] = b]
        /\ \/ pc' = [pc EXCEPT ![w] = "features"] /\ Len(b) >= MinBuffer /\ UNCHANGED batch
           \/ NextMessage(w)
        /\ UNCHANGED << kline_stream, since, skipped, features, crashes >>
  BY DEF HandlePrice, InsertPrice, MoveTo, EnoughHistory
<1>2. /\ c \in Candles /\ c.symbol \in Symbols /\ c.time \in Minutes
      /\ batch[w].next \in 1 .. batch[w].end /\ batch[w].end \in 1 .. Len(Log)
      /\ batch[w].next \in Nat /\ batch[w].end \in Nat /\ AtMessage(w)
  BY <1>1, MessageIs DEF Basic, AtMessage
<1>3. b \in Seq(Minutes) /\ Len(b) <= BufferSize
  <2>1. /\ buffers[w][c.symbol] \in Seq(Minutes) /\ Len(buffers[w][c.symbol]) <= BufferSize
    BY <1>2 DEF Basic, Types
  <2>2. /\ Push(buffers[w][c.symbol], c.time) \in Seq(Minutes)
        /\ Len(Push(buffers[w][c.symbol], c.time)) =
             IF Len(buffers[w][c.symbol]) < BufferSize THEN Len(buffers[w][c.symbol]) + 1
                                                       ELSE BufferSize
        /\ Len(buffers[w][c.symbol]) \in Nat /\ BufferSize \in Nat
    BY <1>2, <2>1, PushIs, FeatureAssumption
  <2> QED
    BY <1>1, <2>2
<1>4. /\ buffers' \in [Workers -> [Symbols -> Seq(Minutes)]]
      /\ \A u \in Workers : \A s \in Symbols : Len(buffers'[u][s]) <= BufferSize
  BY <1>1, <1>2, <1>3 DEF Basic, Types
<1>5. /\ pc' \in [Workers -> {"down", "reading", "message", "features"}]
      /\ batch' \in [Workers -> [next : Nat, end : Nat]]
      /\ \/ pc'[w] = "features" /\ batch'[w] = batch[w] /\ Len(b) >= MinBuffer
         \/ /\ batch'[w].next = batch[w].next + 1 /\ batch'[w].end = batch[w].end
            /\ pc'[w] = "message" => batch[w].next < batch[w].end
            /\ pc'[w] # "features"
  <2>1. CASE NextMessage(w)
    BY <1>1, <1>2, <2>1, NextIs DEF Basic
  <2>2. CASE pc' = [pc EXCEPT ![w] = "features"] /\ Len(b) >= MinBuffer /\ UNCHANGED batch
    BY <2>2 DEF Basic, Types
  <2> QED
    BY <1>1, <2>1, <2>2
<1>6. Types'
  <2>1. last_id' \in [Workers -> Nat] /\ prices' \subseteq Candles
    BY <1>1, <1>2 DEF Basic, Types
  <2> QED
    BY <1>1, <1>4, <1>5, <2>1 DEF Basic, Types, StreamTyped
<1>7. AtMessage(w)'
  <2>1. kline_stream' = kline_stream /\ skipped' = skipped
    BY <1>1
  <2>0. /\ \A j \in skipped[w] : j < kline_stream.first /\ j < batch[w].next
        /\ \A j \in skipped[w] : j \in Nat
    BY <1>1, <1>2 DEF AtMessage, Basic, Types
  <2>2. CASE pc'[w] = "features" /\ batch'[w] = batch[w] /\ Len(b) >= MinBuffer
    <3>1. Message(w)' = c /\ c \in prices' /\ buffers'[w][c.symbol] = b
      BY <1>1, <1>2, <2>1, <2>2 DEF Message, Basic, Types
    <3> QED
      BY <1>2, <2>0, <2>1, <2>2, <3>1 DEF AtMessage, Log, MinBuffer
  <2>3. CASE /\ batch'[w].next = batch[w].next + 1 /\ batch'[w].end = batch[w].end
             /\ pc'[w] = "message" => batch[w].next < batch[w].end
             /\ pc'[w] # "features"
    <3>1. \A j \in skipped'[w] : j < batch'[w].next
      BY <1>2, <2>0, <2>1, <2>3
    <3> QED
      BY <1>2, <2>0, <2>1, <2>3, <3>1 DEF AtMessage, Log
  <2> QED
    BY <1>5, <2>2, <2>3
<1> QED
  BY <1>1, <1>6, <1>7

LEMMA HandleFeaturesBasic ==
  ASSUME Basic, NEW w \in Workers, HandleFeatures(w)
  PROVE  Types' /\ AtMessage(w)'
PROOF
<1> DEFINE row == [symbol |-> Message(w).symbol, time |-> Message(w).time,
                   window |-> LatestWindow(buffers[w][Message(w).symbol])]
<1>1. /\ pc[w] = "features" /\ NextMessage(w) /\ features' \subseteq features \cup {row}
      /\ UNCHANGED << kline_stream, last_id, buffers, since, skipped, prices, crashes >>
  BY DEF HandleFeatures, InsertFeatures
<1>0. row \in FeatureRows
  <2>1. /\ Message(w).symbol \in Symbols /\ Message(w).time \in Minutes
        /\ Len(buffers[w][Message(w).symbol]) >= MinBuffer
    BY <1>1, MessageIs DEF Basic, AtMessage
  <2>2. buffers[w][Message(w).symbol] \in Seq(Minutes)
    BY <2>1 DEF Basic, Types
  <2>3. LatestWindow(buffers[w][Message(w).symbol]) \in Seq(Minutes)
    BY <2>1, <2>2, WindowTyped
  <2> QED
    BY <2>1, <2>3 DEF FeatureRows
<1> HIDE DEF row
<1>2. /\ batch[w].next \in 1 .. batch[w].end /\ batch[w].end \in 1 .. Len(Log)
      /\ batch[w].next \in Nat /\ batch[w].end \in Nat /\ AtMessage(w)
  BY <1>1, MessageIs DEF Basic, AtMessage
<1>3. /\ pc' \in [Workers -> {"down", "reading", "message", "features"}]
      /\ batch' \in [Workers -> [next : Nat, end : Nat]]
      /\ batch'[w].next = batch[w].next + 1 /\ batch'[w].end = batch[w].end
      /\ pc'[w] = "message" => batch[w].next < batch[w].end
      /\ pc'[w] # "features"
  BY <1>1, <1>2, NextIs DEF Basic
<1>4. Types'
  BY <1>0, <1>1, <1>3 DEF Basic, Types, StreamTyped
<1>5. /\ \A j \in skipped[w] : j < kline_stream.first /\ j < batch'[w].next
      /\ \A j \in skipped[w] : j \in Nat
  BY <1>1, <1>2, <1>3 DEF AtMessage, Basic, Types
<1> QED
  BY <1>1, <1>2, <1>3, <1>4, <1>5 DEF AtMessage, Log

LEMMA CrashBasic ==
  ASSUME Basic, NEW w \in Workers, Crash(w)
  PROVE  Types' /\ AtMessage(w)'
PROOF
<1>1. /\ pc' = [pc EXCEPT ![w] = "down"] /\ crashes < MaxCrashes /\ crashes' = crashes + 1
      /\ UNCHANGED << kline_stream, skipped, tables >>
      /\ last_id' = [last_id EXCEPT ![w] = 0]
      /\ buffers' = [buffers EXCEPT ![w] = EmptyBuffers]
      /\ batch' = [batch EXCEPT ![w] = NoBatch]
      /\ since' = [since EXCEPT ![w] = 0]
  BY DEF Crash, Fresh, InitialId
<1>2. crashes' \in 0 .. MaxCrashes /\ pc'[w] = "down"
  BY <1>1, FeatureAssumption DEF Basic, Types
<1>3. /\ EmptyBuffers \in [Symbols -> Seq(Minutes)]
      /\ \A s \in Symbols : Len(EmptyBuffers[s]) <= BufferSize
      /\ NoBatch \in [next : Nat, end : Nat]
  BY FeatureAssumption DEF EmptyBuffers, NoBatch
<1>4. /\ buffers' \in [Workers -> [Symbols -> Seq(Minutes)]]
      /\ \A u \in Workers : \A s \in Symbols : Len(buffers'[u][s]) <= BufferSize
  BY <1>1, <1>3 DEF Basic, Types
<1>5. Types'
  BY <1>1, <1>2, <1>3, <1>4 DEF Basic, Types, StreamTyped, tables
<1> QED
  BY <1>1, <1>2, <1>5 DEF Basic, AtMessage

\* No price is ever removed.
LEMMA PricesStay ==
  ASSUME NEW w \in Workers, WorkerStep(w)
  PROVE  prices \subseteq prices'
PROOF
BY DEF WorkerStep, Start, Work, XRead, HandlePrice, HandleFeatures, Crash, InsertPrice, tables

LEMMA BasicStep == Basic /\ Step => Basic'
PROOF
<1> SUFFICES ASSUME Basic, Step PROVE Basic'
  OBVIOUS
<1>1. CASE Grow
  <2>1. /\ StreamTyped' /\ Len(Log) \in Nat /\ Len(Log') = Len(Log) + 1
        /\ \A i \in 1 .. Len(Log) : Log'[i] = Log[i]
    BY <1>1, XAddIs DEF Grow, Basic, Types
  <2>2. Types'
    BY <1>1, <2>1 DEF Grow, Basic, Types, worker, tables
  <2>3. ASSUME NEW w \in Workers PROVE AtMessage(w)'
    <3>1. /\ pc' = pc /\ batch' = batch /\ prices' = prices /\ skipped' = skipped
          /\ buffers' = buffers
      BY <1>1 DEF Grow, worker, tables
    <3>0. \A j \in skipped[w] : j < kline_stream'.first
      <4>1. /\ kline_stream.first <= kline_stream'.first /\ kline_stream.first \in Nat
            /\ kline_stream'.first \in Nat
        BY <1>1, <2>1, XAddIs DEF Grow, Basic, Types, StreamTyped
      <4>2. \A j \in skipped[w] : j \in Nat /\ j < kline_stream.first
        BY DEF Basic, Types, AtMessage
      <4> QED
        BY <4>1, <4>2
    <3>2. CASE pc[w] \in {"message", "features"}
      <4>1. batch[w].next \in 1 .. Len(Log) /\ AtMessage(w)
        BY <3>2, MessageIs DEF Basic
      <4>2. Message(w)' = Message(w)
        BY <2>1, <3>1, <4>1 DEF Message, Log
      <4> QED
        BY <2>1, <3>0, <3>1, <4>1, <4>2 DEF AtMessage, MinBuffer
    <3> QED
      BY <3>0, <3>1, <3>2 DEF AtMessage
  <2> QED
    BY <2>2, <2>3 DEF Basic
<1>2. CASE Quiet
  BY <1>2 DEF Quiet, Basic, Types, StreamTyped, AtMessage, Message, Log, MinBuffer, worker, tables
<1>3. ASSUME NEW w \in Workers, WorkerStep(w) PROVE Basic'
  <2>1. Types' /\ AtMessage(w)'
    BY <1>3, StartBasic, XReadBasic, HandlePriceBasic, HandleFeaturesBasic, CrashBasic
       DEF WorkerStep, Work
  <2>2. ASSUME NEW u \in Workers \ {w} PROVE AtMessage(u)'
    BY <1>3, OthersKept, PricesStay DEF Basic, AtMessage, Message, Log, MinBuffer
  <2> QED
    BY <2>1, <2>2 DEF Basic
<1> QED
  BY <1>1, <1>2, <1>3 DEF Step

-----------------------------------------------------------------------------
(* The second layer: an instance takes entry after entry.                  *)

\* The entries of s that w has taken in this run.
Seen(w, s) ==
  { j \in 1 .. last_id[w] : j >= since[w] /\ j \notin skipped[w] /\ Log[j].symbol = s }

\* The next entry is the first one of this run, or comes after the last one with nothing
\* between them but what was trimmed.
AtEntry(w) ==
  /\ since[w] = 0 => last_id[w] = 0 /\ pc[w] = "reading"
  /\ since[w] > 0 =>
       \/ pc[w] = "message" /\ last_id[w] = 0 /\ batch[w].next = since[w]
       \/ /\ since[w] <= last_id[w] /\ last_id[w] <= Len(Log)
          /\ pc[w] = "message" =>
               /\ last_id[w] < batch[w].next
               /\ (last_id[w] + 1) .. (batch[w].next - 1) \subseteq skipped[w]
          /\ pc[w] = "features" => batch[w].next = last_id[w]

\* The buffer ends with the last entry taken, and is as full as it can be.
Buffered(w, s) ==
  /\ Cardinality(Seen(w, s)) < BufferSize => Len(buffers[w][s]) = Cardinality(Seen(w, s))
  /\ Cardinality(Seen(w, s)) >= BufferSize => Len(buffers[w][s]) = BufferSize
  /\ buffers[w][s] # << >> =>
       \E i \in Seen(w, s) : /\ Log[i] = Candle(s, buffers[w][s][Len(buffers[w][s])])
                             /\ \A j \in Seen(w, s) : j <= i

PricesStored(w) == since[w] > 0 => \A i \in Taken(w, last_id[w]) : Log[i] \in prices

HasRow(c) == \E r \in features : r.symbol = c.symbol /\ r.time = c.time

\* All rows but the one the instance is about to insert.
RowsStored(w) ==
  since[w] > 0 /\ BufferSize >= MinBuffer =>
    \A i \in Taken(w, last_id[w]) :
      Rank(w, i) >= MinBuffer /\ ~(pc[w] = "features" /\ i = last_id[w]) => HasRow(Log[i])

Reader(w) ==
  Up(w) => /\ AtEntry(w) /\ PricesStored(w) /\ RowsStored(w)
           /\ \A s \in Symbols : Buffered(w, s)

LEMMA SeenIsFinite ==
  ASSUME Types, NEW w \in Workers, NEW s \in Symbols
  PROVE  /\ IsFiniteSet(Seen(w, s)) /\ Cardinality(Seen(w, s)) \in Nat
         /\ \A j \in Seen(w, s) : j \in Nat /\ j >= 1 /\ j <= last_id[w]
         /\ Seen(w, s) = {} => Cardinality(Seen(w, s)) = 0
PROOF
<1>1. last_id[w] \in Nat
  BY DEF Types
<1>2. IsFiniteSet(1 .. last_id[w]) /\ Seen(w, s) \subseteq 1 .. last_id[w]
  BY <1>1, FS_Interval DEF Seen
<1>3. IsFiniteSet(Seen(w, s))
  BY <1>2, FS_Subset
<1> QED
  BY <1>1, <1>2, <1>3, FS_CardinalityType, FS_EmptySet

\* An instance that takes no step keeps what it has, whatever is added to the stream and
\* the tables.
LEMMA ReaderKept ==
  ASSUME Types, NEW w \in Workers, Reader(w),
         pc'[w] = pc[w], last_id'[w] = last_id[w], batch'[w] = batch[w],
         buffers'[w] = buffers[w], since'[w] = since[w], skipped'[w] = skipped[w],
         Len(Log) \in Nat, Len(Log') \in Nat, Len(Log) <= Len(Log'),
         \A i \in 1 .. Len(Log) : Log'[i] = Log[i],
         prices \subseteq prices', features \subseteq features'
  PROVE  Reader(w)'
PROOF
<1> SUFFICES ASSUME Up(w) PROVE Reader(w)'
  BY DEF Reader, Up
<1>1. AtEntry(w) /\ PricesStored(w) /\ RowsStored(w) /\ \A s \in Symbols : Buffered(w, s)
  BY DEF Reader
<1>2. last_id[w] \in Nat /\ since[w] \in Nat /\ last_id[w] <= Len(Log)
  BY <1>1 DEF Types, AtEntry
<1>3. ASSUME NEW s \in Symbols PROVE Seen(w, s)' = Seen(w, s)
  BY <1>2 DEF Seen
<1>4. ASSUME NEW i \in Taken(w, last_id[w]), since[w] > 0
      PROVE  Rank(w, i)' = Rank(w, i) /\ Log'[i] = Log[i] /\ i \in 1 .. Len(Log)
  <2>1. i \in 1 .. Len(Log) /\ \A j \in since[w] .. i : j \in 1 .. Len(Log)
    BY <1>2, <1>4 DEF Taken
  <2>0. Taken(w, i)' = Taken(w, i) /\ \A j \in Taken(w, i) : j \in 1 .. Len(Log)
    BY <2>1 DEF Taken
  <2>2. { j \in Taken(w, i)' : kline_stream'.log[j].symbol = kline_stream'.log[i].symbol }
          = { j \in Taken(w, i) : kline_stream.log[j].symbol = kline_stream.log[i].symbol }
    BY <2>0, <2>1 DEF Log
  <2> QED
    BY <2>1, <2>2 DEF Rank
<1>0. Taken(w, last_id[w])' = Taken(w, last_id[w])
  BY DEF Taken
<1>5. AtEntry(w)'
  BY <1>1, <1>2 DEF AtEntry
<1>6. PricesStored(w)'
  BY <1>0, <1>1, <1>4 DEF PricesStored
<1>7. RowsStored(w)'
  BY <1>0, <1>1, <1>4 DEF RowsStored, HasRow, MinBuffer
<1>8. ASSUME NEW s \in Symbols PROVE Buffered(w, s)'
  <2>1. Seen(w, s)' = Seen(w, s) /\ Buffered(w, s)
    BY <1>1, <1>3
  <2>2. \A i \in Seen(w, s) : Log'[i] = Log[i]
    BY <1>2 DEF Seen
  <2> QED
    BY <2>1, <2>2 DEF Buffered
<1> QED
  BY <1>5, <1>6, <1>7, <1>8 DEF Reader

\* Taking the next entry adds it to those seen of its symbol.
LEMMA SeenGrows ==
  ASSUME Types, NEW w \in Workers, AtEntry(w), AtMessage(w), pc[w] = "message",
         batch[w].next \in 1 .. Len(Log), last_id'[w] = batch[w].next,
         since'[w] = since[w], skipped'[w] = skipped[w], kline_stream' = kline_stream,
         NEW s \in Symbols
  PROVE  /\ Log[batch[w].next].symbol = s =>
              /\ Seen(w, s)' = Seen(w, s) \cup {batch[w].next} /\ batch[w].next \notin Seen(w, s)
              /\ Cardinality(Seen(w, s)') = Cardinality(Seen(w, s)) + 1
         /\ Log[batch[w].next].symbol # s => Seen(w, s)' = Seen(w, s)
         /\ \A j \in Seen(w, s) : j < batch[w].next
         /\ since[w] > 0 /\ since[w] <= batch[w].next
         /\ \A j \in Taken(w, batch[w].next) : j \in Taken(w, last_id[w]) \/ j = batch[w].next
PROOF
<1> DEFINE n == batch[w].next
<1>1. /\ n \in Nat /\ last_id[w] \in Nat /\ since[w] \in Nat /\ since[w] > 0 /\ n >= 1
      /\ \/ last_id[w] = 0 /\ n = since[w]
         \/ since[w] <= last_id[w] /\ last_id[w] < n
      /\ n \notin skipped[w]
  BY DEF Types, AtEntry, AtMessage, StreamTyped, Log
<1>2. \A j \in Seen(w, s) : j < n
  BY <1>1 DEF Seen
<1>3. \A j \in since[w] .. n : j \notin skipped[w] /\ j # n => j <= last_id[w]
  BY <1>1 DEF AtEntry
<1>4. Seen(w, s)' = { j \in 1 .. n : j >= since[w] /\ j \notin skipped[w] /\ Log[j].symbol = s }
  BY DEF Seen, Log
<1>5. Log[n].symbol = s => Seen(w, s)' = Seen(w, s) \cup {n}
  BY <1>1, <1>3, <1>4 DEF Seen
<1>6. Log[n].symbol # s => Seen(w, s)' = Seen(w, s)
  BY <1>1, <1>3, <1>4 DEF Seen
<1>7. n \notin Seen(w, s)
  BY <1>1, <1>2
<1>8. Cardinality(Seen(w, s) \cup {n}) = Cardinality(Seen(w, s)) + 1
  BY <1>7, SeenIsFinite, FS_AddElement
<1>9. Log[n].symbol = s => Cardinality(Seen(w, s)') = Cardinality(Seen(w, s)) + 1
  BY <1>5, <1>8
<1>10. \A j \in Taken(w, n) : j \in Taken(w, last_id[w]) \/ j = n
  BY <1>1, <1>3 DEF Taken
<1>11. since[w] > 0 /\ since[w] <= n
  BY <1>1
<1> QED
  BY <1>2, <1>5, <1>6, <1>7, <1>9, <1>10, <1>11, Zenon

LEMMA StartReader ==
  ASSUME Basic, NEW w \in Workers, Start(w)
  PROVE  Reader(w)'
PROOF
<1>1. /\ last_id'[w] = 0 /\ since'[w] = 0 /\ pc'[w] = "reading" /\ buffers'[w] = EmptyBuffers
  BY DEF Start, Fresh, Basic, Types, InitialId
<1>2. \A s \in Symbols : Seen(w, s)' = {}
  BY <1>1 DEF Seen
<1>3. ASSUME NEW s \in Symbols PROVE Buffered(w, s)'
  <2>1. buffers'[w][s] = << >> /\ Len(buffers'[w][s]) = 0
    BY <1>1 DEF EmptyBuffers
  <2>2. Cardinality(Seen(w, s)') = 0 /\ BufferSize \in Nat /\ BufferSize > 0
    BY <1>2, FS_EmptySet, FeatureAssumption
  <2> QED
    BY <2>1, <2>2 DEF Buffered
<1> QED
  BY <1>1, <1>3 DEF Reader, AtEntry, PricesStored, RowsStored

LEMMA XReadReader ==
  ASSUME Basic, NEW w \in Workers, Reader(w), XRead(w)
  PROVE  Reader(w)'
PROOF
<1>1. PICK lo \in 1 .. Len(Log), hi \in 1 .. Len(Log) :
           /\ last_id[w] < lo /\ kline_stream.first <= lo /\ lo <= hi
           /\ batch' = [batch EXCEPT ![w] = [next |-> lo, end |-> hi]]
           /\ since' = [since EXCEPT ![w] = IF @ = 0 THEN lo ELSE @]
           /\ skipped' = [skipped EXCEPT ![w] =
                             IF since[w] = 0 THEN @ ELSE @ \cup (last_id[w] + 1) .. (lo - 1)]
           /\ pc' = [pc EXCEPT ![w] = "message"]
  BY XReadIs DEF Basic, Types
<1>2. /\ pc[w] = "reading"
      /\ UNCHANGED << kline_stream, last_id, buffers, tables, crashes >>
  BY DEF XRead
<1>3. /\ pc'[w] = "message" /\ batch'[w].next = lo
      /\ since'[w] = IF since[w] = 0 THEN lo ELSE since[w]
      /\ skipped'[w] = IF since[w] = 0 THEN skipped[w]
                                       ELSE skipped[w] \cup (last_id[w] + 1) .. (lo - 1)
      /\ last_id[w] \in Nat /\ since[w] \in Nat /\ Len(Log) \in Nat /\ Log' = Log
  BY <1>1, <1>2 DEF Basic, Types, StreamTyped, Log
<1>4. AtEntry(w) /\ PricesStored(w) /\ RowsStored(w) /\ \A s \in Symbols : Buffered(w, s)
  BY <1>2 DEF Reader, Up
<1>5. CASE since[w] = 0
  <2>1. last_id[w] = 0 /\ since'[w] = lo /\ skipped'[w] = skipped[w]
    BY <1>3, <1>4, <1>5 DEF AtEntry
  <2>2. \A s \in Symbols : Seen(w, s)' = Seen(w, s)
    BY <1>2, <2>1 DEF Seen
  <2>3. \A s \in Symbols : Buffered(w, s)'
    BY <1>2, <1>3, <1>4, <2>2 DEF Buffered
  <2>4. Taken(w, last_id[w])' = {}
    BY <1>2, <2>1 DEF Taken
  <2> QED
    BY <1>2, <1>3, <2>1, <2>3, <2>4 DEF Reader, AtEntry, PricesStored, RowsStored
<1>6. CASE since[w] # 0
  <2>1. /\ since'[w] = since[w] /\ since[w] > 0
        /\ skipped'[w] = skipped[w] \cup (last_id[w] + 1) .. (lo - 1)
    BY <1>3, <1>6
  <2>2. since[w] <= last_id[w] /\ last_id[w] <= Len(Log)
    BY <1>2, <1>4, <2>1 DEF AtEntry
  <2>3. AtEntry(w)'
    BY <1>1, <1>2, <1>3, <2>1, <2>2 DEF AtEntry
  <2>4. \A i : i <= last_id[w] => (i \in skipped'[w] <=> i \in skipped[w])
    BY <1>3, <2>1
  <2>5. /\ \A s \in Symbols : Seen(w, s)' = Seen(w, s)
        /\ Taken(w, last_id[w])' = Taken(w, last_id[w])
        /\ \A i \in Taken(w, last_id[w]) : Taken(w, i)' = Taken(w, i)
    <3>1. \A s \in Symbols : Seen(w, s)' = Seen(w, s)
      BY <1>2, <1>3, <2>1, <2>4 DEF Seen, Log
    <3>2. ASSUME NEW i \in Nat, i <= last_id[w] PROVE Taken(w, i)' = Taken(w, i)
      BY <1>3, <2>1, <2>4, <3>2 DEF Taken
    <3>3. Taken(w, last_id[w])' = Taken(w, last_id[w])
      <4>1. \A j \in since[w] .. last_id[w] : j \in skipped'[w] <=> j \in skipped[w]
        BY <1>3, <2>4
      <4> QED
        BY <1>2, <2>1, <4>1 DEF Taken
    <3> QED
      BY <1>3, <3>1, <3>2, <3>3 DEF Taken
  <2>7. \A s \in Symbols : Buffered(w, s)'
    BY <1>2, <1>3, <1>4, <2>5 DEF Buffered
  <2>8. PricesStored(w)'
    BY <1>2, <1>3, <1>4, <2>1, <2>5 DEF PricesStored, tables
  <2>9. RowsStored(w)'
    BY <1>2, <1>3, <1>4, <2>1, <2>5 DEF RowsStored, HasRow, Rank, MinBuffer, tables
  <2> QED
    BY <2>3, <2>7, <2>8, <2>9 DEF Reader
<1> QED
  BY <1>5, <1>6

LEMMA HandlePriceReader ==
  ASSUME Basic, NEW w \in Workers, Reader(w), HandlePrice(w)
  PROVE  Reader(w)'
PROOF
<1>1. PICK c, b, n :
        /\ c = Message(w) /\ b = Push(buffers[w][c.symbol], c.time) /\ n = batch[w].next
        /\ pc[w] = "message"
        /\ last_id' = [last_id EXCEPT ![w] = n]
        /\ prices' = prices \cup {c}
        /\ buffers' = [buffers EXCEPT ![w][c.symbol] = b]
        /\ \/ Len(b) >= MinBuffer /\ pc' = [pc EXCEPT ![w] = "features"] /\ UNCHANGED batch
           \/ ~(Len(b) >= MinBuffer) /\ NextMessage(w)
        /\ UNCHANGED << kline_stream, since, skipped, features, crashes >>
  BY DEF HandlePrice, InsertPrice, EnoughHistory, MoveTo
<1>2. /\ c \in Candles /\ c = Log[n] /\ c.symbol \in Symbols /\ c.time \in Minutes
      /\ n \in 1 .. Len(Log) /\ Len(Log) \in Nat /\ n \in Nat /\ AtMessage(w)
  BY <1>1, MessageIs DEF Basic
<1>3. AtEntry(w) /\ PricesStored(w) /\ RowsStored(w) /\ \A s \in Symbols : Buffered(w, s)
  BY <1>1 DEF Reader, Up
<1>4. /\ last_id'[w] = n /\ Log' = Log /\ since'[w] = since[w] /\ kline_stream' = kline_stream
      /\ skipped'[w] = skipped[w] /\ last_id[w] \in Nat /\ since[w] \in Nat
  BY <1>1 DEF Basic, Types, Log
<1>5. \/ Len(b) >= MinBuffer /\ pc'[w] = "features" /\ batch'[w].next = n
      \/ ~(Len(b) >= MinBuffer) /\ pc'[w] \in {"message", "reading"} /\ batch'[w].next = n + 1
  <2>1. CASE ~(Len(b) >= MinBuffer) /\ NextMessage(w)
    BY <1>1, <1>2, <2>1, NextIs DEF Basic
  <2>2. CASE Len(b) >= MinBuffer /\ pc' = [pc EXCEPT ![w] = "features"] /\ UNCHANGED batch
    BY <1>1, <2>2 DEF Basic, Types
  <2> QED
    BY <1>1, <2>1, <2>2
<1>6. ASSUME NEW s \in Symbols
      PROVE  /\ c.symbol = s => /\ Seen(w, s)' = Seen(w, s) \cup {n} /\ n \notin Seen(w, s)
                                /\ Cardinality(Seen(w, s)') = Cardinality(Seen(w, s)) + 1
             /\ c.symbol # s => Seen(w, s)' = Seen(w, s)
             /\ \A j \in Seen(w, s) : j < n
             /\ since[w] > 0 /\ since[w] <= n
             /\ \A j \in Taken(w, n) : j \in Taken(w, last_id[w]) \/ j = n
  BY <1>1, <1>2, <1>3, <1>4, SeenGrows DEF Basic
<1>7. /\ since[w] > 0 /\ since[w] <= n
      /\ \A j \in Taken(w, n) : j \in Taken(w, last_id[w]) \/ j = n
      /\ \A i : Taken(w, i)' = Taken(w, i)
      /\ n \in Taken(w, n)
  <2>1. n \notin skipped[w]
    BY <1>1, <1>2 DEF AtMessage
  <2> QED
    BY <1>2, <1>4, <1>6, <2>1 DEF Taken
<1>8. AtEntry(w)'
  <2>1. n + 1 > n /\ (n + 1) .. (n + 1 - 1) = {}
    BY <1>2
  <2> QED
    BY <1>2, <1>4, <1>5, <1>7, <2>1 DEF AtEntry
<1>9. PricesStored(w)'
  BY <1>1, <1>2, <1>3, <1>4, <1>7 DEF PricesStored
<1>10. ASSUME NEW s \in Symbols PROVE Buffered(w, s)'
  <2>1. CASE s # c.symbol
    <3>1. buffers'[w][s] = buffers[w][s] /\ Seen(w, s)' = Seen(w, s)
      BY <1>1, <1>6, <2>1 DEF Basic, Types
    <3> QED
      BY <1>3, <1>4, <3>1 DEF Buffered
  <2>2. CASE s = c.symbol
    <3> DEFINE old == buffers[w][s]
    <3>1. buffers'[w][s] = b
      BY <1>1, <2>2 DEF Basic, Types
    <3>2. old \in Seq(Minutes) /\ Len(old) <= BufferSize /\ b = Push(old, c.time)
      BY <1>1, <2>2 DEF Basic, Types
    <3>3. /\ Len(b) = IF Len(old) < BufferSize THEN Len(old) + 1 ELSE BufferSize
          /\ Len(old) \in Nat /\ b[Len(b)] = c.time
      BY <1>2, <3>2, PushIs
    <3>4. /\ Cardinality(Seen(w, s)') = Cardinality(Seen(w, s)) + 1
          /\ Seen(w, s)' = Seen(w, s) \cup {n} /\ \A j \in Seen(w, s) : j < n
      BY <1>6, <2>2
    <3>5. Cardinality(Seen(w, s)) \in Nat /\ BufferSize \in Nat
      BY SeenIsFinite, FeatureAssumption DEF Basic
    <3>6. /\ Cardinality(Seen(w, s)) < BufferSize => Len(old) = Cardinality(Seen(w, s))
          /\ Cardinality(Seen(w, s)) >= BufferSize => Len(old) = BufferSize
      BY <1>3 DEF Buffered
    <3>7. /\ Cardinality(Seen(w, s)') < BufferSize => Len(b) = Cardinality(Seen(w, s)')
          /\ Cardinality(Seen(w, s)') >= BufferSize => Len(b) = BufferSize
      BY <3>3, <3>4, <3>5, <3>6
    <3>8. Log'[n] = Candle(s, b[Len(b)])
      BY <1>2, <1>4, <2>2, <3>3 DEF Candle, Candles
    <3>9. \A j \in Seen(w, s) : j \in Nat
      BY SeenIsFinite DEF Basic
    <3>10. n \in Seen(w, s)' /\ \A j \in Seen(w, s)' : j <= n
      BY <1>2, <3>4, <3>9
    <3> QED
      BY <3>1, <3>7, <3>8, <3>10 DEF Buffered
  <2> QED
    BY <2>1, <2>2
<1>11. RowsStored(w)'
  <2> SUFFICES ASSUME BufferSize >= MinBuffer, NEW i \in Taken(w, n),
                      Rank(w, i)' >= MinBuffer, ~(pc'[w] = "features" /\ i = n)
               PROVE  HasRow(Log[i])'
    BY <1>4, <1>7 DEF RowsStored
  <2>1. CASE i \in Taken(w, last_id[w])
    <3>1. Rank(w, i)' = Rank(w, i)
      BY <1>4, <1>7 DEF Rank
    <3>2. HasRow(Log[i])
      BY <1>1, <1>3, <1>7, <2>1, <3>1 DEF RowsStored
    <3> QED
      BY <1>1, <1>4, <3>2 DEF HasRow
  <2>2. CASE i = n
    <3>1. ~(Len(b) >= MinBuffer)
      BY <1>5, <2>2
    <3>2. Rank(w, i)' = Cardinality(Seen(w, c.symbol)')
      <4>1. Seen(w, c.symbol)' = { j \in 1 .. n : j >= since[w] /\ j \notin skipped[w]
                                                  /\ Log[j].symbol = c.symbol }
        BY <1>4 DEF Seen
      <4>2. { j \in Taken(w, n) : Log[j].symbol = Log[n].symbol }
              = { j \in 1 .. n : j >= since[w] /\ j \notin skipped[w] /\ Log[j].symbol = c.symbol }
        BY <1>2, <1>4, <1>7 DEF Taken
      <4>3. Rank(w, n)' = Cardinality({ j \in Taken(w, n) : Log[j].symbol = Log[n].symbol })
        <5>1. kline_stream' = kline_stream /\ Taken(w, n)' = Taken(w, n)
          BY <1>4, <1>7
        <5> QED
          BY <5>1 DEF Rank, Log
      <4> QED
        BY <2>2, <4>1, <4>2, <4>3
    <3>3. Buffered(w, c.symbol)' /\ buffers'[w][c.symbol] = b
      BY <1>1, <1>2, <1>10 DEF Basic, Types
    <3>4. \/ Cardinality(Seen(w, c.symbol)') < BufferSize /\ Len(b) = Cardinality(Seen(w, c.symbol)')
          \/ Len(b) = BufferSize
          \/ ~(Cardinality(Seen(w, c.symbol)') \in Nat)
      BY <3>3, FeatureAssumption DEF Buffered
    <3>5. Cardinality(Seen(w, c.symbol)') \in Nat
      BY <1>2, <1>6, SeenIsFinite DEF Basic
    <3> QED
      BY <2>2, <3>1, <3>2, <3>4, <3>5
  <2> QED
    BY <1>7, <2>1, <2>2
<1> QED
  BY <1>8, <1>9, <1>10, <1>11 DEF Reader

LEMMA HandleFeaturesReader ==
  ASSUME Basic, NEW w \in Workers, Reader(w), HandleFeatures(w)
  PROVE  Reader(w)' /\ features \subseteq features'
PROOF
<1>1. PICK r : /\ r.symbol = Message(w).symbol /\ r.time = Message(w).time
               /\ InsertFeatures(r)
  BY DEF HandleFeatures
<1>2. /\ pc[w] = "features" /\ NextMessage(w)
      /\ UNCHANGED << kline_stream, last_id, buffers, since, skipped, prices, crashes >>
  BY DEF HandleFeatures
<1>3. AtEntry(w) /\ PricesStored(w) /\ RowsStored(w) /\ \A s \in Symbols : Buffered(w, s)
  BY <1>2 DEF Reader, Up
<1>4. /\ Message(w) = Log[batch[w].next] /\ batch[w].next \in Nat /\ AtMessage(w)
      /\ last_id[w] \in Nat /\ since[w] \in Nat
  BY <1>2, MessageIs DEF Basic, Types
<1>5. batch'[w].next = batch[w].next + 1 /\ pc'[w] \in {"message", "reading"}
  BY <1>2, <1>4, NextIs DEF Basic
<1>6. /\ features \subseteq features'
      /\ \E q \in features' : q.symbol = Message(w).symbol /\ q.time = Message(w).time
  BY <1>1 DEF InsertFeatures
<1>7. /\ since[w] > 0 /\ since[w] <= last_id[w] /\ last_id[w] <= Len(Log)
      /\ batch[w].next = last_id[w]
  BY <1>2, <1>3, <1>4 DEF AtEntry
<1>12. \A i : Taken(w, i)' = Taken(w, i)
  BY <1>2 DEF Taken
<1>8. AtEntry(w)'
  <2>1. (last_id[w] + 1) .. (batch'[w].next - 1) = {} /\ last_id[w] < batch'[w].next
    BY <1>4, <1>5, <1>7
  <2> QED
    BY <1>2, <1>3, <1>4, <1>5, <1>7, <2>1 DEF AtEntry, Log
<1>9. PricesStored(w)'
  BY <1>2, <1>3, <1>12 DEF PricesStored, Log
<1>10. RowsStored(w)'
  <2> SUFFICES ASSUME BufferSize >= MinBuffer, NEW i \in Taken(w, last_id[w]),
                      Rank(w, i)' >= MinBuffer
               PROVE  HasRow(Log[i])'
    BY <1>2, <1>12 DEF RowsStored
  <2>1. Rank(w, i)' = Rank(w, i) /\ Log' = Log
    BY <1>2, <1>12 DEF Rank, Log
  <2>2. CASE i = last_id[w]
    BY <1>4, <1>6, <1>7, <2>1, <2>2 DEF HasRow
  <2>3. CASE i # last_id[w]
    <3>1. HasRow(Log[i])
      BY <1>3, <1>7, <2>1, <2>3 DEF RowsStored
    <3> QED
      BY <1>6, <2>1, <3>1 DEF HasRow
  <2> QED
    BY <2>2, <2>3
<1>11. ASSUME NEW s \in Symbols PROVE Buffered(w, s)'
  <2>1. Seen(w, s)' = Seen(w, s)
    BY <1>2 DEF Seen, Log
  <2> QED
    BY <1>2, <1>3, <2>1 DEF Buffered, Log
<1> QED
  BY <1>6, <1>8, <1>9, <1>10, <1>11 DEF Reader

\* No feature row is ever removed, either.
LEMMA FeaturesStay ==
  ASSUME NEW w \in Workers, WorkerStep(w)
  PROVE  features \subseteq features'
PROOF
BY DEF WorkerStep, Start, Work, XRead, HandlePrice, HandleFeatures, Crash, InsertFeatures, tables

LEMMA ReaderStep ==
  ASSUME Basic, \A w \in Workers : Reader(w), Step
  PROVE  \A w \in Workers : Reader(w)'
PROOF
<1>0. Types /\ Len(Log) \in Nat
  BY DEF Basic, Types, StreamTyped, Log
<1>1. CASE Grow
  <2>1. /\ Len(Log) \in Nat /\ Len(Log') = Len(Log) + 1
        /\ \A i \in 1 .. Len(Log) : Log'[i] = Log[i]
    BY <1>1, XAddIs DEF Grow, Basic, Types
  <2> QED
    BY <1>0, <1>1, <2>1, ReaderKept DEF Grow, worker, tables
<1>2. CASE Quiet
  BY <1>0, <1>2, ReaderKept DEF Quiet, Log, worker, tables
<1>3. ASSUME NEW w \in Workers, WorkerStep(w) PROVE \A u \in Workers : Reader(u)'
  <2>1. Reader(w)'
    <3>1. CASE Crash(w)
      <4>1. pc'[w] = "down"
        BY <1>0, <3>1 DEF Crash, Types
      <4> QED
        BY <4>1 DEF Reader, Up
    <3> QED
      BY <1>3, <3>1, StartReader, XReadReader, HandlePriceReader, HandleFeaturesReader
         DEF WorkerStep, Work
  <2>2. ASSUME NEW u \in Workers \ {w} PROVE Reader(u)'
    BY <1>0, <1>3, OthersKept, PricesStay, FeaturesStay, ReaderKept DEF Log
  <2> QED
    BY <2>1, <2>2
<1> QED
  BY <1>1, <1>2, <1>3 DEF Step

-----------------------------------------------------------------------------
(* The third layer: consecutive candles.                                   *)

\* A sequence of minutes without a hole.
Run(b) == \A k \in 1 .. Len(b) : b[k] = b[Len(b)] - (Len(b) - k)

Runs(w) == Up(w) => \A s \in Symbols : Run(buffers[w][s])

RowsRight == \A r \in features : Consecutive(r)

\* Entries stay, so what the longer stream has, the shorter one had.
LEMMA UnbrokenBefore ==
  ASSUME Types, Step, Unbroken' PROVE Unbroken
PROOF
<1>1. CASE Grow
  <2>1. /\ Len(Log) \in Nat /\ Len(Log') = Len(Log) + 1
        /\ \A i \in 1 .. Len(Log) : Log'[i] = Log[i]
    BY <1>1, XAddIs DEF Grow, Types
  <2>2. ASSUME NEW i \in 1 .. Len(Log), NEW j \in 1 .. Len(Log), Follows(i, j)
        PROVE  Follows(i, j)' /\ i \in 1 .. Len(Log') /\ j \in 1 .. Len(Log')
    <3>1. \A k \in (i + 1) .. (j - 1) : k \in 1 .. Len(Log)
      BY <2>1
    <3>2. /\ Log'[i] = Log[i] /\ Log'[j] = Log[j]
          /\ \A k \in (i + 1) .. (j - 1) : Log'[k] = Log[k]
      BY <2>1, <3>1
    <3>3. i \in 1 .. Len(Log') /\ j \in 1 .. Len(Log')
      BY <2>1
    <3>4. Follows(i, j)'
      BY <2>2, <3>2 DEF Follows, Log
    <3> QED
      BY <3>3, <3>4
  <2> QED
    BY <2>1, <2>2 DEF Unbroken, LastId, Log
<1>2. CASE ~Grow
  <2>1. kline_stream' = kline_stream
    BY <1>2 DEF Step, Quiet, WorkerStep
  <2> QED
    BY <2>1 DEF Unbroken, Follows, LastId
<1> QED
  BY <1>1, <1>2

LEMMA HandlePriceRuns ==
  ASSUME Basic, NEW w \in Workers, Reader(w), Runs(w), Unbroken, NoneSkipped, HandlePrice(w)
  PROVE  Runs(w)'
PROOF
<1>1. PICK c, b, n :
        /\ c = Message(w) /\ b = Push(buffers[w][c.symbol], c.time) /\ n = batch[w].next
        /\ pc[w] = "message"
        /\ buffers' = [buffers EXCEPT ![w][c.symbol] = b]
  BY DEF HandlePrice
<1>2. /\ c \in Candles /\ c = Log[n] /\ c.symbol \in Symbols /\ c.time \in Minutes
      /\ n \in 1 .. Len(Log) /\ Len(Log) \in Nat /\ n \in Nat /\ AtMessage(w)
  BY <1>1, MessageIs DEF Basic
<1>3. /\ AtEntry(w) /\ \A s \in Symbols : Buffered(w, s)
      /\ \A s \in Symbols : Run(buffers[w][s])
  BY <1>1 DEF Reader, Runs, Up
<1>4. since[w] > 0 /\ since[w] <= last_id[w] => n = last_id[w] + 1
  <2> SUFFICES ASSUME since[w] > 0, since[w] <= last_id[w] PROVE n = last_id[w] + 1
    OBVIOUS
  <2>1. /\ last_id[w] \in Nat /\ since[w] \in Nat /\ skipped[w] = {}
    BY DEF Basic, Types, NoneSkipped
  <2>2. last_id[w] < n /\ (last_id[w] + 1) .. (n - 1) \subseteq skipped[w]
    BY <1>1, <1>3, <2>1 DEF AtEntry
  <2>3. n # last_id[w] + 1 => last_id[w] + 1 \in (last_id[w] + 1) .. (n - 1)
    BY <1>2, <2>1, <2>2
  <2> QED
    BY <2>1, <2>2, <2>3
<1>5. ASSUME NEW s \in Symbols PROVE Run(buffers'[w][s])
  <2>1. CASE s # c.symbol
    <3>1. buffers'[w][s] = buffers[w][s]
      BY <1>1, <2>1 DEF Basic, Types
    <3> QED
      BY <1>3, <3>1
  <2>2. CASE s = c.symbol
    <3> DEFINE old == buffers[w][s]
    <3>1. buffers'[w][s] = b
      BY <1>1, <2>2 DEF Basic, Types
    <3>2. /\ old \in Seq(Minutes) /\ Len(old) <= BufferSize /\ b = Push(old, c.time)
          /\ Run(old)
          /\ old # << >> =>
               \E i \in Seen(w, s) : /\ Log[i] = Candle(s, old[Len(old)])
                                     /\ \A j \in Seen(w, s) : j <= i
      BY <1>1, <1>3, <2>2 DEF Basic, Types, Buffered
    <3> HIDE DEF old
    <3>3. /\ Len(b) = IF Len(old) < BufferSize THEN Len(old) + 1 ELSE BufferSize
          /\ Len(old) \in Nat /\ Len(b) > 0 /\ b[Len(b)] = c.time
          /\ \A k \in 1 .. (Len(b) - 1) : b[k] = old[Len(old) - Len(b) + 1 + k]
      <4> DEFINE pushed == Push(old, c.time)
      <4>1. /\ Len(pushed) = IF Len(old) < BufferSize THEN Len(old) + 1 ELSE BufferSize
            /\ Len(old) \in Nat /\ Len(pushed) > 0 /\ pushed[Len(pushed)] = c.time
            /\ \A k \in 1 .. (Len(pushed) - 1) : pushed[k] = old[Len(old) - Len(pushed) + 1 + k]
        BY <1>2, <3>2, PushIs
      <4>2. pushed = b
        BY <3>2
      <4> HIDE DEF pushed
      <4> QED
        BY <4>1, <4>2
    <3>4. BufferSize \in Nat /\ BufferSize > 0 /\ c.time \in Int
      BY <1>2, FeatureAssumption DEF Minutes
    <3>5. CASE old = << >>
      <4>1. Len(b) = 1
        BY <3>3, <3>4, <3>5
      <4>2. c.time = c.time - (1 - 1)
        BY <3>4
      <4>3. ASSUME NEW k \in 1 .. 1 PROVE b[k] = b[1] - (1 - k)
        <5>1. k = 1
          OBVIOUS
        <5> QED
          BY <3>3, <4>1, <4>2, <5>1
      <4> QED
        BY <3>1, <4>1, <4>3 DEF Run
    <3>6. CASE old # << >>
      <4>1. PICK i \in Seen(w, s) : /\ Log[i] = Candle(s, old[Len(old)])
                                    /\ \A j \in Seen(w, s) : j <= i
        BY <3>2, <3>6
      <4>2. /\ i \in Nat /\ i >= 1 /\ i <= last_id[w] /\ i >= since[w] /\ last_id[w] \in Nat
            /\ since[w] \in Nat
        BY <4>1, SeenIsFinite DEF Basic, Types, Seen
      <4>3. n = last_id[w] + 1
        BY <1>3, <1>4, <4>2 DEF AtEntry
      <4>4. \A k \in (i + 1) .. (n - 1) : Log[k].symbol # s
        BY <4>1, <4>2, <4>3 DEF Seen, NoneSkipped
      <4>5. i \in 1 .. Len(Log) /\ i < n /\ Log[i].symbol = s /\ Log[i].time = old[Len(old)]
        BY <1>2, <4>1, <4>2, <4>3 DEF Candle
      <4>6. c.time = old[Len(old)] + 1
        BY <1>2, <2>2, <4>4, <4>5 DEF Unbroken, Follows, LastId, Log
      <4>7. old[Len(old)] \in Int
        <5>1. Len(old) > 0 /\ old[Len(old)] \in Minutes
          BY <3>2, <3>3, <3>6
        <5> QED
          BY <5>1 DEF Minutes
      <4>8. ASSUME NEW k \in 1 .. Len(b) PROVE b[k] = c.time - (Len(b) - k)
        <5>1. CASE k = Len(b)
          BY <3>3, <3>4, <5>1
        <5>2. CASE k # Len(b)
          <6>1. PICK m : m = Len(old) - Len(b) + 1 + k
            OBVIOUS
          <6>2. m \in 1 .. Len(old) /\ k \in 1 .. (Len(b) - 1)
            BY <3>2, <3>3, <3>4, <5>2, <6>1
          <6>3. b[k] = old[m] /\ old[m] = old[Len(old)] - (Len(old) - m)
            BY <3>2, <3>3, <6>1, <6>2 DEF Run
          <6>4. old[Len(old)] - (Len(old) - m) = c.time - (Len(b) - k)
            BY <3>3, <3>4, <4>6, <4>7, <6>1
          <6> QED
            BY <6>3, <6>4
        <5> QED
          BY <5>1, <5>2
      <4> QED
        BY <3>1, <3>3, <4>8 DEF Run
    <3> QED
      BY <3>5, <3>6
  <2> QED
    BY <2>1, <2>2
<1> QED
  BY <1>5 DEF Runs

\* The row that is inserted belongs to the last candle of the buffer.
LEMMA HandleFeaturesRuns ==
  ASSUME Basic, NEW w \in Workers, Reader(w), Runs(w), RowsRight, HandleFeatures(w)
  PROVE  Runs(w)' /\ RowsRight'
PROOF
<1> DEFINE c == Message(w)
<1> DEFINE b == buffers[w][c.symbol]
<1> DEFINE row == [symbol |-> c.symbol, time |-> c.time, window |-> LatestWindow(b)]
<1>1. /\ pc[w] = "features" /\ NextMessage(w) /\ UNCHANGED << kline_stream, buffers >>
      /\ features' \subseteq features \cup {row}
  BY DEF HandleFeatures, InsertFeatures
<1>2. /\ c = Log[batch[w].next] /\ batch[w].next \in Nat /\ AtMessage(w)
      /\ c.symbol \in Symbols /\ c.time \in Minutes
      /\ last_id[w] \in Nat /\ since[w] \in Nat
  BY <1>1, MessageIs DEF Basic, Types
<1>4. /\ AtEntry(w) /\ Buffered(w, c.symbol) /\ Len(b) >= MinBuffer
      /\ \A s \in Symbols : Run(buffers[w][s])
      /\ \A j \in skipped[w] : j < batch[w].next
  BY <1>1, <1>2 DEF Reader, Runs, Up, AtMessage
<1>5. Runs(w)'
  BY <1>1, <1>4 DEF Runs
<1>6. b \in Seq(Minutes) /\ Len(b) \in Nat /\ Len(b) > MaxWindow /\ b # << >>
  <2>1. b \in Seq(Minutes)
    BY <1>2 DEF Basic, Types
  <2> HIDE DEF b
  <2> QED
    BY <1>4, <2>1, FeatureAssumption DEF MinBuffer
<1>7. b[Len(b)] = c.time
  <2>1. PICK i \in Seen(w, c.symbol) : /\ Log[i] = Candle(c.symbol, b[Len(b)])
                                       /\ \A j \in Seen(w, c.symbol) : j <= i
    BY <1>4, <1>6 DEF Buffered
  <2>2. /\ batch[w].next = last_id[w] /\ since[w] > 0 /\ since[w] <= last_id[w]
    BY <1>1, <1>4, <1>2 DEF AtEntry
  <2>3. last_id[w] \in Seen(w, c.symbol)
    BY <1>2, <1>4, <2>2 DEF Seen
  <2>4. i = last_id[w]
    BY <1>2, <2>1, <2>3, SeenIsFinite DEF Basic
  <2> QED
    BY <1>2, <2>1, <2>2, <2>4 DEF Candle
<1>8. Run(b)
  BY <1>2, <1>4
<1> HIDE DEF b
<1>9. /\ LatestWindow(b) \in Seq(Minutes)
      /\ LatestWindow(b) = [i \in 1 .. MaxWindow + 1 |-> b[Len(b)] - MaxWindow + i - 1]
  BY <1>6, <1>8, WindowIs DEF Run
<1>10. Consecutive(row)
  BY <1>2, <1>7, <1>9 DEF Consecutive
<1> HIDE DEF row
<1> QED
  BY <1>1, <1>5, <1>10 DEF RowsRight

LEMMA RunsStep ==
  ASSUME Basic, \A w \in Workers : Reader(w), \A w \in Workers : Runs(w),
         RowsRight, Step, Unbroken, NoneSkipped
  PROVE  RowsRight' /\ \A w \in Workers : Runs(w)'
PROOF
<1>0. Types
  BY DEF Basic
<1>1. ASSUME NEW u \in Workers, pc'[u] = pc[u], buffers'[u] = buffers[u] PROVE Runs(u)'
  BY <1>1 DEF Runs, Up
<1>2. CASE Grow \/ Quiet
  BY <1>2 DEF Grow, Quiet, RowsRight, Runs, Up, worker, tables
<1>4. ASSUME NEW w \in Workers, WorkerStep(w)
      PROVE  RowsRight' /\ \A u \in Workers : Runs(u)'
  <2>1. ASSUME NEW u \in Workers \ {w} PROVE Runs(u)'
    BY <1>0, <1>1, <1>4, OthersKept
  <2>2. CASE HandleFeatures(w)
    BY <2>1, <2>2, HandleFeaturesRuns
  <2>3. CASE HandlePrice(w)
    BY <2>1, <2>3, HandlePriceRuns DEF RowsRight, HandlePrice
  <2>4. CASE Start(w)
    <3>1. /\ pc'[w] = "reading" /\ buffers'[w] = EmptyBuffers /\ features' = features
      BY <2>4 DEF Start, Fresh, Basic, Types, tables
    <3>2. \A s \in Symbols : EmptyBuffers[s] = << >>
      BY DEF EmptyBuffers
    <3>3. Runs(w)'
      BY <3>1, <3>2 DEF Runs, Run
    <3> QED
      BY <2>1, <3>1, <3>3 DEF RowsRight
  <2>5. CASE XRead(w)
    <3>1. /\ pc[w] = "reading" /\ pc'[w] = "message" /\ buffers' = buffers /\ features' = features
      BY <2>5 DEF XRead, Basic, Types, tables
    <3> QED
      BY <2>1, <3>1 DEF RowsRight, Runs, Up
  <2>6. CASE Crash(w)
    <3>1. /\ pc'[w] = "down" /\ features' = features
      BY <2>6 DEF Crash, Basic, Types, tables
    <3> QED
      BY <2>1, <3>1 DEF RowsRight, Runs, Up
  <2> QED
    BY <1>4, <2>2, <2>3, <2>4, <2>5, <2>6 DEF WorkerStep, Work
<1> QED
  BY <1>2, <1>4 DEF Step

\* What was passed over stays so.
LEMMA NoneSkippedBefore ==
  ASSUME Types, Step, NoneSkipped' PROVE NoneSkipped
PROOF
<1>1. CASE Grow \/ Quiet
  BY <1>1 DEF Grow, Quiet, worker, NoneSkipped
<1>2. ASSUME NEW w \in Workers, WorkerStep(w) PROVE \A u \in Workers : skipped[u] \subseteq skipped'[u]
  <2>1. CASE XRead(w)
    <3>1. PICK lo : skipped' = [skipped EXCEPT ![w] =
                       IF since[w] = 0 THEN @ ELSE @ \cup (last_id[w] + 1) .. (lo - 1)]
      BY <2>1 DEF XRead
    <3> QED
      BY <3>1 DEF Types
  <2>2. CASE ~XRead(w)
    BY <1>2, <2>2 DEF WorkerStep, Work, Start, HandlePrice, HandleFeatures, Crash
  <2> QED
    BY <2>1, <2>2
<1> QED
  BY <1>1, <1>2 DEF Step, NoneSkipped

-----------------------------------------------------------------------------
(* The specification.                                                      *)

FInv ==
  /\ Basic
  /\ \A w \in Workers : Reader(w)
  /\ Unbroken /\ NoneSkipped => RowsRight /\ \A w \in Workers : Runs(w)

LEMMA InitEstablishes == FInit => FInv
PROOF
<1> SUFFICES ASSUME FInit PROVE FInv
  OBVIOUS
<1>1. Log = << >> /\ kline_stream.first = 1 /\ Len(Log) = 0
  BY DEF FInit, EmptyStream, Log
<1>2. EmptyBuffers \in [Symbols -> Seq(Minutes)] /\ \A s \in Symbols : Len(EmptyBuffers[s]) <= BufferSize
  BY FeatureAssumption DEF EmptyBuffers
<1>3. Types
  BY <1>1, <1>2, FeatureAssumption DEF FInit, Types, StreamTyped, NoBatch, Log
<1>4. RowsRight
  BY DEF FInit, RowsRight
<1>5. \A w \in Workers : pc[w] = "down" /\ skipped[w] = {}
  BY DEF FInit
<1> QED
  BY <1>3, <1>4, <1>5 DEF FInv, Basic, AtMessage, Reader, Runs, Up

LEMMA NextIsStep == [FNext]_fvars => Step
PROOF
<1> SUFFICES ASSUME [FNext]_fvars PROVE Step
  OBVIOUS
<1>1. ASSUME NEW c \in Candles, Produce(c) PROVE Grow
  BY <1>1 DEF Produce, Grow
<1>2. ASSUME NEW w \in Workers, Start(w) \/ Work(w) \/ Crash(w) PROVE WorkerStep(w)
  BY <1>2 DEF WorkerStep, Start, Work, XRead, HandlePrice, HandleFeatures, Crash
<1>3. CASE UNCHANGED fvars
  BY <1>3 DEF fvars, Step, Quiet
<1> QED
  BY <1>1, <1>2, <1>3 DEF FNext, Step

LEMMA FStepKeeps == FInv /\ [FNext]_fvars => FInv'
PROOF
<1> SUFFICES ASSUME FInv, [FNext]_fvars PROVE FInv'
  OBVIOUS
<1>1. Step
  BY NextIsStep
<1>2. Basic /\ Types /\ \A w \in Workers : Reader(w)
  BY DEF FInv, Basic
<1>3. Basic'
  BY <1>1, <1>2, BasicStep
<1>4. \A w \in Workers : Reader(w)'
  BY <1>1, <1>2, ReaderStep
<1>5. ASSUME Unbroken', NoneSkipped' PROVE RowsRight' /\ \A w \in Workers : Runs(w)'
  <2>1. Unbroken /\ NoneSkipped
    BY <1>1, <1>2, <1>5, UnbrokenBefore, NoneSkippedBefore
  <2>2. RowsRight /\ \A w \in Workers : Runs(w)
    BY <2>1 DEF FInv
  <2> QED
    BY <1>1, <1>2, <2>1, <2>2, RunsStep
<1> QED
  BY <1>3, <1>4, <1>5 DEF FInv

LEMMA FInvariance == FSpec => []FInv
PROOF
<1> QED
  BY InitEstablishes, FStepKeeps, PTL DEF FSpec

\* The types hold, and no ring buffer outgrows BUFFER_SIZE (main.py:34, 86).
THEOREM FeatureTypes == FSpec => []FTypeOK
PROOF
<1>1. FInv => FTypeOK
  BY DEF FInv, Basic, Types, StreamTyped, FTypeOK
<1> QED
  BY <1>1, FInvariance, PTL

\* As long as the stream has every symbol's candles in order, each once, and no running
\* instance has been overtaken by trimming, every stored feature row was computed from the
\* consecutive candles up to its own time: crashes between the inserts, replays of a
\* trimmed stream and any number of instances do not change that (main.py:84-92,
\* features.py:46-53).
THEOREM RowsAreRight == FSpec => []FeatureWindow
PROOF
<1>1. FInv => FeatureWindow
  BY DEF FInv, RowsRight, FeatureWindow
<1> QED
  BY <1>1, FInvariance, PTL

\* With a buffer that can hold MinBuffer candles (config.py:21, main.py:21: 120 and 62), an
\* instance that waits for new messages has stored the price of every entry it got and
\* the feature row of all but the first candles of each symbol, in whatever order and how
\* often the candles came and whatever was trimmed before it could read it
\* (main.py:76-95).
THEOREM NothingIsSkipped == BufferSize >= MinBuffer => (FSpec => []ReadIsStored)
PROOF
<1> SUFFICES ASSUME BufferSize >= MinBuffer PROVE FSpec => []ReadIsStored
  OBVIOUS
<1>1. FInv => ReadIsStored
  BY DEF FInv, Reader, Up, PricesStored, RowsStored, HasRow, ReadIsStored, Log
<1> QED
  BY <1>1, FInvariance, PTL

-----------------------------------------------------------------------------
(* The tables are a write-once store.                                      *)

LEMMA StoreStep ==
  ASSUME Basic, NEW w \in Workers, WorkerStep(w)
  PROVE  Store!Next \/ UNCHANGED Store!vars
PROOF
<1>1. CASE HandlePrice(w)
  <2>1. features' = features /\ prices' = prices \cup {Message(w)}
    BY <1>1 DEF HandlePrice, InsertPrice
  <2>2. CASE Message(w) \in prices
    BY <2>1, <2>2 DEF Store!vars
  <2>3. CASE Message(w) \notin prices
    <3>1. Store!AddPrice(Message(w)) /\ Message(w) \in prices'
      BY <2>1, <2>3 DEF Store!AddPrice
    <3> QED
      BY <3>1 DEF Store!Next
  <2> QED
    BY <2>2, <2>3
<1>2. CASE HandleFeatures(w)
  <2>1. PICK r : /\ r.symbol = Message(w).symbol /\ r.time = Message(w).time
                 /\ InsertFeatures(r) /\ prices' = prices /\ pc[w] = "features"
    BY <1>2 DEF HandleFeatures
  <2>2. Message(w) \in prices
    BY <2>1 DEF Basic, AtMessage
  <2>3. CASE \E q \in features : q.symbol = r.symbol /\ q.time = r.time
    BY <2>1, <2>3 DEF InsertFeatures, Store!vars
  <2>4. CASE ~\E q \in features : q.symbol = r.symbol /\ q.time = r.time
    <3>1. features' = features \cup {r}
      BY <2>1, <2>4 DEF InsertFeatures
    <3>2. Store!AddFeatures(r) /\ r \in features'
      BY <2>1, <2>2, <2>4, <3>1 DEF Store!AddFeatures, Store!SameKey
    <3> QED
      BY <3>2 DEF Store!Next
  <2> QED
    BY <2>3, <2>4
<1>3. CASE Start(w) \/ XRead(w) \/ Crash(w)
  BY <1>3 DEF Start, XRead, Crash, tables, Store!vars
<1> QED
  BY <1>1, <1>2, <1>3 DEF WorkerStep, Work

\* Crashes, replays and parallel instances never change or remove what was stored once,
\* and no feature row appears before its price (db.py:112-147).
THEOREM TablesAreWriteOnce == FSpec => StoreSpec
PROOF
<1>1. FInit => Store!Init
  BY DEF FInit, Store!Init
<1>2. FInv /\ [FNext]_fvars => [Store!Next]_(Store!vars)
  <2> SUFFICES ASSUME FInv, [FNext]_fvars PROVE Store!Next \/ UNCHANGED Store!vars
    OBVIOUS
  <2>1. Step /\ Basic
    BY NextIsStep DEF FInv
  <2>2. CASE Grow \/ Quiet
    BY <2>2 DEF Grow, Quiet, tables, Store!vars
  <2> QED
    BY <2>1, <2>2, StoreStep DEF Step
<1> QED
  BY <1>1, <1>2, FInvariance, PTL DEF FSpec, StoreSpec, Store!Spec
=============================================================================
