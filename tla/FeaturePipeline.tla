-------------------------- MODULE FeaturePipeline --------------------------
(***************************************************************************)
(* The feature engineering process (src/feature_engineering): it reads     *)
(* kline_stream with XREAD from its own position, stores every candle in   *)
(* "prices", keeps the latest candles of each symbol in a ring buffer and  *)
(* stores one feature row per candle in "features".  Position and buffers  *)
(* are in memory only: a restart reads the stream from its start again.    *)
(*                                                                         *)
(* There may be several instances: "Easily horizontally scalable with      *)
(* shared Redis stream" (README.md:185).                                   *)
(***************************************************************************)
EXTENDS Integers, Sequences, FiniteSets, RedisStream

CONSTANTS
  Symbols,
  Workers,        \* instances of the process
  MaxWindow,      \* max(ROLLING_WINDOWS)
  BufferSize,     \* BUFFER_SIZE
  XReadCount,     \* count=10 of the XREAD
  StreamMaxLen,   \* MAXLEN of kline_stream
  Horizon,        \* bound: the last minute
  MaxEntries,     \* bound: entries of the stream
  MaxCrashes      \* bound: crashes of all instances together

\* "Must be >= max(ROLLING_WINDOWS) + 1 at minimum" (config.py:20).
ASSUME FeatureAssumption ==
  /\ MaxWindow \in Nat \ {0}
  /\ BufferSize \in Nat /\ BufferSize >= MaxWindow + 1
  /\ XReadCount \in Nat \ {0}
  /\ StreamMaxLen \in Nat \ {0}
  /\ Horizon \in Nat
  /\ MaxEntries \in Nat
  /\ MaxCrashes \in Nat

MinBuffer == MaxWindow + 2

VARIABLES
  kline_stream,
  pc,          \* [worker -> down, reading (XREAD), message, features]
  last_id,     \* [worker -> id of the last message taken]
  batch,       \* [worker -> ids of the last XREAD answer still to be handled]
  buffers,     \* [worker -> [symbol -> times of the candles, in arrival order]]
  since,       \* history: [worker -> first id this run of the worker got]
  skipped,     \* history: [worker -> ids trimmed before it came to them]
  prices,      \* table prices: candles
  features,    \* table features: rows [symbol, time, window]
  crashes      \* history: number of crashes, for MaxCrashes

worker == << pc, last_id, batch, buffers, since, skipped >>
tables == << prices, features >>
fvars  == << kline_stream, worker, tables, crashes >>

Candle(s, t) == [symbol |-> s, time |-> t]
Minutes == 0 .. Horizon
Candles == [symbol : Symbols, time : Minutes]

\* The ids an XREAD answer has left: next .. end.
NoBatch == [next |-> 1, end |-> 0]

\* A feature row: its key and the times of the closes its longest rolling window
\* was computed from, oldest first.
FeatureRows == [symbol : Symbols, time : Minutes, window : Seq(Minutes)]

EmptyBuffers == [s \in Symbols |-> <<>>]

\* Types; a ring buffer never outgrows BUFFER_SIZE.
FTypeOK ==
  /\ kline_stream.log \in Seq(Candles) /\ kline_stream.first \in Nat \ {0}
  /\ pc \in [Workers -> {"down", "reading", "message", "features"}]
  /\ last_id \in [Workers -> Nat]
  /\ batch \in [Workers -> [next : Nat, end : Nat]]
  /\ buffers \in [Workers -> [Symbols -> Seq(Minutes)]]
  /\ \A w \in Workers : \A s \in Symbols : Len(buffers[w][s]) <= BufferSize
  /\ since \in [Workers -> Nat]
  /\ skipped \in [Workers -> SUBSET Nat]
  /\ prices \subseteq Candles
  /\ features \subseteq FeatureRows
  /\ crashes \in 0 .. MaxCrashes

FInit ==
  /\ kline_stream = EmptyStream
  /\ pc = [w \in Workers |-> "down"]
  /\ last_id = [w \in Workers |-> 0]
  /\ batch = [w \in Workers |-> NoBatch]
  /\ buffers = [w \in Workers |-> EmptyBuffers]
  /\ since = [w \in Workers |-> 0]
  /\ skipped = [w \in Workers |-> {}]
  /\ prices = {}
  /\ features = {}
  /\ crashes = 0

-----------------------------------------------------------------------------
(* The producer: history and live frames come from two goroutines, and     *)
(* every start of ingestion pushes history again, so any candle may follow *)
(* any other, and nothing waits for the readers before MAXLEN trims.       *)

Produce(c) ==
  /\ LastId(kline_stream) < MaxEntries
  /\ kline_stream' \in XAdd(kline_stream, c, StreamMaxLen)
  /\ UNCHANGED << worker, tables, crashes >>

-----------------------------------------------------------------------------
(* main() of one instance.                                                 *)

InitialId == 0

\* Position and buffers are in memory only.
Fresh(w) ==
  /\ last_id' = [last_id EXCEPT ![w] = InitialId]
  /\ buffers' = [buffers EXCEPT ![w] = EmptyBuffers]
  /\ batch' = [batch EXCEPT ![w] = NoBatch]
  /\ since' = [since EXCEPT ![w] = 0]

\* Connections made and tables ensured.
Start(w) ==
  /\ pc[w] = "down"
  /\ pc' = [pc EXCEPT ![w] = "reading"]
  /\ Fresh(w)
  /\ UNCHANGED << kline_stream, skipped, tables, crashes >>

\* XREAD block=0 count=10 returns when there is something after last_id.
XRead(w) ==
  LET ids == Readable(kline_stream, last_id[w])
  IN /\ pc[w] = "reading"
     /\ ids # {}
     /\ \E lo \in ids, hi \in ids :
          /\ \A i \in ids : lo <= i
          /\ hi - lo < XReadCount
          /\ hi = LastId(kline_stream) \/ hi - lo + 1 = XReadCount
          /\ batch' = [batch EXCEPT ![w] = [next |-> lo, end |-> hi]]
          /\ since' = [since EXCEPT ![w] = IF @ = 0 THEN lo ELSE @]
          /\ skipped' = [skipped EXCEPT ![w] =
                            IF since[w] = 0 THEN @ ELSE @ \cup (last_id[w] + 1) .. (lo - 1)]
     /\ pc' = [pc EXCEPT ![w] = "message"]
     /\ UNCHANGED << kline_stream, last_id, buffers, tables, crashes >>

Message(w) == kline_stream.log[batch[w].next]

\* Mistake: a list in place of the ring.
PushUnbounded(b, t) == Append(b, t)

\* deque(maxlen=BUFFER_SIZE).append
Push(b, t) == IF Len(b) < BufferSize THEN Append(b, t) ELSE Append(Tail(b), t)

\* ON CONFLICT DO NOTHING on the key (time, symbol)
InsertPrice(c) == prices' = prices \cup {c}

\* Mistake: one candle more than needed.
MoreThanEnough(b) == Len(b) > MinBuffer

EnoughHistory(b) == Len(b) >= MinBuffer

\* Back to the "for", or to XREAD when the answer is used up.
NextMessage(w) ==
  /\ batch' = [batch EXCEPT ![w].next = @ + 1]
  /\ pc' = [pc EXCEPT ![w] = IF batch[w].next < batch[w].end THEN "message"
                                                              ELSE "reading"]

\* Mistake: the position is not moved.
StayAt(w) == UNCHANGED last_id

\* last_id = msg_id
MoveTo(w) == last_id' = [last_id EXCEPT ![w] = batch[w].next]

\* insert_price, then the buffer; features only with enough history.
HandlePrice(w) ==
  LET c == Message(w)
      b == Push(buffers[w][c.symbol], c.time)
  IN /\ pc[w] = "message"
     /\ MoveTo(w)
     /\ InsertPrice(c)
     /\ buffers' = [buffers EXCEPT ![w][c.symbol] = b]
     /\ IF EnoughHistory(b) THEN pc' = [pc EXCEPT ![w] = "features"] /\ UNCHANGED batch
                            ELSE NextMessage(w)
     /\ UNCHANGED << kline_stream, since, skipped, features, crashes >>

\* sort_values("time"): k-th is the candle whose place is k.
Place(b, i) == Cardinality({ j \in DOMAIN b : b[j] < b[i] \/ (b[j] = b[i] /\ j <= i) })
Sorted(b) == [k \in DOMAIN b |-> b[CHOOSE i \in DOMAIN b : Place(b, i) = k]]

\* Mistake: the row before the last.
WindowBefore(b) == SubSeq(Sorted(b), Len(b) - MaxWindow - 1, Len(b) - 1)

\* _buffer_to_df sorts the candles by time; the last row of every rolling column
\* is computed from the latest candles of the buffer.
LatestWindow(b) == SubSeq(Sorted(b), Len(b) - MaxWindow, Len(b))

\* Mistake: no unique key on features.
InsertDuplicate(r) == features' = features \cup {r}

\* ON CONFLICT DO NOTHING: a row with this key stays as it is.
InsertFeatures(r) ==
  features' = IF \E q \in features : q.symbol = r.symbol /\ q.time = r.time
              THEN features ELSE features \cup {r}

HandleFeatures(w) ==
  LET c == Message(w)
  IN /\ pc[w] = "features"
     /\ InsertFeatures([symbol |-> c.symbol, time |-> c.time,
                        window |-> LatestWindow(buffers[w][c.symbol])])
     /\ NextMessage(w)
     /\ UNCHANGED << kline_stream, last_id, buffers, since, skipped, prices, crashes >>

\* Nothing catches an exception: a database or Redis error ends the process, as
\* a kill does, between any two steps.
Crash(w) ==
  /\ pc[w] # "down"
  /\ crashes < MaxCrashes
  /\ pc' = [pc EXCEPT ![w] = "down"]
  /\ crashes' = crashes + 1
  /\ Fresh(w)
  /\ UNCHANGED << kline_stream, skipped, tables >>

-----------------------------------------------------------------------------
Work(w) == XRead(w) \/ HandlePrice(w) \/ HandleFeatures(w)

FNext == \/ \E c \in Candles : Produce(c)
         \/ \E w \in Workers : Start(w) \/ Work(w) \/ Crash(w)

\* A running instance keeps running; a dead one is started again by hand, if at
\* all, so Start has no fairness.
FFairness == \A w \in Workers : WF_fvars(Work(w))

FSpec == FInit /\ [][FNext]_fvars /\ FFairness

-----------------------------------------------------------------------------
(* Properties.                                                             *)

\* The window of a row stored under time t is the run of consecutive candles
\* that ends with candle t.
Consecutive(r) == r.window = [i \in 1 .. MaxWindow + 1 |-> r.time - MaxWindow + i - 1]

\* Entry j is the next one of entry i's symbol.
Follows(i, j) ==
  LET symbol == kline_stream.log[i].symbol
  IN  /\ i < j /\ kline_stream.log[j].symbol = symbol
      /\ \A k \in (i + 1) .. (j - 1) : kline_stream.log[k].symbol # symbol

\* Each symbol's candles were published one after the other, every one once.
Unbroken ==
  \A i, j \in 1 .. LastId(kline_stream) :
    Follows(i, j) => kline_stream.log[j].time = kline_stream.log[i].time + 1

\* No instance has ever been overtaken by trimming while it ran.
NoneSkipped == \A w \in Workers : skipped[w] = {}

\* As long as the stream is in order and readers keep ahead of trimming, every
\* stored feature row was computed from the consecutive candles up to its own time,
\* whatever crashes, replays of a trimmed stream and a second instance do
\* (main.py:84-92, features.py:46-53).
FeatureWindow == Unbroken /\ NoneSkipped => \A r \in features : Consecutive(r)

\* The entries w has taken in this run, up to i, and how many of entry i's symbol.
Taken(w, i) == { j \in since[w] .. i : j \notin skipped[w] }
Rank(w, i) == Cardinality({ j \in Taken(w, i) : kline_stream.log[j].symbol
                                                 = kline_stream.log[i].symbol })

\* An instance that has read up to its position has stored the price of every
\* entry but those that were trimmed before it came to them, and the feature row of
\* all but each symbol's first MinBuffer - 1: a crash between the two inserts leaves
\* no hole once the stream is replayed.
ReadIsStored ==
  \A w \in Workers : pc[w] = "reading" /\ since[w] > 0 =>
    \A i \in Taken(w, last_id[w]) :
      LET c == kline_stream.log[i]
      IN  /\ c \in prices
          /\ Rank(w, i) >= MinBuffer =>
               \E r \in features : r.symbol = c.symbol /\ r.time = c.time

\* A running instance gets to the end of the stream again and again: nothing the
\* stream holds makes it stop, or read the same entries for ever. (What it passes is
\* stored, see ReadIsStored.)
CatchesUp == \A w \in Workers :
  []<>(pc[w] = "down" \/ (pc[w] = "reading" /\ Readable(kline_stream, last_id[w]) = {}))

\* The tables implement the write-once store.
Store == INSTANCE CandleStore
StoreSpec == Store!Spec
=============================================================================
