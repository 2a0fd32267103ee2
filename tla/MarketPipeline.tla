--------------------------- MODULE MarketPipeline ---------------------------
(***************************************************************************)
(* Ingestion and feature engineering over the stream they share, from the  *)
(* exchange to the tables prices and features.  The stream is neither in   *)
(* order nor free of repetitions here: history and live candles are pushed *)
(* by two goroutines, and every start of ingestion pushes history again.   *)
(***************************************************************************)
EXTENDS KlineIngestion

CONSTANTS Workers, MaxWindow, BufferSize, XReadCount, MaxCrashes

\* As in FeaturePipeline.
ASSUME MarketAssumption ==
  /\ MaxWindow \in Nat \ {0}
  /\ BufferSize \in Nat /\ BufferSize >= MaxWindow + 1
  /\ XReadCount \in Nat \ {0}
  /\ MaxCrashes \in Nat

VARIABLES fpc, last_id, batch, buffers, since, skipped, prices, features, crashes

featureVars   == << fpc, last_id, batch, buffers, since, skipped, prices, features,
                    crashes >>
ingestionOnly == << now, sent, pc, ws, bf, status, lost, covered, glitch, once >>
mvars == << ivars, featureVars >>

\* The producer is ingestion.
FE == INSTANCE FeaturePipeline WITH pc <- fpc, MaxEntries <- 0

MInit == IInit /\ FE!FInit

IngestionStep == INext /\ UNCHANGED featureVars

FeatureStep(w) == /\ FE!Start(w) \/ FE!Work(w) \/ FE!Crash(w)
                  /\ UNCHANGED ingestionOnly

MNext == IngestionStep \/ \E w \in Workers : FeatureStep(w)

MSpec == MInit /\ [][MNext]_mvars

-----------------------------------------------------------------------------
\* No entry of the stream was trimmed so far.
Untrimmed == kline_stream.first = 1

\* A feature engineering instance that has read the stream to its end, from
\* its first entry.
CaughtUp(w) == /\ fpc[w] = "reading"
               /\ last_id[w] = LastId(kline_stream)
               /\ since[w] = 1

\* End to end: when an instance has caught up with a stream that kept all entries,
\* every candle of a symbol from the first row of its history to the last candle
\* sent by the exchange is a price row, or its loss was logged, or ingestion has yet
\* to push it.
NoCandleMissing ==
  Untrimmed /\ (\E w \in Workers : CaughtUp(w)) =>
    \A s \in Symbols : \A t \in Minutes :
      (t < sent[s] /\ \E r \in covered[s] : r <= t) =>
        \/ Candle(s, t) \in prices \cup lost \cup Rows
        \/ Frame(s, t, TRUE) \in Queued

\* Repetitions and reordering never rewrite or remove a price or a feature row,
\* and no row is there without its price.
StoreSpec == FE!StoreSpec

\* With ingestion as the producer, too, feature rows are right as long as of every
\* symbol each candle published was followed by the next one (none lost, repeated,
\* overtaken, or left out by a history request that goes back too little) and no
\* running instance has been overtaken by trimming.
FeaturesRightInOrder == FE!FeatureWindow

\* "Insert one feature row for (time, symbol)." (feature_engineering/db.py:138):
\* the row stored under a time is that candle's, so its window ends there.
RowAtItsOwnTime == \A r \in features : r.window[MaxWindow + 1] = r.time
=============================================================================
