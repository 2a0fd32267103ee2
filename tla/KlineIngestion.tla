--------------------------- MODULE KlineIngestion ---------------------------
(***************************************************************************)
(* The ingestion process (src/ingestion): one goroutine reads live kline   *)
(* frames from the exchange's WebSocket, another pushes the REST history   *)
(* of every symbol, and both append closed candles to "kline_stream".      *)
(*                                                                         *)
(* Time is counted in minutes.  Candle t of a symbol covers minute t and   *)
(* is closed once now > t.                                                 *)
(***************************************************************************)
EXTENDS Integers, Sequences, FiniteSets, RedisStream

CONSTANTS
  Order,          \* types.go: "symbols", the order in which history is fetched
  Limit,          \* backfill.go: "limit", rows one REST call returns at most
  StreamMaxLen,   \* MAXLEN of kline_stream
  DsnSet,         \* whether TIMESCALEDB_DSN is set: TRUE, FALSE, or either
  Horizon,        \* bound: the last minute of the run
  MaxRuns,        \* bound: how often the process is started
  MaxUpdates,     \* bound: frames queued before an update of an open candle
  MaxFaults       \* bound: candles lost and symbols with a glitch

Symbols == { Order[i] : i \in 1 .. Len(Order) }

ASSUME IngestionAssumption ==
  /\ Order \in Seq(Symbols) /\ Order # << >>
  /\ Limit \in Nat \ {0}
  /\ StreamMaxLen \in Nat \ {0}
  /\ DsnSet \subseteq BOOLEAN
  /\ Horizon \in Nat
  /\ MaxRuns \in Nat
  /\ MaxUpdates \in Nat
  /\ MaxFaults \in Nat

VARIABLES
  now,            \* the minute
  sent,           \* [symbol -> closed candles the exchange has pushed so far]
  pc,             \* main: down, starting, dialed, reading
  ws,             \* frames between the exchange and ReadMessage
  bf,             \* the backfill goroutine
  status,         \* table backfill_status
  kline_stream,   \* the Redis stream
  lost,           \* history: candles whose XADD failed or whose row was skipped
  covered,        \* history: [symbol -> candles of this run's answered fetch]
  glitch,         \* history: symbols whose status write or JSON parse failed
  signalling,     \* pg # nil: TIMESCALEDB_DSN was set for this run
  runs            \* history: number of starts, for MaxRuns

\* What a run never changes.
once == << signalling, runs >>

ivars == << now, sent, pc, ws, bf, status, kline_stream, lost,
            covered, glitch, signalling, runs >>

Candle(s, t) == [symbol |-> s, time |-> t]
Frame(s, t, closed) == [symbol |-> s, time |-> t, closed |-> closed]

Minutes == 0 .. Horizon
Candles == [symbol : Symbols, time : Minutes]
Frames  == [symbol : Symbols, time : Minutes, closed : BOOLEAN]

\* The goroutine: which symbol it is at, and the rows next .. end-1 it still has
\* to publish.  "idle" is a goroutine that was never started or has died.
Idle     == [at |-> "idle", i |-> 0, next |-> 0, end |-> 0]
Backfill == [at  : {"idle", "begin", "request", "giveup", "push", "finished"},
             i   : 0 .. Len(Order), next : Minutes, end : Minutes]

NoRows == [s \in Symbols |-> {}]

\* Types, with the bounds of the run.
ITypeOK ==
  /\ now \in Minutes
  /\ sent \in [Symbols -> Minutes]
  /\ pc \in {"down", "starting", "dialed", "reading"}
  /\ ws \in Seq(Frames)
  /\ bf \in Backfill
  /\ status \in [Symbols -> {"absent", "in_progress", "failed", "done"}]
  /\ kline_stream.log \in Seq(Candles) /\ kline_stream.first \in Nat \ {0}
  /\ lost \subseteq Candles
  /\ covered \in [Symbols -> SUBSET Minutes]
  /\ glitch \subseteq Symbols
  /\ signalling \in BOOLEAN
  /\ runs \in 0 .. MaxRuns

IInit ==
  /\ now = 0
  /\ sent = [s \in Symbols |-> 0]
  /\ pc = "down"
  /\ ws = <<>>
  /\ bf = Idle
  /\ status = [s \in Symbols |-> "absent"]
  /\ kline_stream = EmptyStream
  /\ lost = {}
  /\ covered = NoRows
  /\ glitch = {}
  /\ signalling = FALSE
  /\ runs = 0

-----------------------------------------------------------------------------
(* The exchange.                                                           *)

Tick ==
  /\ now < Horizon
  /\ now' = now + 1
  /\ UNCHANGED << sent, pc, ws, bf, status, kline_stream, lost, covered,
                  glitch, once >>

\* Mistake: the socket is opened only when history is there.
ConnectedAfterHistory == pc = "reading" /\ bf.at = "finished"

Connected == pc \in {"dialed", "reading"}

\* The final frame of a candle that has closed, to whoever is connected.
SendClosed(s) ==
  /\ sent[s] < now
  /\ sent' = [sent EXCEPT ![s] = @ + 1]
  /\ ws' = IF Connected THEN Append(ws, Frame(s, sent[s], TRUE)) ELSE ws
  /\ UNCHANGED << now, pc, bf, status, kline_stream, lost, covered,
                  glitch, once >>

\* An update of the candle being formed.
SendUpdate(s) ==
  /\ Connected
  /\ sent[s] = now
  /\ Len(ws) < MaxUpdates
  /\ ws' = Append(ws, Frame(s, now, FALSE))
  /\ UNCHANGED << now, sent, pc, bf, status, kline_stream, lost, covered,
                  glitch, once >>

-----------------------------------------------------------------------------
(* main().                                                                 *)

\* Redis answers, and TimescaleDB, with the status table, if its DSN is set;
\* without a DSN "backfill_status signaling is disabled".
Start ==
  /\ pc = "down"
  /\ runs < MaxRuns
  /\ pc' = "starting"
  /\ runs' = runs + 1
  /\ signalling' \in DsnSet
  /\ UNCHANGED << now, sent, ws, bf, status, kline_stream, lost, covered,
                  glitch >>

\* "Connect WebSocket FIRST so no live candle is missed".
Dial ==
  /\ pc = "starting"
  /\ pc' = "dialed"
  /\ UNCHANGED << now, sent, ws, bf, status, kline_stream, lost, covered, glitch,
                  once >>

SpawnBackfill ==
  /\ pc = "dialed"
  /\ pc' = "reading"
  /\ bf' = [Idle EXCEPT !.at = "begin", !.i = 1]
  /\ UNCHANGED << now, sent, ws, status, kline_stream, lost, covered,
                  glitch, once >>

Fault == Cardinality(lost) + Cardinality(glitch) < MaxFaults

\* An XADD that may fail; a failure is logged and the candle is gone.
Offer(c) ==
  \/ kline_stream' \in XAdd(kline_stream, c, StreamMaxLen) /\ UNCHANGED lost
  \/ Fault /\ lost' = lost \cup {c} /\ UNCHANGED kline_stream

Publishes(f) == f.closed

\* Mistake: live candles wait until all history is there.
ReadFrameAfterHistory ==
  /\ pc = "reading"
  /\ ws # <<>>
  /\ \A s \in Symbols : status[s] = "done"
  /\ ws' = Tail(ws)
  /\ IF Publishes(Head(ws))
     THEN Offer(Candle(Head(ws).symbol, Head(ws).time))
     ELSE UNCHANGED << kline_stream, lost >>
  /\ UNCHANGED << now, sent, pc, bf, status, covered, glitch, once >>

ReadFrame ==
  /\ pc = "reading"
  /\ ws # <<>>
  /\ ws' = Tail(ws)
  /\ IF Publishes(Head(ws))
     THEN Offer(Candle(Head(ws).symbol, Head(ws).time))
     ELSE UNCHANGED << kline_stream, lost >>
  /\ UNCHANGED << now, sent, pc, bf, status, covered, glitch, once >>

\* The process ends (a failed dial, a read error, a kill); its goroutines and
\* its connection end with it.
Exit ==
  /\ pc # "down"
  /\ pc' = "down"
  /\ ws' = <<>>
  /\ bf' = Idle
  /\ covered' = NoRows
  /\ UNCHANGED << now, sent, status, kline_stream, lost, glitch, once >>

-----------------------------------------------------------------------------
(* backfillHistorical().                                                   *)

Cur == Order[bf.i]

\* setBackfillStatus: an upsert whose failure is only logged; nothing if pg is nil.
SetStatus(s, v) ==
  \/ signalling /\ status' = [status EXCEPT ![s] = v] /\ UNCHANGED glitch
  \/ signalling /\ Fault /\ glitch' = glitch \cup {s} /\ UNCHANGED status
  \/ ~signalling /\ UNCHANGED << status, glitch >>

\* Mistake: a symbol is tried for ever.
SameSymbolAgain ==
  bf' = IF bf.i <= Len(Order) THEN [Idle EXCEPT !.at = "begin", !.i = bf.i]
                              ELSE [Idle EXCEPT !.at = "finished"]

\* The loop's "continue" and its normal end.
NextSymbol ==
  bf' = IF bf.i < Len(Order) THEN [Idle EXCEPT !.at = "begin", !.i = bf.i + 1]
                             ELSE [Idle EXCEPT !.at = "finished"]

\* Mistake: one candle too few.
EndTimeTooEarly == IF now > 0 THEN now - 1 ELSE now

\* "just before the current minute so every returned candle is guaranteed to
\* be closed": the candles before this one are asked for.
EndTime == now

BeginSymbol ==
  /\ bf.at = "begin"
  /\ SetStatus(Cur, "in_progress")
  /\ bf' = [bf EXCEPT !.at = "request", !.end = EndTime]
  /\ UNCHANGED << now, sent, pc, ws, kline_stream, lost, covered, once >>

\* Mistake: fewer candles than "limit" are not thought of.
FirstRowUnbounded(end) == end - Limit

FirstRow(end) == IF end > Limit THEN end - Limit ELSE 0

FetchOk ==
  /\ bf.at = "request"
  /\ bf' = [bf EXCEPT !.at = "push", !.next = FirstRow(bf.end)]
  /\ covered' = [covered EXCEPT ![Cur] = FirstRow(bf.end) .. (bf.end - 1)]
  /\ UNCHANGED << now, sent, pc, ws, status, kline_stream, lost, glitch,
                  once >>

FetchFailed ==
  /\ bf.at = "request"
  /\ bf' = [bf EXCEPT !.at = "giveup"]
  /\ UNCHANGED << now, sent, pc, ws, status, kline_stream, lost, covered,
                  glitch, once >>

\* Mistake: "continue" before the status is written.
GiveUpSilently ==
  /\ bf.at = "giveup"
  /\ NextSymbol
  /\ UNCHANGED << now, sent, pc, ws, status, kline_stream, lost, covered, glitch, once >>

GiveUp ==
  /\ bf.at = "giveup"
  /\ SetStatus(Cur, "failed")
  /\ NextSymbol
  /\ UNCHANGED << now, sent, pc, ws, kline_stream, lost, covered, once >>

\* An answer that is not JSON: "continue", and the status stays as it is.
ParseError ==
  /\ bf.at = "request"
  /\ Fault
  /\ glitch' = glitch \cup {Cur}
  /\ NextSymbol
  /\ UNCHANGED << now, sent, pc, ws, status, kline_stream, lost, covered,
                  once >>

PushRow ==
  /\ bf.at = "push"
  /\ bf.next < bf.end
  /\ Offer(Candle(Cur, bf.next))
  /\ bf' = [bf EXCEPT !.next = @ + 1]
  /\ UNCHANGED << now, sent, pc, ws, status, covered, glitch, once >>

\* Mistake: "done" as soon as there is an answer.
AnsweredIsEnough == bf.next <= bf.end

AllRowsPushed == bf.next >= bf.end

MarkDone ==
  /\ bf.at = "push"
  /\ AllRowsPushed
  /\ SetStatus(Cur, "done")
  /\ NextSymbol
  /\ UNCHANGED << now, sent, pc, ws, kline_stream, lost, covered, once >>

-----------------------------------------------------------------------------
BackfillStep == \/ BeginSymbol \/ FetchOk \/ FetchFailed \/ GiveUp \/ ParseError
                \/ PushRow \/ MarkDone
Exchange == Tick \/ \E s \in Symbols : SendClosed(s) \/ SendUpdate(s)

INext == \/ Exchange
         \/ Start \/ Dial \/ SpawnBackfill \/ ReadFrame \/ Exit
         \/ BackfillStep

\* Both goroutines are scheduled by the Go runtime and every call they make
\* returns (the HTTP client has a timeout).  Nothing forces a dead process to
\* start again, and the exchange owes us nothing.
IFairness == WF_ivars(Dial) /\ WF_ivars(SpawnBackfill) /\ WF_ivars(ReadFrame)
             /\ WF_ivars(BackfillStep)

ISpec == IInit /\ [][INext]_ivars /\ IFairness

-----------------------------------------------------------------------------
(* Properties.                                                             *)

Published == { kline_stream.log[i] : i \in 1 .. LastId(kline_stream) }
Queued    == { ws[i] : i \in 1 .. Len(ws) }
Rows      == IF bf.at = "push" THEN { Candle(Cur, t) : t \in bf.next .. (bf.end - 1) }
                               ELSE {}

\* Where a candle may be: in the stream, known to be lost (an error was logged),
\* waiting in the socket, or among the rows still to be pushed.
Accounted(c) == \/ c \in Published \cup lost \cup Rows
                \/ Frame(c.symbol, c.time, TRUE) \in Queued

\* "Connect WebSocket FIRST so no live candle is missed" (main.go:56): once a
\* symbol's history request was answered, every candle from the first row of
\* that history up to the last candle the exchange has sent is accounted for:
\* the seam between REST history and live frames has no hole, however late the
\* backfill goroutine gets to the symbol.
NoGap ==
  \A s \in Symbols : covered[s] # {} =>
    \A t \in Minutes : (t < sent[s] /\ \E r \in covered[s] : r <= t)
                          => Accounted(Candle(s, t))

\* When the goroutine has been through all symbols, a status that is still
\* in_progress or absent is the trace of a failed status write, of an unparseable
\* answer, or of a process started without a DSN; no other path leaves consumers
\* waiting (backfill.go:33-67, 134, 156-167).
SettledUnlessGlitch ==
  bf.at = "finished" /\ signalling =>
    \A s \in Symbols \ glitch : status[s] \in {"done", "failed"}

\* A status turns "done" only when all rows of an answered history request have
\* been offered to the stream.
DoneAfterHistory ==
  [][\A s \in Symbols : status[s] # "done" /\ status'[s] = "done" =>
       \A t \in covered[s] : Candle(s, t) \in Published \cup lost]_ivars

\* The backfill goroutine gets through its symbols unless the process dies:
\* a failed symbol never blocks the next ones.
BackfillEnds == bf.at # "idle" ~> bf.at \in {"idle", "finished"}

\* Live frames never pile up behind the backfill: whatever the other goroutine is
\* busy with, the socket is empty again and again, unless the process dies.
LiveDrained == []<>(ws = <<>> \/ pc = "down")
=============================================================================
