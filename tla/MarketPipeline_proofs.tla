------------------------ MODULE MarketPipeline_proofs ------------------------
(***************************************************************************)
(* Proofs about the way of market data: first ingestion's HTTP helper      *)
(* alone (RetryableGet), for any number of retries and calls, any back-off *)
(* limits and Retry-After values; then its two goroutines                  *)
(* (KlineIngestion), for any list of symbols, any limit of a request, any  *)
(* trimming of the stream and any number of restarts and faults; both      *)
(* together (IngestionProcess); and at last ingestion and any number of    *)
(* feature engineering instances over the stream they share                *)
(* (MarketPipeline), with the lemmas of FeaturePipeline_proofs.            *)
(***************************************************************************)
EXTENDS IngestionProcess, MarketPipeline, SequenceTheorems, TLAPS

-----------------------------------------------------------------------------
(* The helper.                                                             *)

\* What the place in the loop says about the counters; a call under way is one of
\* Calls.
Counted ==
  /\ at # "loop" => call <= Calls
  /\ at \in {"loop", "request"} => requests = attempt /\ result = "none"
  /\ at = "request" => attempt <= MaxRetries
  /\ at = "returned" => requests <= MaxRetries + 1
  /\ result = "exhausted" => requests = MaxRetries + 1

\* The next sleep covers what a heeded answer asked for.
Covered == at = "loop" /\ attempt > 0 /\ Heeded => asked <= backoff

RInv == TypeOK /\ Counted /\ Covered /\ RetryAfterHonoured /\ WaitsBounded

-----------------------------------------------------------------------------
\* nextBackoff stays between its limits, whatever it starts from, and at the upper
\* one once it is there.
LEMMA NextBackoffBounds ==
  ASSUME NEW d \in Nat
  PROVE  /\ NextBackoff(d) \in Nat
         /\ InitialBackoff <= NextBackoff(d) /\ NextBackoff(d) <= MaxBackoff
         /\ NextBackoff(MaxBackoff) = MaxBackoff
  BY RetryAssumption DEF NextBackoff, Doubled

\* The back-off after an answer: at least what a heeded header asks for, or within the
\* limits.
LEMMA BackoffAfterBounds ==
  ASSUME backoff \in Nat, NEW answer \in Answers, NEW header \in Headers
  PROVE  LET b == BackoffAfter(answer, header)
             heeded == answer \in {"throttled", "banned"} /\ header.seconds
         IN  /\ b \in Nat /\ header.wait \in Nat
             /\ heeded => header.wait <= b
             /\ ~heeded => /\ InitialBackoff <= b /\ b <= MaxBackoff
                           /\ answer = "banned" => b = MaxBackoff
  <1>1. header.wait \in Nat
    <2>1. CASE header \in [wait : RetryAfters, seconds : BOOLEAN]
      <3>1. header.wait \in RetryAfters
        BY <2>1
      <3> QED
        BY <3>1, RetryAssumption
    <2>2. CASE header = None
      BY <2>2 DEF None
    <2> QED
      BY <2>1, <2>2 DEF Headers
  <1>2. MaxBackoff \in Nat
    BY RetryAssumption
  <1>3. CASE answer = "throttled"
    BY <1>1, <1>3, NextBackoffBounds DEF BackoffAfter, RetryAfterOrBackoff
  <1>4. CASE answer = "banned"
    BY <1>1, <1>2, <1>4, NextBackoffBounds DEF BackoffAfter, RetryAfterOrBackoff
  <1>5. CASE answer \notin {"throttled", "banned"}
    BY <1>1, <1>5, NextBackoffBounds DEF BackoffAfter
  <1>6. QED
    BY <1>3, <1>4, <1>5

-----------------------------------------------------------------------------
LEMMA HelperInit == Init => RInv
  BY RetryAssumption
     DEF Init, RInv, TypeOK, Headers, None, Counted, Covered, Heeded, RetryAfterHonoured,
         WaitsBounded

LEMMA HelperStep == RInv /\ [Next]_vars => RInv'
  <1> SUFFICES ASSUME RInv, [Next]_vars
               PROVE  RInv'
    OBVIOUS
  <1> USE RetryAssumption
  <1>0. None \in Headers /\ ~None.seconds
    BY DEF None, Headers
  <1>1. CASE Iterate
    BY <1>1 DEF Iterate, MayTry, Quiet, RInv, TypeOK, Counted, Covered, Heeded,
                RetryAfterHonoured, WaitsBounded
  <1>2. CASE Exhausted
    <2>1. /\ at = "loop" /\ at' = "returned" /\ result' = "exhausted" /\ heard' = None
          /\ attempt' = 0 /\ backoff' = InitialBackoff /\ asked' = 0
          /\ call <= Calls /\ ~(attempt <= MaxRetries)
          /\ UNCHANGED << call, last, requests >>
      BY <1>2 DEF Exhausted, Return, MayTry
    <2>2. RInv /\ requests = attempt /\ attempt \in 0 .. MaxRetries + 1
      BY <2>1 DEF RInv, TypeOK, Counted
    <2>3. QED
      BY <1>0, <2>1, <2>2 DEF RInv, TypeOK, Counted, Covered, RetryAfterHonoured, WaitsBounded
  <1>3. CASE Request
    <2>1. PICK answer \in Answers, header \in Headers :
             /\ last' = answer
             /\ IF answer \in DOMAIN Returns
                THEN Return(Returns[answer])
                ELSE /\ at' = "loop" /\ attempt' = attempt + 1
                     /\ backoff' = BackoffAfter(answer, header)
                     /\ heard' = header /\ asked' = header.wait
                     /\ UNCHANGED result
      BY <1>3 DEF Request
    <2>2. /\ at = "request" /\ requests' = requests + 1 /\ call' = call
          /\ requests = attempt /\ attempt \in 0 .. MaxRetries
          /\ result = "none" /\ backoff \in Nat /\ call \in 1 .. Calls
      BY <1>3 DEF Request, RInv, TypeOK, Counted
    <2>3. CASE answer \in DOMAIN Returns
      <3>1. answer \in {"ok", "rejected"} /\ Returns[answer] = answer
        BY <2>3 DEF Returns
      <3>2. /\ at' = "returned" /\ result' = answer /\ heard' = None
            /\ attempt' = 0 /\ backoff' = InitialBackoff /\ asked' = 0
        BY <2>1, <2>3, <3>1 DEF Return
      <3>3. QED
        BY <1>0, <2>1, <2>2, <3>1, <3>2
           DEF RInv, TypeOK, Counted, Covered, RetryAfterHonoured, WaitsBounded, Answers
    <2>4. CASE answer \notin DOMAIN Returns
      <3>1. /\ at' = "loop" /\ attempt' = attempt + 1 /\ result' = result
            /\ answer \notin {"ok", "rejected"} /\ last' = answer
            /\ heard' = header /\ asked' = header.wait
        BY <2>1, <2>4 DEF Returns
      <3>2. /\ backoff' \in Nat /\ header.wait \in Nat
            /\ Heeded' => header.wait <= backoff'
            /\ ~Heeded' => /\ InitialBackoff <= backoff' /\ backoff' <= MaxBackoff
                           /\ answer = "banned" => backoff' = MaxBackoff
        BY <2>1, <2>2, <2>4, <3>1, BackoffAfterBounds DEF Heeded
      <3>3. QED
        BY <2>2, <3>1, <3>2
           DEF RInv, TypeOK, Counted, Covered, RetryAfterHonoured, WaitsBounded
    <2>5. QED
      BY <2>3, <2>4
  <1>4. CASE NextCall
    BY <1>0, <1>4 DEF NextCall, Fresh, RInv, TypeOK, Counted, Covered,
                RetryAfterHonoured, WaitsBounded
  <1>5. CASE UNCHANGED vars
    BY <1>5 DEF vars, RInv, TypeOK, Counted, Covered, Heeded, RetryAfterHonoured, WaitsBounded
  <1>6. QED
    BY <1>1, <1>2, <1>3, <1>4, <1>5 DEF Next

\* The helper's state stays within its types and its place in the loop counts its
\* requests.
THEOREM HelperInvariant == Spec => []RInv
  BY HelperInit, HelperStep, PTL DEF Spec

\* Types hold of every run (httpclient.go:36-53).
THEOREM TypesHold == Spec => []TypeOK
  <1>1. RInv => TypeOK
    BY DEF RInv
  <1>2. QED
    BY <1>1, HelperInvariant, PTL

\* No call makes more than one request and MaxRetries retries, and none gives up
\* before it has made them all (httpclient.go:43-105).
THEOREM RequestsAreBounded == Spec => []RequestsBounded
  <1>1. RInv => RequestsBounded
    BY RetryAssumption DEF RInv, TypeOK, Counted, RequestsBounded
  <1>2. QED
    BY <1>1, HelperInvariant, PTL

\* Within a call no request follows an answer 429, 503, 418 or 403 whose Retry-After is a
\* number of seconds before these are over, however many they are and whatever the
\* answers before asked for (httpclient.go:74-82, 108-117).
THEOREM RetryAfterIsHonoured == Spec => []RetryAfterHonoured
  <1>1. RInv => RetryAfterHonoured
    BY DEF RInv
  <1>2. QED
    BY <1>1, HelperInvariant, PTL

\* After any other answer that is tried again, every wait is between the initial back-off
\* and the cap (httpclient.go:84-97, 119-126).
THEOREM WaitsAreBounded == Spec => []WaitsBounded
  <1>1. RInv => WaitsBounded
    BY DEF RInv
  <1>2. QED
    BY <1>1, HelperInvariant, PTL

-----------------------------------------------------------------------------
(* The goroutines: the inductive invariant.                                *)

\* The exchange sends a candle when it has closed.
SentInTime == \A s \in Symbols : sent[s] <= now

\* Before the goroutine is started there is nothing of it.
Started == pc # "reading" => bf.at = "idle" /\ covered = NoRows

\* At a symbol the goroutine is at one of Order.
AtSymbol == bf.at \notin {"idle", "finished"} => bf.i \in 1 .. Len(Order)

\* A candle that was live: added to the stream, lost, or still to be read.
Dealt == Published \cup lost
Live(c) == c \in Dealt \/ Frame(c.symbol, c.time, TRUE) \in Queued

\* What closes after a symbol's request got its end time comes by the socket.
Seam ==
  bf.at \in {"request", "push"} =>
    \A t \in Minutes : bf.end <= t /\ t < sent[Cur] => Live(Candle(Cur, t))

\* The rows of an answer are pushed in order.
Pushed ==
  bf.at = "push" =>
    /\ covered[Cur] = FirstRow(bf.end) .. (bf.end - 1)
    /\ \A t \in covered[Cur] : t < bf.next => Candle(Cur, t) \in Dealt

\* The symbols the goroutine has left behind are settled, where statuses are written.
Settled(s) == ~signalling \/ s \in glitch \/ status[s] \in {"done", "failed"}
Walked ==
  /\ bf.at \notin {"idle", "finished"} =>
       \A j \in 1 .. (bf.i - 1) : Settled(Order[j]) \/ (bf.at # "begin" /\ Order[j] = Cur)
  /\ bf.at = "finished" => \A s \in Symbols : Settled(s)

KInv == /\ ITypeOK /\ SentInTime /\ Started /\ AtSymbol
        /\ Seam /\ Pushed /\ Walked /\ NoGap

-----------------------------------------------------------------------------
\* The members of a sequence to which one is appended, and of one that loses its first.
LEMMA MembersOfAppend ==
  ASSUME NEW S, NEW q \in Seq(S), NEW e \in S
  PROVE  { Append(q, e)[i] : i \in 1 .. Len(Append(q, e)) } = { q[i] : i \in 1 .. Len(q) } \cup {e}
PROOF
<1> DEFINE a == Append(q, e)
<1>1. /\ Len(q) \in Nat /\ Len(a) = Len(q) + 1
      /\ \A i \in 1 .. Len(q) : a[i] = q[i]
      /\ a[Len(q) + 1] = e
  BY AppendProperties
<1> HIDE DEF a
<1>2. 1 .. Len(a) = (1 .. Len(q)) \cup {Len(q) + 1}
  BY <1>1
<1>3. { a[i] : i \in 1 .. Len(a) } = { a[i] : i \in 1 .. Len(q) } \cup {a[Len(q) + 1]}
  BY <1>2
<1>4. { a[i] : i \in 1 .. Len(q) } = { q[i] : i \in 1 .. Len(q) }
  BY <1>1
<1> QED
  BY <1>1, <1>3, <1>4 DEF a

LEMMA MembersOfTail ==
  ASSUME NEW S, NEW q \in Seq(S), q # << >>
  PROVE  { q[i] : i \in 1 .. Len(q) } = {Head(q)} \cup { Tail(q)[i] : i \in 1 .. Len(Tail(q)) }
PROOF
<1> DEFINE t == Tail(q)
<1>1. /\ Len(q) \in Nat \ {0} /\ Len(t) = Len(q) - 1
      /\ \A i \in 1 .. Len(t) : t[i] = q[i + 1]
      /\ Head(q) = q[1]
  BY HeadTailProperties
<1> HIDE DEF t
<1>2. ASSUME NEW x \in { q[i] : i \in 1 .. Len(q) }, x # q[1]
      PROVE  x \in { t[i] : i \in 1 .. Len(t) }
  <2>1. PICK i \in 1 .. Len(q) : x = q[i]
    BY <1>2
  <2>2. i # 1
    BY <1>2, <2>1
  <2>3. i - 1 \in 1 .. Len(t) /\ (i - 1) + 1 = i
    BY <1>1, <2>2
  <2>4. x = t[i - 1]
    BY <1>1, <2>1, <2>3
  <2> QED
    BY <2>3, <2>4
<1>3. \A i \in 1 .. Len(t) : i + 1 \in 1 .. Len(q)
  BY <1>1
<1>4. { t[i] : i \in 1 .. Len(t) } \subseteq { q[i] : i \in 1 .. Len(q) }
  BY <1>1, <1>3
<1>5. q[1] \in { q[i] : i \in 1 .. Len(q) }
  BY <1>1
<1> QED
  BY <1>1, <1>2, <1>4, <1>5 DEF t

\* XADD appends, whatever it trims.
LEMMA XAddAppends ==
  ASSUME NEW S, NEW st, st.log \in Seq(S), st.first \in Nat \ {0}, NEW e \in S, NEW n \in Nat,
         NEW new \in XAdd(st, e, n)
  PROVE  /\ new.log = Append(st.log, e) /\ new.log \in Seq(S)
         /\ new.first \in Nat \ {0} /\ st.first <= new.first
PROOF
<1>1. PICK f \in st.first .. (LastId(st) + 1) : new = [log |-> Append(st.log, e), first |-> f]
  BY DEF XAdd
<1>2. LastId(st) \in Nat
  BY DEF LastId
<1>3. f \in Nat \ {0} /\ st.first <= f
  BY <1>2
<1>4. new.log = Append(st.log, e) /\ new.first = f
  BY <1>1
<1>5. Append(st.log, e) \in Seq(S)
  BY AppendProperties
<1> QED
  BY <1>3, <1>4, <1>5

\* A candle that is offered is in the stream or lost, and nothing is taken back.
LEMMA OfferDeals ==
  ASSUME ITypeOK, NEW c \in Candles, Offer(c)
  PROVE  /\ kline_stream'.log \in Seq(Candles) /\ kline_stream'.first \in Nat \ {0}
         /\ lost' \subseteq Candles
         /\ Dealt \subseteq Dealt' /\ c \in Dealt'
PROOF
<1>1. CASE kline_stream' \in XAdd(kline_stream, c, StreamMaxLen) /\ UNCHANGED lost
  <2>1. /\ kline_stream'.log = Append(kline_stream.log, c)
        /\ kline_stream'.log \in Seq(Candles) /\ kline_stream'.first \in Nat \ {0}
    <3>1. /\ kline_stream.log \in Seq(Candles) /\ kline_stream.first \in Nat \ {0}
          /\ StreamMaxLen \in Nat /\ kline_stream' \in XAdd(kline_stream, c, StreamMaxLen)
      BY <1>1, IngestionAssumption DEF ITypeOK
    <3> QED
      BY <3>1, XAddAppends
  <2>2. Published' = Published \cup {c}
    BY <2>1, MembersOfAppend DEF ITypeOK, Published, LastId
  <2> QED
    BY <1>1, <2>1, <2>2 DEF ITypeOK, Dealt
<1>2. CASE Fault /\ lost' = lost \cup {c} /\ UNCHANGED kline_stream
  BY <1>2 DEF ITypeOK, Dealt, Published, LastId
<1> QED
  BY <1>1, <1>2 DEF Offer

\* Which rows are still to be pushed.
LEMMA RowsOf ==
  ASSUME NEW s, NEW t
  PROVE  Candle(s, t) \in Rows <=> bf.at = "push" /\ s = Cur /\ t \in bf.next .. (bf.end - 1)
BY DEF Rows, Candle

LEMMA AccountedOf ==
  ASSUME NEW s, NEW t
  PROVE  Accounted(Candle(s, t)) <=> Live(Candle(s, t)) \/ Candle(s, t) \in Rows
BY DEF Accounted, Live, Dealt

\* A step that leaves socket and stream alone leaves the live candles where they are.
LEMMA LiveUnchanged ==
  ASSUME UNCHANGED << ws, kline_stream, lost >>
  PROVE  Dealt' = Dealt /\ Queued' = Queued /\ \A c : Live(c)' <=> Live(c)
BY DEF Dealt, Published, LastId, Queued, Live

-----------------------------------------------------------------------------
LEMMA InitEstablishes == IInit => KInv
PROOF
<1> SUFFICES ASSUME IInit PROVE KInv
  OBVIOUS
<1> USE DEF IInit
<1>1. ITypeOK
  <2>1. 0 \in Minutes /\ 0 \in 0 .. MaxRuns /\ 0 \in 0 .. Len(Order)
    BY IngestionAssumption DEF Minutes
  <2>2. kline_stream.log \in Seq(Candles) /\ kline_stream.first \in Nat \ {0}
    BY DEF EmptyStream
  <2>3. signalling \in BOOLEAN
    OBVIOUS
  <2> QED
    BY <2>1, <2>2, <2>3 DEF ITypeOK, Idle, Backfill, NoRows
<1>2. SentInTime /\ Started
  BY DEF SentInTime, Started, Idle
<1>3. AtSymbol /\ Seam /\ Pushed /\ Walked
  BY DEF AtSymbol, Seam, Pushed, Walked, Idle
<1>4. NoGap
  BY DEF NoGap, NoRows
<1> QED
  BY <1>1, <1>2, <1>3, <1>4 DEF KInv

\* Time, and the steps up to the dial.
LEMMA OutsideKeeps == KInv /\ (Tick \/ Start \/ Dial) => KInv'
PROOF
<1> SUFFICES ASSUME KInv, Tick \/ Start \/ Dial PROVE KInv'
  OBVIOUS
<1> USE DEF KInv
<1>1. UNCHANGED << sent, ws, bf, status, kline_stream, lost, covered, glitch >>
  BY DEF Tick, Start, Dial
<1>2. now \in Nat /\ now' \in Minutes /\ now <= now' /\ runs' \in 0 .. MaxRuns
      /\ signalling' \in BOOLEAN
      /\ pc' \in {"down", "starting", "dialed", "reading"} /\ (pc' # "reading" => pc # "reading")
  BY IngestionAssumption DEF once, Tick, Start, Dial, ITypeOK, Minutes
<1>3. \A s \in Symbols : sent[s] \in Nat
  BY IngestionAssumption DEF ITypeOK, Minutes
<1>4. ITypeOK'
  BY <1>1, <1>2 DEF ITypeOK
<1>5. SentInTime'
  BY <1>1, <1>2, <1>3 DEF SentInTime, ITypeOK, Minutes
<1>6. Started'
  BY <1>1, <1>2 DEF Started
<1>7. \A c : Live(c)' <=> Live(c)
  BY <1>1, LiveUnchanged
<1>8. Dealt' = Dealt /\ Rows' = Rows /\ Cur' = Cur
  BY <1>1, LiveUnchanged DEF Rows, Cur
<1>9. AtSymbol' /\ Seam' /\ Pushed' /\ Walked'
  <2>1. Start => bf.at = "idle"
    BY DEF Start, Started
  <2>2. ~Start => signalling' = signalling
    BY DEF Tick, Dial, once
  <2>3. Walked'
    BY <1>1, <2>1, <2>2 DEF Walked, Settled, Cur
  <2> QED
    BY <1>1, <1>7, <1>8, <2>3 DEF AtSymbol, Seam, Pushed
<1>10. NoGap'
  BY <1>1, <1>7, <1>8, AccountedOf DEF NoGap, Accounted, Live, Dealt
<1> QED
  BY <1>4, <1>5, <1>6, <1>9, <1>10

LEMMA SpawnKeeps == KInv /\ SpawnBackfill => KInv'
PROOF
<1> SUFFICES ASSUME KInv, SpawnBackfill PROVE KInv'
  OBVIOUS
<1> USE DEF KInv
<1>1. UNCHANGED << now, sent, ws, status, kline_stream, lost, covered, glitch, signalling, runs >>
  BY DEF once, SpawnBackfill
<1>2. bf' = [at |-> "begin", i |-> 1, next |-> 0, end |-> 0] /\ pc' = "reading"
  BY DEF SpawnBackfill, Idle
<1>3. Len(Order) \in Nat \ {0}
  BY IngestionAssumption
<1>4. bf' \in Backfill
  BY <1>2, <1>3, IngestionAssumption DEF Backfill, Minutes
<1>5. covered = NoRows
  BY DEF Started, SpawnBackfill
<1>6. ITypeOK' /\ SentInTime' /\ Started'
  BY <1>1, <1>2, <1>4 DEF ITypeOK, SentInTime, Started
<1>7. AtSymbol' /\ Seam' /\ Pushed' /\ Walked'
  BY <1>2, <1>3 DEF AtSymbol, Seam, Pushed, Walked
<1>8. NoGap'
  BY <1>1, <1>5 DEF NoGap, NoRows
<1> QED
  BY <1>6, <1>7, <1>8

\* The process ends, and what it had fetched is no longer owed.
LEMMA ExitKeeps == KInv /\ Exit => KInv'
PROOF
<1> SUFFICES ASSUME KInv, Exit PROVE KInv'
  OBVIOUS
<1> USE DEF KInv
<1>1. UNCHANGED << now, sent, status, kline_stream, lost, glitch, signalling, runs >>
  BY DEF once, Exit
<1>2. /\ pc' = "down" /\ ws' = << >> /\ covered' = NoRows
      /\ bf' = [at |-> "idle", i |-> 0, next |-> 0, end |-> 0]
  BY DEF Exit, Idle
<1>3. bf' \in Backfill /\ covered' \in [Symbols -> SUBSET Minutes] /\ ws' \in Seq(Frames)
  BY <1>2, IngestionAssumption DEF Backfill, Minutes, NoRows
<1>4. ITypeOK' /\ SentInTime' /\ Started'
  BY <1>1, <1>2, <1>3 DEF ITypeOK, SentInTime, Started
<1>5. AtSymbol' /\ Seam' /\ Pushed' /\ Walked'
  BY <1>2 DEF AtSymbol, Seam, Pushed, Walked
<1>6. NoGap'
  BY <1>2 DEF NoGap, NoRows
<1> QED
  BY <1>4, <1>5, <1>6

\* One more frame in the socket.
LEMMA FrameQueued ==
  ASSUME ws \in Seq(Frames), NEW f \in Frames, ws' = Append(ws, f),
         UNCHANGED << kline_stream, lost >>
  PROVE  /\ ws' \in Seq(Frames) /\ Dealt' = Dealt /\ Queued' = Queued \cup {f}
         /\ \A c : Live(c) => Live(c)'
PROOF
<1>1. Dealt' = Dealt
  BY DEF Dealt, Published, LastId
<1>2. Queued' = Queued \cup {f}
  BY MembersOfAppend DEF Queued
<1>3. ws' \in Seq(Frames)
  BY AppendProperties
<1> QED
  BY <1>1, <1>2, <1>3 DEF Live

LEMMA SendUpdateKeeps == ASSUME NEW s \in Symbols PROVE KInv /\ SendUpdate(s) => KInv'
PROOF
<1> SUFFICES ASSUME KInv, SendUpdate(s) PROVE KInv'
  OBVIOUS
<1> USE DEF KInv
<1>1. /\ UNCHANGED << now, sent, pc, bf, status, kline_stream, lost, covered, glitch,
                      signalling, runs >>
      /\ ws' = Append(ws, Frame(s, now, FALSE))
  BY DEF once, SendUpdate
<1>2. Frame(s, now, FALSE) \in Frames
  BY DEF Frame, Frames, ITypeOK
<1>3. ws' \in Seq(Frames) /\ Dealt' = Dealt /\ \A c : Live(c) => Live(c)'
  BY <1>1, <1>2, FrameQueued DEF ITypeOK
<1>4. Rows' = Rows /\ Cur' = Cur
  BY <1>1 DEF Rows, Cur
<1>5. ITypeOK' /\ SentInTime' /\ Started' /\ AtSymbol'
  BY <1>1, <1>3 DEF ITypeOK, SentInTime, Started, AtSymbol
<1>6. Seam' /\ Pushed' /\ Walked'
  BY <1>1, <1>3, <1>4 DEF Seam, Pushed, Walked, Settled
<1>7. NoGap'
  BY <1>1, <1>3, <1>4, AccountedOf DEF NoGap, Accounted, Live, Dealt
<1> QED
  BY <1>5, <1>6, <1>7

\* Where somebody is interested in a candle that closes, the socket is open.
LEMMA SendClosedKeeps == ASSUME NEW s \in Symbols PROVE KInv /\ SendClosed(s) => KInv'
PROOF
<1> SUFFICES ASSUME KInv, SendClosed(s) PROVE KInv'
  OBVIOUS
<1> USE DEF KInv
<1> DEFINE f == Frame(s, sent[s], TRUE)
<1>1. UNCHANGED << now, pc, bf, status, kline_stream, lost, covered, glitch, signalling, runs >>
  BY DEF once, SendClosed
<1>2. /\ sent' = [sent EXCEPT ![s] = @ + 1] /\ sent[s] < now
      /\ ws' = IF Connected THEN Append(ws, f) ELSE ws
  BY DEF SendClosed
<1>3. /\ now \in Nat /\ now <= Horizon /\ Horizon \in Nat
      /\ \A q \in Symbols : sent[q] \in Nat /\ sent[q] <= Horizon
  BY IngestionAssumption DEF ITypeOK, Minutes
<1>4. /\ sent' \in [Symbols -> Minutes] /\ sent'[s] = sent[s] + 1
      /\ \A q \in Symbols \ {s} : sent'[q] = sent[q]
  BY <1>2, <1>3 DEF ITypeOK, Minutes
<1>5. f \in Frames
  BY DEF Frame, Frames, ITypeOK
<1>6. /\ ws' \in Seq(Frames) /\ Dealt' = Dealt
      /\ \A c : Live(c) => Live(c)'
      /\ Connected => f \in Queued'
  <2>1. CASE Connected
    BY <1>1, <1>2, <1>5, <2>1, FrameQueued DEF ITypeOK
  <2>2. CASE ~Connected
    BY <1>1, <1>2, <2>2, LiveUnchanged DEF ITypeOK
  <2> QED
    BY <2>1, <2>2
<1>7. Rows' = Rows /\ Cur' = Cur
  BY <1>1 DEF Rows, Cur
<1>8. ITypeOK' /\ Started' /\ AtSymbol'
  BY <1>1, <1>4, <1>6 DEF ITypeOK, Started, AtSymbol
<1>9. SentInTime'
  BY <1>1, <1>2, <1>3, <1>4 DEF SentInTime
<1>10. Pushed' /\ Walked'
  BY <1>1, <1>6, <1>7 DEF Pushed, Walked, Settled
<1>11. ASSUME Connected, NEW q \in Symbols, NEW t \in Minutes, t < sent'[q]
       PROVE  t < sent[q] \/ Live(Candle(q, t))'
  <2>1. CASE q = s
    <3>1. t < sent[s] \/ t = sent[s]
      BY <1>3, <1>4, <1>11, <2>1 DEF Minutes
    <3>2. t = sent[s] => Live(Candle(q, t))'
      BY <1>6, <1>11, <2>1 DEF Live, Candle
    <3> QED
      BY <2>1, <3>1, <3>2
  <2>2. CASE q # s
    BY <1>4, <1>11, <2>2
  <2> QED
    BY <2>1, <2>2
<1>12. Seam'
  <2>1. SUFFICES ASSUME bf.at \in {"request", "push"}, NEW t \in Minutes,
                        bf.end <= t, t < sent'[Cur]
                 PROVE  Live(Candle(Cur, t))'
    BY <1>1, <1>7 DEF Seam
  <2>2. Connected
    BY <2>1 DEF Connected, Started
  <2>3. PICK q \in Symbols : q = Cur
    BY <2>1, IngestionAssumption DEF AtSymbol, Cur, Symbols
  <2>4. t < sent[q] \/ Live(Candle(q, t))'
    BY <1>7, <1>11, <2>1, <2>2, <2>3
  <2>5. t < sent[q] => Live(Candle(q, t))
    BY <2>1, <2>3 DEF Seam
  <2>6. Live(Candle(q, t))'
    BY <1>6, <2>4, <2>5
  <2> QED
    BY <1>7, <2>3, <2>6
<1>13. NoGap'
  <2>1. SUFFICES ASSUME NEW q \in Symbols, covered[q] # {}, NEW t \in Minutes,
                        t < sent'[q], \E r \in covered[q] : r <= t
                 PROVE  Accounted(Candle(q, t))'
    BY <1>1 DEF NoGap
  <2>2. Connected
    BY <2>1 DEF Connected, Started, NoRows
  <2>3. CASE Live(Candle(q, t))'
    BY <2>3 DEF Accounted, Live, Dealt
  <2>4. CASE t < sent[q]
    <3>1. Live(Candle(q, t)) \/ Candle(q, t) \in Rows
      BY <2>1, <2>4, AccountedOf DEF NoGap
    <3>2. Live(Candle(q, t))' \/ Candle(q, t) \in Rows'
      BY <1>6, <1>7, <3>1
    <3> QED
      BY <3>2 DEF Accounted, Live, Dealt
  <2> QED
    BY <1>11, <2>1, <2>2, <2>3, <2>4
<1> QED
  BY <1>8, <1>9, <1>10, <1>12, <1>13

\* A frame is read: what was closed goes to the stream.
LEMMA ReadFrameKeeps == KInv /\ ReadFrame => KInv'
PROOF
<1> SUFFICES ASSUME KInv, ReadFrame PROVE KInv'
  OBVIOUS
<1> USE DEF KInv
<1> DEFINE h == Head(ws)
<1>1. /\ UNCHANGED << now, sent, pc, bf, status, covered, glitch, signalling, runs >>
      /\ ws \in Seq(Frames) /\ ws # << >> /\ ws' = Tail(ws)
  BY DEF once, ReadFrame, ITypeOK
<1>2. ws' \in Seq(Frames) /\ h \in Frames
  BY <1>1, HeadTailProperties
<1>3. Queued = {h} \cup Queued'
  <2>1. { ws[i] : i \in 1 .. Len(ws) } = {h} \cup { Tail(ws)[i] : i \in 1 .. Len(Tail(ws)) }
    BY <1>1, MembersOfTail
  <2> QED
    BY <1>1, <2>1 DEF Queued
<1>4. /\ kline_stream'.log \in Seq(Candles) /\ kline_stream'.first \in Nat \ {0}
      /\ lost' \subseteq Candles /\ Dealt \subseteq Dealt'
      /\ h.closed => Candle(h.symbol, h.time) \in Dealt'
  <2>1. CASE h.closed
    <3>1. Candle(h.symbol, h.time) \in Candles
      BY <1>2 DEF Candle, Candles, Frames
    <3>2. Offer(Candle(h.symbol, h.time))
      BY <2>1 DEF ReadFrame, Publishes
    <3> QED
      BY <3>1, <3>2, OfferDeals
  <2>2. CASE ~h.closed
    <3>1. UNCHANGED << kline_stream, lost >>
      BY <2>2 DEF ReadFrame, Publishes
    <3> QED
      BY <2>2, <3>1 DEF ITypeOK, Dealt, Published, LastId
  <2> QED
    BY <2>1, <2>2
<1>5. \A q, t : Live(Candle(q, t)) => Live(Candle(q, t))'
  <2>1. SUFFICES ASSUME NEW q, NEW t, Live(Candle(q, t)) PROVE Live(Candle(q, t))'
    OBVIOUS
  <2>2. CASE Frame(q, t, TRUE) = h
    <3>1. h.closed /\ Candle(h.symbol, h.time) = Candle(q, t)
      BY <2>2 DEF Frame
    <3> QED
      BY <1>4, <3>1 DEF Live
  <2>3. CASE Frame(q, t, TRUE) # h
    BY <1>3, <1>4, <2>1, <2>3 DEF Live, Candle
  <2> QED
    BY <2>2, <2>3
<1>6. Rows' = Rows /\ Cur' = Cur
  BY <1>1 DEF Rows, Cur
<1>7. ITypeOK' /\ SentInTime' /\ Started' /\ AtSymbol'
  BY <1>1, <1>2, <1>4 DEF ITypeOK, SentInTime, Started, AtSymbol
<1>8. Seam' /\ Walked'
  BY <1>1, <1>5, <1>6 DEF Seam, Walked, Settled
<1>9. Pushed'
  BY <1>1, <1>4, <1>6 DEF Pushed
<1>10. NoGap'
  <2>1. SUFFICES ASSUME NEW q \in Symbols, covered[q] # {}, NEW t \in Minutes,
                        t < sent[q], \E r \in covered[q] : r <= t
                 PROVE  Accounted(Candle(q, t))'
    BY <1>1 DEF NoGap
  <2>2. Live(Candle(q, t)) \/ Candle(q, t) \in Rows
    BY <2>1, AccountedOf DEF NoGap
  <2>3. Live(Candle(q, t))' \/ Candle(q, t) \in Rows'
    BY <1>5, <1>6, <2>2
  <2> QED
    BY <2>3 DEF Accounted, Live, Dealt
<1> QED
  BY <1>7, <1>8, <1>9, <1>10

-----------------------------------------------------------------------------
\* A status write says what it says, or leaves a trace in glitch.
LEMMA StatusWritten ==
  ASSUME ITypeOK, NEW s \in Symbols, NEW v \in {"in_progress", "failed", "done"}, SetStatus(s, v),
         signalling' = signalling
  PROVE  /\ status' \in [Symbols -> {"absent", "in_progress", "failed", "done"}]
         /\ glitch' \subseteq Symbols
         /\ \A q \in Symbols \ {s} : Settled(q) => Settled(q)'
         /\ v \in {"failed", "done"} => Settled(s)'
         /\ \A q \in Symbols : status'[q] = "done" => status[q] = "done" \/ (q = s /\ v = "done")
PROOF
<1>1. CASE status' = [status EXCEPT ![s] = v] /\ UNCHANGED glitch
  BY <1>1 DEF ITypeOK, Settled
<1>2. CASE glitch' = glitch \cup {s} /\ UNCHANGED status
  BY <1>2 DEF ITypeOK, Settled
<1>3. CASE ~signalling /\ UNCHANGED << status, glitch >>
  BY <1>3 DEF ITypeOK, Settled
<1> QED
  BY <1>1, <1>2, <1>3 DEF SetStatus

\* Between two requests: what the steps that move neither rows nor frames have in common.
LEMMA GoroutineMoves ==
  ASSUME KInv,
         UNCHANGED << now, sent, pc, ws, kline_stream, lost, covered, signalling, runs >>,
         pc = "reading", bf' \in Backfill, Rows = {}, bf'.at # "push",
         status' \in [Symbols -> {"absent", "in_progress", "failed", "done"}],
         glitch' \subseteq Symbols,
         bf'.at \notin {"idle", "finished"} => bf'.i \in 1 .. Len(Order),
         Seam', Walked'
  PROVE  KInv'
PROOF
<1> USE DEF KInv
<1>1. Dealt' = Dealt /\ Queued' = Queued /\ \A c : Live(c)' <=> Live(c)
  BY LiveUnchanged
<1>2. Rows' = {}
  BY DEF once, Rows
<1>3. ITypeOK' /\ SentInTime' /\ Started' /\ AtSymbol' /\ Pushed'
  BY DEF ITypeOK, SentInTime, Started, AtSymbol, Pushed
<1>4. NoGap'
  <2>1. SUFFICES ASSUME NEW q \in Symbols, covered[q] # {}, NEW t \in Minutes,
                        t < sent[q], \E r \in covered[q] : r <= t
                 PROVE  Accounted(Candle(q, t))'
    BY DEF NoGap
  <2>2. Live(Candle(q, t))
    BY <2>1, AccountedOf DEF NoGap
  <2> QED
    BY <1>1, <2>2 DEF Accounted, Live, Dealt
<1> QED
  BY <1>3, <1>4

\* The goroutine runs only in a process that reads, and is at one of its symbols.
LEMMA AtOne ==
  ASSUME KInv, bf.at \notin {"idle", "finished"}
  PROVE  /\ pc = "reading" /\ bf.i \in 1 .. Len(Order) /\ Len(Order) \in Nat
         /\ bf.i \in Nat /\ Cur \in Symbols
         /\ bf.next \in Nat /\ bf.end \in Nat /\ bf.end <= Horizon /\ Horizon \in Nat
PROOF
<1>1. Len(Order) \in Nat /\ Horizon \in Nat
  BY IngestionAssumption
<1>2. pc = "reading" /\ bf.i \in 1 .. Len(Order)
  BY DEF KInv, Started, AtSymbol
<1>3. Cur \in Symbols
  BY <1>2 DEF Cur, Symbols
<1> QED
  BY <1>1, <1>2, <1>3 DEF KInv, ITypeOK, Backfill, Minutes

\* The end of a symbol: it is settled, with those before.
LEMMA NextSymbolWalks ==
  ASSUME KInv, bf.at \notin {"idle", "finished", "begin"}, NextSymbol,
         NEW s \in Symbols, s = Cur,
         \A q \in Symbols \ {s} : Settled(q) => Settled(q)',
         Settled(s)'
  PROVE  /\ bf' \in Backfill /\ bf'.at \in {"begin", "finished"}
         /\ bf'.at = "begin" => bf'.i \in 1 .. Len(Order)
         /\ Walked' /\ Seam'
PROOF
<1>1. /\ bf.i \in 1 .. Len(Order) /\ Len(Order) \in Nat /\ Cur \in Symbols
  BY AtOne
<1>2. 0 \in Minutes
  BY IngestionAssumption DEF Minutes
<1>3. \A j \in 1 .. bf.i : Settled(Order[j])'
  <2>1. SUFFICES ASSUME NEW j \in 1 .. bf.i PROVE Settled(Order[j])'
    OBVIOUS
  <2>2. Order[j] \in Symbols
    BY <1>1 DEF Symbols
  <2>3. CASE Order[j] = s
    BY <2>3
  <2>4. CASE Order[j] # s
    <3>1. j \in 1 .. (bf.i - 1)
      BY <1>1, <2>4 DEF Cur
    <3>2. Settled(Order[j])
      BY <2>4, <3>1 DEF KInv, Walked
    <3> QED
      BY <2>2, <2>4, <3>2
  <2> QED
    BY <2>3, <2>4
<1>4. CASE bf.i < Len(Order)
  <2>1. bf' = [at |-> "begin", i |-> bf.i + 1, next |-> 0, end |-> 0]
    BY <1>4 DEF NextSymbol, Idle
  <2>2. bf' \in Backfill /\ bf'.i \in 1 .. Len(Order)
    BY <1>1, <1>2, <1>4, <2>1 DEF Backfill
  <2>3. Walked' /\ Seam'
    BY <1>1, <1>3, <2>1 DEF Walked, Seam
  <2> QED
    BY <2>1, <2>2, <2>3
<1>5. CASE ~(bf.i < Len(Order))
  <2>1. bf' = [at |-> "finished", i |-> 0, next |-> 0, end |-> 0]
    BY <1>5 DEF NextSymbol, Idle
  <2>2. bf' \in Backfill
    BY <1>1, <1>2, <2>1 DEF Backfill
  <2>3. \A q \in Symbols : Settled(q)'
    BY <1>1, <1>3, <1>5 DEF Symbols
  <2> QED
    BY <2>1, <2>2, <2>3 DEF Walked, Seam
<1> QED
  BY <1>4, <1>5

\* The end time is now: nothing sent so far is missing beyond it.
LEMMA BeginKeeps == KInv /\ BeginSymbol => KInv'
PROOF
<1> SUFFICES ASSUME KInv, BeginSymbol PROVE KInv'
  OBVIOUS
<1>1. /\ bf.at = "begin" /\ SetStatus(Cur, "in_progress")
      /\ bf' = [bf EXCEPT !.at = "request", !.end = now]
      /\ UNCHANGED << now, sent, pc, ws, kline_stream, lost, covered, signalling, runs >>
  BY DEF once, BeginSymbol, EndTime
<1>2. PICK s \in Symbols : s = Cur
  BY <1>1, AtOne
<1>3. /\ pc = "reading" /\ bf.i \in 1 .. Len(Order)
      /\ bf'.at = "request" /\ bf'.i = bf.i /\ bf'.end = now /\ bf' \in Backfill
  BY <1>1, AtOne DEF KInv, ITypeOK, Backfill
<1>4. Cur' = s
  BY <1>2, <1>3 DEF Cur
<1>5. /\ status' \in [Symbols -> {"absent", "in_progress", "failed", "done"}]
      /\ glitch' \subseteq Symbols
      /\ \A q \in Symbols \ {s} : Settled(q) => Settled(q)'
  BY <1>1, <1>2, StatusWritten DEF KInv
<1>6. Walked'
  <2>1. SUFFICES ASSUME NEW j \in 1 .. (bf.i - 1), Order[j] # s
                 PROVE  Settled(Order[j])'
    BY <1>3, <1>4 DEF Walked
  <2>2. Settled(Order[j]) /\ Order[j] \in Symbols
    BY <1>1, <1>3, AtOne DEF KInv, Walked, Symbols
  <2> QED
    BY <1>5, <2>1, <2>2
<1>7. Seam'
  <2>1. now \in Nat /\ sent'[s] = sent[s] /\ sent[s] \in Nat /\ sent[s] <= now
    BY <1>1, IngestionAssumption DEF KInv, ITypeOK, SentInTime, Minutes
  <2>2. SUFFICES ASSUME NEW t \in Minutes, now <= t, t < sent[s] PROVE FALSE
    BY <1>3, <1>4, <2>1 DEF Seam
  <2> QED
    BY <2>1, <2>2, IngestionAssumption DEF Minutes
<1> QED
  BY <1>1, <1>3, <1>5, <1>6, <1>7, GoroutineMoves DEF Rows

LEMMA FetchFailedKeeps == KInv /\ FetchFailed => KInv'
PROOF
<1> SUFFICES ASSUME KInv, FetchFailed PROVE KInv'
  OBVIOUS
<1>1. /\ bf.at = "request" /\ bf' = [bf EXCEPT !.at = "giveup"]
      /\ UNCHANGED << now, sent, pc, ws, status, kline_stream, lost, covered, glitch,
                      signalling, runs >>
  BY DEF once, FetchFailed
<1>2. /\ pc = "reading" /\ bf.i \in 1 .. Len(Order)
      /\ bf'.at = "giveup" /\ bf'.i = bf.i /\ bf' \in Backfill
  BY <1>1, AtOne DEF KInv, ITypeOK, Backfill
<1>3. Walked' /\ Seam'
  BY <1>1, <1>2 DEF KInv, Walked, Seam, Cur, Settled
<1>4. /\ status' \in [Symbols -> {"absent", "in_progress", "failed", "done"}]
      /\ glitch' \subseteq Symbols /\ Rows = {}
  BY <1>1 DEF KInv, ITypeOK, Rows
<1> QED
  BY <1>1, <1>2, <1>3, <1>4, GoroutineMoves

LEMMA GiveUpKeeps == KInv /\ GiveUp => KInv'
PROOF
<1> SUFFICES ASSUME KInv, GiveUp PROVE KInv'
  OBVIOUS
<1>1. /\ bf.at = "giveup" /\ SetStatus(Cur, "failed") /\ NextSymbol
      /\ UNCHANGED << now, sent, pc, ws, kline_stream, lost, covered, signalling, runs >>
  BY DEF once, GiveUp
<1>2. PICK s \in Symbols : s = Cur
  BY <1>1, AtOne
<1>3. /\ status' \in [Symbols -> {"absent", "in_progress", "failed", "done"}]
      /\ glitch' \subseteq Symbols
      /\ \A q \in Symbols \ {s} : Settled(q) => Settled(q)'
      /\ Settled(s)'
  BY <1>1, <1>2, StatusWritten DEF KInv
<1>4. /\ bf' \in Backfill /\ bf'.at \in {"begin", "finished"}
      /\ bf'.at = "begin" => bf'.i \in 1 .. Len(Order)
      /\ Walked' /\ Seam'
  BY <1>1, <1>2, <1>3, NextSymbolWalks
<1>5. pc = "reading" /\ Rows = {}
  BY <1>1, AtOne DEF Rows
<1> QED
  BY <1>1, <1>3, <1>4, <1>5, GoroutineMoves

LEMMA ParseErrorKeeps == KInv /\ ParseError => KInv'
PROOF
<1> SUFFICES ASSUME KInv, ParseError PROVE KInv'
  OBVIOUS
<1>1. /\ bf.at = "request" /\ glitch' = glitch \cup {Cur} /\ NextSymbol
      /\ UNCHANGED << now, sent, pc, ws, status, kline_stream, lost, covered, signalling, runs >>
  BY DEF once, ParseError
<1>2. PICK s \in Symbols : s = Cur
  BY <1>1, AtOne
<1>3. /\ status' \in [Symbols -> {"absent", "in_progress", "failed", "done"}]
      /\ glitch' \subseteq Symbols
      /\ \A q \in Symbols \ {s} : Settled(q) => Settled(q)'
      /\ Settled(s)'
  BY <1>1, <1>2 DEF KInv, ITypeOK, Settled
<1>4. /\ bf' \in Backfill /\ bf'.at \in {"begin", "finished"}
      /\ bf'.at = "begin" => bf'.i \in 1 .. Len(Order)
      /\ Walked' /\ Seam'
  BY <1>1, <1>2, <1>3, NextSymbolWalks
<1>5. pc = "reading" /\ Rows = {}
  BY <1>1, AtOne DEF Rows
<1> QED
  BY <1>1, <1>3, <1>4, <1>5, GoroutineMoves

LEMMA MarkDoneKeeps == KInv /\ MarkDone => KInv'
PROOF
<1> SUFFICES ASSUME KInv, MarkDone PROVE KInv'
  OBVIOUS
<1>1. /\ bf.at = "push" /\ bf.next >= bf.end /\ SetStatus(Cur, "done") /\ NextSymbol
      /\ UNCHANGED << now, sent, pc, ws, kline_stream, lost, covered, signalling, runs >>
  BY DEF once, MarkDone, AllRowsPushed
<1>2. PICK s \in Symbols : s = Cur
  BY <1>1, AtOne
<1>3. /\ status' \in [Symbols -> {"absent", "in_progress", "failed", "done"}]
      /\ glitch' \subseteq Symbols
      /\ \A q \in Symbols \ {s} : Settled(q) => Settled(q)'
      /\ Settled(s)'
  BY <1>1, <1>2, StatusWritten DEF KInv
<1>4. /\ bf' \in Backfill /\ bf'.at \in {"begin", "finished"}
      /\ bf'.at = "begin" => bf'.i \in 1 .. Len(Order)
      /\ Walked' /\ Seam'
  BY <1>1, <1>2, <1>3, NextSymbolWalks
<1>5. pc = "reading" /\ Rows = {}
  <2>1. bf.next .. (bf.end - 1) = {}
    BY <1>1, AtOne
  <2> QED
    BY <1>1, <2>1, AtOne DEF Rows
<1> QED
  BY <1>1, <1>3, <1>4, <1>5, GoroutineMoves

\* An answer: its rows are to be pushed, what comes later comes by the socket.
LEMMA FetchOkKeeps == KInv /\ FetchOk => KInv'
PROOF
<1> SUFFICES ASSUME KInv, FetchOk PROVE KInv'
  OBVIOUS
<1> USE DEF KInv
<1>1. /\ bf.at = "request"
      /\ bf' = [bf EXCEPT !.at = "push", !.next = FirstRow(bf.end)]
      /\ covered' = [covered EXCEPT ![Cur] = FirstRow(bf.end) .. (bf.end - 1)]
      /\ UNCHANGED << now, sent, pc, ws, status, kline_stream, lost, glitch, signalling, runs >>
  BY DEF once, FetchOk
<1>2. PICK s \in Symbols : s = Cur
  BY <1>1, AtOne
<1>3. /\ pc = "reading" /\ bf.i \in 1 .. Len(Order)
      /\ bf.end \in Nat /\ bf.end <= Horizon /\ Horizon \in Nat
  BY <1>1, AtOne
<1>4. FirstRow(bf.end) \in Nat /\ FirstRow(bf.end) <= bf.end
  BY <1>3, IngestionAssumption DEF FirstRow
<1>5. /\ bf'.at = "push" /\ bf'.i = bf.i /\ bf'.end = bf.end /\ bf'.next = FirstRow(bf.end)
      /\ bf' \in Backfill
  <2>1. FirstRow(bf.end) \in Minutes
    BY <1>3, <1>4 DEF Minutes
  <2> QED
    BY <1>1, <2>1 DEF ITypeOK, Backfill
<1>6. Cur' = s
  BY <1>2, <1>5 DEF Cur
<1>7. /\ covered' \in [Symbols -> SUBSET Minutes]
      /\ covered'[s] = FirstRow(bf.end) .. (bf.end - 1)
      /\ \A q \in Symbols \ {s} : covered'[q] = covered[q]
  BY <1>1, <1>2, <1>3, <1>4 DEF ITypeOK, Minutes
<1>8. Dealt' = Dealt /\ Queued' = Queued /\ \A c : Live(c)' <=> Live(c)
  BY <1>1, LiveUnchanged
<1>9. ITypeOK' /\ SentInTime' /\ Started' /\ AtSymbol'
  BY <1>1, <1>3, <1>5, <1>7 DEF ITypeOK, SentInTime, Started, AtSymbol
<1>10. Seam'
  BY <1>1, <1>2, <1>5, <1>6, <1>8 DEF Seam
<1>11. Walked'
  BY <1>1, <1>2, <1>5, <1>6 DEF Walked, Settled
<1>12. Pushed'
  <2>1. \A t \in covered'[s] : ~(t < bf'.next)
    BY <1>4, <1>5, <1>7
  <2> QED
    BY <1>5, <1>6, <1>7, <2>1 DEF Pushed, FirstRow
<1>13. NoGap'
  <2>1. SUFFICES ASSUME NEW q \in Symbols, covered'[q] # {}, NEW t \in Minutes,
                        t < sent[q], NEW r \in covered'[q], r <= t
                 PROVE  Accounted(Candle(q, t))'
    BY <1>1 DEF NoGap
  <2>2. CASE q # s
    <3>1. Live(Candle(q, t))
      BY <1>1, <1>7, <2>1, <2>2, AccountedOf DEF NoGap, Rows
    <3> QED
      BY <1>8, <3>1 DEF Accounted, Live, Dealt
  <2>3. CASE q = s /\ t < bf.end
    <3>1. t \in FirstRow(bf.end) .. (bf.end - 1)
      BY <1>3, <1>4, <1>7, <2>1, <2>3 DEF Minutes
    <3>2. Candle(q, t) \in Rows'
      BY <1>5, <1>6, <2>3, <3>1 DEF Rows
    <3> QED
      BY <3>2 DEF Accounted
  <2>4. CASE q = s /\ bf.end <= t
    <3>1. Live(Candle(q, t))
      BY <1>1, <1>2, <2>1, <2>4 DEF Seam
    <3> QED
      BY <1>8, <3>1 DEF Accounted, Live, Dealt
  <2>5. t < bf.end \/ bf.end <= t
    BY <1>3, IngestionAssumption DEF Minutes
  <2> QED
    BY <2>2, <2>3, <2>4, <2>5
<1> QED
  BY <1>9, <1>10, <1>11, <1>12, <1>13

\* One row is pushed.
LEMMA PushRowKeeps == KInv /\ PushRow => KInv'
PROOF
<1> SUFFICES ASSUME KInv, PushRow PROVE KInv'
  OBVIOUS
<1> USE DEF KInv
<1>1. /\ bf.at = "push" /\ bf.next < bf.end
      /\ Offer(Candle(Cur, bf.next)) /\ bf' = [bf EXCEPT !.next = @ + 1]
      /\ UNCHANGED << now, sent, pc, ws, status, covered, glitch, signalling, runs >>
  BY DEF once, PushRow
<1>2. PICK s \in Symbols, n \in Minutes : s = Cur /\ n = bf.next
  BY <1>1, AtOne DEF ITypeOK, Backfill
<1>3. /\ pc = "reading" /\ bf.i \in 1 .. Len(Order)
      /\ n \in Nat /\ bf.end \in Nat /\ bf.end <= Horizon /\ Horizon \in Nat
  BY <1>1, <1>2, AtOne
<1>4. /\ bf'.at = "push" /\ bf'.i = bf.i /\ bf'.end = bf.end /\ bf'.next = n + 1
      /\ bf' \in Backfill
  <2>1. bf.next + 1 \in Minutes
    BY <1>1, <1>2, <1>3 DEF Minutes
  <2> QED
    BY <1>1, <1>2, <2>1 DEF ITypeOK, Backfill
<1>5. Cur' = s
  BY <1>2, <1>4 DEF Cur
<1>6. /\ kline_stream'.log \in Seq(Candles) /\ kline_stream'.first \in Nat \ {0}
      /\ lost' \subseteq Candles /\ Dealt \subseteq Dealt' /\ Candle(s, n) \in Dealt'
  <2>1. Candle(s, n) \in Candles /\ Offer(Candle(s, n))
    BY <1>1, <1>2 DEF Candle, Candles
  <2> QED
    BY <2>1, OfferDeals
<1>7. Queued' = Queued /\ \A c : Live(c) => Live(c)'
  BY <1>1, <1>6 DEF Queued, Live
<1>8. ITypeOK' /\ SentInTime' /\ Started' /\ AtSymbol'
  BY <1>1, <1>3, <1>4, <1>6 DEF ITypeOK, SentInTime, Started, AtSymbol
<1>9. Seam'
  BY <1>1, <1>2, <1>4, <1>5, <1>7 DEF Seam
<1>10. Walked'
  BY <1>1, <1>2, <1>4, <1>5 DEF Walked, Settled
<1>11. Pushed'
  <2>1. covered'[s] = FirstRow(bf'.end) .. (bf'.end - 1)
    BY <1>1, <1>2, <1>4 DEF Pushed
  <2>2. ASSUME NEW t \in covered'[s], t < n + 1
        PROVE  Candle(s, t) \in Dealt'
    <3>1. t \in Int
      BY <2>1, <2>2
    <3>2. CASE t = n
      BY <1>6, <3>2
    <3>3. CASE t < n
      BY <1>1, <1>2, <1>6, <2>2, <3>3 DEF Pushed
    <3> QED
      BY <1>3, <2>2, <3>1, <3>2, <3>3
  <2> QED
    BY <1>4, <1>5, <2>1, <2>2 DEF Pushed, FirstRow
<1>12. NoGap'
  <2>1. SUFFICES ASSUME NEW q \in Symbols, covered[q] # {}, NEW t \in Minutes,
                        t < sent[q], \E r \in covered[q] : r <= t
                 PROVE  Accounted(Candle(q, t))'
    BY <1>1 DEF NoGap
  <2>2. CASE Live(Candle(q, t))
    BY <1>7, <2>2 DEF Accounted, Live, Dealt
  <2>3. CASE Candle(q, t) \in Rows
    <3>1. q = s /\ t \in n .. (bf.end - 1)
      BY <1>2, <2>3, RowsOf
    <3>2. CASE t = n
      BY <1>6, <3>1, <3>2 DEF Accounted, Dealt
    <3>3. CASE t # n
      <4>1. t \in (n + 1) .. (bf.end - 1)
        BY <1>3, <3>1, <3>3
      <4>2. Candle(q, t) \in Rows'
        BY <1>4, <1>5, <3>1, <4>1 DEF Rows
      <4> QED
        BY <4>2 DEF Accounted
    <3> QED
      BY <3>2, <3>3
  <2> QED
    BY <2>1, <2>2, <2>3, AccountedOf DEF NoGap
<1> QED
  BY <1>8, <1>9, <1>10, <1>11, <1>12

-----------------------------------------------------------------------------
LEMMA StepKeeps == KInv /\ [INext]_ivars => KInv'
PROOF
<1> SUFFICES ASSUME KInv, [INext]_ivars PROVE KInv'
  OBVIOUS
<1>1. CASE Exchange
  BY <1>1, OutsideKeeps, SendClosedKeeps, SendUpdateKeeps DEF Exchange
<1>2. CASE Start \/ Dial \/ SpawnBackfill \/ ReadFrame \/ Exit
  BY <1>2, OutsideKeeps, SpawnKeeps, ReadFrameKeeps, ExitKeeps
<1>3. CASE BackfillStep
  BY <1>3, BeginKeeps, FetchOkKeeps, FetchFailedKeeps, GiveUpKeeps, ParseErrorKeeps,
     PushRowKeeps, MarkDoneKeeps DEF BackfillStep
<1>4. CASE UNCHANGED ivars
  <2>1. UNCHANGED << now, sent, pc, ws, bf, status, kline_stream, lost, covered, glitch,
                     signalling, runs >>
    BY <1>4 DEF once, ivars
  <2>2. Published' = Published /\ Queued' = Queued /\ Rows' = Rows /\ Cur' = Cur
    BY <2>1 DEF Published, Queued, Rows, Cur, LastId
  <2>3. ITypeOK' /\ SentInTime' /\ Started' /\ AtSymbol'
    BY <2>1 DEF KInv, ITypeOK, SentInTime, Started, AtSymbol
  <2>4. Seam' /\ Pushed' /\ Walked'
    BY <2>1, <2>2 DEF KInv, Seam, Pushed, Walked, Settled, Live, Dealt
  <2>5. NoGap'
    BY <2>1, <2>2 DEF KInv, NoGap, Accounted
  <2> QED
    BY <2>3, <2>4, <2>5 DEF KInv
<1> QED
  BY <1>1, <1>2, <1>3, <1>4 DEF INext

\* A status turns "done" by MarkDone alone, when all rows have been offered.
LEMMA DoneStep ==
  KInv /\ [INext]_ivars =>
    \A s \in Symbols : status[s] # "done" /\ status'[s] = "done" =>
       \A t \in covered[s] : Candle(s, t) \in Published \cup lost
PROOF
<1> SUFFICES ASSUME KInv, [INext]_ivars, NEW s \in Symbols,
                    status[s] # "done", status'[s] = "done", NEW t \in covered[s]
             PROVE  Candle(s, t) \in Published \cup lost
  OBVIOUS
<1>1. ~UNCHANGED status
  OBVIOUS
<1>2. BeginSymbol \/ GiveUp \/ MarkDone
  BY <1>1 DEF INext, ivars, Exchange, Tick, SendClosed, SendUpdate, Start, Dial, SpawnBackfill,
              ReadFrame, Exit, BackfillStep, FetchOk, FetchFailed, ParseError, PushRow
<1>3. CASE MarkDone
  <2>1. bf.at = "push" /\ bf.next >= bf.end /\ SetStatus(Cur, "done")
    BY <1>3 DEF MarkDone, AllRowsPushed
  <2>2. PICK q \in Symbols : q = Cur
    BY <2>1, AtOne
  <2>3. s = q
    BY <1>3, <2>1, <2>2, StatusWritten DEF KInv, MarkDone, once
  <2>4. t < bf.next
    <3>1. t \in FirstRow(bf.end) .. (bf.end - 1)
      BY <2>1, <2>2, <2>3 DEF KInv, Pushed
    <3>2. FirstRow(bf.end) \in Int
      BY <2>1, AtOne, IngestionAssumption DEF FirstRow
    <3> QED
      BY <2>1, <3>1, <3>2, AtOne
  <2> QED
    BY <2>1, <2>2, <2>3, <2>4 DEF KInv, Pushed, Dealt
<1>4. CASE BeginSymbol
  BY <1>4, AtOne, StatusWritten DEF BeginSymbol, KInv, once
<1>5. CASE GiveUp
  BY <1>5, AtOne, StatusWritten DEF GiveUp, KInv, once
<1> QED
  BY <1>2, <1>3, <1>4, <1>5

-----------------------------------------------------------------------------
(* The invariant holds of the goroutines alone and of the whole process.    *)

\* Every step of the process is one of the goroutines or leaves them alone.
LEMMA ProcessSteps == [PNext]_pvars => [INext]_ivars
PROOF
BY DEF PNext, pvars, LiveStep, Spawn, Die, Goroutine, Get, Answered, AroundRequest, INext, BackfillStep

LEMMA ProcessInvariant == PSpec => []KInv /\ [][INext]_ivars
PROOF
<1>1. PInit => KInv
  BY InitEstablishes DEF PInit
<1> QED
  BY <1>1, StepKeeps, ProcessSteps, PTL DEF PSpec

\* The goroutine's calls, too, are made one after the other; a new goroutine starts with
\* a fresh call.
LEMMA HelperInProcess == PSpec => []RInv
PROOF
<1>1. PInit => RInv
  BY HelperInit DEF PInit
<1>2. RInv /\ [PNext]_pvars => RInv'
  <2> SUFFICES ASSUME RInv, [PNext]_pvars PROVE RInv'
    OBVIOUS
  <2>1. CASE Spawn \/ Die
    <3>1. None \in Headers /\ ~None.seconds
      BY DEF None, Headers
    <3> QED
      BY <2>1, <3>1, RetryAssumption
         DEF Spawn, Die, Fresh, RInv, TypeOK, Counted, Covered, RetryAfterHonoured, WaitsBounded
  <2>2. CASE Goroutine \/ LiveStep \/ UNCHANGED pvars
    <3>1. [Next]_vars
      BY <2>2 DEF Goroutine, Get, Answered, AroundRequest, LiveStep, pvars, Next
    <3> QED
      BY <3>1, HelperStep
  <2> QED
    BY <2>1, <2>2 DEF PNext
<1> QED
  BY <1>1, <1>2, PTL DEF PSpec

-----------------------------------------------------------------------------
(* Theorems of the ingestion process.                                      *)

\* Types hold of every run of the two goroutines (src/ingestion).
THEOREM IngestionTypes == PSpec => []ITypeOK
PROOF
<1>1. KInv => ITypeOK
  BY DEF KInv
<1> QED
  BY <1>1, ProcessInvariant, PTL

\* "Connect WebSocket FIRST so no live candle is missed": between a symbol's history and
\* its live candles there is no hole, however late the goroutine gets to the symbol and
\* however long its request is retried (main.go:56, backfill.go:40-47).
THEOREM SeamHasNoGap == PSpec => []NoGap
PROOF
<1>1. KInv => NoGap
  BY DEF KInv
<1> QED
  BY <1>1, ProcessInvariant, PTL

\* Where the DSN is set, a goroutine that is through with its symbols leaves none unsettled
\* but for a failed status write or an unparseable answer (backfill.go:33-67, 134, 156-167).
THEOREM AllSettled == PSpec => []SettledUnlessGlitch
PROOF
<1>1. KInv => SettledUnlessGlitch
  BY DEF KInv, Walked, Settled, SettledUnlessGlitch
<1> QED
  BY <1>1, ProcessInvariant, PTL

\* A status turns "done" only when every row of the answer has been offered to the stream
\* (backfill.go:83-95).
THEOREM DoneMeansPushed == PSpec => DoneAfterHistory
PROOF
BY ProcessInvariant, DoneStep, PTL DEF DoneAfterHistory

\* Inside the process, too: a bounded number of requests, none before the seconds of a
\* Retry-After the helper heeds are over, and no other wait beyond the cap
\* (httpclient.go:27-126).
THEOREM HelperKeepsPromises ==
  PSpec => [](RequestsBounded /\ RetryAfterHonoured /\ WaitsBounded)
PROOF
<1>1. RInv => RequestsBounded /\ RetryAfterHonoured /\ WaitsBounded
  BY RetryAssumption DEF RInv, TypeOK, Counted, RequestsBounded
<1> QED
  BY <1>1, HelperInProcess, PTL

-----------------------------------------------------------------------------
(* Ingestion and feature engineering together.                             *)

F == INSTANCE FeaturePipeline_proofs WITH pc <- fpc, MaxEntries <- 0

MInv ==
  /\ KInv
  /\ F!Basic
  /\ \A w \in Workers : F!Reader(w)
  /\ F!Unbroken /\ F!NoneSkipped => F!RowsRight /\ \A w \in Workers : F!Runs(w)

LEMMA FeatureAssumed == F!FeatureAssumption
PROOF
BY IngestionAssumption, MarketAssumption DEF F!FeatureAssumption

LEMMA SameNames ==
  /\ F!Candles = Candles
  /\ F!Log = kline_stream.log
  /\ F!Unbroken = FE!Unbroken
  /\ F!NoneSkipped = FE!NoneSkipped
PROOF
BY DEF F!Candles, F!Minutes, Candles, Minutes, F!Log, F!Unbroken, FE!Unbroken, F!Follows,
       FE!Follows, F!LastId, FE!LastId, F!NoneSkipped, FE!NoneSkipped

LEMMA MarketInit == MInit => MInv
PROOF
<1> SUFFICES ASSUME MInit PROVE MInv
  OBVIOUS
<1>1. KInv
  BY InitEstablishes DEF MInit
<1>2. F!FInit
  BY DEF MInit, FE!FInit, F!FInit, F!NoBatch, FE!NoBatch, F!EmptyBuffers, FE!EmptyBuffers,
         F!EmptyStream, FE!EmptyStream
<1>3. F!FInv
  BY <1>2, FeatureAssumed, F!InitEstablishes
<1> QED
  BY <1>1, <1>3 DEF F!FInv, MInv

LEMMA SameWindow == \A b : FE!LatestWindow(b) = F!LatestWindow(b)
PROOF
BY Zenon DEF FE!LatestWindow, F!LatestWindow, FE!Sorted, F!Sorted, FE!Place, F!Place,
             FE!Cardinality, F!Cardinality

\* What ingestion does to the stream.
LEMMA IngestionGrows ==
  ASSUME KInv, [INext]_ivars
  PROVE  \/ kline_stream' = kline_stream
         \/ \E c \in Candles : kline_stream' \in XAdd(kline_stream, c, StreamMaxLen)
PROOF
<1>1. CASE ReadFrame
  <2>1. Head(ws) \in Frames
    BY <1>1 DEF ReadFrame, KInv, ITypeOK
  <2>2. Candle(Head(ws).symbol, Head(ws).time) \in Candles
    BY <2>1 DEF Frames, Candle, Candles
  <2> QED
    BY <1>1, <2>2 DEF ReadFrame, Offer
<1>2. CASE PushRow
  <2>1. Cur \in Symbols /\ bf.next \in Minutes
    BY <1>2, AtOne DEF PushRow, KInv, ITypeOK, Backfill
  <2>2. Candle(Cur, bf.next) \in Candles
    BY <2>1 DEF Candle, Candles
  <2> QED
    BY <1>2, <2>2 DEF PushRow, Offer
<1>3. CASE ~(ReadFrame \/ PushRow)
  BY <1>3 DEF INext, ivars, Exchange, Tick, SendClosed, SendUpdate, Start, Dial, SpawnBackfill,
              Exit, BackfillStep, BeginSymbol, FetchOk, FetchFailed, GiveUp, ParseError, MarkDone
<1> QED
  BY <1>1, <1>2, <1>3

LEMMA MarketSteps ==
  ASSUME KInv, [MNext]_mvars
  PROVE  F!Step /\ [INext]_ivars
PROOF
<1>1. CASE IngestionStep
  <2>1. INext /\ UNCHANGED featureVars
    BY <1>1 DEF IngestionStep
  <2>2. CASE kline_stream' = kline_stream
    BY <2>1, <2>2 DEF featureVars, F!Step, F!Quiet, F!worker, F!tables
  <2>3. CASE \E c \in Candles : kline_stream' \in XAdd(kline_stream, c, StreamMaxLen)
    <3>1. F!Grow
      BY <2>1, <2>3, SameNames DEF featureVars, F!Grow, F!worker, F!tables, F!XAdd, XAdd, F!LastId,
                                      LastId
    <3> QED
      BY <2>1, <3>1 DEF F!Step
  <2> QED
    BY <2>1, <2>2, <2>3, IngestionGrows
<1>2. ASSUME NEW w \in Workers, FeatureStep(w) PROVE F!Step /\ [INext]_ivars
  <2>1. UNCHANGED << ivars, sent, kline_stream >>
    BY <1>2 DEF FeatureStep, ingestionOnly, once, ivars, FE!Start, FE!Work, FE!XRead, FE!HandlePrice,
                FE!HandleFeatures, FE!Crash
  <2>2. F!Start(w) \/ F!Work(w) \/ F!Crash(w)
    <3>1. FE!Start(w) => F!Start(w)
      BY DEF FE!Start, F!Start, FE!Fresh, F!Fresh, FE!InitialId, F!InitialId, FE!EmptyBuffers, F!EmptyBuffers,
             FE!NoBatch, F!NoBatch, FE!tables, F!tables
    <3>2. FE!XRead(w) => F!XRead(w)
      BY DEF FE!XRead, F!XRead, FE!tables, F!tables, FE!Readable, F!Readable, FE!LastId, F!LastId
    <3>3. FE!HandlePrice(w) => F!HandlePrice(w)
      BY DEF FE!HandlePrice, F!HandlePrice, FE!MoveTo, F!MoveTo, FE!Message, F!Message, FE!Push, F!Push,
             FE!InsertPrice, F!InsertPrice, FE!EnoughHistory, F!EnoughHistory,
             FE!MinBuffer, F!MinBuffer, FE!NextMessage, F!NextMessage
    <3>4. FE!HandleFeatures(w) => F!HandleFeatures(w)
      BY SameWindow DEF FE!HandleFeatures, F!HandleFeatures, FE!Message, F!Message, FE!InsertFeatures,
             F!InsertFeatures, FE!NextMessage, F!NextMessage
    <3>5. FE!Crash(w) => F!Crash(w)
      BY DEF FE!Crash, F!Crash, FE!Fresh, F!Fresh, FE!InitialId, F!InitialId,
             FE!EmptyBuffers, F!EmptyBuffers, FE!NoBatch, F!NoBatch, FE!tables, F!tables
    <3> QED
      BY <1>2, <3>1, <3>2, <3>3, <3>4, <3>5 DEF FeatureStep, FE!Work, F!Work
  <2> QED
    BY <2>1, <2>2 DEF F!Step, F!WorkerStep
<1>3. CASE UNCHANGED mvars
  BY <1>3 DEF mvars, ivars, featureVars, F!Step, F!Quiet, F!worker, F!tables
<1> QED
  BY <1>1, <1>2, <1>3 DEF MNext, IngestionStep

LEMMA MarketStepKeeps == MInv /\ [MNext]_mvars => MInv'
PROOF
<1> SUFFICES ASSUME MInv, [MNext]_mvars PROVE MInv'
  OBVIOUS
<1>1. F!Step /\ [INext]_ivars
  BY MarketSteps DEF MInv
<1>2. KInv'
  BY <1>1, StepKeeps DEF MInv
<1>3. F!Basic /\ F!Types
  BY DEF MInv, F!Basic
<1>4. F!Basic'
  BY <1>1, <1>3, FeatureAssumed, F!BasicStep
<1>5. \A w \in Workers : F!Reader(w)'
  <2>1. \A w \in Workers : F!Reader(w)
    BY DEF MInv
  <2> QED
    BY <1>1, <1>3, <2>1, FeatureAssumed, F!ReaderStep
<1>6. ASSUME F!Unbroken', F!NoneSkipped' PROVE F!RowsRight' /\ \A w \in Workers : F!Runs(w)'
  <2>1. F!Unbroken /\ F!NoneSkipped
    BY <1>1, <1>3, <1>6, FeatureAssumed, F!UnbrokenBefore, F!NoneSkippedBefore
  <2>2. /\ \A w \in Workers : F!Reader(w)
        /\ F!RowsRight /\ \A w \in Workers : F!Runs(w)
    BY <2>1 DEF MInv
  <2> QED
    BY <1>1, <1>3, <2>1, <2>2, FeatureAssumed, F!RunsStep
<1> QED
  BY <1>2, <1>4, <1>5, <1>6 DEF MInv

LEMMA MarketInvariant == MSpec => []MInv
PROOF
BY MarketInit, MarketStepKeeps, PTL DEF MSpec

\* As long as the stream keeps all entries: when an instance has caught up with it, no
\* candle from the first row of a symbol's history on is missing from the tables unless
\* its loss was logged or it has yet to be pushed (ingestion/main.go:56,
\* feature_engineering/main.py:76-95).
THEOREM NothingIsMissing == MSpec => []NoCandleMissing
PROOF
<1>1. MInv => NoCandleMissing
  <2> SUFFICES ASSUME MInv, Untrimmed, NEW w \in Workers, CaughtUp(w), NEW s \in Symbols,
                      NEW t \in Minutes, t < sent[s], \E r \in covered[s] : r <= t
               PROVE  \/ Candle(s, t) \in prices \cup lost \cup Rows
                      \/ Frame(s, t, TRUE) \in Queued
    BY DEF NoCandleMissing
  <2>1. Published \subseteq prices
    <3>1. F!PricesStored(w) /\ since[w] = 1 /\ last_id[w] = LastId(kline_stream)
      BY DEF MInv, F!Reader, F!Up, CaughtUp
    <3>2. \A j \in skipped[w] : j < 1
      BY DEF MInv, F!Basic, F!AtMessage, Untrimmed
    <3>3. 1 .. LastId(kline_stream) \subseteq F!Taken(w, last_id[w])
      BY <3>1, <3>2 DEF F!Taken
    <3> QED
      BY <3>1, <3>3 DEF F!PricesStored, Published, F!Log
  <2>2. Accounted(Candle(s, t))
    BY DEF MInv, KInv, NoGap
  <2> QED
    BY <2>1, <2>2 DEF Accounted, Candle
<1> QED
  BY <1>1, MarketInvariant, PTL

\* With ingestion as the producer, too: as long as the stream has every symbol's candles
\* one after the other and no running instance has been overtaken by trimming, every
\* feature row is computed from the consecutive candles up to its own time
\* (feature_engineering/main.py:84-92, features.py:46-53).
THEOREM RowsRightInOrder == MSpec => []FeaturesRightInOrder
PROOF
<1>1. MInv => FeaturesRightInOrder
  BY SameNames DEF MInv, FeaturesRightInOrder, FE!FeatureWindow, F!RowsRight,
                   F!Consecutive, FE!Consecutive
<1> QED
  BY <1>1, MarketInvariant, PTL

\* "done" still means that all rows were offered, whatever the readers of the stream do
\* (ingestion/backfill.go:83-95).
THEOREM DoneStaysTrue == MSpec => DoneAfterHistory
PROOF
<1>1. MInv /\ [MNext]_mvars => KInv /\ [INext]_ivars
  BY MarketSteps DEF MInv
<1> QED
  BY <1>1, MarketInvariant, DoneStep, PTL DEF MSpec, DoneAfterHistory

\* Repetitions and reordering in the stream never change or remove a price or a feature
\* row, and no feature row is there without its price (feature_engineering/db.py:112-147).
THEOREM MarketIsWriteOnce == MSpec => StoreSpec
PROOF
<1>1. MInit => FE!Store!Init
  BY DEF MInit, FE!FInit, FE!Store!Init
<1>2. MInv /\ [MNext]_mvars => [FE!Store!Next]_(FE!Store!vars)
  <2> SUFFICES ASSUME MInv, [MNext]_mvars
               PROVE  FE!Store!Next \/ UNCHANGED FE!Store!vars
    OBVIOUS
  <2>1. F!Step /\ F!Basic
    BY MarketSteps DEF MInv
  <2>2. CASE F!Grow \/ F!Quiet
    BY <2>2 DEF F!Grow, F!Quiet, F!tables, FE!Store!vars
  <2>3. ASSUME NEW w \in Workers, F!WorkerStep(w)
        PROVE  FE!Store!Next \/ UNCHANGED FE!Store!vars
    <3>1. F!Store!Next \/ UNCHANGED F!Store!vars
      BY <2>1, <2>3, FeatureAssumed, F!StoreStep
    <3> QED
      BY <3>1 DEF F!Store!Next, F!Store!vars, F!Store!AddPrice, F!Store!AddFeatures,
                  F!Store!SameKey, FE!Store!Next, FE!Store!vars, FE!Store!AddPrice,
                  FE!Store!AddFeatures, FE!Store!SameKey
  <2> QED
    BY <2>1, <2>2, <2>3 DEF F!Step
<1> QED
  BY <1>1, <1>2, MarketInvariant, PTL DEF MSpec, StoreSpec, FE!StoreSpec, FE!Store!Spec
=============================================================================
