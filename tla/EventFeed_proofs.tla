-------------------------- MODULE EventFeed_proofs --------------------------
(***************************************************************************)
(* Proof that events are forwarded without a hole, a repetition or a       *)
(* change of order, for streams of any length and any XREAD count.         *)
(***************************************************************************)
EXTENDS EventFeed, SequenceTheorems, TLAPS

Ids == Nat \ {0}
Messages == {"price", "portfolio"} \X Ids

\* The variables of streamRedisEvents, and the streams it reads.
Types ==
  /\ klines \in Nat /\ rows \in Nat /\ states \in Seq(Nat)
  /\ lastKlineID \in Ids \cup {Dollar} /\ lastPortfolioID \in Ids \cup {Dollar}
  /\ feed \in [at : {"read", "blocked", "forward"}, kf : Nat, pf : Nat, batch : Seq(Messages)]
  /\ shown \in Seq(Ids) /\ shownStates \in Seq(Ids)

\* The id kept for a stream is that of the last entry forwarded.
Kept(id, ids) == IF ids = << >> THEN id = Dollar ELSE id = ids[Len(ids)]

\* A message with this id may follow what was forwarded so far.
Follows(id, last) == last = Dollar \/ id = last + 1

\* While XREAD waits: it waits past the last entry forwarded, if there is one.
Waits ==
  feed.at = "blocked" => /\ lastKlineID \in {Dollar, feed.kf}
                         /\ lastPortfolioID \in {Dollar, feed.pf}

\* The messages left to forward: prices before portfolios, each kind by ascending ids,
\* the first of each kind next to what was forwarded.
PricesFirst(b) == \A j \in 1 .. Len(b) : \A i \in 1 .. j : b[j][1] = "price" => b[i][1] = "price"
Ascending(b) == \A j \in 1 .. Len(b) : \A i \in 1 .. j :
                   b[i][1] = b[j][1] => b[j][2] = b[i][2] + (j - i)
Next2Last(b, lastPrice, lastState) ==
  \A j \in 1 .. Len(b) :
    /\ b[j][1] = "price" /\ j = 1 => Follows(b[j][2], lastPrice)
    /\ b[j][1] = "portfolio" /\ (j = 1 \/ b[j - 1][1] = "price") => Follows(b[j][2], lastState)

InOrder(b, lastPrice, lastState) ==
  PricesFirst(b) /\ Ascending(b) /\ Next2Last(b, lastPrice, lastState)

IInv ==
  /\ Types
  /\ Kept(lastKlineID, shown) /\ Kept(lastPortfolioID, shownStates)
  /\ EventsConsecutive
  /\ Waits
  /\ feed.at = "forward" => InOrder(feed.batch, lastKlineID, lastPortfolioID)

-----------------------------------------------------------------------------
\* Appending the next id keeps a sequence of ids consecutive.
LEMMA AppendNext ==
  ASSUME NEW ids \in Seq(Ids), NEW id \in Ids, NEW last, Kept(last, ids),
         Consecutive(ids), Follows(id, last)
  PROVE  /\ Append(ids, id) \in Seq(Ids)
         /\ Consecutive(Append(ids, id))
         /\ Kept(id, Append(ids, id))
PROOF
<1> DEFINE new == Append(ids, id)
<1>1. Len(ids) \in Nat /\ Len(new) = Len(ids) + 1 /\ new \in Seq(Ids) /\ new # << >>
  OBVIOUS
<1>2. \A i \in 1 .. Len(ids) : new[i] = ids[i] /\ ids[i] \in Ids
  OBVIOUS
<1>3. new[Len(new)] = id
  OBVIOUS
<1>4. Kept(id, new)
  BY <1>1, <1>3 DEF Kept
<1>5. ASSUME NEW i \in 1 .. Len(new) PROVE new[i] = new[1] + i - 1
  <2>1. CASE ids = << >>
    BY <1>1, <1>3, <2>1 DEF Ids
  <2>2. CASE ids # << >> /\ i \in 1 .. Len(ids)
    <3>1. 1 \in 1 .. Len(ids)
      BY <1>1, <2>2
    <3> QED
      BY <1>2, <2>2, <3>1 DEF Consecutive
  <2>3. CASE ids # << >> /\ i = Len(ids) + 1
    <3>1. Len(ids) \in 1 .. Len(ids) /\ 1 \in 1 .. Len(ids)
      BY <1>1, <2>3
    <3>2. last = ids[Len(ids)] /\ last # Dollar
      BY <1>2, <2>3, <3>1 DEF Kept, Ids, Dollar
    <3>3. id = ids[Len(ids)] + 1
      BY <3>2 DEF Follows
    <3>4. ids[Len(ids)] = ids[1] + Len(ids) - 1
      BY <3>1 DEF Consecutive
    <3>5. ids[1] \in Int /\ new[1] = ids[1]
      BY <1>2, <3>1 DEF Ids
    <3> QED
      BY <1>1, <1>3, <2>3, <3>3, <3>4, <3>5
  <2> QED
    BY <1>1, <2>1, <2>2, <2>3
<1> QED
  BY <1>1, <1>4, <1>5 DEF Consecutive

\* What XREAD brings of one stream.
LEMMA BatchOfStream ==
  ASSUME NEW topic \in {"price", "portfolio"}, NEW from \in Nat, NEW last \in Nat
  PROVE  LET b == Batch(topic, from, last)
         IN  /\ b \in Seq(Messages)
             /\ \A i \in 1 .. Len(b) : b[i] = << topic, from + i >>
PROOF
<1> DEFINE n == IF last - from < XReadCount THEN last - from ELSE XReadCount
           m == IF n > 0 THEN n ELSE 0
           b == Batch(topic, from, last)
<1>1. n \in Int /\ m \in Nat /\ 1 .. n = 1 .. m
  BY FeedAssumption
<1>2. b = [i \in 1 .. m |-> << topic, from + i >>]
  BY <1>1 DEF Batch
<1>3. \A i \in 1 .. m : << topic, from + i >> \in Messages
  BY <1>1 DEF Messages, Ids
<1> HIDE DEF n, m, b
<1>4. b \in [1 .. m -> Messages]
  BY <1>2, <1>3
<1>5. b \in Seq(Messages) /\ Len(b) = m
  BY <1>1, <1>4
<1>6. \A i \in 1 .. Len(b) : b[i] = << topic, from + i >>
  BY <1>2, <1>5
<1> QED
  BY <1>5, <1>6 DEF b

\* The messages of both streams, one after the other, are in order.
LEMMA BothStreams ==
  ASSUME NEW p \in Seq(Messages), NEW q \in Seq(Messages), NEW kf \in Nat, NEW pf \in Nat,
         \A i \in 1 .. Len(p) : p[i] = << "price", kf + i >>,
         \A i \in 1 .. Len(q) : q[i] = << "portfolio", pf + i >>,
         NEW lastPrice \in {Dollar, kf}, NEW lastState \in {Dollar, pf}
  PROVE  p \o q \in Seq(Messages) /\ InOrder(p \o q, lastPrice, lastState)
PROOF
<1> DEFINE b == p \o q
<1>1. b \in Seq(Messages) /\ Len(b) = Len(p) + Len(q) /\ Len(p) \in Nat /\ Len(q) \in Nat
  OBVIOUS
<1>2. \A i \in 1 .. Len(b) : b[i] = IF i <= Len(p) THEN p[i] ELSE q[i - Len(p)]
  BY <1>1, ConcatProperties
<1> HIDE DEF b
<1>3. ASSUME NEW i \in 1 .. Len(b), i <= Len(p)
      PROVE  b[i] = << "price", kf + i >>
  <2>1. i \in 1 .. Len(p) /\ b[i] = p[i]
    BY <1>1, <1>2, <1>3
  <2> QED
    BY <2>1
<1>4. ASSUME NEW i \in 1 .. Len(b), i > Len(p)
      PROVE  b[i] = << "portfolio", pf + (i - Len(p)) >>
  <2>1. i - Len(p) \in 1 .. Len(q) /\ b[i] = q[i - Len(p)]
    BY <1>1, <1>2, <1>4
  <2> QED
    BY <2>1
<1>5. ASSUME NEW i \in 1 .. Len(b)
      PROVE  /\ b[i][1] = "price" <=> i <= Len(p)
             /\ i <= Len(p) => b[i][1] = "price" /\ b[i][2] = kf + i
             /\ i > Len(p) => b[i][1] = "portfolio" /\ b[i][2] = pf + (i - Len(p))
  <2>1. CASE i <= Len(p)
    BY <1>1, <1>3, <2>1
  <2>2. CASE i > Len(p)
    BY <1>1, <1>4, <2>2
  <2> QED
    BY <1>1, <2>1, <2>2
<1>6. PricesFirst(b)
  BY <1>1, <1>5 DEF PricesFirst
<1>7. Ascending(b)
  <2>1. SUFFICES ASSUME NEW j \in 1 .. Len(b), NEW i \in 1 .. j, b[i][1] = b[j][1]
                 PROVE  b[j][2] = b[i][2] + (j - i)
    BY DEF Ascending
  <2>2. i \in 1 .. Len(b)
    BY <1>1
  <2>3. CASE i <= Len(p)
    BY <1>1, <1>5, <2>1, <2>2, <2>3
  <2>4. CASE i > Len(p)
    BY <1>1, <1>5, <2>1, <2>2, <2>4
  <2> QED
    BY <1>1, <2>3, <2>4
<1>8. Next2Last(b, lastPrice, lastState)
  <2>1. SUFFICES ASSUME NEW j \in 1 .. Len(b)
                 PROVE  /\ b[j][1] = "price" /\ j = 1 => Follows(b[j][2], lastPrice)
                        /\ b[j][1] = "portfolio" /\ (j = 1 \/ b[j - 1][1] = "price")
                             => Follows(b[j][2], lastState)
    BY DEF Next2Last
  <2>2. b[j][1] = "price" /\ j = 1 => b[j][2] = kf + 1
    BY <1>1, <1>5
  <2>3. ASSUME b[j][1] = "portfolio", j = 1 \/ b[j - 1][1] = "price"
        PROVE  b[j][2] = pf + 1
    <3>1. j > Len(p)
      <4>1. ~ (j <= Len(p))
        BY <1>5, <2>3
      <4> QED
        BY <1>1, <4>1
    <3>2. j = Len(p) + 1
      <4>1. CASE j = 1
        BY <1>1, <3>1, <4>1
      <4>2. CASE j # 1
        <5>1. j - 1 \in 1 .. Len(b)
          BY <1>1, <4>2
        <5>2. b[j - 1][1] = "price"
          BY <2>3, <4>2
        <5>3. j - 1 <= Len(p)
          BY <1>5, <5>1, <5>2
        <5> QED
          BY <1>1, <3>1, <5>3
      <4> QED
        BY <4>1, <4>2
    <3> QED
      BY <1>1, <1>5, <3>1, <3>2
  <2> QED
    BY <2>2, <2>3 DEF Follows
<1> QED
  BY <1>1, <1>6, <1>7, <1>8 DEF b, InOrder

\* Forwarding the first message leaves the others in order.
LEMMA AfterFirst ==
  ASSUME NEW b \in Seq(Messages), b # << >>, NEW kl, NEW pl, InOrder(b, kl, pl)
  PROVE  /\ Tail(b) \in Seq(Messages)
         /\ Head(b) \in Messages
         /\ Head(b)[1] = "price" =>
              Follows(Head(b)[2], kl) /\ InOrder(Tail(b), Head(b)[2], pl)
         /\ Head(b)[1] = "portfolio" =>
              Follows(Head(b)[2], pl) /\ InOrder(Tail(b), kl, Head(b)[2])
PROOF
<1> DEFINE t == Tail(b)
           h == Head(b)
<1>1. /\ Len(b) \in Nat \ {0} /\ h \in Messages
      /\ t \in Seq(Messages) /\ Len(t) = Len(b) - 1
      /\ \A i \in 1 .. Len(t) : t[i] = b[i + 1]
  BY HeadTailProperties
<1>2. h = b[1] /\ 1 \in 1 .. Len(b)
  BY <1>1
<1>3. \A i \in 1 .. Len(t) : i + 1 \in 1 .. Len(b)
  BY <1>1
<1> HIDE DEF t, h
<1>4. PricesFirst(t)
  <2>1. SUFFICES ASSUME NEW j \in 1 .. Len(t), NEW i \in 1 .. j, t[j][1] = "price"
                 PROVE  t[i][1] = "price"
    BY DEF PricesFirst
  <2>2. i \in 1 .. Len(t) /\ i + 1 \in 1 .. j + 1
    BY <1>1
  <2> QED
    BY <1>1, <1>3, <2>1, <2>2 DEF InOrder, PricesFirst
<1>5. Ascending(t)
  <2>1. SUFFICES ASSUME NEW j \in 1 .. Len(t), NEW i \in 1 .. j, t[i][1] = t[j][1]
                 PROVE  t[j][2] = t[i][2] + (j - i)
    BY DEF Ascending
  <2>2. i \in 1 .. Len(t) /\ i + 1 \in 1 .. j + 1
    BY <1>1
  <2>3. b[j + 1][2] = b[i + 1][2] + ((j + 1) - (i + 1))
    BY <1>1, <1>3, <2>1, <2>2 DEF InOrder, Ascending
  <2> QED
    BY <1>1, <2>2, <2>3
<1>6. \A j \in 1 .. Len(b) : b[j][1] = h[1] => b[j][2] = h[2] + (j - 1)
  <2>1. \A j \in 1 .. Len(b) : 1 \in 1 .. j
    BY <1>1
  <2> QED
    BY <1>2, <2>1 DEF InOrder, Ascending
<1>7. ASSUME h[1] = "price"
      PROVE  Follows(h[2], kl) /\ Next2Last(t, h[2], pl)
  <2>1. Follows(h[2], kl)
    BY <1>2, <1>7 DEF InOrder, Next2Last
  <2>2. ASSUME NEW j \in 1 .. Len(t), t[j][1] = "price", j = 1
        PROVE  Follows(t[j][2], h[2])
    <3>1. t[j] = b[2] /\ 2 \in 1 .. Len(b)
      BY <1>1, <1>3, <2>2
    <3>2. t[j][2] = h[2] + (2 - 1)
      BY <1>6, <1>7, <2>2, <3>1
    <3> QED
      BY <3>2 DEF Follows
  <2>3. ASSUME NEW j \in 1 .. Len(t), t[j][1] = "portfolio", j = 1 \/ t[j - 1][1] = "price"
        PROVE  Follows(t[j][2], pl)
    <3>1. b[j][1] = "price"
      <4>1. CASE j = 1
        BY <1>2, <1>7, <4>1
      <4>2. CASE j # 1
        <5>1. j - 1 \in 1 .. Len(t) /\ (j - 1) + 1 = j
          BY <1>1, <4>2
        <5> QED
          BY <1>1, <2>3, <4>2, <5>1
      <4> QED
        BY <4>1, <4>2
    <3>2. t[j] = b[j + 1] /\ j + 1 \in 1 .. Len(b) /\ (j + 1) - 1 = j
      BY <1>1, <1>3
    <3> QED
      BY <2>3, <3>1, <3>2 DEF InOrder, Next2Last
  <2> QED
    BY <2>1, <2>2, <2>3 DEF Next2Last
<1>8. ASSUME h[1] = "portfolio"
      PROVE  Follows(h[2], pl) /\ Next2Last(t, kl, h[2])
  <2>1. Follows(h[2], pl)
    BY <1>2, <1>8 DEF InOrder, Next2Last
  <2>2. ASSUME NEW j \in 1 .. Len(t) PROVE t[j][1] # "price"
    <3>1. t[j] = b[j + 1] /\ j + 1 \in 1 .. Len(b) /\ 1 \in 1 .. j + 1
      BY <1>1, <1>3
    <3>2. b[j + 1][1] = "price" => b[1][1] = "price"
      BY <3>1 DEF InOrder, PricesFirst
    <3> QED
      BY <1>2, <1>8, <3>1, <3>2
  <2>3. ASSUME NEW j \in 1 .. Len(t), t[j][1] = "portfolio", j = 1 \/ t[j - 1][1] = "price"
        PROVE  Follows(t[j][2], h[2])
    <3>1. j = 1
      <4>1. CASE j # 1
        <5>1. j - 1 \in 1 .. Len(t)
          BY <1>1, <4>1
        <5> QED
          BY <2>2, <2>3, <4>1, <5>1
      <4> QED
        BY <4>1
    <3>2. t[j] = b[2] /\ 2 \in 1 .. Len(b)
      BY <1>1, <1>3, <3>1
    <3>3. t[j][2] = h[2] + (2 - 1)
      BY <1>6, <1>8, <2>3, <3>2
    <3> QED
      BY <3>3 DEF Follows
  <2> QED
    BY <2>1, <2>2, <2>3 DEF Next2Last
<1> QED
  BY <1>1, <1>4, <1>5, <1>7, <1>8 DEF t, h, InOrder

-----------------------------------------------------------------------------
\* Nothing is forwarded before the first XREAD.
LEMMA InitEstablishes == Init => IInv
PROOF
<1> SUFFICES ASSUME Init PROVE IInv
  OBVIOUS
<1>1. klines \in Nat /\ rows \in Nat /\ states \in Seq(Nat)
  <2>1. klines \in Nat /\ rows \in Nat
    BY DEF Init
  <2>2. CASE states = << >>
    BY <2>1, <2>2
  <2>3. ASSUME NEW r \in 1 .. rows, states = << r >>
        PROVE  states \in Seq(Nat)
    BY <2>1, <2>3
  <2> QED
    BY <2>1, <2>2, <2>3 DEF Init
<1>2. feed = Reading /\ << >> \in Seq(Messages) /\ << >> \in Seq(Ids)
  BY DEF Init
<1>3. Types
  BY <1>1, <1>2 DEF Init, Types, Reading
<1>4. EventsConsecutive
  BY DEF Init, EventsConsecutive, Consecutive
<1> QED
  BY <1>2, <1>3, <1>4 DEF Init, IInv, Kept, Waits, Reading

\* XREAD is called with the ids that are kept.
LEMMA XReadKeeps == IInv /\ XRead => IInv'
PROOF
<1> SUFFICES ASSUME IInv, XRead PROVE IInv'
  OBVIOUS
<1> USE DEF IInv
<1>1. UNCHANGED << klines, rows, states, lastKlineID, lastPortfolioID, shown, shownStates >>
  BY DEF XRead, stores, lastIDs, history
<1>2. From(lastKlineID, klines) \in Nat /\ From(lastPortfolioID, Len(states)) \in Nat
  <2>1. Len(states) \in Nat
    BY DEF Types
  <2> QED
    BY <2>1 DEF Types, From, Ids
<1>3. /\ feed'.at = "blocked"
      /\ feed'.kf = From(lastKlineID, klines) /\ feed'.pf = From(lastPortfolioID, Len(states))
      /\ feed' \in [at : {"read", "blocked", "forward"}, kf : Nat, pf : Nat, batch : Seq(Messages)]
  BY <1>2 DEF XRead, Types
<1>4. Types'
  BY <1>1, <1>3 DEF Types
<1>5. Waits'
  BY <1>1, <1>3 DEF Waits, From
<1> QED
  BY <1>1, <1>3, <1>4, <1>5 DEF EventsConsecutive, Kept

\* What XREAD brings follows what was forwarded.
LEMMA AnswerKeeps == IInv /\ Answer => IInv'
PROOF
<1> SUFFICES ASSUME IInv, Answer PROVE IInv'
  OBVIOUS
<1> USE DEF IInv
<1>1. UNCHANGED << klines, rows, states, lastKlineID, lastPortfolioID, shown, shownStates >>
  BY DEF Answer, stores, lastIDs, history
<1> DEFINE p == Batch("price", feed.kf, klines)
           q == Batch("portfolio", feed.pf, Len(states))
<1>2. /\ feed.kf \in Nat /\ feed.pf \in Nat /\ klines \in Nat /\ Len(states) \in Nat
      /\ lastKlineID \in {Dollar, feed.kf} /\ lastPortfolioID \in {Dollar, feed.pf}
  BY DEF Types, Waits, Answer
<1>3. p \in Seq(Messages) /\ \A i \in 1 .. Len(p) : p[i] = << "price", feed.kf + i >>
  BY <1>2, BatchOfStream
<1>4. q \in Seq(Messages) /\ \A i \in 1 .. Len(q) : q[i] = << "portfolio", feed.pf + i >>
  BY <1>2, BatchOfStream
<1> DEFINE b == p \o q
<1> HIDE DEF p, q
<1>5. b \in Seq(Messages) /\ InOrder(b, lastKlineID, lastPortfolioID)
  BY <1>2, <1>3, <1>4, BothStreams
<1>6. feed' = [Reading EXCEPT !.at = "forward", !.batch = b]
  BY DEF Answer, p, q
<1> HIDE DEF b
<1>7. /\ feed'.at = "forward" /\ feed'.batch = b
      /\ feed' \in [at : {"read", "blocked", "forward"}, kf : Nat, pf : Nat, batch : Seq(Messages)]
  BY <1>5, <1>6 DEF Reading
<1>8. Types'
  BY <1>1, <1>7 DEF Types
<1>9. InOrder(feed.batch, lastKlineID, lastPortfolioID)'
  BY <1>1, <1>5, <1>7 DEF InOrder, PricesFirst, Ascending, Next2Last
<1> QED
  BY <1>1, <1>7, <1>8, <1>9 DEF EventsConsecutive, Kept, Waits

\* One message is forwarded, and its id kept.
LEMMA ForwardKeeps == IInv /\ Forward => IInv'
PROOF
<1> SUFFICES ASSUME IInv, Forward PROVE IInv'
  OBVIOUS
<1> USE DEF IInv
<1> DEFINE h == Head(feed.batch)
           t == Tail(feed.batch)
<1>1. /\ feed.at = "forward" /\ feed.batch \in Seq(Messages) /\ feed.batch # << >>
      /\ UNCHANGED << klines, rows, states >>
  BY DEF Forward, Types, stores
<1>2. InOrder(feed.batch, lastKlineID, lastPortfolioID)
  BY <1>1
<1>3. /\ t \in Seq(Messages) /\ h \in Messages
      /\ h[1] = "price" => Follows(h[2], lastKlineID) /\ InOrder(t, h[2], lastPortfolioID)
      /\ h[1] = "portfolio" => Follows(h[2], lastPortfolioID) /\ InOrder(t, lastKlineID, h[2])
  BY <1>1, <1>2, AfterFirst
<1>4. feed' = [feed EXCEPT !.batch = t]
  BY DEF Forward
<1>5. /\ feed'.at = "forward" /\ feed'.batch = t
      /\ feed' \in [at : {"read", "blocked", "forward"}, kf : Nat, pf : Nat, batch : Seq(Messages)]
  BY <1>1, <1>3, <1>4 DEF Types
<1>6. \/ /\ h[1] = "price" /\ lastKlineID' = h[2] /\ shown' = Append(shown, h[2])
         /\ UNCHANGED << lastPortfolioID, shownStates >>
      \/ /\ h[1] = "portfolio" /\ lastPortfolioID' = h[2]
         /\ shownStates' = Append(shownStates, h[2])
         /\ UNCHANGED << lastKlineID, shown >>
  BY DEF Forward
<1>7. h[2] \in Ids
  BY <1>3 DEF Messages
<1> HIDE DEF h, t
<1>8. CASE /\ h[1] = "price" /\ lastKlineID' = h[2] /\ shown' = Append(shown, h[2])
           /\ UNCHANGED << lastPortfolioID, shownStates >>
  <2>1. shown' \in Seq(Ids) /\ Consecutive(shown') /\ Kept(h[2], shown')
    BY <1>3, <1>7, <1>8, AppendNext DEF Types, EventsConsecutive
  <2>2. Types'
    BY <1>1, <1>5, <1>7, <1>8, <2>1 DEF Types
  <2>3. InOrder(feed.batch, lastKlineID, lastPortfolioID)'
    BY <1>3, <1>5, <1>8 DEF InOrder, PricesFirst, Ascending, Next2Last
  <2>4. EventsConsecutive' /\ Kept(lastKlineID, shown)' /\ Kept(lastPortfolioID, shownStates)'
    BY <1>8, <2>1 DEF EventsConsecutive, Consecutive, Kept
  <2> QED
    BY <1>5, <2>2, <2>3, <2>4 DEF Waits
<1>9. CASE /\ h[1] = "portfolio" /\ lastPortfolioID' = h[2]
           /\ shownStates' = Append(shownStates, h[2])
           /\ UNCHANGED << lastKlineID, shown >>
  <2>1. shownStates' \in Seq(Ids) /\ Consecutive(shownStates') /\ Kept(h[2], shownStates')
    BY <1>3, <1>7, <1>9, AppendNext DEF Types, EventsConsecutive
  <2>2. Types'
    BY <1>1, <1>5, <1>7, <1>9, <2>1 DEF Types
  <2>3. InOrder(feed.batch, lastKlineID, lastPortfolioID)'
    BY <1>3, <1>5, <1>9 DEF InOrder, PricesFirst, Ascending, Next2Last
  <2>4. EventsConsecutive' /\ Kept(lastKlineID, shown)' /\ Kept(lastPortfolioID, shownStates)'
    BY <1>9, <2>1 DEF EventsConsecutive, Consecutive, Kept
  <2> QED
    BY <1>5, <2>2, <2>3, <2>4 DEF Waits
<1> QED
  BY <1>6, <1>8, <1>9

\* After an error, a time-out or the last message nothing is left to forward.
LEMMA ReadAgainKeeps ==
  IInv /\ feed' = Reading
       /\ UNCHANGED << klines, rows, states, lastKlineID, lastPortfolioID, shown, shownStates >>
  => IInv'
PROOF
<1>1. /\ Reading.at = "read"
      /\ Reading \in [at : {"read", "blocked", "forward"}, kf : Nat, pf : Nat, batch : Seq(Messages)]
  BY DEF Reading
<1> QED
  BY <1>1 DEF IInv, Types, Kept, EventsConsecutive, Waits

\* Entries may be added, and portfolios sent, at any time.
LEMMA OthersKeep ==
  IInv /\ UNCHANGED << feed, lastKlineID, lastPortfolioID, shown, shownStates >>
       /\ klines' \in Nat /\ rows' \in Nat /\ states' \in Seq(Nat)
  => IInv'
PROOF
BY DEF IInv, Types, Kept, EventsConsecutive, Waits, InOrder, PricesFirst, Ascending, Next2Last

LEMMA StepKeeps == IInv /\ [Next]_vars => IInv'
PROOF
<1> SUFFICES ASSUME IInv, [Next]_vars PROVE IInv'
  OBVIOUS
<1> USE DEF stores, lastIDs, history
<1>1. klines \in Nat /\ rows \in Nat /\ states \in Seq(Nat)
  BY DEF IInv, Types
<1>2. CASE AddKline
  BY <1>1, <1>2, OthersKeep DEF AddKline, gateway
<1>3. CASE Engine
  <2>1. CASE AddRow
    BY <1>1, <2>1, OthersKeep DEF AddRow, gateway
  <2>2. CASE AddState
    <3>1. Append(states, rows) \in Seq(Nat)
      BY <1>1
    <3> QED
      BY <1>1, <2>2, <3>1, OthersKeep DEF AddState, gateway
  <2>3. CASE SetKey
    BY <1>1, <2>3, OthersKeep DEF SetKey, gateway
  <2>4. CASE GiveUp
    BY <1>1, <2>4, OthersKeep DEF GiveUp, gateway
  <2> QED
    BY <1>3, <2>1, <2>2, <2>3, <2>4 DEF Engine
<1>6. CASE Events
  <2>1. CASE Timeout
    BY <2>1, ReadAgainKeeps DEF Timeout
  <2>2. CASE ReadFails
    BY <2>2, ReadAgainKeeps DEF ReadFails
  <2>3. CASE Forwarded
    BY <2>3, ReadAgainKeeps DEF Forwarded
  <2> QED
    BY <1>6, <2>1, <2>2, <2>3, XReadKeeps, AnswerKeeps, ForwardKeeps DEF Events
<1>7. CASE Snapshot
  BY <1>1, <1>7, OthersKeep DEF Snapshot, FetchSnapshot, SendSnapshot
<1>8. CASE \E c \in Clients : Join(c) \/ Live(c)
  BY <1>1, <1>8, OthersKeep DEF Join, Live, FetchGreeting, SendGreeting
<1>9. CASE UNCHANGED vars
  BY <1>1, <1>9, OthersKeep DEF vars
<1> QED
  BY <1>2, <1>3, <1>6, <1>7, <1>8, <1>9 DEF Next

\* From the first one on, every entry of a stream is forwarded once and in order, over
\* errors and time-outs of XREAD (main.go:541-570).
THEOREM NoEventSkipped == Spec => []EventsConsecutive
PROOF
<1>1. IInv => EventsConsecutive
  BY DEF IInv
<1> QED
  BY InitEstablishes, StepKeeps, <1>1, PTL DEF Spec
=============================================================================
