----------------------------- MODULE EventFeed -----------------------------
(***************************************************************************)
(* What the API gateway sends to its WebSocket clients (src/api_gateway/   *)
(* main.go): streamRedisEvents forwards the entries of kline_stream and of *)
(* the portfolio stream as they come, streamPortfolioSnapshots repeats the *)
(* latest portfolio every ten seconds, and handleLiveWS sends it to a new  *)
(* client.  Registration and locking are left to ClientRegistry.           *)
(*                                                                         *)
(* Entries of a stream, and rows of portfolio_state, are numbered from 1.  *)
(* The engine may fail between the row, the stream and the key, and tries  *)
(* no sooner than with the next row: not every row becomes an entry, and   *)
(* the key may stay behind both.                                           *)
(***************************************************************************)
EXTENDS Integers, Sequences

CONSTANTS
  Clients,
  XReadCount,     \* Count: 200
  MaxKlines,      \* bound: entries of kline_stream
  MaxStates,      \* bound: rows of portfolio_state
  MaxErrors       \* bound: failed calls

ASSUME FeedAssumption ==
  /\ XReadCount \in Nat \ {0}
  /\ MaxKlines \in Nat /\ MaxStates \in Nat /\ MaxErrors \in Nat

Dollar == -1      \* the id "$": what is added after the call

VARIABLES
  klines,         \* last id of kline_stream
  rows,           \* table portfolio_state: rows committed
  states,         \* the portfolio stream: the row each entry carries, by id
  key,            \* PORTFOLIO_LATEST_KEY: a row, 0 when unset
  engine,         \* the portfolio engine: idle, or about to add, or to set
  lastKlineID, lastPortfolioID,
  feed,           \* streamRedisEvents: its place and its XREAD
  snapshot,       \* streamPortfolioSnapshots: the row it has fetched, or -1
  greeting,       \* [client -> row fetched for it; -1 none, -2 not yet]
  joined,         \* clients that are registered
  view,           \* [client -> last row it was sent]
  shown,          \* history: ids of the klines broadcast, in order
  shownStates,    \* history: ids of the portfolio entries broadcast, in order
  errors          \* history: failed calls, for MaxErrors

stores == << klines, rows, states, key, engine >>
lastIDs == << lastKlineID, lastPortfolioID >>
history == << shown, shownStates >>
vars == << stores, lastIDs, feed, snapshot, greeting, joined, view, history, errors >>

\* kf, pf: the ids XREAD waits past; batch: messages <<topic, id>> to forward.
Reading == [at |-> "read", kf |-> 0, pf |-> 0, batch |-> << >>]
\* The gateway may start when row, stream and key are already there, or some of them.
Init ==
  /\ klines \in 0 .. 1 /\ rows \in 0 .. 1
  /\ states \in { << >> } \cup { << r >> : r \in 1 .. rows }
  /\ key \in { 0, Len(states) }
  /\ engine = "idle"
  /\ lastKlineID = Dollar /\ lastPortfolioID = Dollar
  /\ feed = Reading
  /\ snapshot = -1
  /\ greeting = [c \in Clients |-> -2]
  /\ joined = {}
  /\ view = [c \in Clients |-> 0]
  /\ shown = << >> /\ shownStates = << >>
  /\ errors = 0

Error == errors < MaxErrors /\ errors' = errors + 1

-----------------------------------------------------------------------------
(* Ingestion: XADD.  The portfolio engine: the row, XADD, SET of the key.  *)

gateway == << lastIDs, feed, snapshot, greeting, joined, view, history, errors >>

AddKline ==
  /\ klines < MaxKlines
  /\ klines' = klines + 1
  /\ UNCHANGED << rows, states, key, engine, gateway >>

AddRow ==
  /\ engine = "idle"
  /\ rows < MaxStates
  /\ rows' = rows + 1
  /\ engine' = "add"
  /\ UNCHANGED << klines, states, key, gateway >>

AddState ==
  /\ engine = "add"
  /\ states' = Append(states, rows)
  /\ engine' = "set"
  /\ UNCHANGED << klines, rows, key, gateway >>

SetKey ==
  /\ engine = "set"
  /\ key' = rows
  /\ engine' = "idle"
  /\ UNCHANGED << klines, rows, states, gateway >>

\* XADD or SET fails, which is logged, or the engine dies.
GiveUp ==
  /\ engine # "idle"
  /\ engine' = "idle"
  /\ UNCHANGED << klines, rows, states, key, gateway >>

-----------------------------------------------------------------------------
(* streamRedisEvents.                                                      *)

\* Mistake: "$" every time.
FromNow(id, last) == last

\* "$" is the last id at the time of the call.
From(id, last) == IF id = Dollar THEN last ELSE id

XRead ==
  /\ feed.at = "read"
  /\ feed' = [feed EXCEPT !.at = "blocked", !.kf = From(lastKlineID, klines),
                          !.pf = From(lastPortfolioID, Len(states))]
  /\ UNCHANGED << stores, lastIDs, snapshot, greeting, joined, view, history, errors >>

\* The messages after id "from" up to "last", at most XReadCount of them.
Batch(topic, from, last) ==
  [i \in 1 .. (IF last - from < XReadCount THEN last - from ELSE XReadCount)
     |-> <<topic, from + i>>]

\* Entries are there: those of both streams come back, stream by stream.
Answer ==
  /\ feed.at = "blocked"
  /\ klines > feed.kf \/ Len(states) > feed.pf
  /\ feed' = [Reading EXCEPT !.at = "forward",
                !.batch = Batch("price", feed.kf, klines) \o
                          Batch("portfolio", feed.pf, Len(states))]
  /\ UNCHANGED << stores, lastIDs, snapshot, greeting, joined, view, history, errors >>

\* redis.Nil after two seconds without an entry.
Timeout ==
  /\ feed.at = "blocked"
  /\ klines = feed.kf /\ Len(states) = feed.pf
  /\ feed' = Reading
  /\ UNCHANGED << stores, lastIDs, snapshot, greeting, joined, view, history, errors >>

ReadFails ==
  /\ feed.at = "blocked"
  /\ Error
  /\ feed' = Reading
  /\ UNCHANGED << stores, lastIDs, snapshot, greeting, joined, view, history >>

\* broadcast() to the clients registered at this moment.
SendState(p) == view' = [c \in Clients |-> IF c \in joined THEN p ELSE view[c]]

Forward ==
  /\ feed.at = "forward"
  /\ feed.batch # << >>
  /\ LET topic == Head(feed.batch)[1]
         id    == Head(feed.batch)[2]
     IN  \/ /\ topic = "price"
            /\ lastKlineID' = id /\ shown' = Append(shown, id)
            /\ UNCHANGED << lastPortfolioID, shownStates, view >>
         \/ /\ topic = "portfolio"
            /\ lastPortfolioID' = id /\ shownStates' = Append(shownStates, id)
            /\ SendState(states[id])
            /\ UNCHANGED << lastKlineID, shown >>
  /\ feed' = [feed EXCEPT !.batch = Tail(@)]
  /\ UNCHANGED << stores, snapshot, greeting, joined, errors >>

Forwarded ==
  /\ feed.at = "forward"
  /\ feed.batch = << >>
  /\ feed' = Reading
  /\ UNCHANGED << stores, lastIDs, snapshot, greeting, joined, view, history, errors >>

-----------------------------------------------------------------------------
(* streamPortfolioSnapshots: the row is fetched, then broadcast.           *)

\* fetchLatestPortfolio: the key; the newest row when the key is unset or GET fails.
LatestPortfolio == IF key > 0 THEN key ELSE rows
Fetches(p) == \/ p = LatestPortfolio /\ UNCHANGED errors
              \/ p = rows /\ Error

\* Mistake: no snapshot once every client has a portfolio.
FetchFirstSnapshot ==
  /\ snapshot = -1
  /\ \E c \in joined : view[c] = 0
  /\ \E p \in {LatestPortfolio, rows} : Fetches(p) /\ p > 0 /\ snapshot' = p
  /\ UNCHANGED << stores, lastIDs, feed, greeting, joined, view, history >>

\* Nothing is broadcast when there is no portfolio.
FetchSnapshot ==
  /\ snapshot = -1
  /\ \E p \in {LatestPortfolio, rows} : Fetches(p) /\ p > 0 /\ snapshot' = p
  /\ UNCHANGED << stores, lastIDs, feed, greeting, joined, view, history >>

SendSnapshot ==
  /\ snapshot # -1
  /\ SendState(snapshot)
  /\ snapshot' = -1
  /\ UNCHANGED << stores, lastIDs, feed, greeting, joined, history, errors >>

-----------------------------------------------------------------------------
(* handleLiveWS: register, fetch the latest portfolio, write it.           *)

Join(c) ==
  /\ c \notin joined
  /\ joined' = joined \cup {c}
  /\ UNCHANGED << stores, lastIDs, feed, snapshot, greeting, view, history, errors >>

\* Nor when the query fails.
FetchGreeting(c) ==
  /\ c \in joined
  /\ greeting[c] = -2
  /\ \E p \in {-1, LatestPortfolio, rows} :
       /\ Fetches(p) \/ (p = -1 /\ Error)
       /\ greeting' = [greeting EXCEPT ![c] = IF p > 0 THEN p ELSE -1]
  /\ UNCHANGED << stores, lastIDs, feed, snapshot, joined, view, history >>

SendGreeting(c) ==
  /\ greeting[c] >= 0
  /\ view' = [view EXCEPT ![c] = greeting[c]]
  /\ greeting' = [greeting EXCEPT ![c] = -1]
  /\ UNCHANGED << stores, lastIDs, feed, snapshot, joined, history, errors >>

-----------------------------------------------------------------------------
Events   == XRead \/ Answer \/ Timeout \/ ReadFails \/ Forward \/ Forwarded
Snapshot == FetchSnapshot \/ SendSnapshot
Live(c)  == FetchGreeting(c) \/ SendGreeting(c)

Engine   == AddRow \/ AddState \/ SetKey \/ GiveUp

Next == \/ AddKline \/ Engine \/ Events \/ Snapshot
        \/ \E c \in Clients : Join(c) \/ Live(c)

\* The gateway's goroutines run, and the ticker ticks, as long as it is up.  Nothing
\* makes the engine publish what it has written.
Fairness == /\ WF_vars(Events) /\ WF_vars(Snapshot)
            /\ \A c \in Clients : WF_vars(Live(c))

Spec == Init /\ [][Next]_vars /\ Fairness

-----------------------------------------------------------------------------
(* Properties.                                                             *)

\* From the first entry of a stream that is forwarded on, every entry of that
\* stream is forwarded once and in order, over errors and time-outs
\* (main.go:541-570).
Consecutive(ids) == \A i \in 1 .. Len(ids) : ids[i] = ids[1] + i - 1
EventsConsecutive == Consecutive(shown) /\ Consecutive(shownStates)

\* Once the engine is at rest, a connected client ends up with what the key holds,
\* with the newest row when the key was never set, and keeps it, although entries of
\* the stream may be missed, and an older greeting or an event of a row the key never
\* got to may arrive in between: the snapshots make up for it (main.go:572-586).
ViewStays ==
  \A c \in Clients :
    <>[](c \in joined /\ LatestPortfolio > 0 => view[c] = LatestPortfolio)

\* "Broadcasts price, forecast, and portfolio updates" (README.md:259): a state
\* added to the portfolio stream while the gateway runs is broadcast as an event.
EveryStateBroadcast ==
  \A p \in 2 .. MaxStates :
    Len(states) >= p ~> \E i \in 1 .. Len(shownStates) : shownStates[i] = p
=============================================================================
