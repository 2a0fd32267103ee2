--------------------------- MODULE ClientRegistry ---------------------------
(***************************************************************************)
(* The WebSocket side of the API gateway (src/api_gateway/main.go): one    *)
(* handler goroutine per connection (handleLiveWS) with a reader goroutine *)
(* of its own, and two broadcasting goroutines (streamRedisEvents and      *)
(* streamPortfolioSnapshots) that write to every registered connection     *)
(* under the read lock of clientsMu.  What is sent is left to EventFeed.   *)
(*                                                                         *)
(* A websocket connection takes one writer at a time, and nothing here     *)
(* keeps the two broadcasters and the greeting apart: gorilla/websocket    *)
(* panics when it notices, which ends the process in a broadcaster.        *)
(***************************************************************************)
EXTENDS Integers, FiniteSets

CONSTANTS
  Conns,          \* connections; each is used once
  Broadcasters    \* the broadcasting goroutines

ASSUME RegistryAssumption ==
  /\ IsFiniteSet(Conns)
  /\ Conns \cap Broadcasters = {}

VARIABLES
  handler,        \* [conn -> where its handler goroutine is]
  reader,         \* [conn -> none, reading, ended]: the reader goroutine
  clients,        \* a.clients
  connections,    \* a.connections
  closed,         \* connections on which Close was called
  gone,           \* connections whose peer no longer answers
  rlocked,        \* broadcasters that hold clientsMu for reading
  caster,         \* [broadcaster -> idle, casting, dropping]
  todo, dead,     \* [broadcaster -> clients still to write to; that failed]
  writing,        \* goroutines inside WriteJSON: pairs <<goroutine, conn>>
  clashed,        \* those of writing that met another write to their connection
  crashed         \* a broadcaster has panicked: the process is gone

vars == << handler, reader, clients, connections, closed, gone, rlocked, caster,
           todo, dead, writing, clashed, crashed >>

\* Types; the read lock is held by just those that are writing to the clients.  A
\* handler's goroutine is named like its connection.
TypeOK ==
  /\ handler \in [Conns -> {"none", "registering", "counting", "greeting",
                            "greets", "serving", "leaving", "done"}]
  /\ reader \in [Conns -> {"none", "reading", "ended"}]
  /\ clients \subseteq Conns
  /\ connections \in Int
  /\ closed \subseteq Conns
  /\ gone \subseteq Conns
  /\ caster \in [Broadcasters -> {"idle", "casting", "dropping"}]
  /\ rlocked = { b \in Broadcasters : caster[b] = "casting" }
  /\ todo \in [Broadcasters -> SUBSET Conns]
  /\ dead \in [Broadcasters -> SUBSET Conns]
  /\ writing \subseteq (Conns \cup Broadcasters) \X Conns
  /\ clashed \subseteq writing
  /\ crashed \in BOOLEAN

Init ==
  /\ handler = [c \in Conns |-> "none"]
  /\ reader = [c \in Conns |-> "none"]
  /\ clients = {} /\ connections = 0
  /\ closed = {} /\ gone = {}
  /\ rlocked = {}
  /\ caster = [b \in Broadcasters |-> "idle"]
  /\ todo = [b \in Broadcasters |-> {}]
  /\ dead = [b \in Broadcasters |-> {}]
  /\ writing = {} /\ clashed = {}
  /\ crashed = FALSE

-----------------------------------------------------------------------------
(* clientsMu.  What is done between Lock and Unlock is one step; a waiting  *)
(* Lock keeps new readers out, as sync.RWMutex does.                        *)

\* Mistake: the map is changed without the lock.
NoLock == TRUE

LockWanted == \/ \E c \in Conns : handler[c] \in {"registering", "leaving"}
              \/ \E b \in Broadcasters : caster[b] = "dropping"
CanLock == rlocked = {}
CanRLock == ~LockWanted

\* Mistake: every caller counts down.
UnregisterTwice(c) ==
  /\ CanLock
  /\ clients' = clients \ {c}
  /\ connections' = connections - 1
  /\ closed' = closed \cup {c}

\* unregisterClient: counted down only by whoever finds it in the map.
Unregister(c) ==
  /\ CanLock
  /\ clients' = clients \ {c}
  /\ connections' = IF c \in clients THEN connections - 1 ELSE connections
  /\ closed' = closed \cup {c}

-----------------------------------------------------------------------------
(* handleLiveWS.                                                           *)

To(c, place) == handler' = [handler EXCEPT ![c] = place]
Casting == << rlocked, caster, todo, dead >>
Writing == << writing, clashed >>

\* Goroutine g enters WriteJSON on c, and may find others there.
Enter(g, c) ==
  LET others == { w \in writing : w[2] = c } IN
  /\ writing' = writing \cup {<<g, c>>}
  /\ clashed' = IF others = {} THEN clashed ELSE clashed \cup others \cup {<<g, c>>}

Return(g, c) ==
  /\ writing' = writing \ {<<g, c>>}
  /\ clashed' = clashed \ {<<g, c>>}

Connect(c) ==
  /\ handler[c] = "none"
  /\ To(c, "registering")
  /\ UNCHANGED << reader, clients, connections, closed, gone, Casting, Writing >>

\* registerClient: the map under the lock, the counter after it.
Register(c) ==
  /\ handler[c] = "registering"
  /\ CanLock
  /\ clients' = clients \cup {c}
  /\ To(c, "counting")
  /\ UNCHANGED << reader, connections, closed, gone, Casting, Writing >>

Count(c) ==
  /\ handler[c] = "counting"
  /\ connections' = connections + 1
  /\ To(c, "greeting")
  /\ UNCHANGED << reader, clients, closed, gone, Casting, Writing >>

\* The latest portfolio, when there is one, is written without the lock.
Greet(c) ==
  /\ handler[c] = "greeting"
  /\ Enter(c, c)
  /\ To(c, "greets")
  /\ UNCHANGED << reader, clients, connections, closed, gone, Casting >>

\* No portfolio, or the write has returned: the reader goroutine starts.
Serve(c) ==
  /\ handler[c] \in {"greeting", "greets"}
  /\ Return(c, c)
  /\ reader' = [reader EXCEPT ![c] = "reading"]
  /\ To(c, "serving")
  /\ UNCHANGED << clients, connections, closed, gone, Casting >>

\* The greeting panics: gin's Recovery catches it, and the handler's deferred call
\* runs, before there is a reader goroutine.
GreetPanics(c) ==
  /\ handler[c] = "greets"
  /\ <<c, c>> \in clashed
  /\ Return(c, c)
  /\ To(c, "leaving")
  /\ UNCHANGED << reader, clients, connections, closed, gone, Casting >>

\* Mistake: a channel without room.
Unbuffered(c) == handler[c] = "serving"

\* errCh <- err: the channel has room for the one error, so the goroutine ends
\* whether or not the handler still listens.
CanDeliver(c) == TRUE

\* ReadMessage fails: closed by either side, or no pong for 60 seconds.
ReadError(c) ==
  /\ reader[c] = "reading"
  /\ c \in gone \cup closed
  /\ CanDeliver(c)
  /\ reader' = [reader EXCEPT ![c] = "ended"]
  /\ UNCHANGED << handler, clients, connections, closed, gone, Casting, Writing >>

\* The error arrives, or a ping cannot be written.
Leave(c) ==
  /\ handler[c] = "serving"
  /\ reader[c] = "ended" \/ c \in gone \cup closed
  /\ To(c, "leaving")
  /\ UNCHANGED << reader, clients, connections, closed, gone, Casting, Writing >>

\* The deferred unregisterClient.
Finish(c) ==
  /\ handler[c] = "leaving"
  /\ Unregister(c)
  /\ To(c, "done")
  /\ UNCHANGED << reader, gone, Casting, Writing >>

PeerGone(c) ==
  /\ handler[c] # "none"
  /\ c \notin gone
  /\ gone' = gone \cup {c}
  /\ UNCHANGED << handler, reader, clients, connections, closed, Casting, Writing >>

-----------------------------------------------------------------------------
(* broadcast().                                                            *)

Cast(b) ==
  /\ caster[b] = "idle"
  /\ CanRLock
  /\ rlocked' = rlocked \cup {b}
  /\ caster' = [caster EXCEPT ![b] = "casting"]
  /\ todo' = [todo EXCEPT ![b] = clients]
  /\ dead' = [dead EXCEPT ![b] = {}]
  /\ UNCHANGED << handler, reader, clients, connections, closed, gone, Writing >>

Busy(b) == \E c \in Conns : <<b, c>> \in writing

BeginWrite(b, c) ==
  /\ caster[b] = "casting"
  /\ c \in todo[b]
  /\ ~Busy(b)
  /\ Enter(b, c)
  /\ UNCHANGED << handler, reader, clients, connections, closed, gone, Casting >>

\* The write returns within its deadline of 3 seconds.  To a peer that is gone it
\* may still succeed, into the socket's buffer; one that met another write may
\* fail though the connection is sound.
EndWrite(b, c) ==
  /\ <<b, c>> \in writing
  /\ Return(b, c)
  /\ todo' = [todo EXCEPT ![b] = @ \ {c}]
  /\ \/ c \notin closed /\ UNCHANGED dead
     \/ (c \in gone \cup closed \/ <<b, c>> \in clashed)
        /\ dead' = [dead EXCEPT ![b] = @ \cup {c}]
  /\ UNCHANGED << handler, reader, clients, connections, closed, gone, rlocked, caster >>

\* A broadcaster's write panics: "concurrent write to websocket connection".
Crash(b, c) ==
  /\ <<b, c>> \in clashed
  /\ crashed' = TRUE
  /\ UNCHANGED << handler, reader, clients, connections, closed, gone, Casting, Writing >>

\* Mistake: dead clients are dropped with the read lock held.
EndCastLocked(b) ==
  /\ caster[b] = "casting"
  /\ todo[b] = {}
  /\ rlocked' = IF dead[b] = {} THEN rlocked \ {b} ELSE rlocked
  /\ caster' = [caster EXCEPT ![b] = IF dead[b] = {} THEN "idle" ELSE "dropping"]
  /\ UNCHANGED << handler, reader, clients, connections, closed, gone, todo, dead, Writing >>

\* The read lock is released before any dead client is unregistered.
EndCast(b) ==
  /\ caster[b] = "casting"
  /\ todo[b] = {}
  /\ rlocked' = rlocked \ {b}
  /\ caster' = [caster EXCEPT ![b] = IF dead[b] = {} THEN "idle" ELSE "dropping"]
  /\ UNCHANGED << handler, reader, clients, connections, closed, gone, todo, dead, Writing >>

Drop(b, c) ==
  /\ caster[b] = "dropping"
  /\ c \in dead[b]
  /\ Unregister(c)
  /\ dead' = [dead EXCEPT ![b] = @ \ {c}]
  /\ caster' = [caster EXCEPT ![b] = IF dead[b] = {c} THEN "idle" ELSE @]
  /\ UNCHANGED << handler, reader, gone, rlocked, todo, Writing >>

-----------------------------------------------------------------------------
Handle(c) ==
  /\ ~crashed
  /\ \/ Register(c) \/ Count(c) \/ Greet(c) \/ Serve(c) \/ GreetPanics(c)
     \/ ReadError(c) \/ Leave(c) \/ Finish(c)
  /\ UNCHANGED crashed

Broadcast(b) ==
  /\ ~crashed
  /\ EndCast(b) \/ \E c \in Conns : BeginWrite(b, c) \/ EndWrite(b, c) \/ Drop(b, c)
  /\ UNCHANGED crashed

\* What comes from outside: peers, and something to broadcast.
Arrive == /\ ~crashed
          /\ \/ \E c \in Conns : Connect(c) \/ PeerGone(c)
             \/ \E b \in Broadcasters : Cast(b)
          /\ UNCHANGED crashed

Panic == ~crashed /\ \E b \in Broadcasters, c \in Conns : Crash(b, c)

Next == \/ Arrive \/ Panic
        \/ \E c \in Conns : Handle(c)
        \/ \E b \in Broadcasters : Broadcast(b)

\* Every goroutine runs on: reads, writes and pings have deadlines.  A broadcast
\* begins when there is something to send, so Cast has no fairness.
Fairness == /\ \A c \in Conns : WF_vars(Handle(c))
            /\ \A b \in Broadcasters : WF_vars(Broadcast(b))

Spec == Init /\ [][Next]_vars /\ Fairness

-----------------------------------------------------------------------------
(* Properties.                                                             *)

Counting == { c \in Conns : handler[c] = "counting" }

\* The counter the metrics report is the number of registered clients, short of
\* those whose registration is between the map and the counter: no client is
\* counted down twice though a broadcaster and its handler both unregister it
\* (main.go:605-620).
CounterMatches == connections = Cardinality(clients) - Cardinality(Counting)

\* No broadcaster writes to a connection that has been closed, and none is left
\* registered after it was closed.
NoWriteAfterClose ==
  /\ clients \cap closed = {}
  /\ \A b \in Broadcasters : \A c \in Conns : <<b, c>> \in writing => c \notin closed

\* While the process lives, a connection whose peer is gone ends up forgotten, with
\* both its goroutines ended: none of them waits for the other, or for the lock, for
\* ever, whichever of them a panic or a failed write ended (main.go:500-538).
GoneIsCleanedUp ==
  \A c \in Conns :
    c \in gone ~> crashed \/ (handler[c] = "done" /\ reader[c] # "reading")

\* Two goroutines, one of them a broadcaster, in WriteJSON on one connection.
Clash == \E b \in Broadcasters, c \in Conns : <<b, c>> \in clashed

\* A broadcast ends, whoever connects, leaves or hangs meanwhile, unless its process
\* is ended: by a broadcaster that was not alone on a connection (main.go:589-603).
BroadcastEnds ==
  \A b \in Broadcasters : caster[b] # "idle" ~> caster[b] = "idle" \/ (crashed /\ Clash)
=============================================================================
