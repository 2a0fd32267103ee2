----------------------- MODULE ClientRegistry_proofs -----------------------
(***************************************************************************)
(* Proofs about ClientRegistry: for any connections and broadcasters, the  *)
(* counter of connections matches the map of clients, and no broadcaster   *)
(* writes to a connection that was closed.                                 *)
(*                                                                         *)
(* The argument is the lock's: while a broadcaster holds it for reading,   *)
(* what it has left to write to stays registered, because nobody else can  *)
(* take it for writing; and a connection is closed when it is taken out of *)
(* the map, never to be put back.                                          *)
(***************************************************************************)
EXTENDS ClientRegistry, FiniteSetTheorems, TLAPS

-----------------------------------------------------------------------------
(* The inductive invariant.                                                *)

\* What a broadcaster has left to write to is registered as long as it holds the
\* lock, and it writes to nothing else.
Held == \A b \in Broadcasters :
          /\ caster[b] = "casting" => todo[b] \subseteq clients
          /\ \A c \in Conns : <<b, c>> \in writing => caster[b] = "casting" /\ c \in todo[b]

\* A connection that was not registered yet is known to nobody.
Fresh == \A c \in Conns : handler[c] \in {"none", "registering"} =>
           c \notin clients /\ c \notin closed /\ \A b \in Broadcasters : c \notin dead[b]

\* What was closed is no longer registered.
Apart == clients \cap closed = {}

IInv == TypeOK /\ Held /\ Fresh /\ Apart /\ CounterMatches

LEMMA Finite ==
  ASSUME TypeOK
  PROVE  /\ IsFiniteSet(clients) /\ Cardinality(clients) \in Nat
         /\ IsFiniteSet(Counting) /\ Cardinality(Counting) \in Nat
  <1>1. clients \subseteq Conns /\ Counting \subseteq Conns
    BY DEF TypeOK, Counting
  <1>2. QED
    BY <1>1, RegistryAssumption, FS_Subset, FS_CardinalityType

-----------------------------------------------------------------------------
(* Steps that touch neither the map nor the counter.                       *)

LEMMA ConnectStep ==
  ASSUME IInv, NEW c \in Conns, Connect(c), UNCHANGED crashed
  PROVE  IInv'
  <1> USE DEF Connect, To, Casting, Writing
  <1>1. TypeOK'
    BY DEF IInv, TypeOK
  <1>2. Held' /\ Fresh' /\ Apart'
    BY RegistryAssumption DEF IInv, TypeOK, Held, Fresh, Apart
  <1>3. Counting' = Counting
    BY DEF IInv, TypeOK, Counting
  <1>4. CounterMatches'
    BY <1>3 DEF IInv, CounterMatches
  <1>5. QED
    BY <1>1, <1>2, <1>4 DEF IInv

LEMMA GreetStep ==
  ASSUME IInv, NEW c \in Conns, Greet(c), UNCHANGED crashed
  PROVE  IInv'
  <1> USE DEF Greet, To, Casting, Enter
  <1>1. TypeOK'
    BY DEF IInv, TypeOK
  <1>2. Held' /\ Fresh' /\ Apart'
    BY RegistryAssumption DEF IInv, TypeOK, Held, Fresh, Apart
  <1>3. Counting' = Counting
    BY DEF IInv, TypeOK, Counting
  <1>4. CounterMatches'
    BY <1>3 DEF IInv, CounterMatches
  <1>5. QED
    BY <1>1, <1>2, <1>4 DEF IInv

LEMMA ServeStep ==
  ASSUME IInv, NEW c \in Conns, Serve(c), UNCHANGED crashed
  PROVE  IInv'
  <1> USE DEF Serve, To, Casting, Return
  <1>1. TypeOK'
    BY DEF IInv, TypeOK
  <1>2. Held' /\ Fresh' /\ Apart'
    BY RegistryAssumption DEF IInv, TypeOK, Held, Fresh, Apart
  <1>3. Counting' = Counting
    BY DEF IInv, TypeOK, Counting
  <1>4. CounterMatches'
    BY <1>3 DEF IInv, CounterMatches
  <1>5. QED
    BY <1>1, <1>2, <1>4 DEF IInv

LEMMA GreetPanicsStep ==
  ASSUME IInv, NEW c \in Conns, GreetPanics(c), UNCHANGED crashed
  PROVE  IInv'
  <1> USE DEF GreetPanics, To, Casting, Return
  <1>1. TypeOK'
    BY DEF IInv, TypeOK
  <1>2. Held' /\ Fresh' /\ Apart'
    BY RegistryAssumption DEF IInv, TypeOK, Held, Fresh, Apart
  <1>3. Counting' = Counting
    BY DEF IInv, TypeOK, Counting
  <1>4. CounterMatches'
    BY <1>3 DEF IInv, CounterMatches
  <1>5. QED
    BY <1>1, <1>2, <1>4 DEF IInv

LEMMA ReadErrorStep ==
  ASSUME IInv, NEW c \in Conns, ReadError(c), UNCHANGED crashed
  PROVE  IInv'
  <1> USE DEF ReadError, To, Casting, Writing
  <1>1. TypeOK'
    BY DEF IInv, TypeOK
  <1>2. Held' /\ Fresh' /\ Apart'
    BY RegistryAssumption DEF IInv, TypeOK, Held, Fresh, Apart
  <1>3. Counting' = Counting
    BY DEF IInv, TypeOK, Counting
  <1>4. CounterMatches'
    BY <1>3 DEF IInv, CounterMatches
  <1>5. QED
    BY <1>1, <1>2, <1>4 DEF IInv

LEMMA LeaveStep ==
  ASSUME IInv, NEW c \in Conns, Leave(c), UNCHANGED crashed
  PROVE  IInv'
  <1> USE DEF Leave, To, Casting, Writing
  <1>1. TypeOK'
    BY DEF IInv, TypeOK
  <1>2. Held' /\ Fresh' /\ Apart'
    BY RegistryAssumption DEF IInv, TypeOK, Held, Fresh, Apart
  <1>3. Counting' = Counting
    BY DEF IInv, TypeOK, Counting
  <1>4. CounterMatches'
    BY <1>3 DEF IInv, CounterMatches
  <1>5. QED
    BY <1>1, <1>2, <1>4 DEF IInv

LEMMA PeerGoneStep ==
  ASSUME IInv, NEW c \in Conns, PeerGone(c), UNCHANGED crashed
  PROVE  IInv'
  <1> USE DEF PeerGone, To, Casting, Writing
  <1>1. TypeOK'
    BY DEF IInv, TypeOK
  <1>2. Held' /\ Fresh' /\ Apart'
    BY RegistryAssumption DEF IInv, TypeOK, Held, Fresh, Apart
  <1>3. Counting' = Counting
    BY DEF IInv, TypeOK, Counting
  <1>4. CounterMatches'
    BY <1>3 DEF IInv, CounterMatches
  <1>5. QED
    BY <1>1, <1>2, <1>4 DEF IInv

-----------------------------------------------------------------------------
(* The map and the counter.                                                *)

\* A new client is counted after it is in the map: both sides of CounterMatches
\* grow by one.
LEMMA RegisterStep ==
  ASSUME IInv, NEW c \in Conns, Register(c), UNCHANGED crashed
  PROVE  IInv'
  <1> USE DEF Register, To, Casting, Writing
  <1>1. TypeOK'
    BY DEF IInv, TypeOK
  <1>2. c \notin clients /\ c \notin closed
    BY DEF IInv, Fresh
  <1>3. Held' /\ Fresh' /\ Apart'
    BY <1>2 DEF IInv, TypeOK, Held, Fresh, Apart
  <1>4. Counting' = Counting \cup {c} /\ c \notin Counting
    BY DEF IInv, TypeOK, Counting
  <1>5. /\ Cardinality(clients') = Cardinality(clients) + 1
        /\ Cardinality(Counting') = Cardinality(Counting) + 1
    BY <1>2, <1>4, Finite, FS_AddElement DEF IInv
  <1>6. CounterMatches'
    BY <1>5, Finite DEF IInv, TypeOK, CounterMatches
  <1>7. QED
    BY <1>1, <1>3, <1>6 DEF IInv

LEMMA CountStep ==
  ASSUME IInv, NEW c \in Conns, Count(c), UNCHANGED crashed
  PROVE  IInv'
  <1> USE DEF Count, To, Casting, Writing
  <1>1. TypeOK'
    BY DEF IInv, TypeOK
  <1>2. Held' /\ Fresh' /\ Apart'
    BY DEF IInv, TypeOK, Held, Fresh, Apart
  <1>3. Counting' = Counting \ {c} /\ c \in Counting
    BY DEF IInv, TypeOK, Counting
  <1>4. Cardinality(Counting') = Cardinality(Counting) - 1
    BY <1>3, Finite, FS_RemoveElement DEF IInv
  <1>5. CounterMatches'
    BY <1>4, Finite DEF IInv, TypeOK, CounterMatches
  <1>6. QED
    BY <1>1, <1>2, <1>5 DEF IInv

\* Whoever unregisters a client first counts it down; the second changes nothing.
LEMMA UnregisterCounts ==
  ASSUME IInv, NEW c \in Conns, Unregister(c), Counting' = Counting
  PROVE  CounterMatches'
  <1>1. Cardinality(clients') = IF c \in clients THEN Cardinality(clients) - 1
                                                 ELSE Cardinality(clients)
    BY Finite, FS_RemoveElement DEF IInv, Unregister
  <1>2. QED
    BY <1>1, Finite DEF IInv, TypeOK, CounterMatches, Unregister

\* Nobody holds the lock for reading while a client is taken out of the map.
LEMMA NobodyCasts ==
  ASSUME TypeOK, CanLock, NEW b \in Broadcasters
  PROVE  caster[b] # "casting"
  BY DEF TypeOK, CanLock

LEMMA FinishStep ==
  ASSUME IInv, NEW c \in Conns, Finish(c), UNCHANGED crashed
  PROVE  IInv'
  <1> USE DEF Finish, To, Casting, Writing
  <1>1. TypeOK'
    BY DEF IInv, TypeOK, Unregister
  <1>2. Held'
    BY NobodyCasts DEF IInv, Held, Unregister
  <1>3. Fresh' /\ Apart'
    BY DEF IInv, TypeOK, Fresh, Apart, Unregister
  <1>4. Counting' = Counting
    BY DEF IInv, TypeOK, Counting
  <1>5. CounterMatches'
    BY <1>4, UnregisterCounts
  <1>6. QED
    BY <1>1, <1>2, <1>3, <1>5 DEF IInv

LEMMA DropStep ==
  ASSUME IInv, NEW b \in Broadcasters, NEW c \in Conns, Drop(b, c), UNCHANGED crashed
  PROVE  IInv'
  <1> USE DEF Drop, Writing
  <1>1. TypeOK'
    BY DEF IInv, TypeOK, Unregister
  <1>2. Held'
    <2>1. \A x \in Broadcasters : caster[x] # "casting"
      BY NobodyCasts DEF IInv, Unregister
    <2>2. \A x \in Broadcasters : caster'[x] # "casting"
      BY <2>1 DEF IInv, TypeOK
    <2>3. QED
      BY <2>1, <2>2 DEF IInv, Held
  <1>3. Fresh'
    <2>1. handler[c] \notin {"none", "registering"}
      BY DEF IInv, Fresh
    <2>2. QED
      BY <2>1 DEF IInv, TypeOK, Fresh, Unregister
  <1>4. Apart'
    BY DEF IInv, Apart, Unregister
  <1>5. CounterMatches'
    BY UnregisterCounts DEF Counting
  <1>6. QED
    BY <1>1, <1>2, <1>3, <1>4, <1>5 DEF IInv

-----------------------------------------------------------------------------
(* Broadcasting.                                                           *)

LEMMA CastStep ==
  ASSUME IInv, NEW b \in Broadcasters, Cast(b), UNCHANGED crashed
  PROVE  IInv'
  <1> USE DEF Cast, Writing
  <1>1. TypeOK'
    BY DEF IInv, TypeOK
  <1>2. Held' /\ Fresh' /\ Apart'
    BY DEF IInv, TypeOK, Held, Fresh, Apart
  <1>3. CounterMatches'
    BY DEF IInv, CounterMatches, Counting
  <1>4. QED
    BY <1>1, <1>2, <1>3 DEF IInv

LEMMA BeginWriteStep ==
  ASSUME IInv, NEW b \in Broadcasters, NEW c \in Conns, BeginWrite(b, c), UNCHANGED crashed
  PROVE  IInv'
  <1> USE DEF BeginWrite, Casting, Enter
  <1>1. TypeOK'
    BY DEF IInv, TypeOK
  <1>2. Held' /\ Fresh' /\ Apart'
    BY DEF IInv, TypeOK, Held, Fresh, Apart
  <1>3. CounterMatches'
    BY DEF IInv, CounterMatches, Counting
  <1>4. QED
    BY <1>1, <1>2, <1>3 DEF IInv

LEMMA EndWriteStep ==
  ASSUME IInv, NEW b \in Broadcasters, NEW c \in Conns, EndWrite(b, c), UNCHANGED crashed
  PROVE  IInv'
  <1> USE DEF EndWrite, Return
  <1>1. TypeOK'
    BY DEF IInv, TypeOK
  <1>2. c \in clients
    BY DEF IInv, Held
  <1>3. handler[c] \notin {"none", "registering"}
    BY <1>2 DEF IInv, Fresh
  <1>4. Held'
    BY DEF IInv, TypeOK, Held
  <1>5. Fresh' /\ Apart'
    BY <1>3 DEF IInv, TypeOK, Fresh, Apart
  <1>6. CounterMatches'
    BY DEF IInv, CounterMatches, Counting
  <1>7. QED
    BY <1>1, <1>4, <1>5, <1>6 DEF IInv

LEMMA EndCastStep ==
  ASSUME IInv, NEW b \in Broadcasters, EndCast(b), UNCHANGED crashed
  PROVE  IInv'
  <1> USE DEF EndCast, Writing
  <1>1. TypeOK'
    BY DEF IInv, TypeOK
  <1>2. Held' /\ Fresh' /\ Apart'
    BY DEF IInv, TypeOK, Held, Fresh, Apart
  <1>3. CounterMatches'
    BY DEF IInv, CounterMatches, Counting
  <1>4. QED
    BY <1>1, <1>2, <1>3 DEF IInv

\* A panic leaves everything as it is.
LEMMA CrashStep ==
  ASSUME IInv, NEW b \in Broadcasters, NEW c \in Conns, Crash(b, c)
  PROVE  IInv'
  BY DEF Crash, Casting, Writing, IInv, TypeOK, Held, Fresh, Apart, CounterMatches, Counting

-----------------------------------------------------------------------------
LEMMA InitInvariant == Init => IInv
  <1> SUFFICES ASSUME Init PROVE IInv
    OBVIOUS
  <1> USE DEF Init
  <1>0. crashed \in BOOLEAN
    OBVIOUS
  <1>1. TypeOK /\ Held /\ Fresh /\ Apart
    BY <1>0 DEF TypeOK, Held, Fresh, Apart
  <1>2. Counting = {}
    BY DEF Counting
  <1>3. CounterMatches
    BY <1>2, FS_EmptySet DEF CounterMatches
  <1>4. QED
    BY <1>1, <1>3 DEF IInv

LEMMA StepInvariant == IInv /\ [Next]_vars => IInv'
  <1> SUFFICES ASSUME IInv, [Next]_vars PROVE IInv'
    OBVIOUS
  <1>1. ASSUME NEW c \in Conns, Handle(c)
        PROVE  IInv'
    BY <1>1, RegisterStep, CountStep, GreetStep, ServeStep, GreetPanicsStep, ReadErrorStep,
       LeaveStep, FinishStep DEF Handle
  <1>2. ASSUME NEW b \in Broadcasters, Broadcast(b)
        PROVE  IInv'
    BY <1>2, BeginWriteStep, EndWriteStep, DropStep, EndCastStep DEF Broadcast
  <1>4. CASE Arrive
    BY <1>4, ConnectStep, PeerGoneStep, CastStep DEF Arrive
  <1>5. CASE Panic
    BY <1>5, CrashStep DEF Panic
  <1>3. ASSUME UNCHANGED vars
        PROVE  IInv'
    BY <1>3 DEF vars, IInv, TypeOK, Held, Fresh, Apart, CounterMatches, Counting
  <1>6. QED
    BY <1>1, <1>2, <1>3, <1>4, <1>5 DEF Next

\* The invariant holds of every run (src/api_gateway/main.go:492-620).
THEOREM Invariant == Spec => []IInv
  BY InitInvariant, StepInvariant, PTL DEF Spec

\* The read lock is held by just those who write to the clients (main.go:574-603).
THEOREM TypesHold == Spec => []TypeOK
  <1>1. IInv => TypeOK
    BY DEF IInv
  <1>2. QED
    BY Invariant, <1>1, PTL

\* The counter is the number of clients, however many goroutines unregister the
\* same one (main.go:605-620).
THEOREM CounterIsRight == Spec => []CounterMatches
  <1>1. IInv => CounterMatches
    BY DEF IInv
  <1>2. QED
    BY Invariant, <1>1, PTL

\* No broadcaster writes to a closed connection, and none that is closed stays
\* registered (main.go:587-620).
THEOREM ClosedAreLeftAlone == Spec => []NoWriteAfterClose
  <1>1. IInv => NoWriteAfterClose
    BY DEF IInv, Held, Apart, NoWriteAfterClose
  <1>2. QED
    BY Invariant, <1>1, PTL
=============================================================================
