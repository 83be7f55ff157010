------------------------- MODULE SearchServerProofs -------------------------
(***************************************************************************)
(* Proofs about SearchServer, for any clients and any cap: no permit is    *)
(* lost or made up, so the cap holds and a request is turned away only     *)
(* when every permit is with a search.                                     *)
(***************************************************************************)
EXTENDS SearchServer, FiniteSetTheorems, TLAPS

USE SearchServerAssumption DEF SearchServerAssumption

\* The searches in flight are finitely many, so that they can be counted.
LEMMA InFlightFinite == IsFiniteSet(InFlight) /\ Cardinality(InFlight) \in Nat
<1>1. InFlight \subseteq Clients
  BY DEF InFlight
<1>2. IsFiniteSet(InFlight)
  BY <1>1, FS_Subset
<1> QED
  BY <1>2, FS_CardinalityType

\* Only the worker of c moves, and it stays in flight or stays out of it: a
\* step that changes no permit.
LEMMA SameInFlight ==
  ASSUME NEW c \in Clients, NEW w,
         worker \in [Clients -> WorkerStates],
         worker' = [worker EXCEPT ![c] = w],
         w \in Holding <=> worker[c] \in Holding
  PROVE  InFlight' = InFlight
BY DEF InFlight

\* A search enters: one more is in flight.
LEMMA OneMore ==
  ASSUME NEW c \in Clients, NEW w \in Holding,
         worker \in [Clients -> WorkerStates],
         worker[c] \notin Holding,
         worker' = [worker EXCEPT ![c] = w]
  PROVE  Cardinality(InFlight') = Cardinality(InFlight) + 1
<1>1. InFlight' = InFlight \cup {c} /\ c \notin InFlight
  BY DEF InFlight
<1> QED
  BY <1>1, InFlightFinite, FS_AddElement

\* A search is over: one fewer.
LEMMA OneFewer ==
  ASSUME NEW c \in Clients, NEW w,
         worker \in [Clients -> WorkerStates],
         worker[c] \in Holding, w \notin Holding,
         worker' = [worker EXCEPT ![c] = w]
  PROVE  Cardinality(InFlight') = Cardinality(InFlight) - 1
<1>1. InFlight' = InFlight \ {c} /\ c \in InFlight
  BY DEF InFlight
<1> QED
  BY <1>1, InFlightFinite, FS_RemoveElement

-----------------------------------------------------------------------------

LEMMA ServerInit_Inv == ServerInit => ServerInv
<1> SUFFICES ASSUME ServerInit PROVE ServerInv
  OBVIOUS
<1>1. InFlight = {}
  BY DEF ServerInit, InFlight, Holding
<1>2. Cardinality(InFlight) = 0
  BY <1>1, FS_EmptySet
<1>3. ServerTypeOK
  <2>1. permits \in 0..MaxConcurrentSearches
    BY DEF ServerInit
  <2> QED
    BY <2>1 DEF ServerInit, ServerTypeOK, WorkerStates, Holding, Answers
<1>4. PermitsExact
  BY <1>2 DEF ServerInit, PermitsExact
<1> QED
  BY <1>3, <1>4 DEF ServerInv

\* Every step keeps the types, the range of permits apart.
LEMMA TypesKept ==
  ASSUME ServerInv, [ServerNext]_serverVars, permits' \in 0..MaxConcurrentSearches
  PROVE  ServerTypeOK'
<1> USE DEF ServerInv, ServerTypeOK, WorkerStates, Holding, Answers
<1>1. CASE UNCHANGED serverVars
  BY <1>1 DEF serverVars
<1>2. CASE ServerNext
  <2> PICK c \in Clients :
        \/ Request(c) \/ Reply(c) \/ Disconnect(c) \/ Reconnect(c)
        \/ Work(c) \/ PanicParsing(c) \/ PanicSearching(c)
    BY <1>2 DEF ServerNext
  <2>1. CASE Request(c)
    BY <2>1 DEF Request, AskNothing, Accept, Shed, Respond
  <2>2. CASE Reply(c) \/ Disconnect(c) \/ Reconnect(c)
    BY <2>2 DEF Reply, Disconnect, Reconnect, Respond
  <2>3. CASE Work(c)
    BY <2>3 DEF Work, Lock, LockPoisoned, Search, GiveBack
  <2>4. CASE PanicParsing(c) \/ PanicSearching(c)
    BY <2>4 DEF PanicParsing, PanicSearching
  <2> QED
    BY <2>1, <2>2, <2>3, <2>4
<1> QED
  BY <1>1, <1>2

\* The books balance over every step: a permit leaves the semaphore with the
\* search that enters, and returns with the one that ends.
LEMMA BooksBalance ==
  ASSUME ServerInv, [ServerNext]_serverVars
  PROVE  PermitsExact' /\ permits' \in Int
<1> USE DEF ServerInv, PermitsExact
<1>0. /\ worker \in [Clients -> WorkerStates]
      /\ permits \in Int
      /\ Cardinality(InFlight) \in Nat
  BY InFlightFinite DEF ServerTypeOK
<1> DEFINE Steady == InFlight' = InFlight /\ permits' = permits
<1>1. Steady => PermitsExact' /\ permits' \in Int
  BY <1>0
<1>2. CASE UNCHANGED serverVars
  <2> Steady
    BY <1>2 DEF serverVars, InFlight
  <2> QED
    BY <1>1
<1>3. CASE ServerNext
  <2> PICK c \in Clients :
        \/ Request(c) \/ Reply(c) \/ Disconnect(c) \/ Reconnect(c)
        \/ Work(c) \/ PanicParsing(c) \/ PanicSearching(c)
    BY <1>3 DEF ServerNext
  <2>1. CASE AskNothing(c) \/ Shed(c) \/ Disconnect(c)
    <3> Steady
      BY <2>1 DEF AskNothing, Shed, Disconnect, InFlight
    <3> QED
      BY <1>1
  <2>2. CASE Accept(c)
    <3>1. /\ worker' = [worker EXCEPT ![c] = "waiting"]
          /\ worker[c] \notin Holding
          /\ "waiting" \in Holding
          /\ permits' = permits - 1
      BY <2>2 DEF Accept, Connected, Holding
    <3>2. Cardinality(InFlight') = Cardinality(InFlight) + 1
      BY <3>1, <1>0, OneMore
    <3> QED
      BY <3>1, <3>2, <1>0
  <2>3. CASE Reply(c) \/ Reconnect(c)
    <3>1. /\ worker' = [worker EXCEPT ![c] = "none"]
          /\ worker[c] \notin Holding
          /\ "none" \notin Holding
          /\ permits' = permits
      BY <2>3 DEF Reply, Reconnect, Holding
    <3>2. InFlight' = InFlight
      BY <3>1, <1>0, SameInFlight
    <3> QED
      BY <3>1, <3>2, <1>1
  <2>4. CASE Lock(c) \/ LockPoisoned(c) \/ Search(c) \/ PanicParsing(c) \/ PanicSearching(c)
    <3>1. PICK w \in Holding : worker' = [worker EXCEPT ![c] = w]
      BY <2>4 DEF Lock, LockPoisoned, Search, PanicParsing, PanicSearching, Holding
    <3>2. worker[c] \in Holding /\ permits' = permits
      BY <2>4 DEF Lock, LockPoisoned, Search, PanicParsing, PanicSearching, Holding
    <3>3. InFlight' = InFlight
      BY <3>1, <3>2, <1>0, SameInFlight
    <3> QED
      BY <3>2, <3>3, <1>1
  <2>5. CASE GiveBack(c)
    <3>1. Cardinality(InFlight') = Cardinality(InFlight) - 1
      <4>1. PICK w \in {"gave results", "gave no match", "panicked"} :
              worker' = [worker EXCEPT ![c] = w]
        BY <2>5 DEF GiveBack
      <4>2. worker[c] \in Holding /\ w \notin Holding
        BY <2>5 DEF GiveBack, Holding
      <4> QED
        BY <4>1, <4>2, <1>0, OneFewer
    <3>2. permits' = permits + 1
      BY <2>5 DEF GiveBack
    <3> QED
      BY <3>1, <3>2, <1>0
  <2> QED
    BY <2>1, <2>2, <2>3, <2>4, <2>5 DEF Request, Work
<1> QED
  BY <1>2, <1>3

\* What is left in the semaphore is never less than nothing, because Accept
\* looks first, nor more than the cap, because each search has at most one.
LEMMA ServerNext_Inv == ServerInv /\ [ServerNext]_serverVars => ServerInv'
<1> SUFFICES ASSUME ServerInv, [ServerNext]_serverVars PROVE ServerInv'
  OBVIOUS
<1>1. PermitsExact' /\ permits' \in Int
  BY BooksBalance
<1>2. Cardinality(InFlight') \in Nat
  <2>1. InFlight' \subseteq Clients
    BY DEF InFlight
  <2>2. IsFiniteSet(InFlight')
    BY <2>1, FS_Subset
  <2> QED
    BY <2>2, FS_CardinalityType
<1>3. permits' >= 0
  <2>1. permits \in Nat
    BY DEF ServerInv, ServerTypeOK
  <2>2. permits' = permits \/ permits' = permits + 1 \/ (permits > 0 /\ permits' = permits - 1)
    BY DEF ServerNext, serverVars, Request, AskNothing, Accept, Shed, Reply, Disconnect,
           Reconnect, Work, Lock, LockPoisoned, Search, GiveBack, PanicParsing, PanicSearching
  <2> QED
    BY <2>1, <2>2
<1>4. permits' <= MaxConcurrentSearches
  BY <1>1, <1>2 DEF PermitsExact
<1>5. ServerTypeOK'
  BY <1>1, <1>3, <1>4, TypesKept
<1> QED
  BY <1>1, <1>5 DEF ServerInv

-----------------------------------------------------------------------------

\* The books of the semaphore hold in every state: search_page, run_search and
\* what unwinding drops.
THEOREM ServerInvariant == ServerSpec => []ServerInv
<1> QED
  BY ServerInit_Inv, ServerNext_Inv, PTL DEF ServerSpec

\* The state of the server stays what AppState and its threads can be: in
\* particular permits are between none and the cap.
THEOREM ServerTypes == ServerSpec => []ServerTypeOK
<1>1. ServerInv => ServerTypeOK
  BY DEF ServerInv
<1> QED
  BY <1>1, ServerInvariant, PTL

\* Every permit is in the semaphore or with one search, whoever leaves and
\* whatever panics: the permit is owned by the closure of search_page.
THEOREM PermitsAreExact == ServerSpec => []PermitsExact
<1>1. ServerInv => PermitsExact
  BY DEF ServerInv
<1> QED
  BY <1>1, ServerInvariant, PTL

\* A request is answered 503 only when the whole allowance is with searches.
THEOREM ShedsOnlyWhenFull == ServerSpec => ShedOnlyWhenFull
<1>1. ServerInv /\ [ServerNext]_serverVars =>
        [\A c \in Clients : Shed(c) =>
            Cardinality(InFlight) = MaxConcurrentSearches]_serverVars
  <2> SUFFICES ASSUME ServerInv, NEW c \in Clients, Shed(c)
               PROVE  Cardinality(InFlight) = MaxConcurrentSearches
    OBVIOUS
  <2> QED
    BY InFlightFinite DEF ServerInv, PermitsExact, Shed
<1> QED
  BY <1>1, ServerInvariant, PTL DEF ServerSpec, ShedOnlyWhenFull
=============================================================================
