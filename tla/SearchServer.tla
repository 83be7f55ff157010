---------------------------- MODULE SearchServer ----------------------------
(***************************************************************************)
(* Searching over HTTP (crates/uruk-serve/src/server.rs): the handler      *)
(* search_page, the cap on searches in flight (a semaphore whose permit    *)
(* travels with the search and not with the request), the blocking thread  *)
(* that runs run_search, and the lock around the index and the crawl       *)
(* store, which a panic poisons.                                           *)
(*                                                                         *)
(* A client here is one connection, which may send its next request once   *)
(* the last is answered or given up.  External: the semaphore, the         *)
(* blocking pool (its thread limit is far above the cap) and the mutex of  *)
(* the standard library; a handler whose client has gone is dropped by the *)
(* HTTP library, and what it had started on another thread goes on.        *)
(*                                                                         *)
(* Left out: the other routes, which touch no state, and what is found and *)
(* how it is shown.                                                        *)
(***************************************************************************)
EXTENDS Integers, FiniteSets

CONSTANTS
  Clients,
  NoClient, \* nobody, of the engine lock
  MaxConcurrentSearches \* the size of the semaphore, max_concurrent_searches.max(1)

ASSUME SearchServerAssumption ==
  /\ IsFiniteSet(Clients)
  /\ NoClient \notin Clients
  /\ MaxConcurrentSearches \in Nat \ {0}

VARIABLES
  permits,  \* permits left in AppState.searches
  handler,  \* where the handler of a client's request is
  worker,   \* where the search it started is
  answer,   \* the last response a client got
  holder,   \* who holds the engine lock
  poisoned  \* the engine lock is poisoned

serverVars == <<permits, handler, worker, answer, holder, poisoned>>

Answers ==
  {"none",
   "home",     \* 200, the empty search form
   "busy",     \* 503 with Retry-After
   "results",  \* 200, what the search found
   "no match", \* 200, "No pages match"
   "error"}    \* 500

\* A search waits for the lock, runs under it, and still holds its permit when
\* it has its page ("results", "no match") or unwinds; then it is over and the
\* page, or the panic, is there for the handler.
Holding == {"waiting", "searching", "results", "no match", "unwinding"}
WorkerStates == Holding \cup {"none", "gave results", "gave no match", "panicked"}

ServerTypeOK ==
  /\ permits \in 0..MaxConcurrentSearches
  /\ handler \in [Clients -> {"idle", "awaiting", "gone"}]
  /\ worker \in [Clients -> WorkerStates]
  /\ answer \in [Clients -> Answers]
  /\ holder \in Clients \cup {NoClient}
  /\ poisoned \in BOOLEAN

InFlight == {c \in Clients : worker[c] \in Holding}

-----------------------------------------------------------------------------
(* search_page *)

Respond(c, page) == answer' = [answer EXCEPT ![c] = page]

\* The connection is free for a request: its last search is over.
Connected(c) == handler[c] = "idle" /\ worker[c] = "none"

AskNothing(c) ==
  /\ Connected(c)
  /\ Respond(c, "home")
  /\ UNCHANGED <<permits, handler, worker, holder, poisoned>>

\* try_acquire_owned succeeds, and the permit moves into the search.
Accept(c) ==
  /\ Connected(c)
  /\ permits > 0
  /\ permits' = permits - 1
  /\ handler' = [handler EXCEPT ![c] = "awaiting"]
  /\ worker' = [worker EXCEPT ![c] = "waiting"]
  /\ answer' = [answer EXCEPT ![c] = "none"]
  /\ UNCHANGED <<holder, poisoned>>

\* Mutant: the request is turned away with the last permit still there.
ShedEarly(c) ==
  /\ Connected(c)
  /\ permits <= 1
  /\ Respond(c, "busy")
  /\ UNCHANGED <<permits, handler, worker, holder, poisoned>>

Shed(c) ==
  /\ Connected(c)
  /\ permits = 0
  /\ Respond(c, "busy")
  /\ UNCHANGED <<permits, handler, worker, holder, poisoned>>

\* worker.await: a page, or the JoinError of a search that panicked.
Reply(c) ==
  /\ handler[c] = "awaiting"
  /\ \/ worker[c] = "gave results" /\ Respond(c, "results")
     \/ worker[c] = "gave no match" /\ Respond(c, "no match")
     \/ worker[c] = "panicked" /\ Respond(c, "error")
  /\ handler' = [handler EXCEPT ![c] = "idle"]
  /\ worker' = [worker EXCEPT ![c] = "none"]
  /\ UNCHANGED <<permits, holder, poisoned>>

\* Mutant: the permit stays with the handler and is dropped with it.
DisconnectReleasing(c) ==
  /\ handler[c] = "awaiting"
  /\ handler' = [handler EXCEPT ![c] = "gone"]
  /\ permits' = permits + 1
  /\ UNCHANGED <<worker, answer, holder, poisoned>>

\* The client goes and its handler is dropped.  The search is not.
Disconnect(c) ==
  /\ handler[c] = "awaiting"
  /\ handler' = [handler EXCEPT ![c] = "gone"]
  /\ UNCHANGED <<permits, worker, answer, holder, poisoned>>

\* Another client connects in its place.
Reconnect(c) ==
  /\ handler[c] = "gone"
  /\ worker[c] \notin Holding
  /\ handler' = [handler EXCEPT ![c] = "idle"]
  /\ worker' = [worker EXCEPT ![c] = "none"]
  /\ UNCHANGED <<permits, answer, holder, poisoned>>

-----------------------------------------------------------------------------
(* run_search, on its blocking thread *)

Lock(c) ==
  /\ worker[c] = "waiting"
  /\ holder = NoClient
  /\ ~poisoned
  /\ holder' = c
  /\ worker' = [worker EXCEPT ![c] = "searching"]
  /\ UNCHANGED <<permits, handler, answer, poisoned>>

\* lock() returns the error, and with it nothing stays locked.
LockPoisoned(c) ==
  /\ worker[c] = "waiting"
  /\ holder = NoClient
  /\ poisoned
  /\ worker' = [worker EXCEPT ![c] = "no match"]
  /\ UNCHANGED <<permits, handler, answer, holder, poisoned>>

\* The search is done, or failed, or found nothing; the guard goes with the
\* end of run_search.
Search(c) ==
  /\ worker[c] = "searching"
  /\ \E page \in {"results", "no match"} : worker' = [worker EXCEPT ![c] = page]
  /\ holder' = NoClient
  /\ UNCHANGED <<permits, handler, answer, poisoned>>

\* A panic before the lock is taken, while the query is parsed, or under it:
\* unwinding drops the guard, which poisons the lock.
PanicParsing(c) ==
  /\ worker[c] = "waiting"
  /\ worker' = [worker EXCEPT ![c] = "unwinding"]
  /\ UNCHANGED <<permits, handler, answer, holder, poisoned>>

PanicSearching(c) ==
  /\ worker[c] = "searching"
  /\ worker' = [worker EXCEPT ![c] = "unwinding"]
  /\ holder' = NoClient
  /\ poisoned' = TRUE
  /\ UNCHANGED <<permits, handler, answer>>

\* Mutant: only a search that returns gives its permit back.
GiveBackReturned(c) ==
  /\ \/ worker[c] = "results" /\ worker' = [worker EXCEPT ![c] = "gave results"]
     \/ worker[c] = "no match" /\ worker' = [worker EXCEPT ![c] = "gave no match"]
     \/ worker[c] = "unwinding" /\ worker' = [worker EXCEPT ![c] = "panicked"]
  /\ permits' = IF worker[c] = "unwinding" THEN permits ELSE permits + 1
  /\ UNCHANGED <<handler, answer, holder, poisoned>>

\* drop(permit), or unwinding, which drops what the closure owns.
GiveBack(c) ==
  /\ \/ worker[c] = "results" /\ worker' = [worker EXCEPT ![c] = "gave results"]
     \/ worker[c] = "no match" /\ worker' = [worker EXCEPT ![c] = "gave no match"]
     \/ worker[c] = "unwinding" /\ worker' = [worker EXCEPT ![c] = "panicked"]
  /\ permits' = permits + 1
  /\ UNCHANGED <<handler, answer, holder, poisoned>>

-----------------------------------------------------------------------------

ServerInit ==
  /\ permits = MaxConcurrentSearches
  /\ handler = [c \in Clients |-> "idle"]
  /\ worker = [c \in Clients |-> "none"]
  /\ answer = [c \in Clients |-> "none"]
  /\ holder = NoClient
  /\ poisoned = FALSE

Request(c) == AskNothing(c) \/ Accept(c) \/ Shed(c)

\* What a search does of itself, panics apart.
Work(c) == Lock(c) \/ LockPoisoned(c) \/ Search(c) \/ GiveBack(c)

ServerNext ==
  \E c \in Clients :
    \/ Request(c)
    \/ Reply(c)
    \/ Disconnect(c)
    \/ Reconnect(c)
    \/ Work(c)
    \/ PanicParsing(c)
    \/ PanicSearching(c)

ServerSpec == ServerInit /\ [][ServerNext]_serverVars

\* Threads run and searches end: the operating system schedules every blocking
\* thread.  Nothing is assumed of who gets the lock, of clients or of panics.
FairServerSpec ==
  /\ ServerSpec
  /\ \A c \in Clients : WF_serverVars(Search(c)) /\ WF_serverVars(GiveBack(c))
  /\ WF_serverVars(\E c \in Clients : Lock(c) \/ LockPoisoned(c))

-----------------------------------------------------------------------------
(* What the server keeps true *)

\* Every permit is in the semaphore or with exactly one search, through panics
\* and clients that leave: the cap is neither exceeded nor eroded
\* (search_page moves the permit into the closure it spawns).
PermitsExact == permits + Cardinality(InFlight) = MaxConcurrentSearches

\* The inductive invariant.
ServerInv == ServerTypeOK /\ PermitsExact

\* A request is turned away only when the whole allowance is in use ("the
\* requests it does accept stay fast"): no permit is idle, none is lost.
ShedOnlyWhenFull ==
  [][\A c \in Clients : Shed(c) =>
       Cardinality(InFlight) = MaxConcurrentSearches]_serverVars

\* A server that is full does not stay full: a search that waits behind the
\* lock gets it or finds it poisoned, and its permit comes back.
Drains == permits = 0 ~> permits > 0

\* Cargo.toml: "uruk-serve should catch a panic per request rather than let one
\* bad query take down the process".  A request that waits for the lock goes on
\* to search, or to a panic of its own; another's panic does not answer it.
OnePanicOneRequest ==
  [][\A c \in Clients :
       worker[c] = "waiting" => worker'[c] \in {"waiting", "searching", "unwinding"}
    ]_serverVars
=============================================================================
