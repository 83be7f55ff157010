------------------------------ MODULE Frontier ------------------------------
(***************************************************************************)
(* The crawl frontier (crates/uruk-crawl/src/frontier.rs): the queues of   *)
(* URLs waiting to be fetched, one per host, and the books that make       *)
(* politeness and deduplication work.                                      *)
(*                                                                         *)
(* Each operation of the Rust type is an operator here that says what the  *)
(* call does to the variables it touches; the actions at the end of the    *)
(* module let an arbitrary caller make the calls in any order its contract *)
(* allows.  The crawler (module Crawler) composes the same operators.      *)
(*                                                                         *)
(* Time.  The code compares ready_at with the present and nothing else, so *)
(* readyIn[h] is "ready_at minus now", never below zero, and Elapse lets   *)
(* one unit of time pass.                                                  *)
(*                                                                         *)
(* A host the map does not hold yet is indistinguishable from one with an  *)
(* empty queue, nothing fetched and no cooldown: push treats a missing     *)
(* entry as exactly that, so every host has an entry from the start.  The  *)
(* other calls do nothing for a missing entry, hence the guard Known.      *)
(*                                                                         *)
(* Left out: the refusal counters, which nothing reads until the summary.  *)
(***************************************************************************)
EXTENDS Integers, Sequences, FiniteSets, SequencesExt

CONSTANTS
  Urls,            \* normalised URLs, as normalize() returns them
  Hosts,           \* host names
  HostOf,          \* urlnorm::host_of
  KeyOf,           \* urlnorm::dedupe_key: scheme, port and final slash dropped
  Refused,         \* URLs whose own shape push refuses: a trap, or not http(s)
  MaxDepth,        \* limits.max_depth
  MaxPagesPerHost, \* limits.max_pages_per_host
  DefaultDelay,    \* the configured host_delay
  CrawlDelays      \* the delays a robots.txt may declare

ASSUME FrontierAssumption ==
  /\ HostOf \in [Urls -> Hosts]
  /\ DOMAIN KeyOf = Urls
  \* The key starts with the host, so equal keys are on one host.
  /\ \A u, v \in Urls : KeyOf[u] = KeyOf[v] => HostOf[u] = HostOf[v]
  /\ Refused \subseteq Urls
  /\ MaxDepth \in Nat
  /\ MaxPagesPerHost \in Nat
  /\ DefaultDelay \in Nat
  /\ CrawlDelays \subseteq Nat

VARIABLES
  queue,     \* HostQueue.queue, oldest first
  readyIn,   \* HostQueue.ready_at, as the time still to wait
  fetched,   \* HostQueue.fetched
  delay,     \* HostQueue.delay
  blocked,   \* HostQueue.blocked
  inFlight,  \* HostQueue.in_flight
  seen,      \* Frontier.seen, the dedupe keys ever admitted
  queued,    \* Frontier.queued
  handed     \* history: the URLs next() has handed out

frontierVars ==
  <<queue, readyIn, fetched, delay, blocked, inFlight, seen, queued, handed>>

\* What one page can link to.
Links == {L \in SUBSET Urls : IsFiniteSet(L)}

Candidate == [url : Urls, depth : Nat]

FrontierTypeOK ==
  /\ queue \in [Hosts -> Seq(Candidate)]
  /\ readyIn \in [Hosts -> Nat]
  /\ fetched \in [Hosts -> Nat]
  /\ delay \in [Hosts -> Nat]
  /\ blocked \in [Hosts -> BOOLEAN]
  /\ inFlight \in [Hosts -> BOOLEAN]
  /\ seen \subseteq {KeyOf[u] : u \in Urls}
  /\ queued \in Int
  /\ handed \subseteq Urls

Waiting(h) == {queue[h][i].url : i \in DOMAIN queue[h]}
WaitingUrls == UNION {Waiting(h) : h \in Hosts}
Keys(S) == {KeyOf[u] : u \in S}

-----------------------------------------------------------------------------
(* push: who is let in *)

\* Mutant: a blocked host is still welcome.
WelcomeBlocked(u, depth, taken) ==
  /\ u \notin Refused
  /\ KeyOf[u] \notin seen
  /\ depth <= MaxDepth
  /\ taken[HostOf[u]] < MaxPagesPerHost

\* The checks of push, in any order: they only decide which counter is bumped.
\* taken is the fetched count at the moment of the call.
Welcome(u, depth, taken) ==
  /\ u \notin Refused
  /\ KeyOf[u] \notin seen
  /\ ~blocked[HostOf[u]]
  /\ depth <= MaxDepth
  /\ taken[HostOf[u]] < MaxPagesPerHost

\* Mutant: the key is recorded only after the last of the links.
AdmissionsUndeduped(links, depth, taken) ==
  {{u \in links : Welcome(u, depth, taken)}}

\* The sets of URLs that pushing all of links one after another can admit: of
\* the welcome ones, the first met of every key.
Admissions(links, depth, taken) ==
  LET welcome == {u \in links : Welcome(u, depth, taken)}
  IN  {new \in SUBSET welcome :
         /\ \A u, v \in new : KeyOf[u] = KeyOf[v] => u = v
         /\ Keys(new) = Keys(welcome)}

AtHost(S, h) == {u \in S : HostOf[u] = h}

\* What the pushes add to each queue, the links coming in any order.
Arrivals(new) ==
  {tail \in [Hosts -> UNION {SetToSeqs(AtHost(new, h)) : h \in Hosts}] :
     \A h \in Hosts : tail[h] \in SetToSeqs(AtHost(new, h))}

\* push(url, depth, now) for each of links.
Offer(links, depth, taken) ==
  \E new \in Admissions(links, depth, taken) :
    /\ \E tail \in Arrivals(new) :
         queue' = [h \in Hosts |-> queue[h] \o
                     [i \in DOMAIN tail[h] |->
                        [url |-> tail[h][i], depth |-> depth]]]
    /\ seen' = seen \cup Keys(new)
    /\ queued' = queued + Cardinality(new)

-----------------------------------------------------------------------------
(* next *)

Eligible(h) == queue[h] # <<>> /\ ~blocked[h] /\ ~inFlight[h]

Ready(h) == Eligible(h) /\ readyIn[h] = 0

\* Mutant: the host's outstanding request is overlooked.
CoolingInFlight == {h \in Hosts : queue[h] # <<>> /\ ~blocked[h]}

Cooling == {h \in Hosts : Eligible(h) /\ readyIn[h] > 0}

\* The cooldowns Next::Wait may carry: the shortest.
WaitTimes ==
  {d \in {readyIn[h] : h \in Cooling} : \A h \in Cooling : d <= readyIn[h]}

\* Mutant: the counter is left alone.
TakeUncounted(h) ==
  /\ Ready(h)
  /\ queue' = [queue EXCEPT ![h] = Tail(@)]
  /\ inFlight' = [inFlight EXCEPT ![h] = TRUE]
  /\ handed' = handed \cup {Head(queue[h]).url}
  /\ UNCHANGED <<readyIn, fetched, delay, blocked, seen, queued>>

\* next(now) returning Ready with h's front URL; which ready host is taken is
\* the iteration order of a HashMap.
Take(h) ==
  /\ Ready(h)
  /\ queue' = [queue EXCEPT ![h] = Tail(@)]
  /\ queued' = queued - 1
  /\ inFlight' = [inFlight EXCEPT ![h] = TRUE]
  /\ handed' = handed \cup {Head(queue[h]).url}
  /\ UNCHANGED <<readyIn, fetched, delay, blocked, seen>>

-----------------------------------------------------------------------------
(* The other calls; each says only what it does to the variables it names. *)

\* Mutant: no cooldown after a request.
NoteFetchedEager(h) ==
  /\ fetched' = [fetched EXCEPT ![h] = @ + 1]
  /\ readyIn' = readyIn
  /\ inFlight' = [inFlight EXCEPT ![h] = FALSE]

NoteFetched(h) ==
  /\ fetched' = [fetched EXCEPT ![h] = @ + 1]
  /\ readyIn' = [readyIn EXCEPT ![h] = delay[h]]
  /\ inFlight' = [inFlight EXCEPT ![h] = FALSE]

NoteSkipped(h) ==
  /\ inFlight' = [inFlight EXCEPT ![h] = FALSE]
  /\ UNCHANGED <<fetched, readyIn>>

\* Mutant: no delay is ever applied.
SetHostDelayIgnored(h, d) == UNCHANGED delay

SetHostDelay(h, d) == delay' = [delay EXCEPT ![h] = IF d > @ THEN d ELSE @]

\* Mutant: the queue is dropped, the host is not marked.
BlockHostForgetting(h) ==
  /\ queued' = queued - Len(queue[h])
  /\ queue' = [queue EXCEPT ![h] = <<>>]
  /\ UNCHANGED blocked

BlockHost(h) ==
  /\ queued' = queued - Len(queue[h])
  /\ queue' = [queue EXCEPT ![h] = <<>>]
  /\ blocked' = [blocked EXCEPT ![h] = TRUE]

\* One unit of time off a timer; a time already past counts as now.
Cooled(t) == IF t = 0 THEN 0 ELSE t - 1
CoolDown == readyIn' = [h \in Hosts |-> Cooled(readyIn[h])]

-----------------------------------------------------------------------------
(* The frontier on its own, with any caller that releases what it took. *)

FrontierInit ==
  /\ queue = [h \in Hosts |-> <<>>]
  /\ readyIn = [h \in Hosts |-> 0]
  /\ fetched = [h \in Hosts |-> 0]
  /\ delay = [h \in Hosts |-> DefaultDelay]
  /\ blocked = [h \in Hosts |-> FALSE]
  /\ inFlight = [h \in Hosts |-> FALSE]
  /\ seen = {}
  /\ queued = 0
  /\ handed = {}

CallPush(u, depth) ==
  /\ Offer({u}, depth, fetched)
  /\ UNCHANGED <<readyIn, fetched, delay, blocked, inFlight, handed>>

CallNoteFetched(h) ==
  /\ inFlight[h]
  /\ NoteFetched(h)
  /\ UNCHANGED <<queue, delay, blocked, seen, queued, handed>>

CallNoteSkipped(h) ==
  /\ inFlight[h]
  /\ NoteSkipped(h)
  /\ UNCHANGED <<queue, delay, blocked, seen, queued, handed>>

\* The map has an entry for h: one of its URLs was admitted.
Known(h) == \E u \in Urls : HostOf[u] = h /\ KeyOf[u] \in seen

CallSetHostDelay(h, d) ==
  /\ Known(h)
  /\ SetHostDelay(h, d)
  /\ UNCHANGED <<queue, readyIn, fetched, blocked, inFlight, seen, queued, handed>>

CallBlockHost(h) ==
  /\ Known(h)
  /\ BlockHost(h)
  /\ UNCHANGED <<readyIn, fetched, delay, inFlight, seen, handed>>

Elapse ==
  /\ CoolDown
  /\ UNCHANGED <<queue, fetched, delay, blocked, inFlight, seen, queued, handed>>

\* The depths offered reach one past the limit, so that TooDeep happens.
FrontierNext ==
  \/ \E u \in Urls, depth \in 0..MaxDepth + 1 : CallPush(u, depth)
  \/ \E h \in Hosts :
       \/ Take(h)
       \/ CallNoteFetched(h)
       \/ CallNoteSkipped(h)
       \/ \E d \in CrawlDelays : CallSetHostDelay(h, d)
       \/ CallBlockHost(h)
  \/ Elapse

FrontierSpec == FrontierInit /\ [][FrontierNext]_frontierVars

-----------------------------------------------------------------------------
(* What the frontier keeps true *)

\* A URL is never queued, nor handed out, twice, not even under another
\* spelling of its dedupe key: every key is in at most one place of the queues
\* and never both waiting and handed out (frontier.rs: "not fetching anything
\* twice").
Unrepeated ==
  /\ \A g, h \in Hosts : \A i \in DOMAIN queue[g], j \in DOMAIN queue[h] :
       KeyOf[queue[g][i].url] = KeyOf[queue[h][j].url] => g = h /\ i = j
  /\ Keys(WaitingUrls) \cap Keys(handed) = {}
  /\ \A u, v \in handed : KeyOf[u] = KeyOf[v] => u = v

\* Every URL sits in the queue of its own host, so the host that next() holds
\* is the host the request goes to.
QueuedAtHome == \A h \in Hosts : \A u \in Waiting(h) : HostOf[u] = h

\* A key marked seen was handed out, is still waiting, or belongs to a host
\* that has been blocked: recording a key never loses its URL (push records it
\* "only once it is actually admitted"), and nothing else is marked.
NothingLost ==
  LET found == Keys(WaitingUrls) \cup Keys(handed)
  IN  /\ found \subseteq seen
      /\ \A u \in Urls : KeyOf[u] \in seen \ found => blocked[HostOf[u]]

\* The queued counter is the number of URLs waiting: the unsigned subtractions
\* in next and block_host never go below zero.
QueuedIsExact == queued = Cardinality(WaitingUrls)

\* Blocking a host empties its queue for good: push refuses it afterwards.
BlockedIsEmpty == \A h \in Hosts : blocked[h] => queue[h] = <<>>

\* A host's delay never falls below the configured one, whatever it declares:
\* "a site asking to be crawled faster than our default does not override our
\* own politeness budget".
DelayAtLeastDefault == \A h \in Hosts : delay[h] >= DefaultDelay

\* The queues and the seen set tell one story; kept by every operation.
Books ==
  /\ QueuedAtHome
  /\ BlockedIsEmpty
  /\ Unrepeated
  /\ NothingLost
  /\ QueuedIsExact
  /\ IsFiniteSet(WaitingUrls)

\* The inductive invariant of the frontier on its own.
FrontierInv == FrontierTypeOK /\ Books /\ DelayAtLeastDefault
=============================================================================
