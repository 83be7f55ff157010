---------------------------- MODULE PoliteCrawl -----------------------------
(***************************************************************************)
(* What a polite crawl promises, with no queue, no cache, no loop and no   *)
(* task: pages are discovered, visited once at most and one at a time on a *)
(* host, whose server is contacted only after it has been left in peace    *)
(* for the gap.  The crawler is shown to implement this specification.     *)
(***************************************************************************)
EXTENDS Integers

CONSTANTS
  Pages,    \* what counts as one page, however its URL is spelled
  Hosts,
  HostOfPage,
  Gap,      \* the time between an answer of a host and the next request to it
  Horizon   \* BOUND: how far quiet counts

VARIABLES
  fate,   \* of a page: unknown, waiting, visiting, visited or dropped
  off,    \* whether a host has turned out to be off limits
  busy,   \* whether a host has a request to answer
  quiet   \* time since a host last had one

vars == <<fate, off, busy, quiet>>

With(f) == {p \in Pages : fate[p] = f}
On(h) == {p \in Pages : HostOfPage[p] = h}
HostsOf(P) == {HostOfPage[p] : p \in P}

Init ==
  /\ fate = [p \in Pages |-> "unknown"]
  /\ off = [h \in Hosts |-> FALSE]
  /\ busy = [h \in Hosts |-> FALSE]
  /\ quiet = [h \in Hosts |-> Horizon]

\* Unknown pages of hosts that are not off limits may start to wait.
Discoverable(S) == \A p \in S : ~off[HostOfPage[p]]

Discover(S) ==
  /\ Discoverable(S)
  /\ fate' = [p \in Pages |-> IF p \in S THEN "waiting" ELSE fate[p]]
  /\ UNCHANGED <<off, busy, quiet>>

\* A waiting page is taken up when its host has no other page being visited.
Begin(p) ==
  /\ fate[p] = "waiting"
  /\ ~off[HostOfPage[p]]
  /\ With("visiting") \cap On(HostOfPage[p]) = {}
  /\ fate' = [fate EXCEPT ![p] = "visiting"]
  /\ UNCHANGED <<off, busy, quiet>>

\* A host is contacted for the page being visited there, robots.txt included.
Contact(h) ==
  /\ With("visiting") \cap On(h) # {}
  /\ ~busy[h]
  /\ quiet[h] >= Gap
  /\ busy' = [busy EXCEPT ![h] = TRUE]
  /\ quiet' = [quiet EXCEPT ![h] = 0]
  /\ UNCHANGED <<fate, off>>

Answered(h) ==
  /\ busy[h]
  /\ busy' = [busy EXCEPT ![h] = FALSE]
  /\ UNCHANGED <<fate, off, quiet>>

\* Visits end, well or badly, all the pages of P at once when the crawl does.
\* What they discovered starts to wait.  A host they found to be off limits
\* loses the pages waiting there.
Conclude(P, S, out) ==
  LET dropped == {p \in With("waiting") : HostOfPage[p] \in out}
  IN  /\ P # {}
      /\ S = {} \/ out = {}
      /\ Discoverable(S)
      /\ fate' = [p \in Pages |-> IF p \in P THEN "visited"
                                  ELSE IF p \in S THEN "waiting"
                                  ELSE IF p \in dropped THEN "dropped"
                                  ELSE fate[p]]
      /\ off' = [h \in Hosts |-> off[h] \/ h \in out]
      /\ busy' = [h \in Hosts |-> busy[h] /\ On(h) \cap P = {}]
      /\ UNCHANGED quiet

Time ==
  /\ quiet' = [h \in Hosts |->
       IF busy[h] THEN 0
       ELSE IF quiet[h] < Horizon THEN quiet[h] + 1 ELSE Horizon]
  /\ UNCHANGED <<fate, off, busy>>

Next ==
  \/ \E S \in SUBSET With("unknown") : Discover(S)
  \/ \E p \in Pages : Begin(p)
  \/ \E h \in Hosts : Contact(h) \/ Answered(h)
  \/ \E P \in SUBSET With("visiting") :
       \E S \in SUBSET With("unknown"), out \in SUBSET HostsOf(P) :
         Conclude(P, S, out)
  \/ Time

Spec == Init /\ [][Next]_vars
=============================================================================
