------------------------------ MODULE MCOnline ------------------------------
(***************************************************************************)
(* The parts that run for long, side by side: a crawl, the server's        *)
(* allowance of searches, and a search.  They share no state (a search     *)
(* only reads the index, and the server only waits for it), so a behaviour *)
(* is one of one of them, with the others where they begin.                *)
(***************************************************************************)
EXTENDS MCCrawler, SearchServer, MCSearch

VARIABLE part  \* the one that moves

onlineVars == <<vars, serverVars, searchVars, part>>

\* Where it is not the search that moves, what it would search for is one thing.
SomeInputs == CHOOSE put \in Indexes \X Queries \X Limits \X Depths : TRUE

OnlineInit ==
  /\ part \in {"crawl", "server", "search"}
  /\ Init /\ ServerInit /\ SearchInit
  /\ part # "search" => inputs = SomeInputs

CrawlMoves ==
  /\ part = "crawl" /\ Next
  /\ UNCHANGED <<serverVars, searchVars, part>>

ServerMoves ==
  /\ part = "server" /\ ServerNext
  /\ UNCHANGED <<vars, searchVars, part>>

SearchMoves ==
  /\ part = "search" /\ SearchNext
  /\ UNCHANGED <<vars, serverVars, part>>

OnlineNext == CrawlMoves \/ ServerMoves \/ SearchMoves

\* What FairSpec, FairServerSpec and FairSearchSpec assume, each of its part.
OnlineSpec ==
  /\ OnlineInit /\ [][OnlineNext]_onlineVars
  /\ WF_vars(part = "crawl" /\ Loop)
  /\ \A t \in Tasks : WF_vars(part = "crawl" /\ Visit(t))
  /\ WF_vars(part = "crawl" /\ TimePasses)
  /\ \A w \in Clients : /\ WF_serverVars(part = "server" /\ Search(w))
                        /\ WF_serverVars(part = "server" /\ GiveBack(w))
  /\ WF_serverVars(part = "server" /\ \E w \in Clients : Lock(w) \/ LockPoisoned(w))
  /\ WF_searchVars(part = "search" /\ Walk)

\* Ends, of a behaviour in which it is the crawl that moves.
CrawlEnds == part = "crawl" => Ends
=============================================================================
