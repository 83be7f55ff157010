------------------------------ MODULE Authority ------------------------------
(***************************************************************************)
(* What a host is worth (authority.rs): how many hosts link to it, or the  *)
(* trust that flows to it from the seeds of the crawl.  Half of the trust  *)
(* is damped away in a round.  It is counted in whole parts, so many that  *)
(* every division below comes out even.                                    *)
(***************************************************************************)
EXTENDS LinkGraph

CONSTANTS Degrees,  \* a common multiple of the numbers of hosts that a host links to
          Rounds    \* rounds of the iteration (iterations_needed: at least one, 133 at 0.85)

Roots(graph) == IF graph.seeds = {} THEN HostsOf(graph) ELSE graph.seeds

\* The parts of a root's trust that every one of some rounds may divide.
Parts(roots, rounds) == FoldLeft(LAMBDA parts, n : 2 * Degrees * roots * parts, 1, [n \in 1..rounds |-> n])

\* The parts of all the trust there is.
Unit(graph) == LET roots == Cardinality(Roots(graph)) IN roots * Parts(roots, Rounds)

\* The part of some trust that a host gets when it is spread over the roots.
Teleport(graph, trust, host) == IF host \in Roots(graph) THEN trust \div Cardinality(Roots(graph)) ELSE 0

AllOf(hosts, Part(_)) == FoldSet(LAMBDA host, sum : Part(host) + sum, 0, hosts)

Dangling(graph, scores) == AllOf({h \in HostsOf(graph) : OutDegree(graph, h) = 0}, LAMBDA h : scores[h])

\* A bug: every page that links is a vote.
ReceivedByPages(graph, scores, host) ==
  AllOf(DOMAIN graph.incoming[host],
        LAMBDA from : (scores[from] * graph.out[from][host]) \div (2 * AllOf(DOMAIN graph.out[from], LAMBDA to : graph.out[from][to])))

\* What flows along the links to a host, whatever the number of pages that have them.
Received(graph, scores, host) ==
  AllOf(DOMAIN graph.incoming[host], LAMBDA from : scores[from] \div (2 * OutDegree(graph, from)))

\* A bug: what flows nowhere is lost.
RoundLeaky(graph, scores) ==
  [host \in HostsOf(graph) |-> Teleport(graph, Unit(graph) \div 2, host) + Received(graph, scores, host)]

Round(graph, scores) ==
  LET damped   == Unit(graph) \div 2
      dangling == Dangling(graph, scores) \div 2
  IN  [host \in HostsOf(graph) |->
         Teleport(graph, damped, host) + Received(graph, scores, host) + Teleport(graph, dangling, host)]

\* The scores after a number of rounds.
Trust(graph, rounds) ==
  LET unit == Unit(graph)
  IN  FoldLeft(LAMBDA scores, n : Round(graph, scores), [host \in HostsOf(graph) |-> Teleport(graph, unit, host)],
               [n \in 1..rounds |-> n])

Residual(graph, before, after) ==
  AllOf(HostsOf(graph), LAMBDA h : IF after[h] > before[h] THEN after[h] - before[h] ELSE before[h] - after[h])

(***************************************************************************)
(* What the ranker asks: by the number of hosts that link, over the most   *)
(* that any has, or by trust, over the most.  The logarithms it takes of   *)
(* both do not change the order.  The name it asks by is the one in the    *)
(* index, which has not lost its www.                                      *)
(***************************************************************************)

Entry(graph, host) == {h \in HostsOf(graph) : h = HostOf(host)}

AuthorityScore(graph, host) == AllOf(Entry(graph, host), LAMBDA h : InDegree(graph, h))
=============================================================================
