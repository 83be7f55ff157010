------------------------------ MODULE LinkGraph ------------------------------
(***************************************************************************)
(* The hosts of a crawl and the links between them (graph.rs).  A record   *)
(* is [url, final, links], a URL [host, path], a link [url, anchor,        *)
(* nofollow].  The code numbers hosts as it meets them; here a host is its *)
(* own number.                                                             *)
(***************************************************************************)
EXTENDS Hosts

NoDrops == [nofollow |-> 0, sameSite |-> 0, unparseable |-> 0, repeat |-> 0]

NewGraph == [pages |-> <<>>, out |-> <<>>, incoming |-> <<>>, seeds |-> {}, dropped |-> NoDrops]

Intern(graph, host) ==
  IF host \in DOMAIN graph.pages THEN graph
  ELSE [graph EXCEPT !.pages = With(@, host, 0), !.out = With(@, host, <<>>), !.incoming = With(@, host, <<>>)]

CountIn(counts, key) == IF key \in DOMAIN counts THEN counts[key] ELSE 0

OneMore(counts, key) == With(counts, key, CountIn(counts, key) + 1)

AddSeed(graph, url) ==
  LET host == HostOf(url.host)
  IN  IF host = <<>> THEN graph ELSE [Intern(graph, host) EXCEPT !.seeds = @ \cup {host}]

(***************************************************************************)
(* A page's links, deduplicated against each other, so that it votes for   *)
(* each host once.                                                         *)
(***************************************************************************)

ReadLink(from, read, link) ==
  LET to == HostOf(link.url.host)
  IN  IF link.nofollow THEN [read EXCEPT !.dropped.nofollow = @ + 1]
      ELSE IF to = <<>> THEN [read EXCEPT !.dropped.unparseable = @ + 1]
      ELSE IF SameSite(from, to) THEN [read EXCEPT !.dropped.sameSite = @ + 1]
      ELSE [read EXCEPT !.targets = @ \cup {to}, !.dropped.repeat = IF to \in read.targets THEN @ + 1 ELSE @]

ReadLinks(graph, from, links) ==
  FoldLeft(LAMBDA read, link : ReadLink(from, read, link), [targets |-> {}, dropped |-> graph.dropped], links)

Vote(graph, from, to) ==
  LET interned == Intern(graph, to)
  IN  [interned EXCEPT !.out[from] = OneMore(@, to), !.incoming[to] = OneMore(@, from)]

VoteForAll(graph, from, targets) == FoldSet(LAMBDA to, g : Vote(g, from, to), graph, targets)

AddRecord(graph, record) ==
  LET from == HostOf(record.final.host)
      known == [Intern(graph, from) EXCEPT !.pages[from] = @ + 1]
      read == ReadLinks(graph, from, record.links)
  IN  IF from = <<>> THEN [graph EXCEPT !.dropped.unparseable = @ + 1]
      ELSE VoteForAll([known EXCEPT !.dropped = read.dropped], from, read.targets)

Graph(records, seeds) == FoldLeft(AddRecord, FoldLeft(AddSeed, NewGraph, seeds), records)

HostsOf(graph) == DOMAIN graph.pages

InDegree(graph, host) == Cardinality(DOMAIN graph.incoming[host])

OutDegree(graph, host) == Cardinality(DOMAIN graph.out[host])
=============================================================================
