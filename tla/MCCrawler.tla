----------------------------- MODULE MCCrawler ------------------------------
(***************************************************************************)
(* Small webs for the crawler.  Host h1 has the pages a, b and e; b has a  *)
(* second spelling, b2, with the same dedupe key (https for http, or a     *)
(* final slash).  Host h2 has the pages c and d.                           *)
(***************************************************************************)
EXTENDS CrawlerRefinement

CONSTANTS h1, h2, a, b, b2, e, c, d, t1, t2

MCUrls == {a, b, b2, e, c, d}
MCHosts == {h1, h2}
MCHostOf == [u \in MCUrls |-> IF u \in {a, b, b2, e} THEN h1 ELSE h2]
MCKeyOf == [u \in MCUrls |-> IF u = b2 THEN b ELSE u]
MCTasks == {t1, t2}

-----------------------------------------------------------------------------

Body(allowed, root, wait) ==
  [status |-> "body", allowed |-> allowed, root |-> root, delay |-> wait]
Status(s) == [status |-> s, allowed |-> {}, root |-> FALSE, delay |-> 0]

Page(links, keep) ==
  [kind |-> "page", links |-> links, keep |-> keep]
Redirect(u) ==
  [kind |-> "redirect", links |-> {u}, keep |-> FALSE]
Error == [kind |-> "error", links |-> {}, keep |-> FALSE]

-----------------------------------------------------------------------------

\* Host h1 may ask for a slower crawl, may be unavailable, or may refuse all
\* but b; h2 may have no robots.txt, or keep d to itself.
WideRobots ==
  (h1 :> {Body({a, b, b2, e}, TRUE, 3), Status("unavailable"), Body({b}, FALSE, 0)})
  @@ (h2 :> {Status("missing"), Body({c}, TRUE, 0)})

\* Links within and across the hosts, a redirect and an error on each way.
WideWeb ==
  (a :> {Page({b, b2, d}, TRUE), Redirect(b2), Error})
  @@ (b :> {Page({c, e}, FALSE)})
  @@ (b2 :> {Page({a, e}, TRUE)})
  @@ (e :> {Page({}, TRUE), Redirect(b)})
  @@ (c :> {Page({d, b}, FALSE), Redirect(a)})
  @@ (d :> {Page({}, TRUE), Error})

-----------------------------------------------------------------------------

\* A narrow web that leads a crawl of h1 to one question: the page b is served
\* under its second spelling only.
PlainRobots == [h \in MCHosts |-> {Status("missing")}]
MovedWeb ==
  [u \in MCUrls |-> IF u = b THEN {Redirect(b2)} ELSE {Page({}, TRUE)}]
=============================================================================
