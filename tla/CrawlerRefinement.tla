------------------------- MODULE CrawlerRefinement --------------------------
(***************************************************************************)
(* The crawler implements PoliteCrawl.  A page is a dedupe key.  Its fate  *)
(* is read off the frontier and the tasks: a key that was ever admitted is *)
(* waiting in a queue, being visited by a task, done with (its URL was     *)
(* handed out and no task has it any more), or was dropped with the queue  *)
(* of a blocked host.                                                      *)
(***************************************************************************)
EXTENDS Crawler

PageKeys == Keys(Urls)

KeyHost == [k \in PageKeys |-> HostOf[CHOOSE u \in Urls : KeyOf[u] = k]]

VisitedNow == {KeyOf[task[t].url] : t \in {s \in Tasks : Running(s)}}

Fate ==
  [k \in PageKeys |->
     IF k \notin seen THEN "unknown"
     ELSE IF k \in Keys(WaitingUrls) THEN "waiting"
     ELSE IF k \in VisitedNow THEN "visiting"
     ELSE IF k \in Keys(handed) THEN "visited"
     ELSE "dropped"]

Busy == [h \in Hosts |-> Requesting(h) # {}]

Abstract == INSTANCE PoliteCrawl WITH
  Pages <- PageKeys,
  HostOfPage <- KeyHost,
  Gap <- DefaultDelay,
  fate <- Fate,
  off <- blocked,
  busy <- Busy,
  quiet <- quiet

\* Every step of the crawler is a step a polite crawl may take, or changes
\* nothing a polite crawl speaks of: no page is visited twice, a host has one
\* visit at a time and is left in peace for the configured delay between
\* requests, and once off limits it is not visited again.
ImplementsPoliteCrawl == Abstract!Spec
=============================================================================
