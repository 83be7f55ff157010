------------------------------- MODULE Anchors -------------------------------
(***************************************************************************)
(* What other sites call a page (anchors.rs): the phrases of the links to  *)
(* it.  Phrases are numbers, in their order; NoPhrase is the empty one.    *)
(***************************************************************************)
EXTENDS Hosts

CONSTANTS Tidy,             \* the phrase an anchor reads as
          Chars,            \* characters in each phrase
          PhraseBytes,      \* bytes in it
          MaxPhrases,       \* phrases kept for a URL (12)
          MaxPhraseChars,   \* characters in one (80)
          MaxTotalChars     \* bytes in what describes a document, in spite of the name (400)

NoPhrase == 0

ASSUME AnchorsAssumption ==
  /\ \A anchor \in DOMAIN Tidy : Tidy[anchor] \in Nat /\ (Tidy[anchor] # NoPhrase => {Chars[Tidy[anchor]], PhraseBytes[Tidy[anchor]]} \subseteq Nat)
  /\ MaxPhrases \in Nat \ {0} /\ MaxPhraseChars \in Nat /\ MaxTotalChars \in Nat

NoTarget == [phrases |-> {}, seen |-> {}]

NoAnchors == [targets |-> <<>>, nofollow |-> 0, uncrawled |-> 0, sameSite |-> 0, tooLong |-> 0, repeated |-> 0]

\* First pass: the URLs of the crawl.
Crawled(records) == UNION {{records[i].url, records[i].final} : i \in DOMAIN records}

Target(anchors, url) == IF url \in DOMAIN anchors.targets THEN anchors.targets[url] ELSE NoTarget

\* A link that is good for a phrase.  A target that is full forgets what it saw.
Describe(anchors, site, url, phrase) ==
  LET target == Target(anchors, url)
      full   == Cardinality(target.phrases) >= MaxPhrases
      known  == <<site, phrase>> \in target.seen
      now    == IF full THEN [target EXCEPT !.seen = {}]
                ELSE [phrases |-> target.phrases \cup (IF known THEN {} ELSE {phrase}), seen |-> target.seen \cup {<<site, phrase>>}]
  IN  [anchors EXCEPT !.targets = With(@, url, now), !.repeated = IF ~full /\ known THEN @ + 1 ELSE @]

\* Second pass, one link of a record of that site.
HearLink(crawled, site, anchors, link) ==
  LET host   == HostOf(link.url.host)
      phrase == Tidy[link.anchor]
  IN  IF link.nofollow THEN [anchors EXCEPT !.nofollow = @ + 1]
      ELSE IF link.url \notin crawled THEN [anchors EXCEPT !.uncrawled = @ + 1]
      ELSE IF host = <<>> THEN anchors
      ELSE IF RegistrableDomain(host) = site THEN [anchors EXCEPT !.sameSite = @ + 1]
      ELSE IF phrase = NoPhrase THEN anchors
      ELSE IF Chars[phrase] > MaxPhraseChars THEN [anchors EXCEPT !.tooLong = @ + 1]
      ELSE Describe(anchors, site, link.url, phrase)

HearLinks(crawled, site, anchors, links) ==
  FoldLeft(LAMBDA a, link : HearLink(crawled, site, a, link), anchors, links)

HearRecord(crawled, anchors, record) ==
  LET source == HostOf(record.final.host)
  IN  IF source = <<>> THEN anchors
      ELSE HearLinks(crawled, RegistrableDomain(source), anchors, record.links)

\* A bug: one pass, so that only the pages before a link are known.
CollectInOnePass(records) ==
  FoldLeft(LAMBDA a, i : HearRecord(Crawled(SubSeq(records, 1, i)), a, records[i]), NoAnchors, [i \in DOMAIN records |-> i])

Collect(records) == FoldLeft(LAMBDA a, record : HearRecord(Crawled(records), a, record), NoAnchors, records)

(***************************************************************************)
(* The phrases that describe a document, in one text: those of its URL,    *)
(* then those of the one it ended at, up to the first that does not fit.   *)
(***************************************************************************)
Written(text) == FoldLeft(LAMBDA n, phrase : n + PhraseBytes[phrase] + (IF n = 0 THEN 0 ELSE 1), 0, text)

Fits(text, phrase) == Written(text) + PhraseBytes[phrase] + 1 <= MaxTotalChars

\* The phrases of a target in order: each where as many come before it.
Phrases(anchors, url) ==
  LET all == Target(anchors, url).phrases
  IN  [i \in 1..Cardinality(all) |-> CHOOSE p \in all : Cardinality({q \in all : q < p}) = i - 1]

TextFor(anchors, url, final) ==
  LET all == Phrases(anchors, url) \o (IF url = final THEN <<>> ELSE Phrases(anchors, final))
      unfit == {i \in DOMAIN all : ~Fits(SubSeq(all, 1, i - 1), all[i])}
  IN  IF unfit = {} THEN all ELSE SubSeq(all, 1, Min(unfit) - 1)
=============================================================================
