-------------------------------- MODULE Corpus --------------------------------
(***************************************************************************)
(* A crawl as a whole: which of the pages that are fetched are kept        *)
(* (Crawler::keep), and what the pages kept say together of hosts and of   *)
(* one another: the link graph and the authority that uruk link computes,  *)
(* the anchor texts that uruk index gathers.  Both are functions of the    *)
(* records, so they are compared at every length of the crawl.             *)
(***************************************************************************)
EXTENDS SimHash, Anchors, Authority

CONSTANTS Pages,      \* what a fetch may bring: [url, canonical, index, archive, follow, words, blank, links]
          MaxPages,   \* pages fetched
          Seeds       \* the seeds that the link graph is built with, one of these

IsUrl(url) == url.host \in Seq(Labels)

IsLink(link) == IsUrl(link.url) /\ link.anchor \in DOMAIN Tidy /\ link.nofollow \in BOOLEAN

ASSUME CorpusAssumption ==
  /\ MaxPages \in Nat
  /\ \A page \in Pages :
       /\ IsUrl(page.url) /\ (page.canonical # <<>> => IsUrl(page.canonical[1]))
       /\ page.links \in Seq(ToSet(page.links)) /\ \A link \in ToSet(page.links) : IsLink(link)
  /\ \A seeds \in Seeds : seeds \in Seq(ToSet(seeds)) /\ \A url \in ToSet(seeds) : IsUrl(url)

VARIABLES fetched,     \* the pages that keep was called with, in order
          records,     \* what the crawl store holds
          seen,        \* fingerprints of texts that were kept
          duplicates,  \* pages not kept because their text was
          pushed,      \* URLs handed to the frontier
          noindex      \* pages not kept because they ask for it

corpusVars == <<fetched, records, seen, duplicates, pushed, noindex>>

CorpusInit ==
  /\ fetched = <<>> /\ records = <<>> /\ seen = <<>>
  /\ duplicates = 0 /\ pushed = {} /\ noindex = 0

\* The canonical URL that a page names takes the place of the one it came from.
RecordOf(page) ==
  [url |-> page.url, final |-> IF page.canonical = <<>> THEN page.url ELSE page.canonical[1], links |-> page.links]

\* What may be stored: a page that asks for no copy of it is not, and one
\* without text has nothing to store.
Storable(page) == page.index /\ page.archive /\ ~page.blank

\* A bug: the text of a page that is not stored is remembered.
RemembersRefused(page) == InsertUnlessDuplicate(seen, Fingerprint(page.words))

Remembers(page) == IF Storable(page) THEN InsertUnlessDuplicate(seen, Fingerprint(page.words)) ELSE seen

KeepPage(page) ==
  LET repeats == Storable(page) /\ Near(seen, Fingerprint(page.words)) # {}
  IN  /\ Len(fetched) < MaxPages
      /\ fetched' = Append(fetched, page)
      /\ pushed' = pushed \cup (IF page.follow THEN {link.url : link \in {l \in ToSet(page.links) : ~l.nofollow}} ELSE {})
      /\ noindex' = IF page.index /\ page.archive THEN noindex ELSE noindex + 1
      /\ seen' = Remembers(page)
      /\ records' = IF Storable(page) /\ ~repeats THEN Append(records, RecordOf(page)) ELSE records
      /\ duplicates' = IF repeats THEN duplicates + 1 ELSE duplicates

CorpusNext == \E page \in Pages : KeepPage(page)

CorpusSpec == CorpusInit /\ [][CorpusNext]_corpusVars

------------------------------------------------------------------------------
\* Type invariant: what the crawl keeps is made of what it fetched.
CorpusTypeOK ==
  /\ fetched \in Seq(Pages) /\ Len(fetched) <= MaxPages
  /\ seen \in Seq(Fingerprints \ {NoWords})
  /\ records \in Seq({RecordOf(page) : page \in ToSet(fetched)})
  /\ noindex \in Nat /\ duplicates \in Nat
  /\ Len(records) + noindex + duplicates <= Len(fetched)

(***************************************************************************)
(* What is kept.                                                           *)
(***************************************************************************)
\* No two texts that are kept are near-duplicates, although only texts that
\* have a block in common are ever compared (insert_unless_duplicate).
KeptApart == \A i, j \in DOMAIN seen : i # j => Distance(seen[i], seen[j]) > Threshold

\* The lookup by blocks misses nothing, whatever text comes next (find_near).
LookupExact ==
  \A f \in Fingerprints \ {NoWords} : Near(seen, f) = {g \in ToSet(seen) : Distance(f, g) <= Threshold}

\* Near-duplicates are found: the lookup misses none, so none are kept
\* (SeenFingerprints).
DuplicatesAreFound == KeptApart /\ LookupExact

PrintOf(i) == Fingerprint(fetched[i].words)

Apart(f, g) == f = NoWords \/ g = NoWords \/ Distance(f, g) > Threshold

\* The pages that a crawl is to keep: those that may be stored of which no page
\* kept before has nearly the text.
ToKeep(kept) ==
  \A i \in DOMAIN fetched :
    i \in kept <=> Storable(fetched[i]) /\ \A j \in kept : j < i => Apart(PrintOf(i), PrintOf(j))

\* A page is stored exactly when it may be and no page stored before it has
\* nearly its text, and only the texts that are stored are remembered: a page
\* that is refused leaves no trace, and a later copy that permits is stored (keep).
KeptAsPermitted ==
  \E kept \in SUBSET DOMAIN fetched :
    /\ ToKeep(kept)
    /\ ToSet(seen) = {PrintOf(i) : i \in kept} \ {NoWords}
    /\ Len(records) = Cardinality(kept)
    /\ \A i \in kept : records[Cardinality({j \in kept : j <= i})] = RecordOf(fetched[i])

------------------------------------------------------------------------------
(***************************************************************************)
(* Who owns a host, as the Public Suffix List defines it.                  *)
(***************************************************************************)
Owner(host) ==
  LET excepted == {rule \in Exception : IsSuffix(rule, host)}
      lengths  == {1} \cup {Len(rule) : rule \in {r \in Ordinary : IsSuffix(r, host)}}
                      \cup {Len(rule) + 1 : rule \in {r \in Wildcard : IsSuffix(r, host) /\ Len(host) > Len(r)}}
  IN  IF host \in Addresses THEN host
      ELSE IF excepted # {} THEN CHOOSE rule \in excepted : \A r \in excepted : Len(r) <= Len(rule)
      ELSE SubSeq(host, Max({1, Len(host) - Max(lengths)}), Len(host))

\* A link by which one site says something of another's host: one of a page
\* that it served.
Vouches(record, link) ==
  LET to == HostOf(link.url.host)
  IN  HostOf(record.final.host) # <<>> /\ to # <<>> /\ ~link.nofollow /\ Owner(HostOf(record.url.host)) # Owner(to)

\* The code looks at the host that the page names as its canonical one
\* instead, which may be anyone's (parse.rs) ...
IsCounted(record, link) ==
  LET from == HostOf(record.final.host)
      to   == HostOf(link.url.host)
  IN  from # <<>> /\ to # <<>> /\ ~link.nofollow /\ Owner(from) # Owner(to)

\* ... and so its counts are what they are meant to be where every page names
\* one of its own site.
OwnNames == \A i \in DOMAIN records : Owner(HostOf(records[i].url.host)) = Owner(HostOf(records[i].final.host))

\* The hosts that links of some pages are counted for.
LinkedBy(pages) ==
  UNION {{HostOf(link.url.host) : link \in {l \in ToSet(page.links) : IsCounted(RecordOf(page), l)}} : page \in pages}

\* Degrees is a multiple of the number of hosts that pages of one host link to,
\* whichever of them are kept.
ASSUME AuthorityAssumption ==
  /\ Degrees \in Nat \ {0} /\ Rounds \in Nat \ {0}
  /\ \A kept \in SUBSET Pages :
       /\ IsFiniteSet(kept) /\ Cardinality(kept) <= MaxPages
       /\ \A page, other \in kept : HostOf(RecordOf(page).final.host) = HostOf(RecordOf(other).final.host)
       => LinkedBy(kept) = {} \/ Degrees % Cardinality(LinkedBy(kept)) = 0

Voting(from, to) ==
  {i \in DOMAIN records : /\ HostOf(records[i].final.host) = from
                          /\ \E link \in ToSet(records[i].links) : Vouches(records[i], link) /\ HostOf(link.url.host) = to}

(***************************************************************************)
(* The link graph.                                                         *)
(***************************************************************************)
\* An edge has two ends that agree, and counts the pages of one site that
\* vouch for a host of another, each once, if pages are called by their own
\* site's names (HostGraph::build, same_site).
VotesAreOthers ==
  LET graph == Graph(records, <<>>)
  IN  OwnNames =>
      \A from, to \in HostsOf(graph) :
        /\ CountIn(graph.out[from], to) = Cardinality(Voting(from, to))
        /\ CountIn(graph.incoming[to], from) = Cardinality(Voting(from, to))

\* Every link is an edge's or is counted among those dropped, once (Dropped).
LinksAccounted ==
  LET graph == Graph(records, <<>>)
      placed == {i \in DOMAIN records : HostOf(records[i].final.host) # <<>>}
      d == graph.dropped
  IN  FoldSet(LAMBDA i, n : n + Len(records[i].links), Len(records) - Cardinality(placed), placed)
        = d.nofollow + d.sameSite + d.unparseable + d.repeat
          + AllOf(HostsOf(graph), LAMBDA h : AllOf(DOMAIN graph.out[h], LAMBDA to : graph.out[h][to]))

------------------------------------------------------------------------------
(***************************************************************************)
(* Anchor texts.                                                           *)
(***************************************************************************)
\* The phrases by which other sites that vouch for a page call it.
Called(url) ==
  {Tidy[link.anchor] : link \in UNION {{l \in ToSet(records[i].links) : l.url = url /\ Vouches(records[i], l)} : i \in DOMAIN records}}

Fitting(url) == {phrase \in Called(url) : phrase # NoPhrase /\ Chars[phrase] <= MaxPhraseChars}

\* A page of the crawl is described by what other sites call it, whether they
\* were crawled before it or after it: by all of it, unless it is more than the
\* limit (Anchors::collect).
AnchorsAreOthers ==
  LET anchors == Collect(records)
  IN  OwnNames =>
      \A url \in Crawled(records) :
        LET phrases == Target(anchors, url).phrases
        IN  /\ phrases \subseteq Fitting(url)
            /\ Cardinality(phrases) = Min({MaxPhrases, Cardinality(Fitting(url))})

\* What is indexed of it fits, and is all theirs (Anchors::text_for).
DescriptionFits ==
  LET anchors == Collect(records)
  IN  \A i \in DOMAIN records :
        LET text == TextFor(anchors, records[i].url, records[i].final)
        IN  /\ Written(text) <= MaxTotalChars
            /\ OwnNames => ToSet(text) \subseteq Fitting(records[i].url) \cup Fitting(records[i].final)

\* Index and link graph agree on who is another: a page that is described has
\* a host that is voted for (url_host and node, registrable_domain).
AnchorsAreVotes ==
  LET anchors == Collect(records)
      graph   == Graph(records, <<>>)
  IN  \A url \in DOMAIN anchors.targets :
        anchors.targets[url].phrases # {} => InDegree(graph, HostOf(url.host)) > 0

------------------------------------------------------------------------------
(***************************************************************************)
(* Authority.                                                              *)
(***************************************************************************)
\* A host that the index knows, by whatever name, scores the number of hosts
\* of other sites that vouch for it (Authority::score).
ScoreIsVoters ==
  LET graph == Graph(records, <<>>)
  IN  OwnNames =>
      \A i \in DOMAIN records :
        LET host == records[i].final.host
        IN  AuthorityScore(graph, host) = Cardinality({from \in HostsOf(graph) : Voting(from, HostOf(host)) # {}})

\* Trust is neither made nor lost, however many hosts link nowhere (trust_rank).
TrustIsShared ==
  \A seeds \in Seeds, n \in 0..Rounds :
    LET graph == Graph(records, seeds)
        trust == Trust(graph, n)
    IN  HostsOf(graph) # {} => AllOf(HostsOf(graph), LAMBDA h : trust[h]) = Unit(graph)

\* The hosts that n links lead to from the roots.
Reached(graph, n) ==
  FoldLeft(LAMBDA hosts, k : hosts \cup UNION {DOMAIN graph.out[h] : h \in hosts}, Roots(graph), [k \in 1..n |-> k])

\* A host has trust when links lead to it from a seed, and otherwise none at
\* all: what hosts without links hold goes back to the seeds (trust_rank).
TrustFollowsLinks ==
  \A seeds \in Seeds :
    LET graph   == Graph(records, seeds)
        trust   == Trust(graph, Rounds)
        reached == Reached(graph, Rounds)
    IN  \A h \in HostsOf(graph) : trust[h] > 0 <=> h \in reached

\* In each round the scores move by at most the damping times what they moved
\* by in the round before, so that the rounds that are allowed are enough
\* (iterations_needed).
TrustSettles ==
  \A seeds \in Seeds :
    LET graph == Graph(records, seeds)
        moved(n) == Residual(graph, Trust(graph, n - 1), Trust(graph, n))
    IN  moved(1) <= Unit(graph) /\ \A n \in 2..Rounds : 2 * moved(n) <= moved(n - 1)

\* Another page with the links of one that a host has already changes nothing
\* that is counted (graph.rs, "the cheapest attack ... is to generate pages").
PagesBuyNothing ==
  \A seeds \in Seeds, i, j \in DOMAIN records :
    (i # j /\ HostOf(records[i].final.host) = HostOf(records[j].final.host) /\ records[i].links = records[j].links) =>
      LET graph   == Graph(records, seeds)
          without == Graph(RemoveAt(records, i), seeds)
      IN  /\ Trust(graph, Rounds) = Trust(without, Rounds)
          /\ \A h \in HostsOf(graph) : InDegree(graph, h) = InDegree(without, h)

------------------------------------------------------------------------------
(***************************************************************************)
(* What the documents say of sites that the code does not keep: it holds   *)
(* for honest pages, and a page may be made for which it does not.         *)
(***************************************************************************)
\* "a site cannot vote for itself" (README.md): of two hosts with an edge, some
\* page that gives it was served by another site than the one that gains.
NoOwnVotes ==
  LET graph == Graph(records, <<>>)
  IN  \A from \in HostsOf(graph) : \A to \in DOMAIN graph.out[from] : Voting(from, to) # {}

\* The phrases by which one site calls a page.
CalledBy(site, url) ==
  {Tidy[link.anchor] : link \in UNION {{l \in ToSet(records[i].links) : l.url = url /\ Vouches(records[i], l)} :
                                       i \in {j \in DOMAIN records : Owner(HostOf(records[j].url.host)) = site}}}

\* "a second, different describer must still get through" (tests/anchors.rs):
\* when the sites that describe a page are no more than the phrases it may have,
\* some phrase of each is kept.
EachIsHeard ==
  LET anchors == Collect(records)
      sites   == {Owner(HostOf(records[i].url.host)) : i \in DOMAIN records}
  IN  \A url \in Crawled(records) :
        LET describers == {site \in sites : CalledBy(site, url) \cap Fitting(url) # {}}
        IN  Cardinality(describers) <= MaxPhrases =>
              \A site \in describers : CalledBy(site, url) \cap Target(anchors, url).phrases # {}

\* No site gains from what it says of itself, nor silences what another says:
\* a crawl that refutes this refutes the two parts.
SitesStayInBounds == NoOwnVotes \/ EachIsHeard

(***************************************************************************)
(* The promises above, by the part of the program that keeps them.         *)
(***************************************************************************)
\* What the crawl stores and counts is what it may keep and has not kept
\* already (CrawlState::keep).
StoredAsPermitted == CorpusTypeOK /\ KeptAsPermitted

\* A vote is one site's for another's host, counted once however many pages
\* and links repeat it, and every other link is accounted for (graph.rs).
VotesAreFair == VotesAreOthers /\ LinksAccounted /\ PagesBuyNothing

\* What a page is called is what sites that vote for it call it (anchors.rs).
NamesAreOthers == AnchorsAreOthers /\ DescriptionFits /\ AnchorsAreVotes

\* Authority comes from other sites and from the seeds, by way of links, and is
\* settled when it is written down (authority.rs).
AuthorityIsEarned == ScoreIsVoters /\ TrustIsShared /\ TrustFollowsLinks /\ TrustSettles
=============================================================================
