------------------------------- MODULE Search -------------------------------
(***************************************************************************)
(* Running a query against an index (crates/uruk-query/src/search.rs):     *)
(* segment after segment, intersect the posting lists of the query's       *)
(* terms, drop what an exclusion, a phrase or the site filter forbids, cut *)
(* what is left to the best by everything but proximity, score those with  *)
(* it, and keep the best of all segments in a heap of bounded size.        *)
(*                                                                         *)
(* The scoring formulas are floating point and stay out: an entry's score  *)
(* is what its document gets for the query without proximity, and Bonus    *)
(* what closeness adds.  Document ids are 1-based here.                    *)
(***************************************************************************)
EXTENDS Intersection, FiniteSets, SequencesExt

CONSTANTS
  HostNames,
  Terms,
  Indexes,  \* the indexes that may be searched
  Queries,  \* the parsed queries that may be made
  Limits,   \* SearchOptions.limit
  Depths,   \* SearchOptions.rescore_depth; NoValue scores everything
  Bonus,    \* by how many words the terms miss adjacency, the bonus
  NoValue

\* A segment as its file holds it: the document table and, for each term, the
\* posting list in document order.  The fields of a document share one space
\* of positions, so every posting has some.
Segment == [entries : Seq([host : HostNames, score : Nat]),
            postings : [Terms -> Seq([doc : Nat, positions : SUBSET Nat])]]

Query == [terms : Seq(Terms), phrases : SUBSET Seq(Terms),
          excluded : SUBSET Terms, excludedPhrases : SUBSET Seq(Terms),
          site : HostNames \cup {NoValue}]

Docs(list) == [i \in DOMAIN list |-> list[i].doc]

\* What the builder guarantees of a segment, and the parser of a query.
WellFormed(seg) ==
  \A t \in Terms :
    /\ Ascending(Docs(seg.postings[t]))
    /\ \A i \in DOMAIN seg.postings[t] :
         /\ seg.postings[t][i].doc \in DOMAIN seg.entries
         /\ seg.postings[t][i].positions # {} /\ IsFiniteSet(seg.postings[t][i].positions)
WellPut(q) ==
  /\ \A i, j \in DOMAIN q.terms : q.terms[i] = q.terms[j] => i = j
  /\ \A phrase \in q.phrases : Len(phrase) > 1 /\ ToSet(phrase) \subseteq ToSet(q.terms)
  /\ \A phrase \in q.excludedPhrases : Len(phrase) > 1

ASSUME SearchAssumption ==
  /\ \A ix \in Indexes : ix \in Seq(Segment) /\ \A s \in DOMAIN ix : WellFormed(ix[s])
  /\ \A q \in Queries : q \in Query /\ WellPut(q)
  /\ Limits \subseteq Nat
  /\ Depths \subseteq Nat \cup {NoValue}
  /\ \A gap \in DOMAIN Bonus : gap \in Nat /\ Bonus[gap] \in Nat

VARIABLES
  index, query, limit, depth, \* what search was called with
  progress, \* "plan", "segment", "walk", "offer" or "done"
  segment,  \* the segment being searched
  pending,  \* its hits, not yet offered to the heap
  best,     \* the heap
  matched,  \* Results.matched
  hits      \* Results.hits

inputs == <<index, query, limit, depth>>
searchVars == <<walkVars, inputs, progress, segment, pending, best, matched, hits>>

Ref == [segment : Nat, doc : Nat]
Hit == [ref : Ref, score : Nat]

SearchTypeOK ==
  /\ WalkTypeOK
  /\ index \in Seq(Segment) /\ \A s \in DOMAIN index : WellFormed(index[s])
  /\ query \in Queries /\ limit \in Limits /\ depth \in Depths
  /\ progress \in {"plan", "segment", "walk", "offer", "done"}
  /\ segment \in 1..Len(index) + 1
  /\ pending \in Seq(Hit)
  /\ best \subseteq Hit /\ IsFiniteSet(best) /\ Cardinality(best) <= limit
  /\ matched \in Nat
  /\ hits \in Seq(Hit)

\* DocRef's order, and the order of results: ties go to the lower document.
RefBefore(a, b) ==
  a.segment < b.segment \/ (a.segment = b.segment /\ a.doc < b.doc)
RanksBefore(a, b) ==
  a.score > b.score \/ (a.score = b.score /\ RefBefore(a.ref, b.ref))

\* A set as a sequence; Before is a total order on it.
InOrder(S, Before(_, _)) ==
  [i \in 1..Cardinality(S) |->
     CHOOSE a \in S : Cardinality({b \in S : Before(b, a)}) = i - 1]

\* The n best of a set of hits.
Top(S, n) == {a \in S : Cardinality({b \in S : RanksBefore(b, a)}) < n}

-----------------------------------------------------------------------------
(* Positions *)

PositionsIn(s, t, doc) ==
  UNION {p.positions : p \in {q \in ToSet(index[s].postings[t]) : q.doc = doc}}

\* phrase_matches: the terms adjacent and in order, from some start.
PhraseMatches(positions) ==
  \E start \in positions[1] :
    \A i \in DOMAIN positions : start + i - 1 \in positions[i]

\* An occurrence of every term, in one stream ordered by position.
Merged(positions) ==
  InOrder(UNION {{<<p, i>> : p \in positions[i]} : i \in DOMAIN positions},
          LAMBDA a, b : a[1] < b[1] \/ (a[1] = b[1] /\ a[2] < b[2]))

NoSpan == -1

\* Every term has an occurrence in a stretch of the stream.
Covers(positions, stream, from, to) ==
  \A i \in DOMAIN positions : \E k \in from..to : stream[k][2] = i

\* A window slides over the stream.  Every end that completes it moves the
\* start past the first occurrence it cannot do without, and every start on the
\* way is measured.
Slide(positions, stream, w, end) ==
  LET start == CHOOSE s \in w.start..end + 1 :
                 /\ ~Covers(positions, stream, s, end)
                 /\ \A k \in w.start..s - 1 : Covers(positions, stream, k, end)
  IN  [start |-> start,
       spans |-> w.spans \cup {stream[end][1] - stream[k][1] : k \in w.start..start - 1}]

\* closest_span
ClosestSpan(positions) ==
  LET stream == Merged(positions)
      slid == FoldLeft(LAMBDA w, end : Slide(positions, stream, w, end),
                       [start |-> 1, spans |-> {}], [k \in DOMAIN stream |-> k])
  IN  IF \E i \in DOMAIN positions : positions[i] = {}
        THEN NoSpan ELSE Min(slid.spans)

\* proximity_bonus; a single term has no span.
Proximity(span, terms) ==
  LET gap == IF span > terms - 1 THEN span - (terms - 1) ELSE 0
  IN  IF span = NoSpan \/ terms < 2 \/ gap \notin DOMAIN Bonus THEN 0 ELSE Bonus[gap]

-----------------------------------------------------------------------------
(* search, before the segments *)

Frequency(t) == \E s \in DOMAIN index : index[s].postings[t] # <<>>

SearchInit ==
  /\ index \in Indexes /\ query \in Queries /\ limit \in Limits /\ depth \in Depths
  /\ progress = "plan"
  /\ segment = 1
  /\ lists = <<>> /\ cursors = <<>> /\ target = 0 /\ found = <<>> /\ stage = "done"
  /\ pending = <<>>
  /\ best = {}
  /\ matched = 0
  /\ hits = <<>>

\* Nothing is asked for, there is nothing to search, or no document anywhere
\* has one of the terms.
Hopeless ==
  \/ query.terms = <<>>
  \/ \A s \in DOMAIN index : index[s].entries = <<>>
  \/ \E t \in ToSet(query.terms) : ~Frequency(t)

Plan ==
  /\ progress = "plan"
  /\ progress' = IF Hopeless THEN "done" ELSE "segment"
  /\ UNCHANGED <<walkVars, inputs, segment, pending, best, matched, hits>>

-----------------------------------------------------------------------------
(* search_segment *)

\* Entries of the segment that the site filter lets through.
OnSite(s, doc) ==
  query.site = NoValue \/ index[s].entries[doc].host = query.site

\* The segment has never seen the site's host: no list is read.
SkipSegment ==
  /\ progress = "segment"
  /\ segment <= Len(index)
  /\ \A doc \in DOMAIN index[segment].entries : ~OnSite(segment, doc)
  /\ segment' = segment + 1
  /\ UNCHANGED <<walkVars, inputs, progress, pending, best, matched, hits>>

ReadLists ==
  /\ progress = "segment"
  /\ segment <= Len(index)
  /\ \E doc \in DOMAIN index[segment].entries : OnSite(segment, doc)
  /\ WalkOver([i \in DOMAIN query.terms |->
                 Docs(index[segment].postings[query.terms[i]])])
  /\ progress' = "walk"
  /\ UNCHANGED <<inputs, segment, pending, best, matched, hits>>

Walk ==
  /\ progress = "walk"
  /\ WalkNext
  /\ UNCHANGED <<inputs, progress, segment, pending, best, matched, hits>>

\* excluded_docs: the documents of this segment that may not be returned.
Excluded(s, doc) ==
  \/ \E t \in query.excluded : doc \in ToSet(Docs(index[s].postings[t]))
  \/ \E phrase \in query.excludedPhrases :
       /\ \A t \in ToSet(phrase) : doc \in ToSet(Docs(index[s].postings[t]))
       /\ PhraseMatches([i \in DOMAIN phrase |-> PositionsIn(s, phrase[i], doc)])

\* The positions read through the places the walk recorded.
PositionsAt(match) ==
  [l \in DOMAIN query.terms |->
     index[segment].postings[query.terms[l]][match.at[l]].positions]

\* satisfies_phrases: each term of a phrase is looked up among the terms.
SatisfiesPhrases(positions) ==
  \A phrase \in query.phrases :
    PhraseMatches([i \in DOMAIN phrase |->
      positions[CHOOSE l \in DOMAIN query.terms : query.terms[l] = phrase[i]]])

\* Mutant: the site filter is left to the skipping of segments.
KeepAnyHost(match) ==
  ~Excluded(segment, match.doc) /\ SatisfiesPhrases(PositionsAt(match))

Keep(match) ==
  /\ ~Excluded(segment, match.doc)
  /\ OnSite(segment, match.doc)
  /\ SatisfiesPhrases(PositionsAt(match))

RefOf(match) == [segment |-> segment, doc |-> match.doc]
BaseHit(match) ==
  [ref |-> RefOf(match), score |-> index[segment].entries[match.doc].score]
FullHit(match) ==
  [BaseHit(match) EXCEPT !.score =
     @ + Proximity(ClosestSpan(PositionsAt(match)), Len(query.terms))]

\* SearchOptions::depth: never fewer than the page shows.
Depth == IF depth = NoValue THEN NoValue
         ELSE CHOOSE n \in {depth, limit, 1} : \A m \in {depth, limit, 1} : m <= n

\* What is left to rescore: the best by everything but proximity.
Cut(kept) ==
  IF Depth = NoValue THEN kept
  ELSE LET surviving == Top({BaseHit(m) : m \in kept}, Depth)
       IN  {m \in kept : BaseHit(m) \in surviving}

\* Back into document order.
InDocOrder(S) == InOrder(S, LAMBDA a, b : RefBefore(a.ref, b.ref))

\* Both paths: score what matched, cut, rescore.
Score ==
  /\ progress = "walk"
  /\ stage = "done"
  /\ LET kept == {m \in ToSet(found) : Keep(m)}
     IN  /\ matched' = matched + Cardinality(kept)
         /\ pending' = InDocOrder({FullHit(m) : m \in Cut(kept)})
  /\ progress' = "offer"
  /\ UNCHANGED <<walkVars, inputs, segment, best, hits>>

-----------------------------------------------------------------------------
(* The heap and the results *)

\* Mutant: an equal score displaces the worst hit.
OfferedOnTie(h) ==
  LET worst == CHOOSE a \in best : \A b \in best \ {a} : RanksBefore(b, a)
  IN  IF Cardinality(best) < limit THEN best \cup {h}
      ELSE IF best # {} /\ h.score >= worst.score THEN (best \ {worst}) \cup {h}
      ELSE best

\* Only a better score displaces the worst hit: on a tie it stays.
Offered(h) ==
  LET worst == CHOOSE a \in best : \A b \in best \ {a} : RanksBefore(b, a)
  IN  IF Cardinality(best) < limit THEN best \cup {h}
      ELSE IF best # {} /\ h.score > worst.score THEN (best \ {worst}) \cup {h}
      ELSE best

OfferHit ==
  /\ progress = "offer"
  /\ pending # <<>>
  /\ best' = Offered(Head(pending))
  /\ pending' = Tail(pending)
  /\ UNCHANGED <<walkVars, inputs, progress, segment, matched, hits>>

NextSegment ==
  /\ progress = "offer"
  /\ pending = <<>>
  /\ segment' = segment + 1
  /\ progress' = "segment"
  /\ UNCHANGED <<walkVars, inputs, pending, best, matched, hits>>

Return ==
  /\ progress = "segment"
  /\ segment > Len(index)
  /\ hits' = InOrder(best, RanksBefore)
  /\ progress' = "done"
  /\ UNCHANGED <<walkVars, inputs, segment, pending, best, matched>>

\* search has returned; the caller may look at the results.
Returned == progress = "done" /\ UNCHANGED searchVars

SearchNext ==
  \/ Plan
  \/ SkipSegment
  \/ ReadLists
  \/ Walk
  \/ Score
  \/ OfferHit
  \/ NextSegment
  \/ Return
  \/ Returned

SearchSpec == SearchInit /\ [][SearchNext]_searchVars

\* The thread that searches goes on walking while there is somewhere to walk.
FairSearchSpec == SearchSpec /\ WF_searchVars(Walk)

-----------------------------------------------------------------------------
(* What a query asks for, said without lists, cuts or heaps *)

Has(s, t, doc) == doc \in ToSet(Docs(index[s].postings[t]))

\* The documents that match, wherever they are.
Matching ==
  {r \in [segment : DOMAIN index, doc : UNION {DOMAIN index[s].entries : s \in DOMAIN index}] :
     /\ query.terms # <<>>
     /\ r.doc \in DOMAIN index[r.segment].entries
     /\ \A t \in ToSet(query.terms) : Has(r.segment, t, r.doc)
     /\ \A phrase \in query.phrases :
          PhraseMatches([i \in DOMAIN phrase |-> PositionsIn(r.segment, phrase[i], r.doc)])
     /\ ~Excluded(r.segment, r.doc)
     /\ OnSite(r.segment, r.doc)}

\* The width of the narrowest choice of one occurrence of every term.
Narrowest(r) ==
  LET positions == [i \in DOMAIN query.terms |-> PositionsIn(r.segment, query.terms[i], r.doc)]
      choices == {c \in [DOMAIN query.terms -> UNION ToSet(positions)] :
                    \A i \in DOMAIN positions : c[i] \in positions[i]}
  IN  IF choices = {} THEN NoSpan
      ELSE Min({Max(ToSet(c)) - Min(ToSet(c)) : c \in choices})

Base(r) == [ref |-> r, score |-> index[r.segment].entries[r.doc].score]
Exact(r) ==
  [Base(r) EXCEPT !.score = @ + Proximity(Narrowest(r), Len(query.terms))]

ExactPage == Top({Exact(r) : r \in Matching}, limit)

\* The documents a segment's cut leaves.
WithinCut(s) ==
  LET matches == {Base(r) : r \in {q \in Matching : q.segment = s}}
  IN  IF Depth = NoValue THEN matches ELSE Top(matches, Depth)

-----------------------------------------------------------------------------
(* Properties *)

\* Every match is counted, cut or not, in whatever segment; the page shows
\* matches only, and as many of them as there are or as fit.
AllMatchesCount ==
  progress = "done" =>
    /\ matched = Cardinality(Matching)
    /\ {hits[i].ref : i \in DOMAIN hits} \subseteq Matching
    /\ Len(hits) = Min({limit, matched})

\* The page is the best of all matches, best first and ties to the earlier
\* document, whatever segments they are in and however the heap met them: with
\* no cut; for a single term, for which "the cut is exact"; and whenever the cut
\* leaves the documents of that page, which is all it is allowed to go wrong in.
PageIsExact ==
  progress = "done" =>
    \/ ToSet(hits) = ExactPage /\ hits = InOrder(ExactPage, RanksBefore)
    \/ /\ Len(query.terms) > 1
       /\ \E h \in ExactPage :
            \A b \in WithinCut(h.ref.segment) : b.ref # h.ref

\* The walk, the one loop whose end is not plain from its head, comes to an end:
\* every round moves a cursor.
WalkEnds == progress = "walk" ~> stage = "done"
=============================================================================
