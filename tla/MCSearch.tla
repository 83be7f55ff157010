------------------------------ MODULE MCSearch ------------------------------
(***************************************************************************)
(* Small indexes: three documents of every kind below in one or in two     *)
(* segments, searched with each of the query forms.                        *)
(***************************************************************************)
EXTENDS Search

CONSTANTS s1, s2, x, y

MCTerms == {x, y}

\* The kinds of document: where it is, what it scores and the positions of x
\* and y in it; a term it does not have is missing from at.  In the fourth y is in
\* the body and x in the title, beyond the gap between fields.
Kind(host, score, at) == [host |-> host, score |-> score, at |-> at]
Kinds ==
  {Kind(s1, 2, (x :> {1, 4}) @@ (y :> {7})),
   Kind(s1, 1, (x :> {1, 5}) @@ (y :> {3, 6})),
   Kind(s2, 1, (x :> {3}) @@ (y :> {2})),
   Kind(s2, 2, (x :> {9}) @@ (y :> {1})),
   Kind(s1, 1, x :> {2}),
   Kind(s2, 1, y :> {3})}

Postings(docs, t) ==
  LET having == SelectSeq([i \in DOMAIN docs |-> i], LAMBDA i : t \in DOMAIN docs[i].at)
  IN  [n \in DOMAIN having |-> [doc |-> having[n], positions |-> docs[having[n]].at[t]]]

SegmentOf(docs) ==
  [entries |-> [i \in DOMAIN docs |-> [host |-> docs[i].host, score |-> docs[i].score]],
   postings |-> [t \in MCTerms |-> Postings(docs, t)]]

MCIndexes ==
  {<<SegmentOf(docs)>> : docs \in [1..3 -> Kinds]}
  \cup {<<SegmentOf(SubSeq(docs, 1, 2)), SegmentOf(SubSeq(docs, 3, 3))>> : docs \in [1..3 -> Kinds]}
  \cup {<<SegmentOf(SubSeq(docs, 1, 1)), SegmentOf(SubSeq(docs, 2, 3))>> : docs \in [1..3 -> Kinds]}

Ask(terms) == [terms |-> terms, phrases |-> {}, excluded |-> {},
               excludedPhrases |-> {}, site |-> NoValue]

\* x; y x; "x y"; x -y; y -"x y"; x y site:s1
MCQueries ==
  {Ask(<<x>>),
   Ask(<<y, x>>),
   [Ask(<<x, y>>) EXCEPT !.phrases = {<<x, y>>}],
   [Ask(<<x>>) EXCEPT !.excluded = {y}],
   [Ask(<<y>>) EXCEPT !.excludedPhrases = {<<x, y>>}],
   [Ask(<<x, y>>) EXCEPT !.site = s1]}

\* Adjacent terms are worth two more, one word between them one.
MCBonus == (0 :> 2) @@ (1 :> 1)
=============================================================================
