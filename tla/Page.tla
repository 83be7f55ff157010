-------------------------------- MODULE Page --------------------------------
(***************************************************************************)
(* What is taken from a page (parse.rs): its directives, its links and its *)
(* article.  The document is a sequence of nodes in document order, each   *)
(* [parent, kind, marked, words]; parsing HTML is the scraper crate's.     *)
(* The kinds are "box" (article, main, div, section), "cut" (the tags that *)
(* never hold an article), "link", "other" and "text"; marked nodes have a *)
(* class or an id that names them as furniture, and only texts have words. *)
(* The first node is the body.                                             *)
(***************************************************************************)
EXTENDS Urls

CONSTANTS MinWords,   \* words below which a box is no article (25)
          TagCost     \* what a box inside a box costs it, in words (4)

------------------------------------------------------------------------------
(***************************************************************************)
(* Directives: a list of words in the X-Robots-Tag header, then one in     *)
(* each meta element addressed to every crawler or to this one, in the     *)
(* order of the document.                                                  *)
(***************************************************************************)
Unlimited == -1

NoDirectives == [index |-> TRUE, follow |-> TRUE, archive |-> TRUE, snippet |-> TRUE, limit |-> Unlimited]

\* A word max-snippet:N; a negative N takes the limit away.
Limit(d, n) == [d EXCEPT !.limit = IF n < 0 THEN Unlimited ELSE n, !.snippet = (n # 0)]

\* A bug: a limit does not say whether there is a snippet.
ApplyWordLimitOnly(d, word) ==
  CASE word.is = "noindex"     -> [d EXCEPT !.index = FALSE]
    [] word.is = "nofollow"    -> [d EXCEPT !.follow = FALSE]
    [] word.is = "noarchive"   -> [d EXCEPT !.archive = FALSE]
    [] word.is = "nosnippet"   -> Limit(d, 0)
    [] word.is = "none"        -> [d EXCEPT !.index = FALSE, !.follow = FALSE]
    [] word.is = "all"         -> [d EXCEPT !.index = TRUE, !.follow = TRUE]
    [] word.is = "max-snippet" -> [d EXCEPT !.limit = Limit(d, word.n).limit]
    [] OTHER                   -> d

ApplyWord(d, word) ==
  CASE word.is = "noindex"     -> [d EXCEPT !.index = FALSE]
    [] word.is = "nofollow"    -> [d EXCEPT !.follow = FALSE]
    [] word.is = "noarchive"   -> [d EXCEPT !.archive = FALSE]
    [] word.is = "nosnippet"   -> Limit(d, 0)
    [] word.is = "none"        -> [d EXCEPT !.index = FALSE, !.follow = FALSE]
    [] word.is = "all"         -> [d EXCEPT !.index = TRUE, !.follow = TRUE]
    [] word.is = "max-snippet" -> Limit(d, word.n)
    [] OTHER                   -> d

DirectivesOf(header, metas) ==
  FoldLeft(LAMBDA d, meta : IF meta.name \in {"robots", "uruk-crawl"} THEN FoldLeft(ApplyWord, d, meta.words) ELSE d,
           FoldLeft(ApplyWord, NoDirectives, header), metas)

------------------------------------------------------------------------------
(***************************************************************************)
(* Links: of the anchors that lead to one URL, the first.                  *)
(***************************************************************************)

Listed(links, url) == \E i \in DOMAIN links : links[i].url = url

LinksOf(base, anchors) ==
  FoldLeft(LAMBDA links, a :
             IF ~Resolves(base, a.href) \/ Listed(links, Resolve(base, a.href)) THEN links
             ELSE Append(links, [url |-> Resolve(base, a.href), nofollow |-> a.nofollow]),
           <<>>, anchors)

------------------------------------------------------------------------------
(***************************************************************************)
(* The article: the box with the best score, or the body when no box has   *)
(* words enough.                                                           *)
(***************************************************************************)
Above(dom, n) ==
  LET above[i \in DOMAIN dom] == IF dom[i].parent = 0 THEN {} ELSE {dom[i].parent} \cup above[dom[i].parent]
  IN  above[n]

Under(dom, root) == {n \in DOMAIN dom : root \in Above(dom, n)}

Between(dom, root, n) == Above(dom, n) \cap Under(dom, root)

Furniture(node) == node.kind = "cut" \/ node.marked

\* The texts under an element that are not in furniture below it.
TextUnder(dom, root) ==
  {n \in Under(dom, root) : dom[n].kind = "text" /\ \A m \in Between(dom, root, n) : ~Furniture(dom[m])}

WordsOf(dom, texts) == FoldSet(LAMBDA n, sum : dom[n].words + sum, 0, texts)

\* Words in the links under an element, those in its furniture too.
LinkWords(dom, root) ==
  WordsOf(dom, {n \in Under(dom, root) : dom[n].kind = "text" /\ \E m \in Between(dom, root, n) : dom[m].kind = "link"})

AtMost(n, bound) == IF n < bound THEN n ELSE bound

Linked(dom, root) == AtMost(LinkWords(dom, root), WordsOf(dom, TextUnder(dom, root)))

Candidates(dom) ==
  {n \in DOMAIN dom : dom[n].kind = "box" /\ ~Furniture(dom[n]) /\ WordsOf(dom, TextUnder(dom, n)) >= MinWords}

\* words * (1 - density) - TagCost * boxes, where density is linked words over words.
Score(dom, n) ==
  WordsOf(dom, TextUnder(dom, n)) - Linked(dom, n)
    - TagCost * Cardinality({m \in Under(dom, n) : dom[m].kind = "box"})

Article(dom) ==
  LET boxes == Candidates(dom)
  IN  IF boxes = {} THEN 1
      ELSE CHOOSE n \in boxes : \A m \in boxes :
             Score(dom, n) > Score(dom, m) \/ (Score(dom, n) = Score(dom, m) /\ n <= m)

\* The linked words and the words of the article: its link density.
Density(dom) == <<Linked(dom, Article(dom)), WordsOf(dom, TextUnder(dom, Article(dom)))>>
=============================================================================
