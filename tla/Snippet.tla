------------------------------- MODULE Snippet -------------------------------
(***************************************************************************)
(* Cutting the piece of a page that shows why it matched (snippet.rs), and *)
(* marking the matches on the results page (html.rs).  A text is one of    *)
(* Tokenize; offsets are in bytes, and a character is cut through when an  *)
(* offset falls inside it, which panics.                                   *)
(***************************************************************************)
EXTENDS Tokenize

CONSTANT MinLength   \* how far a cut is moved for the sake of a whole word (40)

Ellipsis == 3        \* bytes of the mark for text that was cut off

NoCap == -1

Larger(a, b)  == IF a > b THEN a ELSE b
Smaller(a, b) == IF a < b THEN a ELSE b

Boundaries(text) == {Bytes(SubSeq(text, 1, n)) : n \in 0..Len(text)}

\* The characters from one boundary to another.
Slice(text, from, to) ==
  LET after(at) == CHOOSE n \in 0..Len(text) : Bytes(SubSeq(text, 1, n)) = at
  IN  SubSeq(text, after(from) + 1, after(to))

\* Where the white space between two offsets is.
Gaps(text, from, to) ==
  {Bytes(SubSeq(text, 1, n - 1)) : n \in {n \in DOMAIN text : text[n] = Space}} \cap from..(to - 1)

\* What a page permits: [allowed, cap].
Forbidden(policy) == ~policy.allowed \/ policy.cap = 0

Budget(policy, preferred) == IF policy.cap = NoCap THEN preferred ELSE Smaller(preferred, policy.cap)

------------------------------------------------------------------------------
(***************************************************************************)
(* The window: it begins a quarter of the budget before a match, and the   *)
(* first with the most distinct terms is taken.                            *)
(***************************************************************************)
\* A bug: all of the budget goes before the match.
WindowBefore(match, length, budget) ==
  LET start == Larger(0, match.start - budget)
  IN  [start |-> start, end |-> Smaller(start + budget, length)]

Window(match, length, budget) ==
  LET start == Larger(0, match.start - budget \div 4)
  IN  [start |-> start, end |-> Smaller(start + budget, length)]

InView(matches, i, length, budget) ==
  LET window == Window(matches[i], length, budget)
  IN  {matches[j].term : j \in {j \in DOMAIN matches :
         IF j >= i THEN matches[j].end <= window.end ELSE matches[j].start >= window.start}}

BestWindow(matches, length, budget) ==
  LET Seen(i) == Cardinality(InView(matches, i, length, budget))
      best == CHOOSE i \in DOMAIN matches : \A j \in DOMAIN matches : Seen(i) > Seen(j) \/ (Seen(i) = Seen(j) /\ i <= j)
  IN  Window(matches[best], length, budget)

(***************************************************************************)
(* The cuts are moved out to character boundaries, then to white space     *)
(* that is near.  The search for it reads the text from MinLength bytes    *)
(* before the start, and up to MinLength bytes after the end.              *)
(***************************************************************************)
Outward(text, window) ==
  LET length == Bytes(text)
  IN  [start |-> CHOOSE b \in Boundaries(text) : b <= window.start /\ \A c \in Boundaries(text) : c <= window.start => c <= b,
       end   |-> CHOOSE b \in Boundaries(text) : b >= Smaller(window.end, length)
                          /\ \A c \in Boundaries(text) : c >= Smaller(window.end, length) => b <= c]

SearchFrom(window) == Larger(0, window.start - MinLength)

SearchTo(text, window) == Smaller(window.end + MinLength, Bytes(text))

Widen(text, window) ==
  LET before == Gaps(text, SearchFrom(window), window.start)
      after  == Gaps(text, window.end, SearchTo(text, window))
  IN  [start |-> IF before = {} THEN window.start ELSE 1 + CHOOSE g \in before : \A h \in before : h <= g,
       end   |-> IF after = {} THEN window.end ELSE CHOOSE g \in after : \A h \in after : g <= h]

WidenPanics(text, window) ==
  \/ window.start > 0 /\ SearchFrom(window) \notin Boundaries(text)
  \/ window.end < Bytes(text) /\ SearchTo(text, window) \notin Boundaries(text)

------------------------------------------------------------------------------
(***************************************************************************)
(* The snippet: what is shown of the text, between which offsets, and the  *)
(* ranges of the shown text, ellipses included, that are matches.          *)
(***************************************************************************)
NoSnippet == [shown |-> <<>>, start |-> 0, end |-> 0, cutStart |-> FALSE, cutEnd |-> FALSE, highlights |-> <<>>]

Matches(text, terms) == SelectSeq(TokensOf(text), LAMBDA token : token.term \in terms)

\* The spaces a text begins with.
LeadIn(text) == CHOOSE n \in 0..Len(text) :
  (\A i \in 1..n : text[i] = Space) /\ (n = Len(text) \/ text[n + 1] # Space)

Trim(text) == Reverse(LET tail == Reverse(SubSeq(text, LeadIn(text) + 1, Len(text)))
                      IN  SubSeq(tail, LeadIn(tail) + 1, Len(tail)))

FirstCut(text, matches, budget) ==
  IF matches = <<>> THEN [start |-> 0, end |-> Smaller(budget, Bytes(text))]
  ELSE BestWindow(matches, Bytes(text), budget)

Highlight(text, window, match) ==
  LET lead    == IF window.start > 0 THEN Ellipsis ELSE 0
      trimmed == LeadIn(Slice(text, window.start, window.end))
  IN  <<lead + match.start - window.start - trimmed, lead + match.end - window.start - trimmed>>

Shown(text, matches, window) ==
  LET inside == SelectSeq(matches, LAMBDA m : m.start >= window.start /\ m.end <= window.end)
  IN  [shown |-> Trim(Slice(text, window.start, window.end)), start |-> window.start, end |-> window.end,
       cutStart |-> window.start > 0, cutEnd |-> window.end < Bytes(text),
       highlights |-> [i \in DOMAIN inside |-> Highlight(text, window, inside[i])]]

Snippet(text, terms, policy, preferred) ==
  IF Forbidden(policy) \/ Trim(text) = <<>> THEN NoSnippet
  ELSE LET matches == Matches(text, terms)
       IN  Shown(text, matches, Widen(text, Outward(text, FirstCut(text, matches, Budget(policy, preferred)))))

SnippetPanics(text, terms, policy, preferred) ==
  /\ ~Forbidden(policy) /\ Trim(text) # <<>>
  /\ WidenPanics(text, Outward(text, FirstCut(text, Matches(text, terms), Budget(policy, preferred))))

SnippetBytes(snippet) ==
  Bytes(snippet.shown) + (IF snippet.cutStart THEN Ellipsis ELSE 0) + (IF snippet.cutEnd THEN Ellipsis ELSE 0)

\* The highlights that the results page marks: those in order and in range.
Marked(snippet) ==
  FoldLeft(LAMBDA marks, h :
             IF \/ marks # <<>> /\ h[1] < Last(marks)[2]
                \/ h[2] > SnippetBytes(snippet) \/ h[1] >= h[2] THEN marks
             ELSE Append(marks, h), <<>>, snippet.highlights)
=============================================================================
