------------------------------ MODULE MCContent ------------------------------
(***************************************************************************)
(* What the things of Content are made of.                                 *)
(***************************************************************************)
EXTENDS Content

Us == <<"u", "r">>

Line(field, value) == [field |-> field, value |-> value, seconds |-> -1]

\* Agents that are ours, in part or whole, everyone's and another's; rules that
\* contain one another, tie and say nothing; delays, one beyond the bound.
RobotsLines ==
  {Line("user-agent", agent) : agent \in {<<"*">>, <<"u">>, Us, <<"x">>}} \cup
  {Line("disallow", <<"/">>), Line("disallow", <<>>), Line("disallow", <<"/", "a">>), Line("allow", <<"/", "a">>),
   Line("other", <<>>)} \cup
  {[Line("crawl-delay", <<>>) EXCEPT !.seconds = n] : n \in {2, 9}}

Segment(name) == [is |-> "segment", name |-> name, value |-> NoValue]
Pair(name, value) == [is |-> "pair", name |-> name, value |-> value]

UnescapedValue == "1&q=1"

UrlParts == {Segment("a"), Segment("cal"), Segment(Empty), Pair("p", "1"), Pair("p", NoValue), Pair("q", "1"), Pair("utm", "1"),
             Pair("p", UnescapedValue)}

Spellings == (Empty :> <<>>) @@ [x \in {"1", "p", "q", "utm"} |-> <<x>>] @@ (UnescapedValue :> <<"1", "&", "q", "=", "1">>)

PairLess(s, t) == LET rank == [x \in DOMAIN Spellings |->
                                 CASE x = Empty -> 0 [] x = "1" -> 1 [] x = UnescapedValue -> 2 [] x = "p" -> 3 [] x = "q" -> 4 [] x = "utm" -> 5]
                  IN  rank[s[1]] < rank[t[1]] \/ (s[1] = t[1] /\ rank[s[2]] < rank[t[2]])

Href(url) == [kind |-> "url", url |-> url]
Http(path, query) == [scheme |-> "http", host |-> "h", port |-> NoPort, fragment |-> FALSE, path |-> path, query |-> query]

Links ==
  {[href |-> href, nofollow |-> n] : n \in BOOLEAN,
     href \in {[kind |-> "blank"], [kind |-> "path", path |-> <<"a">>], Href(Http(<<"a">>, <<>>)),
               Href([Http(<<"a">>, << <<"utm", "1">> >>) EXCEPT !.fragment = TRUE]),
               Href([Http(<<"a">>, <<>>) EXCEPT !.scheme = "mailto"]), Href(Http(<<"a", "cal">>, << <<"p", "1">> >>)), Href([Http(<<"a">>, <<>>) EXCEPT !.scheme = "https"])}}

Word(is) == [is |-> is, n |-> 0]
Most(n) == [is |-> "max-snippet", n |-> n]

Directives ==
  {[name |-> name, words |-> words] : name \in {"header", "robots", "uruk-crawl", "viewport"},
     words \in {<<Word("noindex")>>, <<Word("none"), Word("noarchive")>>, <<Word("all")>>, <<Word("nosnippet")>>,
                <<Most(5), Word("nofollow")>>, <<Most(-1)>>, <<Most(0)>>}}

Node(kind, marked, words) == [kind |-> kind, marked |-> marked, words |-> words]

Elements == {Node("box", FALSE, 0), Node("box", TRUE, 0), Node("cut", FALSE, 0), Node("link", FALSE, 0), Node("link", TRUE, 0),
             Node("text", FALSE, 2), Node("text", FALSE, 3)}

\* Words that match, one that is too long to be a term, a wide letter, spaces.
Stretches == {<<1, 0>>, <<2>>, <<0>>, <<3, 3, 3, 0>>, <<4>>}

Clause(negated, quoted, words) == [negated |-> negated, quoted |-> quoted, words |-> words, site |-> FALSE]

Clauses ==
  {Clause(n, q, words) : n, q \in BOOLEAN, words \in {<<1>>, <<2>>, <<1, 2>>, <<>>}} \cup
  {[Clause(FALSE, FALSE, <<h>>) EXCEPT !.site = TRUE] : h \in {1, 2}}

HeaderLine(name, value) == [is |-> "header", name |-> name, value |-> value, number |-> 0]

Chunk(n, failed, path) ==
  [is |-> "chunk", bytes |-> n, failed |-> failed, line |-> [field |-> "disallow", value |-> path, seconds |-> -1]]

AnswerParts ==
  {HeaderLine("content-type", type) : type \in {"text/html", "application/pdf"}} \cup
  {[HeaderLine("content-length", "") EXCEPT !.number = n] : n \in {1, 4}} \cup
  {HeaderLine("location", to) : to \in {"there", "nowhere"}} \cup
  {Chunk(n, "no", path) : n \in {1, 2}, path \in {<<>>, <<"/", "a">>}} \cup
  {Chunk(0, "transport", <<>>)}

TokenParts == [field : {"body", "title"}, term : 0..2]

BodyAndTitle == {"body", "title"}
Bs == [body |-> 750, title |-> 300]
Weighing == [body |-> 1000, title |-> 3000]
Averages == [body |-> 2, title |-> 1]

\* The logarithms in the idf of one, two and three documents of three.
Logarithm(x) ==
  CASE x = 2666 -> 980 [] x = 1600 -> 470 [] x = 1142 -> 133

Judgment(query) == [is |-> "query", query |-> query]
Grade(n, url) == [is |-> "grade", grade |-> n, url |-> url]

JudgmentLines ==
  {Judgment(query) : query \in {"", "p", "q"}} \cup {Grade(n, url) : n \in {0, 3}, url \in {"u", "v"}} \cup
  {Grade(4, "u"), Grade(3, ""), [is |-> "blank"]}

HitParts == {[url |-> url, final |-> final] : url \in {"u", "v", "w"}, final \in {"u", "v"}}

ScorePairs == [before : 0..2, after : 0..2]

\* 1 / log2(place + 1), in thousandths.
Discounts == <<1000, 631, 500>>

TextTypes == {"text/html", "application/xhtml+xml", "text/plain", ""}
Nowhere == {"nowhere"}

AllParts ==
  [kind \in Kinds |->
     CASE kind = "robots"     -> RobotsLines
       [] kind = "answer"     -> AnswerParts
       [] kind = "judgments"  -> JudgmentLines
       [] kind = "tokens"     -> TokenParts
       [] kind = "hits"       -> HitParts
       [] kind = "pairs"      -> ScorePairs
       [] kind = "pattern"    -> {"/", "a", "*", "$"}
       [] kind = "url"        -> UrlParts
       [] kind = "links"      -> Links
       [] kind = "directives" -> Directives
       [] kind = "document"   -> Elements
       [] kind = "text"       -> Stretches
       [] kind = "typed"      -> {1, 2, Space, Quote, Minus, Site}
       [] kind = "meant"      -> Clauses]

Sizes ==
  [kind \in Kinds |->
     CASE kind = "robots"     -> 4
       [] kind = "answer"     -> 4
       [] kind = "judgments"  -> 4
       [] kind = "tokens"     -> 5
       [] kind = "hits"       -> 3
       [] kind = "pairs"      -> 3
       [] kind = "pattern"    -> 5
       [] kind = "url"        -> 4
       [] kind = "links"      -> 3
       [] kind = "directives" -> 3
       [] kind = "document"   -> 5
       [] kind = "text"       -> 5
       [] kind = "typed"      -> 5
       [] kind = "meant"      -> 3]

Sessions == {"utm"}
OneLetterNames == {"a"}
NoNames == {}
WideLetters == {4}
TheWordSite == <<3>>
=============================================================================
