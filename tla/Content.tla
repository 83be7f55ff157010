------------------------------- MODULE Content -------------------------------
(***************************************************************************)
(* What the crawler and the searcher are handed and have to make sense of: *)
(* a server's answers, robots.txt, the patterns in it, URLs, what a page   *)
(* links to and says of itself, its document and its text, what a reader   *)
(* types, what a judge writes.  Fetch, Robots, Urls, Page, Query, Snippet, *)
(* Scoring and Evaluation read them.  The behaviours here build one such   *)
(* thing part by part, so that every thing of a bounded size is met, and   *)
(* the invariants compare what is made of it with what it means.           *)
(***************************************************************************)
EXTENDS Fetch, Robots, Page, Query, Snippet, Scoring, Evaluation

CONSTANTS Parts,      \* for each kind of thing, what it is made of
          MaxParts,   \* and of how many
          Preferred   \* the length a snippet aims for (240)

Kinds == {"answer", "robots", "pattern", "url", "links", "directives", "document", "text", "typed", "meant",
          "tokens", "judgments", "hits", "pairs"}

\* A URL that is written out, with strings for the names and values of its query.
IsUrl(url) ==
  /\ url = [scheme |-> url.scheme, host |-> url.host, port |-> url.port, fragment |-> url.fragment,
            path |-> url.path, query |-> url.query]
  /\ url.query \in Seq(STRING \X STRING)

ASSUME ContentAssumption ==
  /\ DOMAIN Parts = Kinds /\ MaxParts \in [Kinds -> Nat]
  /\ MinLength \in Nat /\ Preferred \in Nat /\ MinWords \in Nat \ {0} /\ TagCost \in Nat
  /\ MaxBytes \in Nat /\ MaxDelay \in Nat
  /\ Parts["pattern"] \subseteq STRING
  /\ \A line \in Parts["robots"] : line.value \in Seq(STRING) /\ line.seconds \in Int
  /\ \A part \in Parts["answer"] : part.is = "chunk" =>
       /\ part.bytes \in Nat /\ part.failed \in {"no", "timeout", "transport"}
       /\ part.line.field = "disallow" /\ part.line.value \in Seq(STRING) /\ part.line.seconds \in Int
  /\ IsFiniteSet(Parts["hits"]) /\ \A pair \in Parts["pairs"] : pair.before \in Int /\ pair.after \in Int
  /\ \A part \in Parts["url"] : part.is = "pair" =>
       part.name \in DOMAIN Spelling /\ part.value \in STRING /\ part.value \in (DOMAIN Spelling) \cup {NoValue}
  /\ \A link \in Parts["links"] : link.href.kind = "url" => IsUrl(link.href.url)
  /\ \A part \in Parts["directives"] : part.words \in Seq([is : STRING, n : Int])
  /\ \A node \in Parts["document"] : node.words \in Nat
  /\ \A line \in Parts["judgments"] : line.is \in {"blank", "query", "grade"}

VARIABLE thing   \* [kind, parts]

Init == thing \in [kind : Kinds, parts : {<<>>}]

Extend(part) == thing' = [thing EXCEPT !.parts = Append(@, part)]

AddPart ==
  /\ thing.kind # "document" /\ Len(thing.parts) < MaxParts[thing.kind]
  /\ \E part \in Parts[thing.kind] : Extend(part)

\* A document begins with its body; a node is added below the last one or
\* beside one above it.  A text holds nothing, and a link no other link.
AddNode ==
  /\ thing.kind = "document" /\ Len(thing.parts) < MaxParts["document"]
  /\ \/ thing.parts = <<>> /\ Extend([parent |-> 0, kind |-> "other", marked |-> FALSE, words |-> 0])
     \/ \E node \in Parts["document"], parent \in {Len(thing.parts)} \cup
                                                  (IF thing.parts = <<>> THEN {} ELSE Above(thing.parts, Len(thing.parts))) :
          /\ parent # 0 /\ thing.parts[parent].kind # "text"
          /\ node.kind = "link" => \A n \in {parent} \cup Above(thing.parts, parent) : thing.parts[n].kind # "link"
          /\ Extend([parent |-> parent, kind |-> node.kind, marked |-> node.marked, words |-> node.words])

Next == AddPart \/ AddNode

Spec == Init /\ [][Next]_thing

Made(kind) == thing.kind = kind

parts == thing.parts

\* The parts of one sort among some, in their order.
OfSort(some, is) == FoldLeft(LAMBDA kept, part : IF part.is = is THEN Append(kept, part) ELSE kept, <<>>, some)

\* Every sequence of at most n elements of S.
UpTo(S, n) == UNION {[1..k -> S] : k \in 0..n}

------------------------------------------------------------------------------
(***************************************************************************)
(* robots.txt                                                              *)
(***************************************************************************)
\* The prefixes of a path that a pattern can stand for, one sign at a time.
Reaches(pattern, path) ==
  FoldLeft(LAMBDA reached, c :
             IF c = Star THEN {n \in 0..Len(path) : \E m \in reached : m <= n}
             ELSE {n + 1 : n \in {n \in reached : n < Len(path) /\ path[n + 1] = c}},
           {0}, pattern)

Stands(pattern, path) ==
  IF pattern # <<>> /\ Last(pattern) = End THEN Len(path) \in Reaches(Front(pattern), path)
  ELSE Reaches(pattern, path) # {}

\* A pattern matches the paths it can stand for: taking each piece where it
\* first occurs misses none, whatever stars and anchor it has (glob_match).
GlobIsMatch ==
  Made("pattern") => \A path \in UpTo({"/", "a"}, 4) : GlobMatch(parts, path) <=> Stands(parts, path)

AgentLines == {i \in DOMAIN parts : parts[i].field = "user-agent"}
EndingLines == {i \in DOMAIN parts : parts[i].field \in {"allow", "disallow", "crawl-delay"}}
RuleLines == {i \in DOMAIN parts : parts[i].field \in {"allow", "disallow"}}

\* Whether a line is in the group that an agent's line is in: no other group
\* begins between them.  Line 0 is the agent * of the rules before any agent.
Heads(agent, line) ==
  /\ agent < line
  /\ \A k \in AgentLines : agent < k /\ k < line => EndingLines \cap (agent + 1)..(k - 1) = {} /\ agent # 0

Named ==
  {i \in AgentLines : Specificity(parts[i].value) >= 0} \cup
  (IF \E i \in RuleLines : \A k \in AgentLines : i < k THEN {0} ELSE {})

Weight(i) == IF i = 0 THEN 0 ELSE Specificity(parts[i].value)

\* The agent that speaks for us: the longest that begins our token, the first such.
Ours == {i \in Named : \A k \in Named : Weight(i) > Weight(k) \/ (Weight(i) = Weight(k) /\ i <= k)}

\* The rules in its group that match a path, and the longest of them.
Matching(path) ==
  {j \in RuleLines : /\ \E i \in Ours : Heads(i, j)
                     /\ parts[j].field = "allow" \/ parts[j].value # <<>>
                     /\ Stands(parts[j].value, path)}

Longest(path) == {j \in Matching(path) : \A k \in Matching(path) : Len(parts[k].value) <= Len(parts[j].value)}

\* A file is obeyed as its header comment says: the group of the longest agent
\* speaks for us; of its rules that match the longest decides and Allow before
\* Disallow; no rule, or no group, is permission (Robots::parse, group_for,
\* allows).
RobotsAsWritten ==
  Made("robots") => \A path \in {<<"/">>, <<"/", "a">>, <<"/", "b">>} :
    Permits([kind |-> "page"], parts, path) <=> Longest(path) = {} \/ \E j \in Longest(path) : parts[j].field = "allow"

\* The delays asked of us.
DelayLines ==
  {j \in DOMAIN parts : /\ parts[j].field = "crawl-delay" /\ parts[j].seconds >= 0
                        /\ \E i \in Ours : Heads(i, j) /\ (i = 0 => \E r \in RuleLines : r < j)}

\* A delay is the last one of our own group, never another's and never more
\* than the bound (crawl_delay).
DelayIsOurs ==
  Made("robots") =>
    CrawlDelay(Parse(parts)) = {AtMost(parts[j].seconds, MaxDelay) : j \in {j \in DelayLines : \A k \in DelayLines : k <= j}}

------------------------------------------------------------------------------
(***************************************************************************)
(* Answers                                                                 *)
(***************************************************************************)
\* Those of the thing that is built.
Those(is) == OfSort(parts, is)

\* The answer made of header lines and chunks, after a status or a failure.
AnswerOf(sent, status) ==
  [sent |-> sent, status |-> status, headers |-> Those("header"), chunks |-> Those("chunk")]

Answers == {AnswerOf("timeout", 0)} \cup {AnswerOf("yes", status) : status \in {200, 204, 301, 304, 401, 403, 404, 429, 503}}

Weighs(chunks) == FoldLeft(LAMBDA sum, chunk : sum + chunk.bytes, 0, chunks)

\* A page is everything that the server sent, within the limit: an answer that
\* breaks off, or is too long for what it claims or for what arrives, is no
\* page, not a shorter one (get, read_capped).
BodyIsWhole(answer, outcome) ==
  /\ outcome.kind = "page" => outcome.body = answer.chunks /\ Weighs(answer.chunks) <= MaxBytes
  /\ outcome.kind = "too_large" =>
       \/ Weighs(answer.chunks) > MaxBytes
       \/ \E header \in ToSet(answer.headers) : header.name = "content-length" /\ header.number > MaxBytes

\* A file that asks us, a chunk a line, to stay away from some paths.
FileOf(chunks) == <<[field |-> "user-agent", value |-> <<Star>>, seconds |-> -1]>> \o [i \in DOMAIN chunks |-> chunks[i].line]

\* A path is permitted by the whole of the file, or by a server that says that
\* it has none; never by a part of it, by silence, by a redirect or by a file
\* that is kept from us (fetch_robots: "Not knowing is not permission").
PermissionIsGiven(answer, outcome) ==
  \A path \in {<<"/">>, <<"/", "a">>} :
    LET file == FileOf(IF outcome.kind = "page" THEN outcome.body ELSE <<>>)
        asks == \E chunk \in ToSet(answer.chunks) : chunk.line.value # <<>> /\ Stands(chunk.line.value, path)
    IN  Permits(outcome, file, path) =>
          \/ answer.sent = "yes" /\ answer.status \in 200..299 /\ ~asks
          \/ answer.sent = "yes" /\ answer.status \in 400..499 \ {401, 403}

------------------------------------------------------------------------------
(***************************************************************************)
(* URLs and links                                                          *)
(***************************************************************************)
\* A URL of segments and parameters, the rest as given.
UrlOf(some, rest) ==
  LET places == OfSort(some, "segment")
      pairs  == OfSort(some, "pair")
  IN  [scheme |-> rest.scheme, host |-> rest.host, port |-> rest.port, fragment |-> rest.fragment,
       path   |-> IF places = <<>> THEN <<Empty>> ELSE [i \in DOMAIN places |-> places[i].name],
       query  |-> [i \in DOMAIN pairs |-> <<pairs[i].name, pairs[i].value>>]]

Plainly == [scheme |-> "http", host |-> "h", port |-> NoPort, fragment |-> FALSE]

Otherwise == {Plainly, [Plainly EXCEPT !.scheme = "https", !.fragment = TRUE], [Plainly EXCEPT !.host = "g"]}

\* What is fetched differs from what was written by what cannot matter only:
\* the parameters that remain stand in their order, the path is untouched, and
\* a URL already normalised, or resolved against any page, stays what it is
\* (normalize, resolve).
NormalizeSettles ==
  Made("url") =>
    LET url  == UrlOf(parts, [Plainly EXCEPT !.fragment = TRUE])
        kept == {i \in DOMAIN url.query : url.query[i][1] \notin Droppable}
    IN  /\ Normalize(Normalize(url)) = Normalize(url)
        /\ Resolve(UrlOf(<<>>, Plainly), [kind |-> "url", url |-> Normalize(url)]) = Normalize(url)
        /\ Normalize(url).path = url.path /\ ~Normalize(url).fragment
        /\ Len(Normalize(url).query) = Cardinality(kept)
        /\ \A i \in kept : Normalize(url).query[Cardinality({j \in kept : j <= i})] = Written(url.query)[i]

\* How often a URL has a parameter that matters.
Times(url, pair) == Cardinality({i \in DOMAIN url.query : Written(url.query)[i] = pair /\ pair[1] \notin Droppable})

SamePage(url, other) ==
  /\ url.host = other.host
  /\ \/ url.path = other.path
     \/ \E longer, shorter \in {url.path, other.path} :
          longer = Append(shorter, Empty) /\ (Len(shorter) = 1 \/ Last(shorter) # Empty)
  /\ \A pair \in ToSet(Written(url.query)) \cup ToSet(Written(other.query)) : Times(url, pair) = Times(other, pair)

\* Two URLs have one key exactly when they are one page: the same host, the
\* same path but for a final slash, the same parameters in any order; scheme,
\* fragment and tracking tell nothing apart.  Except where a name has an "&",
\* or a value an "&" or a "=", of its own: the key does not escape them
\* (dedupe_key).
KeyExact ==
  Made("url") =>
    LET url == UrlOf(parts, Plainly)
    IN  \A some \in UpTo(Parts["url"], 2), rest \in Otherwise :
          LET other == UrlOf(some, rest)
              clear == \A pair \in ToSet(Written(url.query \o other.query)) :
                         "&" \notin ToSet(Spelling[pair[1]]) /\ {"&", "="} \cap ToSet(Spelling[pair[2]]) = {}
          IN  clear => (DedupeKey(Normalize(url)) = DedupeKey(Normalize(other)) <=> SamePage(url, other))

\* A path that has a segment too often is refused, however it is interleaved
\* with others (has_repeating_segments).
LoopsAreCaught ==
  Made("url") =>
    LET url == UrlOf(parts, Plainly)
    IN  (\E i \in DOMAIN url.path : /\ url.path[i] \notin OneLetter \cup {Empty}
                                   /\ Cardinality({j \in DOMAIN url.path : url.path[j] = url.path[i]}) > MaxSegmentRepeats)
          => Trap(url) # "ok"

\* The links of a page: each URL that an anchor leads to once, as it will be
\* fetched, and the first anchor's word on whether it is vouched for
\* (collect_links).
LinksOnce(links, base) ==
  LET to(url) == {i \in DOMAIN parts : Resolves(base, parts[i].href) /\ Resolve(base, parts[i].href) = url}
  IN  /\ \A i, j \in DOMAIN links : links[i].url = links[j].url => i = j
      /\ \A link \in ToSet(links) :
           /\ Normalize(link.url) = link.url
           /\ \E i \in to(link.url) : (\A j \in to(link.url) : i <= j) /\ link.nofollow = parts[i].nofollow
      /\ \A i \in DOMAIN parts : Resolves(base, parts[i].href) =>
           \E link \in ToSet(links) : i \in to(link.url)

------------------------------------------------------------------------------
(***************************************************************************)
(* Directives and the article                                              *)
(***************************************************************************)
Headed == parts # <<>> /\ parts[1].name = "header"

Said == DirectivesOf(IF Headed THEN parts[1].words ELSE <<>>, IF Headed THEN Tail(parts) ELSE parts)

\* Every word said to us, in order.
Heard ==
  FoldLeft(LAMBDA heard, i :
             IF parts[i].name \in {"robots", "uruk-crawl"} \/ (i = 1 /\ Headed) THEN heard \o parts[i].words ELSE heard,
           <<>>, [i \in DOMAIN parts |-> i])

\* The last word heard of those that settle something: none, or the one.
LastOf(kinds) ==
  LET at == {i \in DOMAIN Heard : Heard[i].is \in kinds}
  IN  {Heard[i] : i \in {i \in at : \A j \in at : j <= i}}

\* The meta elements addressed to a name that settle something.
Addressed(name, kinds) == {i \in DOMAIN parts : parts[i].name = name /\ \E word \in ToSet(parts[i].words) : word.is \in kinds}

\* The last word on a matter is for everyone, although we were spoken to.
Contested(kinds) ==
  LET ours == Addressed("uruk-crawl", kinds)
  IN  ours # {} /\ \E j \in Addressed("robots", kinds) : \A i \in ours : i < j

\* Of what header and meta elements say the last word on a matter holds, except
\* that noarchive is never taken back, and that nothing is said here of a word
\* to us that one to everyone follows (OwnWordWins); a snippet is forbidden
\* exactly when its limit is none at all (Directives::apply, parse).
DirectivesAreLast(said) ==
  /\ Contested({"noindex", "none", "all"}) \/
       said.index = (\A word \in LastOf({"noindex", "none", "all"}) : word.is = "all")
  /\ Contested({"nofollow", "none", "all"}) \/
       said.follow = (\A word \in LastOf({"nofollow", "none", "all"}) : word.is = "all")
  /\ said.archive = (LastOf({"noarchive"}) = {})
  /\ Contested({"nosnippet", "max-snippet"}) \/
       \A word \in LastOf({"nosnippet", "max-snippet"}) :
         said.limit = (IF word.is = "nosnippet" THEN 0 ELSE IF word.n < 0 THEN Unlimited ELSE word.n)
  /\ said.snippet <=> said.limit # 0

\* "our own product token addresses us specifically and wins where both are
\* present" (parse.rs): on a matter that a meta element addressed to us settles,
\* what those addressed to us say together is what holds.
OwnWordWins ==
  Made("directives") =>
    LET own == DirectivesOf(<<>>, SelectSeq(parts, LAMBDA meta : meta.name = "uruk-crawl"))
    IN  /\ Addressed("uruk-crawl", {"noindex", "none", "all"}) # {} => Said.index = own.index
        /\ Addressed("uruk-crawl", {"nofollow", "none", "all"}) # {} => Said.follow = own.follow
        /\ Addressed("uruk-crawl", {"nosnippet", "max-snippet"}) # {} => Said.limit = own.limit

Aside(node) == node.kind = "cut" \/ node.marked

\* No text of a navigation, a footer or a sidebar is indexed, as long as no box
\* with words enough lies inside one (subtree_text, extract_article).
CutStaysOut ==
  (/\ Made("document") /\ parts # <<>>
   /\ \A n \in DOMAIN parts : parts[n].kind = "box" => \A m \in Above(parts, n) : ~Aside(parts[m]))
    => \A n \in TextUnder(parts, Article(parts)) : \A m \in Above(parts, n) : ~Aside(parts[m])

\* A link density is a share of the article's words, although words in links
\* are counted in the furniture too (link_words, extract_article).
DensityIsShare == Made("document") /\ parts # <<>> => Density(parts)[1] <= Density(parts)[2]

------------------------------------------------------------------------------
(***************************************************************************)
(* Queries                                                                 *)
(***************************************************************************)
\* A clause as it is typed: its words joined by spaces inside quotes, by a
\* minus outside; a host after Site; or signs that mean nothing.
Typed(clause) ==
  LET sign == IF clause.negated THEN <<Minus>> ELSE <<>>
      joint == IF clause.quoted THEN Space ELSE Minus
      words == FoldLeft(LAMBDA all, w : IF all = <<>> THEN <<w>> ELSE all \o <<joint, w>>, <<>>, clause.words)
  IN  IF clause.site THEN <<Site>> \o clause.words
      ELSE sign \o (IF clause.quoted THEN <<Quote>> \o words \o <<Quote>> ELSE words)

Rendered == FoldLeft(LAMBDA raw, clause : raw \o Typed(clause) \o <<Space>>, <<>>, parts)

TermsIn(clause) == [i \in DOMAIN clause.words |-> <<clause.words[i]>>]

Joined(sequences) == FoldLeft(LAMBDA all, s : all \o s, <<>>, sequences)

\* What is typed means what it says: words all required, excluded after a minus,
\* words together a phrase, the last site the filter, and signs that hold no
\* word change nothing that comes after them (chunks, parse).
QueryMeansClauses(query) ==
  LET terms(Test(_)) == LET some == SelectSeq(parts, LAMBDA c : ~c.site /\ c.words # <<>> /\ Test(c))
                        IN  [i \in DOMAIN some |-> TermsIn(some[i])]
      sites == SelectSeq(parts, LAMBDA c : c.site)
  IN  /\ query.required = Joined(terms(LAMBDA c : ~c.negated))
      /\ query.phrases = terms(LAMBDA c : ~c.negated /\ Len(c.words) > 1)
      /\ query.excluded = Joined(terms(LAMBDA c : c.negated /\ Len(c.words) = 1))
      /\ query.excludedPhrases = terms(LAMBDA c : c.negated /\ Len(c.words) > 1)
      /\ query.site = (IF sites = <<>> THEN <<>> ELSE Last(sites).words)

\* A quote opened in the middle of a word joins what it is between.
Glued(raw) ==
  \E i \in DOMAIN raw : /\ raw[i] = Quote /\ i > 1 /\ raw[i - 1] \notin {Space, Quote, Minus}
                        /\ Cardinality({j \in 1..i : raw[j] = Quote}) % 2 = 1

\* No word that is typed is lost: each is required or excluded as often as it
\* was typed, whatever quotes are left open (parse: "anything unrecognisable
\* becomes ordinary search terms").
SameTerms(found, typed) ==
  LET count(s, t) == Cardinality({i \in DOMAIN s : s[i] = t})
  IN  Len(found) = Len(typed) /\ \A t \in ToSet(typed) : count(found, t) = count(typed, t)

NothingTypedIsLost(query) ==
  ~Contains(parts, Site) /\ ~Glued(parts) =>
    SameTerms(query.required \o query.excluded \o Joined(query.excludedPhrases), TermsOf(parts))

------------------------------------------------------------------------------
(***************************************************************************)
(* Snippets                                                                *)
(***************************************************************************)
Text == Joined(parts)

Queries == {{<<1>>}, {<<1>>, <<2>>}}

Policies == {[allowed |-> TRUE, cap |-> NoCap], [allowed |-> TRUE, cap |-> 2], [allowed |-> TRUE, cap |-> 0],
             [allowed |-> FALSE, cap |-> NoCap]}

Whole(terms, policy) == ~Scan(Text).panicked /\ ~SnippetPanics(Text, terms, policy, Preferred)

\* What is highlighted in a snippet, trimmed and with its ellipses, is a term
\* of the query, and all of it is marked on the page (snippet, marked).
HighlightsAreMatches(snippet, terms) ==
  LET lead == IF snippet.cutStart THEN Ellipsis ELSE 0
  IN  /\ \A h \in ToSet(snippet.highlights) :
           /\ {h[1] - lead, h[2] - lead} \subseteq Boundaries(snippet.shown)
           /\ Slice(snippet.shown, h[1] - lead, h[2] - lead) \in terms
      /\ Marked(snippet) = snippet.highlights

\* A snippet shows why a page matched: with a budget to choose, one of the
\* matches is in it (best_window).
SnippetShowsMatch(snippet, terms, policy) ==
  policy.allowed /\ policy.cap = NoCap /\ Matches(Text, terms) # <<>> => snippet.highlights # <<>>

\* Nothing is shown of a page that forbids it (snippet).
SnippetIsTrue(snippet, terms, policy) ==
  /\ HighlightsAreMatches(snippet, terms) /\ SnippetShowsMatch(snippet, terms, policy)
  /\ Forbidden(policy) => snippet.shown = <<>>

\* "one that sent `max-snippet:N` gets at most N characters" (snippet.rs), the
\* ellipses not counted.
WithinLimit ==
  \A terms \in Queries, policy \in Policies :
    policy.cap # NoCap /\ Whole(terms, policy) => Len(Snippet(Text, terms, policy, Preferred).shown) <= policy.cap

\* "multibyte_text_is_never_cut_mid_character" (a test of snippet.rs): what can
\* be tokenised can be cut.
NeverCutThrough == ~Scan(Text).panicked => \A terms \in Queries, policy \in Policies : Whole(terms, policy)

\* Of no text are both promises broken: a text that refutes this refutes each.
SnippetsKeepPromises == Made("text") => WithinLimit \/ NeverCutThrough

------------------------------------------------------------------------------
(***************************************************************************)
(* Scores.  A document is the tokens of its fields; of two terms.          *)
(***************************************************************************)
CountsOf(tokens, term) ==
  [field \in ScoredFields |-> Cardinality({i \in DOMAIN tokens : tokens[i] = [field |-> field, term |-> term]})]

LengthsOf(tokens) == [field \in ScoredFields |-> Cardinality({i \in DOMAIN tokens : tokens[i].field = field})]

Frequencies == 1..Documents

Worth(tokens, frequency) == Contribution(frequency, CountsOf(tokens, 1), LengthsOf(tokens))

\* An occurrence more of a term never lowers what it adds to a score, however
\* common it is and however much longer it makes its field; a word that is
\* another never raises it (Scorer::term, idf: "a negative contribution means
\* matching a common word actively hurts a document").
MatchNeverHurts ==
  Made("tokens") => \A frequency \in Frequencies, field \in ScoredFields :
    /\ Worth(Append(parts, [field |-> field, term |-> 1]), frequency) >= Worth(parts, frequency)
    /\ Worth(Append(parts, [field |-> field, term |-> 2]), frequency) <= Worth(parts, frequency)

\* A term is worth less than its idf, however often and in however many fields
\* it stands (Scorer::term: "Saturation, applied once to the combined
\* frequency").
SaturatedOnce ==
  Made("tokens") => \A frequency \in Frequencies : Worth(parts, frequency) < Idf(frequency)

Qualities == {[textRatio |-> 300, linkDensity |-> 200, scripts |-> 5], [textRatio |-> 900, linkDensity |-> 0, scripts |-> 0]}

\* Both phases say one score: without a span, that of the first is that of the
\* second; with one, proximity comes on top of it, less the wider the span, so
\* the cut between them can only lose what proximity would have lifted
\* (score_without_proximity, document).
PhasesAgree ==
  Made("tokens") => \A quality \in Qualities, authority \in {{}, {0}, {700}} :
    LET counts  == [t \in 1..2 |-> CountsOf(parts, t)]
        first   == ScoreWithoutProximity(<<1, 2>>, counts, LengthsOf(parts), quality, authority)
        total(spans) == Explain(<<1, 2>>, counts, LengthsOf(parts), quality, spans, authority).total
    IN  /\ total({}) = first
        /\ \A span \in 1..4 : /\ total({span}) > first
                              /\ total({span + 1}) <= total({span})

------------------------------------------------------------------------------
(***************************************************************************)
(* Evaluation                                                              *)
(***************************************************************************)
QueryLines == {i \in DOMAIN parts : parts[i].is = "query"}
GradeLines == {i \in DOMAIN parts : parts[i].is = "grade"}

\* The line that begins the judgments a grade belongs to, if there is one.
Owner(i) == {k \in QueryLines : k < i /\ \A j \in QueryLines : j < i => j <= k}

\* A file is read as a whole or refused as a whole: it is refused exactly when
\* a query is empty or judged twice, or a grade has no query, no URL, no place
\* on the scale or a rival, and otherwise holds the grades that were written
\* and no others (Judgments::parse).
JudgmentsAsWritten ==
  Made("judgments") =>
    LET read  == ParseJudgments(parts)
        sound == /\ \A i \in QueryLines : parts[i].query # "" /\ \A j \in QueryLines : parts[i].query = parts[j].query => i = j
                 /\ \A i \in GradeLines : /\ Owner(i) # {} /\ parts[i].url # "" /\ parts[i].grade \in 0..MaxGrade
                                         /\ \A j \in GradeLines : Owner(i) = Owner(j) /\ parts[i].url = parts[j].url => i = j
        written == UNION {{<<parts[k].query, parts[i].url, parts[i].grade>> : k \in Owner(i)} : i \in GradeLines}
    IN  /\ read.failed <=> ~sound
        /\ sound => /\ Judged(read) = {parts[i].query : i \in QueryLines}
                    /\ written = UNION {{<<read.queries[i].query, url, read.queries[i].grades[url]>> :
                                           url \in DOMAIN read.queries[i].grades} : i \in DOMAIN read.queries}

\* Grades for some of the pages that a hit may be.
Gradings ==
  UNION {[urls -> 0..MaxGrade] :
           urls \in SUBSET ({hit.url : hit \in Parts["hits"]} \cup {hit.final : hit \in Parts["hits"]})}

\* Unless two hits count under one URL, a score is a share of the best that any
\* page could have, and all of it exactly for a page with the best grades in
\* the best order; and no more is found than there is (score).
ScoresAreShares ==
  Made("hits") => \A grades \in Gradings, depth \in DOMAIN Discount :
    LET scored == Scored(grades, parts, depth)
        ranked == Ranked(grades, parts, depth)
        best   == Ideal(grades, depth)
    IN  IsInjective(ranked) =>
          /\ scored.dcg <= scored.ideal /\ scored.found <= scored.relevant
          /\ (scored.dcg = scored.ideal <=>
                \A i \in 1..depth : (IF i \in DOMAIN ranked THEN GradeAt(grades, ranked[i]) ELSE 0)
                                      = (IF i \in DOMAIN best THEN best[i] ELSE 0))

\* A page that was judged counts as judged, whether the judge wrote the URL
\* that was linked or the one that it names as its own (evaluate).
JudgedUnderEither ==
  Made("hits") => \A grades \in Gradings :
    Scored(grades, parts, Len(parts)).judged
      = Cardinality({i \in DOMAIN parts : {parts[i].url, parts[i].final} \cap DOMAIN grades # {}})

Trials == UpTo([DOMAIN parts -> BOOLEAN], 2)

\* It does not matter which of two configurations is called the baseline: the
\* difference turns round and its chance, never nothing, stays; and where
\* nothing differs there is nothing to see (compare).
ComparisonIsPaired ==
  Made("pairs") => \A trials \in Trials :
    LET result == Compare(parts, trials)
        turned == Compare([i \in DOMAIN parts |-> [before |-> parts[i].after, after |-> parts[i].before]], trials)
    IN  /\ turned.difference = -result.difference /\ turned.chance = result.chance
        /\ turned.better = result.worse /\ turned.worse = result.better
        /\ result.chance[1] \in 1..result.chance[2]
        /\ result.better + result.worse = 0 => result.chance[1] = result.chance[2]

------------------------------------------------------------------------------
(***************************************************************************)
(* The promises above, by the part of the program that keeps them.         *)
(***************************************************************************)
\* A crawler goes only where a robots.txt that arrived whole, read as it is
\* written, lets it go, and as slowly as it asks (fetch.rs, robots.rs).
RobotsAreHonoured ==
  /\ Made("answer") => \A answer \in Answers :
       LET outcome == Get(answer) IN BodyIsWhole(answer, outcome) /\ PermissionIsGiven(answer, outcome)
  /\ RobotsAsWritten /\ GlobIsMatch /\ DelayIsOurs

\* One page has one URL to fetch and one key to be known by, and a path that
\* runs in circles none (url.rs, traps.rs).
PagesHaveOneKey == NormalizeSettles /\ KeyExact /\ LoopsAreCaught

\* A page is read as its author wrote it: its links, its directives and its
\* text without the furniture around it (parse.rs).
PagesReadAsWritten ==
  /\ Made("links") => LET base == UrlOf(<<>>, Plainly) IN LinksOnce(LinksOf(base, parts), base)
  /\ Made("directives") => DirectivesAreLast(Said)
  /\ CutStaysOut /\ DensityIsShare

\* A query is read as it was typed (uruk-query's parse.rs).
QueriesReadAsTyped ==
  /\ Made("meant") => QueryMeansClauses(ParseQuery(Rendered))
  /\ Made("typed") => NothingTypedIsLost(ParseQuery(parts))

\* A snippet is the page's words, shows the match and marks it, and there is
\* none where the page forbids it (snippet.rs, html.rs).
SnippetsAreTrue ==
  Made("text") => \A terms \in Queries, policy \in Policies :
    Whole(terms, policy) => SnippetIsTrue(Snippet(Text, terms, policy, Preferred), terms, policy)

\* A score rises with what matches, at most so far, and alike in both of the
\* phases that compute it (score.rs).
ScoresAreSound == MatchNeverHurts /\ SaturatedOnce /\ PhasesAgree

\* A ranking is measured against the judgments as they were written, and two
\* rankings against each other without favour (uruk-eval).
MeasuresAreFair == JudgmentsAsWritten /\ ScoresAreShares /\ JudgedUnderEither /\ ComparisonIsPaired
=============================================================================
