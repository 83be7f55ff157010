----------------------------- MODULE Evaluation -----------------------------
(***************************************************************************)
(* The evaluation harness (uruk-eval): a file of judgments is read, the    *)
(* results of a query are scored against them, and two configurations are  *)
(* compared by shuffling.  Scores are kept as numerators and denominators; *)
(* the coin of the shuffles is any sequence of flips.                      *)
(***************************************************************************)
EXTENDS Integers, SequencesExt, FiniteSetsExt

CONSTANTS MaxGrade,     \* the best grade (3)
          RelevantAt,   \* the least grade that counts as relevant (2)
          Discount      \* what a place on the page is worth, in whole parts

\* A place is worth less than the one before it, and never nothing.
ASSUME EvaluationAssumption ==
  /\ MaxGrade \in Nat /\ RelevantAt \in 1..MaxGrade
  /\ Discount \in Seq(Nat \ {0}) /\ \A i, j \in DOMAIN Discount : i < j => Discount[i] > Discount[j]

------------------------------------------------------------------------------
(***************************************************************************)
(* Judgments (judgments.rs).  A line is blank or a comment, begins the     *)
(* judgments of a query, or grades a URL for the query before it.          *)
(***************************************************************************)
NoJudgments == [queries |-> <<>>, failed |-> FALSE]

Judged(read) == {read.queries[i].query : i \in DOMAIN read.queries}

Faulty(read, line) ==
  \/ line.is = "query" /\ (line.query = "" \/ line.query \in Judged(read))
  \/ line.is = "grade" /\ \/ read.queries = <<>> \/ line.grade \notin 0..MaxGrade \/ line.url = ""
                          \/ line.url \in DOMAIN Last(read.queries).grades

\* The grades with that of one URL more.
Graded(grades, url, grade) == [u \in {url} \cup DOMAIN grades |-> IF u = url THEN grade ELSE grades[u]]

ReadJudgment(read, line) ==
  IF read.failed THEN read
  ELSE IF Faulty(read, line) THEN [read EXCEPT !.failed = TRUE]
  ELSE CASE line.is = "blank" -> read
         [] line.is = "query" -> [read EXCEPT !.queries = Append(@, [query |-> line.query, grades |-> <<>>])]
         [] line.is = "grade" ->
              [read EXCEPT !.queries[Len(read.queries)].grades = Graded(@, line.url, line.grade)]

ParseJudgments(lines) == FoldLeft(ReadJudgment, NoJudgments, lines)

------------------------------------------------------------------------------
(***************************************************************************)
(* Scores (metrics.rs, run.rs).  A hit has the URL it was fetched from and *)
(* the one it names as its own.                                            *)
(***************************************************************************)
PowerOfTwo[n \in Nat] == IF n = 0 THEN 1 ELSE 2 * PowerOfTwo[n - 1]

Gain(grade) == PowerOfTwo[grade] - 1

\* The URL a hit counts under: its own if that was judged.
RankedAs(grades, hit) == IF hit.final \in DOMAIN grades THEN hit.final ELSE hit.url

Ranked(grades, hits, depth) ==
  [i \in 1..(IF Len(hits) < depth THEN Len(hits) ELSE depth) |-> RankedAs(grades, hits[i])]

GradeAt(grades, url) == IF url \in DOMAIN grades THEN grades[url] ELSE 0

Dcg(places) == FoldLeft(LAMBDA sum, i : sum + Gain(places[i]) * Discount[i], 0, [i \in DOMAIN places |-> i])

GradedFrom(grades, grade) == {url \in DOMAIN grades : grades[url] >= grade}

\* The grades of the best page that there could be, the best first: each place
\* has the best grade that enough pages for it and those before reach.
Ideal(grades, depth) ==
  [i \in 1..Min({depth, Cardinality(DOMAIN grades)}) |->
     Max({grade \in 0..MaxGrade : Cardinality(GradedFrom(grades, grade)) >= i})]

Relevant(grades) == GradedFrom(grades, RelevantAt)

Scored(grades, hits, depth) ==
  LET ranked == Ranked(grades, hits, depth)
      places == [i \in DOMAIN ranked |-> GradeAt(grades, ranked[i])]
  IN  [dcg      |-> Dcg(places),
       ideal    |-> Dcg(Ideal(grades, depth)),
       found    |-> Cardinality({i \in DOMAIN places : places[i] >= RelevantAt}),
       relevant |-> Cardinality(Relevant(grades)),
       judged   |-> Cardinality({i \in DOMAIN ranked : ranked[i] \in DOMAIN grades})]

------------------------------------------------------------------------------
(***************************************************************************)
(* Comparison (compare.rs).  A pair is the scores of one query under both  *)
(* configurations; a trial flips a coin for each pair.                     *)
(***************************************************************************)
Size(n) == IF n < 0 THEN -n ELSE n

\* The sum of the differences, those of some pairs the other way round.
Shuffled(pairs, flips) ==
  FoldLeft(LAMBDA sum, i : sum + (IF flips[i] THEN -1 ELSE 1) * (pairs[i].after - pairs[i].before),
           0, [i \in DOMAIN pairs |-> i])

Observed(pairs) == Shuffled(pairs, [i \in DOMAIN pairs |-> FALSE])

\* A bug: a difference is extreme in the direction of the one observed only.
ExtremeOneSided(pairs, trials) == {t \in DOMAIN trials : Shuffled(pairs, trials[t]) >= Observed(pairs)}

Extreme(pairs, trials) == {t \in DOMAIN trials : Size(Shuffled(pairs, trials[t])) >= Size(Observed(pairs))}

\* What is observed counts as a trial of its own.
Compare(pairs, trials) ==
  [difference |-> Observed(pairs),
   better     |-> Cardinality({i \in DOMAIN pairs : pairs[i].after > pairs[i].before}),
   worse      |-> Cardinality({i \in DOMAIN pairs : pairs[i].after < pairs[i].before}),
   chance     |-> IF pairs = <<>> THEN <<1, 1>> ELSE <<Cardinality(Extreme(pairs, trials)) + 1, Len(trials) + 1>>]
=============================================================================
