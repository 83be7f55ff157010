---------------------------- MODULE ContentProofs ----------------------------
(***************************************************************************)
(* Proofs about Content: what the crawler makes of a robots.txt and of the *)
(* answer that brings it, what a page links to, says of itself and is made *)
(* of, what a document scores, and how a ranking is measured, for files,   *)
(* patterns, answers, pages, documents and comparisons of any length.      *)
(*                                                                         *)
(* Each fold over the lines, the signs or the chunks is first unrolled     *)
(* into the states it goes through (the ...Walk lemmas, by FoldTheorems);  *)
(* what the code computes from them is then compared with what the file    *)
(* says: GlobMatchIs for the patterns, FileIsRead, GroupForStands and      *)
(* LongestDecides for the groups and their rules, WholeIsRead for the      *)
(* answer.                                                                 *)
(*                                                                         *)
(* A score is rounded down once per quotient, so what grows with what is   *)
(* divided still grows (QuotientMono): PseudoGrows for the frequency over  *)
(* all fields, Saturates and ContributionIs for what a term adds,          *)
(* TokenCounts for one more token, PhasesAreOne for the two phases.        *)
(*                                                                         *)
(* A page gains grade by grade: from one grade to the next, what is added  *)
(* is weighed by the places that reach it, and the first places weigh most *)
(* (FirstWeighMost), so that BestIsBest follows.  FileIsJudged compares    *)
(* what has been read of a file of judgments with its lines so far.        *)
(*                                                                         *)
(* Of a page, FirstsAreListed takes the links anchor by anchor, Says is    *)
(* what header and meta elements have said after the words heard so far,   *)
(* and the article rests on two nodes above a third being one above the    *)
(* other (AboveInLine).                                                    *)
(*                                                                         *)
(* A key is put together backwards: the sign that stands last tells where  *)
(* the last parameter begins, so two spellings that agree have the same    *)
(* parameters (SpeltApart), and in order there is one way to have each as  *)
(* often (OneOrder).                                                       *)
(***************************************************************************)
EXTENDS Content, FoldTheorems, TLAPS

-----------------------------------------------------------------------------
(* Patterns: what the first of their signs can stand for (Reaches), and their pieces *)

\* The signs that words, patterns and paths are made of.
Signs == STRING \cup {Star, End, "/", "a", "b"}

\* A step of Reaches: from the prefixes that the signs so far can stand for.
Reach(reached, c, path) ==
  IF c = Star THEN {n \in 0..Len(path) : \E m \in reached : m <= n}
  ELSE {n + 1 : n \in {n \in reached : n < Len(path) /\ path[n + 1] = c}}

\* The prefixes that the first signs of a pattern can stand for (Reaches).
LEMMA ReachesWalk ==
  ASSUME NEW pattern \in Seq(Signs), NEW path \in Seq(Signs)
  PROVE  \E v \in [0..Len(pattern) -> SUBSET (0..Len(path))] :
           /\ v[0] = {0} /\ \A k \in 1..Len(pattern) : v[k] = Reach(v[k - 1], pattern[k], path)
           /\ Reaches(pattern, path) = v[Len(pattern)]
<1> DEFINE n == Len(pattern)
           base == {0}
           States == SUBSET (0..Len(path))
           Value(x, i) == Reach(x, pattern[i], path)
           step == [i \in 1..n |-> [x \in States |-> Value(x, i)]]
           Is(g) == g = [s \in SUBSET (DOMAIN pattern) |-> IF s = {} THEN base ELSE Value(g[s \ {Max(s)}], Max(s))]
           u == CHOOSE g : Is(g)
           f == [s \in SUBSET (1..n) |-> Value(u[s \ {Max(s)}], Max(s))]
<1>1. n \in Nat /\ base \in States /\ DOMAIN pattern = 1..n
  OBVIOUS
<1>2. Reaches(pattern, path) = u[1..n]
  BY <1>1 DEF Reaches, Reach, FoldLeft, MapThenFoldSet
<1>3. \A i \in 1..n, x \in States : Value(x, i) \in States
  BY DEF Reach
<1>4. step \in [1..n -> [States -> States]] /\ \A i \in 1..n, x \in States : step[i][x] = Value(x, i)
  BY <1>3
<1>5. base = {0} /\ \A x, i : Value(x, i) = Reach(x, pattern[i], path)
  OBVIOUS
<1> HIDE DEF n, States, base, step, Value
<1>6. \A s \in SUBSET (1..n) : s # {} => Max(s) \in 1..n
  BY <1>1, TakesLast
<1>7. Is(u)
  <2>1. n \in Nat /\ base \in States
    BY <1>1
  <2>2. step \in [1..n -> [States -> States]]
    BY <1>4
  <2>3. PICK g \in [SUBSET (1..n) -> States] : IsLeftFold(g, n, base, step)
    BY <2>1, <2>2, LeftFoldExists
  <2>4. \A s \in SUBSET (1..n) : s # {} => g[s \ {Max(s)}] \in States
    OBVIOUS
  <2>5. Is(g)
    BY <1>1, <1>4, <1>6, <2>3, <2>4 DEF IsLeftFold
  <2> QED BY <2>5
<1>8. ComesTo(u, f, n, base)
  BY <1>1, <1>7 DEF ComesTo
<1>9. StepsOn(u, f, n, States, step)
  <2>1. \A s \in SUBSET (1..n) : f[s] = Value(u[s \ {Max(s)}], Max(s))
    OBVIOUS
  <2> HIDE DEF u, f
  <2>2. ASSUME NEW s \in SUBSET (1..n), s # {}, u[s \ {Max(s)}] \in States
        PROVE  f[s] = step[Max(s)][u[s \ {Max(s)}]]
    BY <1>4, <1>6, <2>1, <2>2
  <2> QED BY <2>2, Zenon DEF StepsOn
<1> HIDE DEF u, f, Is
<1>10. PICK v \in [0..n -> States] : IsWalk(v, n, base, step) /\ v[n] = u[1..n]
  <2>1. n \in Nat /\ base \in States
    BY <1>1
  <2>2. step \in [1..n -> [States -> States]]
    BY <1>4
  <2>3. ComesTo(u, f, n, base) /\ StepsOn(u, f, n, States, step)
    BY <1>8, <1>9
  <2> QED BY <2>1, <2>2, <2>3, LeftFoldWalks
<1>11. v[0] = base /\ \A k \in 1..n : v[k] = Value(v[k - 1], k)
  <2>1. \A k \in 1..n : k - 1 \in 0..n
    BY <1>1
  <2> QED BY <1>4, <1>10, <2>1 DEF IsWalk
<1>12. v[0] = {0} /\ \A k \in 1..n : v[k] = Reach(v[k - 1], pattern[k], path)
  BY <1>5, <1>11
<1> QED BY <1>2, <1>10, <1>12 DEF n, States

\* A step of Pieces.
Split(pieces, c) == IF c = Star THEN Append(pieces, <<>>) ELSE [pieces EXCEPT ![Len(pieces)] = Append(@, c)]

\* Pieces, one at least.
SomePieces == {pieces \in Seq(Seq(Signs)) : pieces # <<>>}

\* The pieces of the first signs of a pattern (Pieces).
LEMMA PiecesWalk ==
  ASSUME NEW pattern \in Seq(Signs)
  PROVE  \E v \in [0..Len(pattern) -> SomePieces] :
           /\ v[0] = << <<>> >> /\ \A k \in 1..Len(pattern) : v[k] = Split(v[k - 1], pattern[k])
           /\ Pieces(pattern) = v[Len(pattern)]
<1> DEFINE n == Len(pattern)
           base == << <<>> >>
           States == SomePieces
           Value(x, i) == Split(x, pattern[i])
           step == [i \in 1..n |-> [x \in States |-> Value(x, i)]]
           Is(g) == g = [s \in SUBSET (DOMAIN pattern) |-> IF s = {} THEN base ELSE Value(g[s \ {Max(s)}], Max(s))]
           u == CHOOSE g : Is(g)
           f == [s \in SUBSET (1..n) |-> Value(u[s \ {Max(s)}], Max(s))]
<1>1. n \in Nat /\ base \in States /\ DOMAIN pattern = 1..n
  BY DEF SomePieces
<1>2. Pieces(pattern) = u[1..n]
  BY <1>1 DEF Pieces, Split, FoldLeft, MapThenFoldSet
<1>3. \A i \in 1..n, x \in States : Value(x, i) \in States
  <2> SUFFICES ASSUME NEW i \in 1..n, NEW x \in SomePieces PROVE Split(x, pattern[i]) \in SomePieces
    OBVIOUS
  <2>1. x \in Seq(Seq(Signs)) /\ Len(x) \in DOMAIN x /\ pattern[i] \in Signs
    BY DEF SomePieces
  <2> QED BY <2>1 DEF SomePieces, Split
<1>4. step \in [1..n -> [States -> States]] /\ \A i \in 1..n, x \in States : step[i][x] = Value(x, i)
  BY <1>3
<1>5. base = << <<>> >> /\ \A x, i : Value(x, i) = Split(x, pattern[i])
  OBVIOUS
<1> HIDE DEF n, States, base, step, Value
<1>6. \A s \in SUBSET (1..n) : s # {} => Max(s) \in 1..n
  BY <1>1, TakesLast
<1>7. Is(u)
  <2>1. n \in Nat /\ base \in States
    BY <1>1
  <2>2. step \in [1..n -> [States -> States]]
    BY <1>4
  <2>3. PICK g \in [SUBSET (1..n) -> States] : IsLeftFold(g, n, base, step)
    BY <2>1, <2>2, LeftFoldExists
  <2>4. \A s \in SUBSET (1..n) : s # {} => g[s \ {Max(s)}] \in States
    OBVIOUS
  <2>5. Is(g)
    BY <1>1, <1>4, <1>6, <2>3, <2>4 DEF IsLeftFold
  <2> QED BY <2>5
<1>8. ComesTo(u, f, n, base)
  BY <1>1, <1>7 DEF ComesTo
<1>9. StepsOn(u, f, n, States, step)
  <2>1. \A s \in SUBSET (1..n) : f[s] = Value(u[s \ {Max(s)}], Max(s))
    OBVIOUS
  <2> HIDE DEF u, f
  <2>2. ASSUME NEW s \in SUBSET (1..n), s # {}, u[s \ {Max(s)}] \in States
        PROVE  f[s] = step[Max(s)][u[s \ {Max(s)}]]
    BY <1>4, <1>6, <2>1, <2>2
  <2> QED BY <2>2, Zenon DEF StepsOn
<1> HIDE DEF u, f, Is
<1>10. PICK v \in [0..n -> States] : IsWalk(v, n, base, step) /\ v[n] = u[1..n]
  <2>1. n \in Nat /\ base \in States
    BY <1>1
  <2>2. step \in [1..n -> [States -> States]]
    BY <1>4
  <2>3. ComesTo(u, f, n, base) /\ StepsOn(u, f, n, States, step)
    BY <1>8, <1>9
  <2> QED BY <2>1, <2>2, <2>3, LeftFoldWalks
<1>11. v[0] = base /\ \A k \in 1..n : v[k] = Value(v[k - 1], k)
  <2>1. \A k \in 1..n : k - 1 \in 0..n
    BY <1>1
  <2> QED BY <1>4, <1>10, <2>1 DEF IsWalk
<1>12. v[0] = << <<>> >> /\ \A k \in 1..n : v[k] = Split(v[k - 1], pattern[k])
  BY <1>5, <1>11
<1> QED BY <1>2, <1>10, <1>12 DEF n, States

-----------------------------------------------------------------------------
(* The pieces of a pattern, placed one after another *)

\* A piece occurs where its signs do.
LEMMA OccursMeans ==
  ASSUME NEW piece \in Seq(Signs), NEW path \in Seq(Signs), NEW at \in Nat
  PROVE  OccursAt(piece, path, at) <=>
           at + Len(piece) <= Len(path) /\ \A i \in 1..Len(piece) : path[at + i] = piece[i]
<1> SUFFICES ASSUME at + Len(piece) <= Len(path)
             PROVE  SubSeq(path, at + 1, at + Len(piece)) = piece <=> \A i \in 1..Len(piece) : path[at + i] = piece[i]
  BY DEF OccursAt
<1> DEFINE cut == SubSeq(path, at + 1, at + Len(piece))
<1>1. Len(piece) \in Nat /\ piece = [i \in 1..Len(piece) |-> piece[i]]
  OBVIOUS
<1>2. cut = [i \in 1..Len(piece) |-> path[at + i]]
  <2>1. (at + Len(piece)) - (at + 1) + 1 = Len(piece)
    BY <1>1
  <2>2. \A i \in 1..Len(piece) : (at + 1) + i - 1 = at + i
    BY <1>1
  <2> QED BY <1>1, <2>1, <2>2, SMTT(30)
<1> HIDE DEF cut
<1>3. ASSUME cut = piece, NEW i \in 1..Len(piece) PROVE path[at + i] = piece[i]
  BY <1>2, <1>3
<1>4. ASSUME \A i \in 1..Len(piece) : path[at + i] = piece[i] PROVE cut = piece
  BY <1>1, <1>2, <1>4
<1> QED BY <1>3, <1>4 DEF cut

\* The least of some numbers is one of them.
LEMMA LeastIs ==
  ASSUME NEW S \in SUBSET Nat, S # {}
  PROVE  Least(S) \in S /\ \A n \in S : Least(S) <= n
<1>1. \E n \in S : \A m \in S : n <= m
  BY LeastNat
<1> QED BY <1>1 DEF Least

\* Where the match can be after a piece: nowhere, or somewhere in the path.
Positions(path) == {-1} \cup 0..Len(path)

\* The places that Place chooses from.
Choice(pieces, i, anchored, path, pos) ==
  CASE i = 1                           -> Places(pieces[i], path, 0) \cap {0}
    [] i > 1 /\ i = Len(pieces) /\ anchored -> Places(pieces[i], path, pos) \cap {Len(path) - Len(pieces[i])}
    [] OTHER                           -> Places(pieces[i], path, pos)

\* What Place comes to: the end of the first of the places, if there is one.
LEMMA PlaceMeans ==
  ASSUME NEW pieces \in SomePieces, NEW path \in Seq(Signs), NEW anchored \in BOOLEAN,
         NEW i \in DOMAIN pieces, NEW pos \in Positions(path)
  PROVE  LET at  == Choice(pieces, i, anchored, path, pos)
             new == Place(pieces, i, anchored, path, pos)
         IN  /\ new \in Positions(path)
             /\ pieces[i] = <<>> \/ pos < 0 => new = pos
             /\ pieces[i] # <<>> /\ pos >= 0 =>
                  /\ at \in SUBSET (0..Len(path))
                  /\ at = {} => new = -1
                  /\ at # {} => /\ new - Len(pieces[i]) \in at /\ OccursAt(pieces[i], path, new - Len(pieces[i]))
                                /\ \A a \in at : new - Len(pieces[i]) <= a
<1> DEFINE at  == Choice(pieces, i, anchored, path, pos)
           new == Place(pieces, i, anchored, path, pos)
<1>1. /\ pieces[i] \in Seq(Signs) /\ Len(pieces[i]) \in Nat /\ Len(path) \in Nat
      /\ pos \in Int /\ (pos >= 0 => pos \in Nat)
  BY DEF SomePieces, Positions
<1>2. new = IF pieces[i] = <<>> \/ pos < 0 THEN pos ELSE IF at = {} THEN -1 ELSE Least(at) + Len(pieces[i])
  BY DEF Place, Choice
<1>3. pos >= 0 => \A a \in at : a \in 0..Len(path) /\ OccursAt(pieces[i], path, a)
  <2> SUFFICES ASSUME pos >= 0, NEW a \in at PROVE a \in 0..Len(path) /\ OccursAt(pieces[i], path, a)
    OBVIOUS
  <2>1. a \in Places(pieces[i], path, 0) \/ a \in Places(pieces[i], path, pos)
    BY DEF Choice
  <2>2. pos \in Nat
    BY DEF Positions
  <2> QED BY <1>1, <2>1, <2>2 DEF Places
<1> HIDE DEF at, new
<1>4. CASE pieces[i] = <<>> \/ pos < 0
  BY <1>1, <1>2, <1>4 DEF at, new
<1>5. CASE pieces[i] # <<>> /\ pos >= 0 /\ at = {}
  BY <1>1, <1>2, <1>5 DEF at, new, Positions
<1>6. CASE pieces[i] # <<>> /\ pos >= 0 /\ at # {}
  <2>1. at \in SUBSET Nat /\ at \in SUBSET (0..Len(path))
    BY <1>3, <1>6
  <2>2. Least(at) \in at /\ \A a \in at : Least(at) <= a
    <3> at \in SUBSET Nat /\ at # {}
      BY <1>6, <2>1
    <3> QED BY LeastIs
  <2>3. new = Least(at) + Len(pieces[i])
    BY <1>1, <1>2, <1>6
  <2>4. Least(at) + Len(pieces[i]) <= Len(path) /\ Least(at) \in Nat /\ OccursAt(pieces[i], path, Least(at))
    <3>1. OccursAt(pieces[i], path, Least(at))
      BY <1>3, <1>6, <2>2
    <3> QED BY <2>1, <2>2, <3>1 DEF OccursAt
  <2>5. new - Len(pieces[i]) = Least(at) /\ new \in Positions(path)
    BY <1>1, <2>3, <2>4 DEF Positions
  <2>6. OccursAt(pieces[i], path, new - Len(pieces[i]))
    BY <2>4, <2>5
  <2>7. new - Len(pieces[i]) \in at /\ \A a \in at : new - Len(pieces[i]) <= a
    BY <2>2, <2>5
  <2> HIDE DEF at, new
  <2> QED BY <1>1, <1>6, <2>1, <2>5, <2>6, <2>7 DEF at, new
<1> QED BY <1>1, <1>4, <1>5, <1>6

\* Where the match is after all of the places, one piece after the other.
Placed(pieces, anchored, path, places) == FoldLeft(LAMBDA pos, i : Place(pieces, i, anchored, path, pos), 0, places)

\* Where the match is after each of the pieces (GlobMatch).
LEMMA PlacesWalk ==
  ASSUME NEW pieces \in SomePieces, NEW path \in Seq(Signs), NEW anchored \in BOOLEAN,
         NEW places \in Seq(DOMAIN pieces)
  PROVE  \E v \in [0..Len(places) -> Positions(path)] :
           /\ v[0] = 0 /\ \A k \in 1..Len(places) : v[k] = Place(pieces, places[k], anchored, path, v[k - 1])
           /\ Placed(pieces, anchored, path, places) = v[Len(places)]
<1> DEFINE n == Len(places)
           base == 0
           States == Positions(path)
           Value(x, i) == Place(pieces, places[i], anchored, path, x)
           step == [i \in 1..n |-> [x \in States |-> Value(x, i)]]
           Is(g) == g = [s \in SUBSET (DOMAIN places) |-> IF s = {} THEN base ELSE Value(g[s \ {Max(s)}], Max(s))]
           u == CHOOSE g : Is(g)
           f == [s \in SUBSET (1..n) |-> Value(u[s \ {Max(s)}], Max(s))]
<1>1. n \in Nat /\ base \in States /\ DOMAIN places = 1..n
  BY DEF Positions
<1>2. Placed(pieces, anchored, path, places) = u[1..n]
  BY <1>1 DEF Placed, FoldLeft, MapThenFoldSet
<1>3. \A i \in 1..n, x \in States : Value(x, i) \in States
  BY PlaceMeans
<1>4. step \in [1..n -> [States -> States]] /\ \A i \in 1..n, x \in States : step[i][x] = Value(x, i)
  BY <1>3
<1>5. base = 0 /\ \A x, i : Value(x, i) = Place(pieces, places[i], anchored, path, x)
  OBVIOUS
<1> HIDE DEF n, States, base, step, Value
<1>6. \A s \in SUBSET (1..n) : s # {} => Max(s) \in 1..n
  BY <1>1, TakesLast
<1>7. Is(u)
  <2>1. n \in Nat /\ base \in States
    BY <1>1
  <2>2. step \in [1..n -> [States -> States]]
    BY <1>4
  <2>3. PICK g \in [SUBSET (1..n) -> States] : IsLeftFold(g, n, base, step)
    BY <2>1, <2>2, LeftFoldExists
  <2>4. \A s \in SUBSET (1..n) : s # {} => g[s \ {Max(s)}] \in States
    OBVIOUS
  <2>5. Is(g)
    BY <1>1, <1>4, <1>6, <2>3, <2>4 DEF IsLeftFold
  <2> QED BY <2>5
<1>8. ComesTo(u, f, n, base)
  BY <1>1, <1>7 DEF ComesTo
<1>9. StepsOn(u, f, n, States, step)
  <2>1. \A s \in SUBSET (1..n) : f[s] = Value(u[s \ {Max(s)}], Max(s))
    OBVIOUS
  <2> HIDE DEF u, f
  <2>2. ASSUME NEW s \in SUBSET (1..n), s # {}, u[s \ {Max(s)}] \in States
        PROVE  f[s] = step[Max(s)][u[s \ {Max(s)}]]
    BY <1>4, <1>6, <2>1, <2>2
  <2> QED BY <2>2, Zenon DEF StepsOn
<1> HIDE DEF u, f, Is
<1>10. PICK v \in [0..n -> States] : IsWalk(v, n, base, step) /\ v[n] = u[1..n]
  <2>1. n \in Nat /\ base \in States
    BY <1>1
  <2>2. step \in [1..n -> [States -> States]]
    BY <1>4
  <2>3. ComesTo(u, f, n, base) /\ StepsOn(u, f, n, States, step)
    BY <1>8, <1>9
  <2> QED BY <2>1, <2>2, <2>3, LeftFoldWalks, SMTT(30)
<1>11. v[0] = base /\ \A k \in 1..n : v[k] = Value(v[k - 1], k)
  <2>1. \A k \in 1..n : k - 1 \in 0..n
    BY <1>1
  <2> QED BY <1>4, <1>10, <2>1 DEF IsWalk
<1>12. v[0] = 0 /\ \A k \in 1..n : v[k] = Place(pieces, places[k], anchored, path, v[k - 1])
  BY <1>5, <1>11
<1> QED BY <1>2, <1>10, <1>12 DEF n, States

\* Pieces are a sequence of sequences.
LEMMA SomePiecesAre ==
  ASSUME NEW pieces \in SomePieces
  PROVE  /\ pieces \in Seq(Seq(Signs)) /\ Len(pieces) \in Nat /\ Len(pieces) # 0 /\ DOMAIN pieces = 1..Len(pieces)
         /\ \A i \in 1..Len(pieces) : pieces[i] \in Seq(Signs)
<1>1. pieces \in Seq(Seq(Signs)) /\ pieces # <<>>
  BY DEF SomePieces
<1>2. Len(pieces) # 0
  BY <1>1
<1> QED BY <1>1, <1>2

\* A sign more leaves the pieces before the last as they are.
LEMMA SplitStays ==
  ASSUME NEW p \in SomePieces, NEW c \in Signs
  PROVE  /\ Len(p) <= Len(Split(p, c))
         /\ \A i \in 1..(Len(p) - 1) : i \in 1..(Len(Split(p, c)) - 1) /\ Split(p, c)[i] = p[i]
<1>1. p \in Seq(Seq(Signs)) /\ Len(p) \in Nat /\ Len(p) # 0
  BY SomePiecesAre
<1>2. CASE c = Star
  <2>1. Split(p, c) = Append(p, <<>>)
    BY <1>2 DEF Split
  <2>2. Len(Append(p, <<>>)) = Len(p) + 1 /\ \A i \in 1..Len(p) : Append(p, <<>>)[i] = p[i]
    BY <1>1
  <2> QED BY <1>1, <2>1, <2>2
<1>3. CASE c # Star
  <2>1. Split(p, c) = [p EXCEPT ![Len(p)] = Append(@, c)]
    BY <1>3 DEF Split
  <2>2. Append(p[Len(p)], c) \in Seq(Signs) /\ p # <<>>
    BY <1>1, SomePiecesAre, Appended
  <2>3. Len(Split(p, c)) = Len(p) /\ \A i \in 1..(Len(p) - 1) : Split(p, c)[i] = p[i]
    BY <1>1, <2>1, <2>2, LastChanged
  <2> QED BY <1>1, <2>3
<1> QED BY <1>2, <1>3

\* The prefixes that the first signs of a pattern stand for, for each number of signs.
Reaching(r, pattern, path) ==
  /\ r \in [0..Len(pattern) -> SUBSET (0..Len(path))]
  /\ r[0] = {0} /\ \A k \in 1..Len(pattern) : r[k] = Reach(r[k - 1], pattern[k], path)

\* Their pieces.
Splitting(q, pattern) ==
  /\ q \in [0..Len(pattern) -> SomePieces]
  /\ q[0] = << <<>> >> /\ \A k \in 1..Len(pattern) : q[k] = Split(q[k - 1], pattern[k])

\* Where the match is after each of the pieces.
Placing(h, pieces, anchored, path) ==
  /\ h \in [0..Len(pieces) -> Positions(path)]
  /\ h[0] = 0 /\ \A i \in 1..Len(pieces) : h[i] = Place(pieces, i, anchored, path, h[i - 1])

\* The pieces that are complete stay as they are when more signs are read.
LEMMA PiecesStay ==
  ASSUME NEW pattern \in Seq(Signs), NEW q, Splitting(q, pattern)
  PROVE  \A k \in 0..Len(pattern) :
           /\ Len(q[k]) <= Len(q[Len(pattern)])
           /\ \A i \in 1..(Len(q[k]) - 1) : q[k][i] = q[Len(pattern)][i]
<1> DEFINE n == Len(pattern)
           Same(k) == /\ Len(q[k]) <= Len(q[n]) /\ \A i \in 1..(Len(q[k]) - 1) : q[k][i] = q[n][i]
           G == {d \in Nat : d <= n => Same(n - d)}
<1>0. n \in Nat /\ \A k \in 0..n : q[k] \in SomePieces /\ Len(q[k]) \in Nat
  <2>1. \A k \in 0..n : q[k] \in SomePieces
    BY DEF Splitting
  <2> QED BY <2>1, SomePiecesAre
<1>1. 0 \in G
  BY <1>0
<1>2. ASSUME NEW d \in Nat, d \in G PROVE d + 1 \in G
  <2> SUFFICES ASSUME d + 1 <= n PROVE Same(n - (d + 1))
    OBVIOUS
  <2> DEFINE k == n - d
  <2>1. k \in 1..n /\ k - 1 \in 0..n /\ k \in 0..n /\ n - (d + 1) = k - 1
    BY <1>0
  <2>2. Same(k)
    BY <1>0, <1>2
  <2>3. q[k] = Split(q[k - 1], pattern[k])
    BY <2>1 DEF Splitting
  <2> HIDE DEF k
  <2>5. Len(q[k - 1]) <= Len(q[k]) /\ \A i \in 1..(Len(q[k - 1]) - 1) : i \in 1..(Len(q[k]) - 1) /\ q[k][i] = q[k - 1][i]
    <3>1. q[k - 1] \in SomePieces /\ pattern[k] \in Signs
      BY <1>0, <2>1
    <3> QED BY <2>3, <3>1, SplitStays
  <2>6. Same(k - 1)
    <3>1. Len(q[k - 1]) \in Nat /\ Len(q[k]) \in Nat /\ Len(q[n]) \in Nat
      BY <1>0, <2>1
    <3> QED BY <2>2, <2>5, <3>1
  <2> QED BY <2>1, <2>6
<1>3. \A d \in Nat : d \in G
  <2> HIDE DEF G
  <2> QED BY <1>1, <1>2, ByNumber
<1>4. ASSUME NEW k \in 0..n PROVE Same(k)
  <2>1. n - k \in Nat /\ n - k <= n /\ n - (n - k) = k
    BY <1>0
  <2>2. Same(n - (n - k))
    BY <1>3, <2>1
  <2> QED BY <2>1, <2>2
<1> QED BY <1>4

\* Where the piece after j - 1 others may begin, their match ending at pos.
Begins(j, pos, path) == IF j = 1 THEN {0} ELSE IF pos < 0 THEN {} ELSE pos..Len(path)

\* Where it may end.
Ends(piece, j, pos, path) == {a + Len(piece) : a \in {a \in Begins(j, pos, path) : OccursAt(piece, path, a)}}

\* A sign more of a piece lets it end one further, where the path has it.
LEMMA EndsFurther ==
  ASSUME NEW piece \in Seq(Signs), NEW c \in Signs, c # Star, NEW path \in Seq(Signs),
         NEW j \in Nat \ {0}, NEW pos \in Positions(path)
  PROVE  Reach(Ends(piece, j, pos, path), c, path) = Ends(Append(piece, c), j, pos, path)
<1> DEFINE longer == Append(piece, c)
           S == Begins(j, pos, path)
<1>1. /\ longer \in Seq(Signs) /\ Len(longer) = Len(piece) + 1 /\ longer[Len(piece) + 1] = c
      /\ (\A i \in 1..Len(piece) : longer[i] = piece[i]) /\ Len(piece) \in Nat /\ Len(path) \in Nat
  BY Appended
<1>2. S \in SUBSET Nat
  BY DEF Begins, Positions
<1> HIDE DEF longer, S
<1>3. ASSUME NEW a \in S
      PROVE  OccursAt(longer, path, a) <=>
               OccursAt(piece, path, a) /\ a + Len(piece) < Len(path) /\ path[(a + Len(piece)) + 1] = c
  <2>0. a \in Nat
    BY <1>2
  <2>1. OccursAt(longer, path, a) <=>
          a + Len(longer) <= Len(path) /\ \A i \in 1..Len(longer) : path[a + i] = longer[i]
    BY <1>1, <2>0, OccursMeans
  <2>2. OccursAt(piece, path, a) <=>
          a + Len(piece) <= Len(path) /\ \A i \in 1..Len(piece) : path[a + i] = piece[i]
    BY <2>0, OccursMeans
  <2>3. (\A i \in 1..Len(longer) : path[a + i] = longer[i]) <=>
          (\A i \in 1..Len(piece) : path[a + i] = piece[i]) /\ path[(a + Len(piece)) + 1] = c
    <3>1. ASSUME NEW i \in 1..Len(longer) PROVE i \in 1..Len(piece) \/ i = Len(piece) + 1
      BY <1>1
    <3>2. Len(piece) + 1 \in 1..Len(longer) /\ a + (Len(piece) + 1) = (a + Len(piece)) + 1 /\ 1..Len(piece) \subseteq 1..Len(longer)
      BY <1>1, <2>0
    <3> QED BY <1>1, <3>1, <3>2
  <2>4. a + Len(longer) <= Len(path) <=> a + Len(piece) < Len(path)
    BY <1>1, <2>0
  <2>5. a + Len(piece) < Len(path) => a + Len(piece) <= Len(path)
    BY <1>1, <2>0
  <2> QED BY <2>1, <2>2, <2>3, <2>4, <2>5
<1>4. Reach(Ends(piece, j, pos, path), c, path)
        = {m + 1 : m \in {m \in Ends(piece, j, pos, path) : m < Len(path) /\ path[m + 1] = c}}
  BY DEF Reach
<1>5. Ends(piece, j, pos, path) = {a + Len(piece) : a \in {a \in S : OccursAt(piece, path, a)}}
  BY DEF Ends, S
<1>6. Ends(longer, j, pos, path) = {a + Len(longer) : a \in {a \in S : OccursAt(longer, path, a)}}
  BY DEF Ends, S
<1>7. ASSUME NEW x \in Reach(Ends(piece, j, pos, path), c, path) PROVE x \in Ends(longer, j, pos, path)
  <2>1. PICK m \in Ends(piece, j, pos, path) : m < Len(path) /\ path[m + 1] = c /\ x = m + 1
    BY <1>4, <1>7
  <2>2. PICK a \in S : OccursAt(piece, path, a) /\ m = a + Len(piece)
    BY <1>5, <2>1
  <2>3. a \in Nat /\ x = a + Len(longer)
    BY <1>1, <1>2, <2>1, <2>2
  <2>4. OccursAt(longer, path, a)
    BY <1>3, <2>1, <2>2
  <2> QED BY <1>6, <2>2, <2>3, <2>4
<1>8. ASSUME NEW x \in Ends(longer, j, pos, path) PROVE x \in Reach(Ends(piece, j, pos, path), c, path)
  <2>1. PICK a \in S : OccursAt(longer, path, a) /\ x = a + Len(longer)
    BY <1>6
  <2>2. OccursAt(piece, path, a) /\ a + Len(piece) < Len(path) /\ path[(a + Len(piece)) + 1] = c
    BY <1>3, <2>1
  <2>3. a + Len(piece) \in Ends(piece, j, pos, path)
    BY <1>5, <2>1, <2>2
  <2>4. x = (a + Len(piece)) + 1
    BY <1>1, <1>2, <2>1
  <2> QED BY <1>4, <2>2, <2>3, <2>4
<1> QED BY <1>7, <1>8 DEF longer

\* After a star the next piece may begin wherever the one before has ended.
LEMMA StarBegins ==
  ASSUME NEW pieces \in SomePieces, NEW path \in Seq(Signs), NEW anchored \in BOOLEAN,
         NEW j \in DOMAIN pieces, j < Len(pieces), NEW pos \in Positions(path), j = 1 => pos = 0
  PROVE  Reach(Ends(pieces[j], j, pos, path), Star, path)
           = Ends(<<>>, j + 1, Place(pieces, j, anchored, path, pos), path)
<1> DEFINE piece == pieces[j]
           new == Place(pieces, j, anchored, path, pos)
           at == Choice(pieces, j, anchored, path, pos)
           S == {a \in Begins(j, pos, path) : OccursAt(piece, path, a)}
           E == Ends(piece, j, pos, path)
<1>0. j \in Nat \ {0} /\ Len(pieces) \in Nat /\ piece \in Seq(Signs) /\ Len(piece) \in Nat /\ Len(path) \in Nat
  BY DEF SomePieces
<1>1. pos \in Int /\ (pos >= 0 => pos \in 0..Len(path)) /\ (pos < 0 => pos = -1)
  BY <1>0 DEF Positions
<1>2. /\ new \in Positions(path)
      /\ piece = <<>> \/ pos < 0 => new = pos
      /\ piece # <<>> /\ pos >= 0 =>
           /\ at = {} => new = -1
           /\ at # {} => new - Len(piece) \in at /\ \A a \in at : new - Len(piece) <= a
  BY PlaceMeans DEF at, new
<1>3. ASSUME NEW m \in Nat PROVE m <= Len(path) <=> OccursAt(<<>>, path, m)
  <2>1. <<>> \in Seq(Signs) /\ Len(<<>>) = 0
    OBVIOUS
  <2> HIDE DEF at, new, piece
  <2>2. OccursAt(<<>>, path, m) <=> m + Len(<<>>) <= Len(path) /\ \A i \in 1..Len(<<>>) : path[m + i] = <<>>[i]
    BY <2>1, OccursMeans
  <2> QED BY <2>1, <2>2
<1>4. Ends(<<>>, j + 1, new, path) = IF new < 0 THEN {} ELSE new..Len(path)
  <2>1. new \in Int /\ (new >= 0 => new \in Nat) /\ j + 1 # 1
    BY <1>0, <1>2 DEF Positions
  <2> HIDE DEF new
  <2>2. Begins(j + 1, new, path) = IF new < 0 THEN {} ELSE new..Len(path)
    BY <2>1 DEF Begins
  <2>3. \A m \in Begins(j + 1, new, path) : m \in Nat /\ m <= Len(path) /\ OccursAt(<<>>, path, m) /\ m + Len(<<>>) = m
    <3> SUFFICES ASSUME NEW m \in Begins(j + 1, new, path) PROVE m \in Nat /\ m <= Len(path) /\ OccursAt(<<>>, path, m) /\ m + Len(<<>>) = m
      OBVIOUS
    <3>1. m \in Nat /\ m <= Len(path)
      BY <1>0, <2>1, <2>2
    <3> QED BY <1>3, <3>1
  <2>4. Ends(<<>>, j + 1, new, path) = Begins(j + 1, new, path)
    BY <2>3 DEF Ends
  <2> QED BY <2>2, <2>4
<1>5. S = IF pos < 0 THEN {} ELSE Choice(pieces, j, anchored, path, pos)
  <2>1. CASE j = 1
    <3>1. Choice(pieces, j, anchored, path, pos) = Places(piece, path, 0) \cap {0}
      BY <2>1 DEF Choice
    <3>2. Begins(j, pos, path) = {0} /\ 0 \in 0..Len(path)
      BY <1>0, <2>1 DEF Begins
    <3> QED BY <1>1, <2>1, <3>1, <3>2 DEF Places
  <2>2. CASE j # 1
    <3>1. Choice(pieces, j, anchored, path, pos) = Places(piece, path, pos)
      BY <1>0, <2>2 DEF Choice
    <3>2. Begins(j, pos, path) = IF pos < 0 THEN {} ELSE pos..Len(path)
      BY <2>2 DEF Begins
    <3> QED BY <3>1, <3>2 DEF Places
  <2> QED BY <2>1, <2>2
<1>6. E = {a + Len(piece) : a \in S} /\ S \in SUBSET (0..Len(path))
  <2>1. E = {a + Len(piece) : a \in S}
    BY DEF Ends
  <2>2. Begins(j, pos, path) \in SUBSET (0..Len(path))
    BY <1>0, <1>1 DEF Begins
  <2> QED BY <2>1, <2>2
<1>7. Reach(E, Star, path) = {m \in 0..Len(path) : \E a \in S : a + Len(piece) <= m}
  <2>1. Reach(E, Star, path) = {m \in 0..Len(path) : \E x \in E : x <= m}
    BY DEF Reach
  <2> HIDE DEF E
  <2> QED BY <1>6, <2>1
<1> HIDE DEF E, S, at, new
<1>8. Reach(E, Star, path) = IF new < 0 THEN {} ELSE new..Len(path)
  <2>0. new \in Int /\ (new >= 0 => new \in 0..Len(path)) /\ (new < 0 => new = -1)
    BY <1>0, <1>2 DEF Positions
  <2>1. CASE pos < 0
    <3>1. S = {} /\ new < 0
      BY <1>2, <1>5, <2>1
    <3> QED BY <1>7, <3>1
  <2>2. CASE pos >= 0 /\ piece = <<>>
    <3>1. new = pos /\ Len(piece) = 0
      BY <1>2, <2>2
    <3>2. pos \in S
      <4>1. pos \in Begins(j, pos, path)
        BY <1>1, <2>2 DEF Begins
      <4>2. OccursAt(piece, path, pos)
        BY <1>1, <1>3, <2>2
      <4> QED BY <4>1, <4>2 DEF S
    <3>3. \A a \in S : pos <= a /\ a \in Nat
      <4>1. \A a \in Begins(j, pos, path) : pos <= a
        BY <1>1, <2>2 DEF Begins
      <4> QED BY <1>6, <4>1 DEF S
    <3>4. ASSUME NEW m \in 0..Len(path) PROVE (\E a \in S : a + Len(piece) <= m) <=> new <= m
      BY <1>1, <3>1, <3>2, <3>3
    <3>5. Reach(E, Star, path) = {m \in 0..Len(path) : new <= m}
      BY <1>7, <3>4
    <3> QED BY <1>0, <1>1, <2>2, <3>1, <3>5
  <2>3. CASE pos >= 0 /\ piece # <<>> /\ S = {}
    <3>0. at = {}
      BY <1>1, <1>5, <2>3 DEF at
    <3>1. new = -1
      BY <1>2, <2>3, <3>0
    <3> QED BY <1>7, <2>3, <3>1
  <2>4. CASE pos >= 0 /\ piece # <<>> /\ S # {}
    <3>1. new - Len(piece) \in S /\ \A a \in S : new - Len(piece) <= a
      BY <1>1, <1>2, <1>5, <2>4 DEF at
    <3>2. ASSUME NEW m \in 0..Len(path) PROVE (\E a \in S : a + Len(piece) <= m) <=> new <= m
      <4>1. ASSUME new <= m PROVE \E a \in S : a + Len(piece) <= m
        BY <1>0, <2>0, <3>1, <4>1
      <4>2. ASSUME NEW a \in S, a + Len(piece) <= m PROVE new <= m
        <5>1. a \in Nat /\ new - Len(piece) <= a
          BY <1>6, <3>1
        <5> QED BY <1>0, <2>0, <4>2, <5>1
      <4> QED BY <4>1, <4>2
    <3>3. Reach(E, Star, path) = {m \in 0..Len(path) : new <= m}
      BY <1>7, <3>2
    <3>4. new >= 0
      BY <1>0, <1>6, <2>0, <3>1
    <3> QED BY <1>0, <2>0, <3>3, <3>4
  <2> QED BY <1>1, <2>1, <2>2, <2>3, <2>4
<1> QED BY <1>4, <1>8 DEF E, new

-----------------------------------------------------------------------------
(* A pattern matches exactly the paths that it can stand for *)

\* What the first signs of a pattern can stand for is where their last piece may
\* end, after the others have been placed one by one.
LEMMA PrefixEnds ==
  ASSUME NEW pattern \in Seq(Signs), NEW path \in Seq(Signs), NEW anchored \in BOOLEAN,
         NEW r, Reaching(r, pattern, path), NEW q, Splitting(q, pattern),
         NEW pieces, pieces = q[Len(pattern)], NEW h, Placing(h, pieces, anchored, path)
  PROVE  r[Len(pattern)] = Ends(pieces[Len(pieces)], Len(pieces), h[Len(pieces) - 1], path)
<1> DEFINE n == Len(pattern)
           m == Len(pieces)
           Good(k) == r[k] = Ends(q[k][Len(q[k])], Len(q[k]), h[Len(q[k]) - 1], path)
           G == {k \in Nat : k <= n => Good(k)}
<1>a. /\ \A k \in 0..n : q[k] \in SomePieces
      /\ q[0] = << <<>> >> /\ \A k \in 1..n : q[k] = Split(q[k - 1], pattern[k])
  BY DEF Splitting
<1>b. r[0] = {0} /\ \A k \in 1..n : r[k] = Reach(r[k - 1], pattern[k], path)
  BY DEF Reaching
<1>c. /\ \A i \in 0..m : h[i] \in Positions(path)
      /\ h[0] = 0 /\ \A i \in 1..m : h[i] = Place(pieces, i, anchored, path, h[i - 1])
  BY DEF Placing
<1>0. n \in Nat /\ pieces \in SomePieces /\ m \in Nat /\ m # 0
  <2>1. pieces \in SomePieces
    BY <1>a
  <2> QED BY <2>1, SomePiecesAre
<1>1. ASSUME NEW k \in 0..n
      PROVE  /\ q[k] \in SomePieces /\ Len(q[k]) \in 1..m /\ q[k][Len(q[k])] \in Seq(Signs)
             /\ \A i \in 1..(Len(q[k]) - 1) : q[k][i] = pieces[i]
             /\ Len(q[k]) - 1 \in 0..m /\ h[Len(q[k]) - 1] \in Positions(path)
  <2>1. q[k] \in SomePieces
    BY <1>a
  <2>2. Len(q[k]) \in Nat /\ Len(q[k]) # 0 /\ \A i \in 1..Len(q[k]) : q[k][i] \in Seq(Signs)
    BY <2>1, SomePiecesAre
  <2>3. Len(q[k]) <= m /\ \A i \in 1..(Len(q[k]) - 1) : q[k][i] = pieces[i]
    BY PiecesStay
  <2>4. Len(q[k]) \in 1..m /\ Len(q[k]) - 1 \in 0..m
    BY <1>0, <2>2, <2>3
  <2> QED BY <1>c, <2>1, <2>2, <2>3, <2>4
<1>2. 0 \in G
  <2>1. q[0] = << <<>> >> /\ Len(q[0]) = 1 /\ q[0][1] = <<>> /\ Len(q[0]) - 1 = 0
    BY <1>a
  <2>2. Ends(<<>>, 1, 0, path) = {0}
    <3>1. Begins(1, 0, path) = {0}
      BY DEF Begins
    <3>2. OccursAt(<<>>, path, 0)
      <4>1. <<>> \in Seq(Signs) /\ Len(<<>>) = 0 /\ Len(path) \in Nat
        OBVIOUS
      <4>2. 0 + Len(<<>>) <= Len(path) /\ \A i \in 1..Len(<<>>) : path[0 + i] = <<>>[i]
        BY <4>1
      <4> QED BY <4>1, <4>2, OccursMeans
    <3> QED BY <3>1, <3>2 DEF Ends
  <2> QED BY <1>b, <1>c, <2>1, <2>2
<1>3. ASSUME NEW k \in Nat, k \in G PROVE k + 1 \in G
  <2> SUFFICES ASSUME k + 1 <= n PROVE Good(k + 1)
    OBVIOUS
  <2> DEFINE j == Len(q[k])
             w == q[k][j]
             c == pattern[k + 1]
  <2>1. k \in 0..n /\ k + 1 \in 1..n /\ (k + 1) - 1 = k /\ k + 1 \in 0..n
    BY <1>0
  <2>2. /\ q[k] \in SomePieces /\ j \in 1..m /\ w \in Seq(Signs) /\ \A i \in 1..(j - 1) : q[k][i] = pieces[i]
    BY <1>1, <2>1
  <2>a. j - 1 \in 0..m /\ h[j - 1] \in Positions(path)
    BY <1>1, <2>1
  <2>3. r[k] = Ends(w, j, h[j - 1], path)
    BY <1>3, <2>1
  <2>4. r[k + 1] = Reach(r[k], c, path) /\ q[k + 1] = Split(q[k], c) /\ c \in Signs
    BY <1>a, <1>b, <2>1
  <2>5. CASE c = Star
    <3>1. q[k + 1] = Append(q[k], <<>>)
      BY <2>4, <2>5 DEF Split
    <3>2. Len(q[k + 1]) = j + 1 /\ q[k + 1][j + 1] = <<>> /\ q[k + 1][j] = w
      <4>1. q[k] \in Seq(Seq(Signs)) /\ <<>> \in Seq(Signs) /\ j \in 1..Len(q[k])
        BY <2>2, SomePiecesAre
      <4> HIDE DEF w
      <4>2. Len(q[k + 1]) = j + 1 /\ q[k + 1][j + 1] = <<>> /\ q[k + 1][j] = q[k][j]
        BY <3>1, <4>1, Appended
      <4> QED BY <4>2 DEF w
    <3>3. w = pieces[j] /\ j < m
      <4>1. Len(q[k + 1]) \in 1..m /\ \A i \in 1..(Len(q[k + 1]) - 1) : q[k + 1][i] = pieces[i]
        BY <1>1, <2>1
      <4>2. j + 1 <= m /\ j \in 1..(Len(q[k + 1]) - 1)
        BY <1>0, <2>2, <3>2, <4>1
      <4>3. q[k + 1][j] = pieces[j]
        BY <4>1, <4>2
      <4>4. j < m
        <5>1. j \in Nat
          BY <2>2
        <5> HIDE DEF j
        <5> QED BY <1>0, <4>2, <5>1
      <4> QED BY <3>2, <4>3, <4>4
    <3>4. h[j] = Place(pieces, j, anchored, path, h[j - 1])
      BY <1>c, <2>2
    <3>5. j \in DOMAIN pieces /\ (j = 1 => h[j - 1] = 0)
      <4>1. DOMAIN pieces = 1..m
        BY <1>0, SomePiecesAre
      <4>2. j = 1 => j - 1 = 0
        OBVIOUS
      <4> QED BY <1>c, <2>2, <4>1, <4>2
    <3> HIDE DEF j, w, c
    <3>6. Reach(Ends(pieces[j], j, h[j - 1], path), Star, path) = Ends(<<>>, j + 1, Place(pieces, j, anchored, path, h[j - 1]), path)
      BY <1>0, <2>a, <3>3, <3>5, StarBegins
    <3>7. (j + 1) - 1 = j
      BY <2>2
    <3> QED BY <2>3, <2>4, <2>5, <3>2, <3>3, <3>4, <3>6, <3>7
  <2>6. CASE c # Star
    <3>1. q[k + 1] = [q[k] EXCEPT ![j] = Append(@, c)]
      BY <2>4, <2>6 DEF Split
    <3>2. Len(q[k + 1]) = j /\ q[k + 1][j] = Append(w, c)
      <4>1. q[k] \in Seq(Seq(Signs)) /\ j \in 1..Len(q[k])
        BY <2>2, SomePiecesAre
      <4> QED BY <3>1, <4>1
    <3> HIDE DEF j, w, c
    <3>3. Reach(Ends(w, j, h[j - 1], path), c, path) = Ends(Append(w, c), j, h[j - 1], path)
      <4>1. j \in Nat \ {0}
        BY <2>2
      <4> QED BY <2>2, <2>4, <2>a, <2>6, <4>1, EndsFurther
    <3> QED BY <2>3, <2>4, <3>2, <3>3
  <2> QED BY <2>5, <2>6
<1>4. \A k \in Nat : k \in G
  <2> HIDE DEF G
  <2> QED BY <1>2, <1>3, ByNumber
<1>5. Good(n)
  BY <1>0, <1>4
<1> QED BY <1>5

\* A pattern's first piece begins the path, or is the path.
LEMMA OnePiece ==
  ASSUME NEW piece \in Seq(Signs), NEW path \in Seq(Signs)
  PROVE  /\ IsPrefix(piece, path) <=> OccursAt(piece, path, 0)
         /\ path = piece <=> OccursAt(piece, path, 0) /\ Len(path) = Len(piece)
<1>0. Len(piece) \in Nat /\ Len(path) \in Nat /\ 0 + 1 = 1 /\ 0 + Len(piece) = Len(piece)
  OBVIOUS
<1>1. OccursAt(piece, path, 0) <=> Len(piece) <= Len(path) /\ SubSeq(path, 1, Len(piece)) = piece
  BY <1>0 DEF OccursAt
<1>2. SubSeq(piece, 1, Len(piece)) = piece /\ SubSeq(path, 1, Len(path)) = path
  OBVIOUS
<1>3. IsPrefix(piece, path) <=> Len(piece) <= Len(path) /\ SubSeq(path, 1, Len(piece)) = piece
  <2>1. IsPrefix(piece, path) <=> Len(piece) <= Len(path) /\ SubSeq(piece, 1, Len(piece)) = SubSeq(path, 1, Len(piece))
    BY DEF IsPrefix
  <2> QED BY <1>2, <2>1
<1>4. path = piece <=> Len(piece) <= Len(path) /\ SubSeq(path, 1, Len(piece)) = piece /\ Len(path) = Len(piece)
  <2>1. ASSUME Len(path) = Len(piece), SubSeq(path, 1, Len(piece)) = piece PROVE path = piece
    BY <1>2, <2>1
  <2>2. ASSUME path = piece PROVE Len(piece) <= Len(path) /\ SubSeq(path, 1, Len(piece)) = piece /\ Len(path) = Len(piece)
    BY <1>0, <1>2, <2>2
  <2> QED BY <2>1, <2>2
<1> QED BY <1>1, <1>3, <1>4

\* A pattern matches the paths that it can stand for (glob_match).
LEMMA GlobMatchIs ==
  ASSUME NEW pattern \in Seq(Signs), NEW path \in Seq(Signs)
  PROVE  GlobMatch(pattern, path) <=> Stands(pattern, path)
<1> DEFINE anchored == pattern # <<>> /\ Last(pattern) = End
           body == IF anchored THEN Front(pattern) ELSE pattern
           pieces == Pieces(body)
           places == [i \in DOMAIN pieces |-> i]
<1>0. body \in Seq(Signs) /\ anchored \in BOOLEAN
  BY FrontIs
<1>1. Stands(pattern, path) <=> IF anchored THEN Len(path) \in Reaches(body, path) ELSE Reaches(body, path) # {}
  BY DEF Stands
<1>2. GlobMatch(pattern, path) <=>
        IF Len(pieces) = 1 THEN IF anchored THEN path = pieces[1] ELSE IsPrefix(pieces[1], path)
        ELSE Placed(pieces, anchored, path, places) >= 0
  BY DEF GlobMatch, Placed
<1> HIDE DEF body, anchored
<1>3. PICK r : Reaching(r, body, path) /\ Reaches(body, path) = r[Len(body)]
  BY <1>0, ReachesWalk DEF Reaching
<1>4. PICK q : Splitting(q, body) /\ pieces = q[Len(body)]
  BY <1>0, PiecesWalk DEF Splitting
<1>5. /\ pieces \in SomePieces /\ Len(pieces) \in Nat /\ Len(pieces) # 0 /\ DOMAIN pieces = 1..Len(pieces)
      /\ \A i \in 1..Len(pieces) : pieces[i] \in Seq(Signs)
  <2>1. Len(body) \in 0..Len(body)
    BY <1>0
  <2>2. pieces \in SomePieces
    BY <1>4, <2>1 DEF Splitting
  <2> HIDE DEF pieces
  <2> QED BY <2>2, SomePiecesAre
<1> HIDE DEF pieces
<1>6. places \in Seq(DOMAIN pieces) /\ Len(places) = Len(pieces) /\ \A i \in 1..Len(pieces) : places[i] = i
  BY <1>5
<1> HIDE DEF places
<1>7. PICK h : Placing(h, pieces, anchored, path) /\ Placed(pieces, anchored, path, places) = h[Len(pieces)]
  <2>1. PICK h \in [0..Len(places) -> Positions(path)] :
          /\ h[0] = 0 /\ \A k \in 1..Len(places) : h[k] = Place(pieces, places[k], anchored, path, h[k - 1])
          /\ Placed(pieces, anchored, path, places) = h[Len(places)]
    <3>1. pieces \in SomePieces /\ anchored \in BOOLEAN /\ places \in Seq(DOMAIN pieces)
      BY <1>0, <1>5, <1>6
    <3> QED BY <3>1, PlacesWalk
  <2> QED BY <1>6, <2>1 DEF Placing
<1> DEFINE m == Len(pieces)
           w == pieces[m]
           pos == h[m - 1]
<1>8. h \in [0..m -> Positions(path)] /\ \A k \in 1..m : h[k] = Place(pieces, k, anchored, path, h[k - 1])
  BY <1>7 DEF Placing
<1>9. Reaches(body, path) = Ends(w, m, pos, path)
  <2>1. r[Len(body)] = Ends(pieces[Len(pieces)], Len(pieces), h[Len(pieces) - 1], path)
    BY <1>0, <1>3, <1>4, <1>7, PrefixEnds
  <2> QED BY <1>3, <2>1
<1>10. m \in Nat /\ m # 0 /\ m \in 1..m /\ m - 1 \in 0..m /\ w \in Seq(Signs) /\ pos \in Positions(path) /\ Len(w) \in Nat /\ Len(path) \in Nat
  <2>1. m \in 1..m /\ m - 1 \in 0..m
    BY <1>5
  <2>2. w \in Seq(Signs) /\ pos \in Positions(path)
    BY <1>5, <1>8, <2>1
  <2> HIDE DEF w, pos
  <2> QED BY <1>5, <2>1, <2>2
<1> DEFINE S == {a \in Begins(m, pos, path) : OccursAt(w, path, a)}
<1>11. /\ Len(path) \in Reaches(body, path) <=> \E a \in S : a + Len(w) = Len(path)
       /\ Reaches(body, path) # {} <=> S # {}
  BY <1>9 DEF Ends
<1>12. CASE m = 1
  <2>1. Begins(m, pos, path) = {0}
    BY <1>12 DEF Begins
  <2>2. S = IF OccursAt(w, path, 0) THEN {0} ELSE {}
    BY <2>1
  <2>3. GlobMatch(pattern, path) <=> IF anchored THEN path = w ELSE IsPrefix(w, path)
    BY <1>2, <1>12
  <2>4. (IsPrefix(w, path) <=> OccursAt(w, path, 0)) /\ (path = w <=> OccursAt(w, path, 0) /\ Len(path) = Len(w))
    BY <1>10, OnePiece
  <2> HIDE DEF S, w
  <2>5. (\E a \in S : a + Len(w) = Len(path)) <=> OccursAt(w, path, 0) /\ Len(path) = Len(w)
    BY <1>10, <2>2
  <2>6. S # {} <=> OccursAt(w, path, 0)
    BY <2>2
  <2> QED BY <1>1, <1>11, <2>3, <2>4, <2>5, <2>6
<1>13. CASE m # 1
  <2> DEFINE at == Choice(pieces, m, anchored, path, pos)
             new == Place(pieces, m, anchored, path, pos)
  <2>1. GlobMatch(pattern, path) <=> new >= 0
    BY <1>2, <1>5, <1>6, <1>7, <1>8, <1>10, <1>13
  <2>2. /\ new \in Positions(path)
        /\ w = <<>> \/ pos < 0 => new = pos
        /\ w # <<>> /\ pos >= 0 =>
             /\ at \in SUBSET (0..Len(path))
             /\ at = {} => new = -1
             /\ at # {} => new - Len(w) \in at
    BY <1>0, <1>5, <1>10, PlaceMeans
  <2>3. pos \in Int /\ (pos >= 0 => pos \in 0..Len(path)) /\ (pos < 0 => pos = -1)
    BY <1>10 DEF Positions
  <2>4. Begins(m, pos, path) = IF pos < 0 THEN {} ELSE pos..Len(path)
    BY <1>13 DEF Begins
  <2>5. at = IF anchored THEN Places(w, path, pos) \cap {Len(path) - Len(w)} ELSE Places(w, path, pos)
    <3>1. m > 1 /\ m = Len(pieces)
      BY <1>5, <1>13
    <3> HIDE DEF m
    <3> QED BY <1>13, <3>1 DEF Choice
  <2>6. pos >= 0 => Places(w, path, pos) = S
    BY <2>3, <2>4 DEF Places
  <2>7. S \in SUBSET (0..Len(path))
    BY <1>10, <2>3, <2>4
  <2> HIDE DEF at, new, S, w, pos
  <2>8. CASE pos < 0
    <3>1. S = {}
      BY <2>4, <2>8 DEF S
    <3>2. new = -1
      BY <2>2, <2>3, <2>8
    <3>3. ~(new >= 0)
      BY <3>2
    <3> QED BY <1>1, <1>11, <2>1, <3>1, <3>3
  <2>9. CASE pos >= 0 /\ w = <<>>
    <3>1. new = pos /\ Len(w) = 0
      BY <2>2, <2>9
    <3>2. ASSUME NEW a \in pos..Len(path) PROVE a \in S
      <4>1. a \in Nat /\ a + Len(w) <= Len(path) /\ 1..Len(w) = {}
        BY <1>10, <2>3, <2>9, <3>1
      <4>2. OccursAt(w, path, a)
        BY <1>10, <4>1, OccursMeans
      <4> QED BY <2>4, <2>3, <2>9, <4>2 DEF S
    <3>3. Len(path) \in S /\ Len(path) + Len(w) = Len(path)
      BY <1>10, <2>3, <2>9, <3>1, <3>2
    <3> QED BY <1>1, <1>11, <2>1, <2>9, <3>1, <3>3
  <2>10. CASE pos >= 0 /\ w # <<>>
    <3>1. new >= 0 <=> at # {}
      <4>1. ASSUME at # {} PROVE new >= 0
        <5>1. new - Len(w) \in Nat /\ new \in Int
          BY <2>2, <2>10, <4>1 DEF Positions
        <5> QED BY <1>10, <5>1
      <4>2. ASSUME at = {} PROVE ~(new >= 0)
        BY <2>2, <2>10, <4>2
      <4> QED BY <4>1, <4>2
    <3>2. CASE anchored
      <4>1. at # {} <=> \E a \in S : a + Len(w) = Len(path)
        <5>1. at = S \cap {Len(path) - Len(w)}
          BY <2>5, <2>6, <2>10, <3>2
        <5> QED BY <1>10, <2>7, <5>1
      <4> QED BY <1>1, <1>11, <2>1, <3>1, <3>2, <4>1
    <3>3. CASE ~anchored
      BY <1>1, <1>11, <2>1, <2>5, <2>6, <2>10, <3>1, <3>3
    <3> QED BY <3>2, <3>3
  <2> QED BY <2>3, <2>8, <2>9, <2>10
<1> QED BY <1>12, <1>13

-----------------------------------------------------------------------------
(* A robots.txt, line by line (ReadLine) *)

\* The rules of a file (Rule).
RobotsRules == [allow : BOOLEAN, pattern : Seq(Signs)]

\* Its groups (Group).
Groups == [agents : Seq(Seq(Signs)), rules : Seq(RobotsRules), delay : Int]

\* What has been read of it.
Files == [groups : Seq(Groups), collecting : BOOLEAN]

\* What a line holds.
IsLine(line) == line.value \in Seq(Signs) /\ line.seconds \in Int

\* The lines that are rules.
IsRule(line) == line.field \in {"allow", "disallow"}

\* The rule of such a line.
RuleOf(line) == [allow |-> line.field = "allow", pattern |-> line.value]

\* What a group holds; one that is not there yet holds nothing.
AgentsIn(file, g) == IF g \in 1..Len(file.groups) THEN ToSet(file.groups[g].agents) ELSE {}
RulesIn(file, g)  == IF g \in 1..Len(file.groups) THEN ToSet(file.groups[g].rules) ELSE {}
DelayIn(file, g)  == IF g \in 1..Len(file.groups) THEN file.groups[g].delay ELSE NoDelay

\* A new group of some agents.
LEMMA GroupIs ==
  ASSUME NEW agents \in Seq(Seq(Signs))
  PROVE  /\ Group(agents) \in Groups /\ Group(agents).agents = agents /\ Group(agents).rules = <<>>
         /\ Group(agents).delay = NoDelay /\ ToSet(Group(agents).rules) = {}
<1>1. <<>> \in Seq(RobotsRules) /\ ToSet(<<>>) = {} /\ NoDelay \in Int
  BY DEF ToSet, NoDelay
<1> QED BY <1>1 DEF Group, Groups

\* A line opens a group.
Opens(file, line) ==
  \/ line.field = "user-agent" /\ ~(file.collecting /\ file.groups # <<>>)
  \/ IsRule(line) /\ file.groups = <<>>

\* How the groups stand after another line: whom it names, what it permits or
\* forbids, how long it asks us to wait.
Reads(file, line, new) ==
  /\ new \in Files
  /\ Len(new.groups) = IF Opens(file, line) THEN Len(file.groups) + 1 ELSE Len(file.groups)
  /\ line.field = "user-agent" => new.collecting
  /\ IsRule(line) \/ line.field = "crawl-delay" => ~new.collecting
  /\ ~(IsRule(line) \/ line.field \in {"crawl-delay", "user-agent"}) => new.collecting = file.collecting
  /\ \A g \in 1..Len(new.groups) :
       /\ AgentsIn(new, g) = AgentsIn(file, g)
            \cup (IF line.field = "user-agent" /\ g = Len(new.groups) THEN {line.value} ELSE {})
            \cup (IF IsRule(line) /\ file.groups = <<>> THEN {<<Star>>} ELSE {})
       /\ RulesIn(new, g) = RulesIn(file, g)
            \cup (IF IsRule(line) /\ (line.field = "allow" \/ line.value # <<>>) /\ g = Len(new.groups)
                  THEN {RuleOf(line)} ELSE {})
       /\ DelayIn(new, g) = IF line.field = "crawl-delay" /\ line.seconds >= 0 /\ g = Len(new.groups)
                            THEN AtMost(line.seconds, MaxDelay) ELSE DelayIn(file, g)

\* A change of the last of some groups.
ChangesLast(groups, changed, collecting, new) ==
  new = [groups |-> [groups EXCEPT ![Len(groups)] = changed], collecting |-> collecting]

\* The last group is as changed, and the others hold what they held.
LastIs(groups, changed, collecting, new) ==
  /\ new \in Files /\ Len(new.groups) = Len(groups) /\ Len(groups) \in Nat /\ Len(groups) # 0
  /\ new.collecting = collecting
  /\ AgentsIn(new, Len(groups)) = ToSet(changed.agents)
  /\ RulesIn(new, Len(groups)) = ToSet(changed.rules)
  /\ DelayIn(new, Len(groups)) = changed.delay
  /\ \A g \in 1..(Len(groups) - 1) :
       /\ AgentsIn(new, g) = ToSet(groups[g].agents) /\ RulesIn(new, g) = ToSet(groups[g].rules)
       /\ DelayIn(new, g) = groups[g].delay

\* Such a change touches no other group.
LEMMA LastGroupChanged ==
  ASSUME NEW groups \in Seq(Groups), groups # <<>>, NEW changed \in Groups, NEW collecting \in BOOLEAN,
         NEW new, ChangesLast(groups, changed, collecting, new)
  PROVE  LastIs(groups, changed, collecting, new)
<1> DEFINE gs == [groups EXCEPT ![Len(groups)] = changed]
<1>1. /\ gs \in Seq(Groups) /\ Len(gs) = Len(groups) /\ gs[Len(groups)] = changed
      /\ \A g \in 1..(Len(groups) - 1) : gs[g] = groups[g]
  BY LastChanged
<1>2. Len(groups) \in Nat /\ Len(groups) # 0
  OBVIOUS
<1>3. new = [groups |-> gs, collecting |-> collecting]
  BY DEF ChangesLast
<1> HIDE DEF gs
<1>4. new.groups = gs /\ new.collecting = collecting /\ new \in Files
  BY <1>1, <1>3 DEF Files
<1>5. Len(groups) \in 1..Len(groups) /\ \A g \in 1..(Len(groups) - 1) : g \in 1..Len(groups)
  BY <1>2
<1> QED BY <1>1, <1>2, <1>4, <1>5 DEF AgentsIn, RulesIn, DelayIn, LastIs

\* What an agent's line does (parse).
LEMMA AgentRead ==
  ASSUME NEW file \in Files, NEW line, IsLine(line), line.field = "user-agent"
  PROVE  Reads(file, line, ReadLine(file, line))
<1> DEFINE gs == file.groups
           new == ReadLine(file, line)
           opened == IF file.collecting /\ gs # <<>> THEN gs ELSE Append(gs, Group(<<>>))
           last == opened[Len(opened)]
           changed == [last EXCEPT !.agents = Append(@, line.value)]
<1>1. gs \in Seq(Groups) /\ file.collecting \in BOOLEAN /\ Len(gs) \in Nat /\ line.value \in Seq(Signs)
  BY DEF Files, IsLine
<1>2. Group(<<>>) \in Groups /\ Group(<<>>).agents = <<>> /\ ToSet(Group(<<>>).rules) = {} /\ Group(<<>>).delay = NoDelay
  <2>1. <<>> \in Seq(Seq(Signs))
    OBVIOUS
  <2> QED BY <2>1, GroupIs
<1>3. /\ opened \in Seq(Groups) /\ opened # <<>>
      /\ Len(opened) = IF Opens(file, line) THEN Len(gs) + 1 ELSE Len(gs)
      /\ Opens(file, line) => last = Group(<<>>) /\ \A g \in 1..Len(gs) : opened[g] = gs[g]
      /\ ~Opens(file, line) => opened = gs
  <2>0. Opens(file, line) <=> ~(file.collecting /\ gs # <<>>)
    BY DEF Opens, IsRule
  <2>1. CASE file.collecting /\ gs # <<>>
    BY <1>1, <2>0, <2>1
  <2>2. CASE ~(file.collecting /\ gs # <<>>)
    <3>1. opened = Append(gs, Group(<<>>))
      BY <2>2
    <3> HIDE DEF opened
    <3>2. opened \in Seq(Groups) /\ Len(opened) = Len(gs) + 1 /\ opened[Len(gs) + 1] = Group(<<>>) /\ \A g \in 1..Len(gs) : opened[g] = gs[g]
      BY <1>1, <1>2, <3>1, Appended
    <3>3. opened # <<>>
      BY <1>1, <3>2
    <3> QED BY <2>0, <2>2, <3>2, <3>3
  <2> QED BY <2>1, <2>2
<1>4. ChangesLast(opened, changed, TRUE, new)
  BY <1>3 DEF ReadLine, ReadAgent, ToLast, ChangesLast
<1> HIDE DEF gs, new, opened
<1>5. last \in Groups /\ Len(opened) \in Nat /\ Len(opened) # 0
  BY <1>3
<1> HIDE DEF last
<1>6. /\ changed \in Groups /\ changed.rules = last.rules /\ changed.delay = last.delay
      /\ ToSet(changed.agents) = ToSet(last.agents) \cup {line.value}
  <2>1. last.agents \in Seq(Seq(Signs))
    BY <1>5 DEF Groups
  <2>2. Append(last.agents, line.value) \in Seq(Seq(Signs)) /\ ToSet(Append(last.agents, line.value)) = ToSet(last.agents) \cup {line.value}
    BY <1>1, <2>1, Appended, ToSetAppended
  <2> QED BY <1>5, <2>2 DEF Groups
<1> HIDE DEF changed
<1>7. /\ new \in Files /\ Len(new.groups) = Len(opened) /\ new.collecting
      /\ AgentsIn(new, Len(opened)) = ToSet(last.agents) \cup {line.value}
      /\ RulesIn(new, Len(opened)) = ToSet(last.rules)
      /\ DelayIn(new, Len(opened)) = last.delay
      /\ \A g \in 1..(Len(opened) - 1) :
           /\ AgentsIn(new, g) = ToSet(opened[g].agents) /\ RulesIn(new, g) = ToSet(opened[g].rules)
           /\ DelayIn(new, g) = opened[g].delay
  <2>1. opened \in Seq(Groups) /\ opened # <<>> /\ changed \in Groups /\ TRUE \in BOOLEAN
    BY <1>3, <1>6
  <2>2. /\ new \in Files /\ Len(new.groups) = Len(opened) /\ new.collecting = TRUE
        /\ AgentsIn(new, Len(opened)) = ToSet(changed.agents)
        /\ RulesIn(new, Len(opened)) = ToSet(changed.rules)
        /\ DelayIn(new, Len(opened)) = changed.delay
        /\ \A g \in 1..(Len(opened) - 1) :
             /\ AgentsIn(new, g) = ToSet(opened[g].agents) /\ RulesIn(new, g) = ToSet(opened[g].rules)
             /\ DelayIn(new, g) = opened[g].delay
    <3>1. LastIs(opened, changed, TRUE, new)
      BY <1>4, <2>1, LastGroupChanged
    <3> QED BY <3>1 DEF LastIs
  <2> QED BY <1>6, <2>2
<1>8. ASSUME NEW g \in 1..Len(opened)
      PROVE  /\ AgentsIn(new, g) = AgentsIn(file, g) \cup (IF g = Len(opened) THEN {line.value} ELSE {})
             /\ RulesIn(new, g) = RulesIn(file, g) /\ DelayIn(new, g) = DelayIn(file, g)
  <2>1. CASE Opens(file, line)
    <3>1. Len(opened) = Len(gs) + 1 /\ last = Group(<<>>) /\ \A x \in 1..Len(gs) : opened[x] = gs[x]
      BY <1>3, <2>1
    <3>2. CASE g = Len(opened)
      <4>1. g \notin 1..Len(gs)
        BY <1>1, <3>1, <3>2
      <4>2. AgentsIn(file, g) = {} /\ RulesIn(file, g) = {} /\ DelayIn(file, g) = NoDelay
        BY <4>1 DEF AgentsIn, RulesIn, DelayIn, gs
      <4>3. ToSet(<<>>) = {}
        BY DEF ToSet
      <4> QED BY <1>2, <1>7, <3>1, <3>2, <4>2, <4>3
    <3>3. CASE g # Len(opened)
      <4>1. g \in 1..Len(gs) /\ g \in 1..(Len(opened) - 1)
        BY <1>1, <3>1, <3>3
      <4>2. AgentsIn(file, g) = ToSet(gs[g].agents) /\ RulesIn(file, g) = ToSet(gs[g].rules) /\ DelayIn(file, g) = gs[g].delay
        BY <4>1 DEF AgentsIn, RulesIn, DelayIn, gs
      <4> QED BY <1>7, <3>1, <3>3, <4>1, <4>2
    <3> QED BY <3>2, <3>3
  <2>2. CASE ~Opens(file, line)
    <3>1. opened = gs
      BY <1>3, <2>2
    <3>2. AgentsIn(file, g) = ToSet(gs[g].agents) /\ RulesIn(file, g) = ToSet(gs[g].rules) /\ DelayIn(file, g) = gs[g].delay
      BY <3>1 DEF AgentsIn, RulesIn, DelayIn, gs
    <3>3. CASE g = Len(opened)
      BY <1>7, <3>1, <3>2, <3>3 DEF last
    <3>4. CASE g # Len(opened)
      <4>1. g \in 1..(Len(opened) - 1)
        BY <1>5, <3>4
      <4> QED BY <1>7, <3>1, <3>2, <3>4, <4>1
    <3> QED BY <3>3, <3>4
  <2> QED BY <2>1, <2>2
<1>9. ~IsRule(line) /\ line.field # "crawl-delay"
  BY DEF IsRule
<1> QED BY <1>3, <1>7, <1>8, <1>9 DEF Reads, new, gs

\* What a rule's line does (parse).
LEMMA RuleRead ==
  ASSUME NEW file \in Files, NEW line, IsLine(line), IsRule(line)
  PROVE  Reads(file, line, ReadLine(file, line))
<1> DEFINE gs == file.groups
           new == ReadLine(file, line)
           opened == IF gs = <<>> THEN <<Group(<< <<Star>> >>)>> ELSE gs
           last == opened[Len(opened)]
           says == line.field = "allow" \/ line.value # <<>>
           changed == IF says THEN [last EXCEPT !.rules = Append(@, RuleOf(line))] ELSE last
<1>1. gs \in Seq(Groups) /\ file.collecting \in BOOLEAN /\ Len(gs) \in Nat /\ line.value \in Seq(Signs)
  BY DEF Files, IsLine
<1>2. /\ Group(<< <<Star>> >>) \in Groups /\ Group(<< <<Star>> >>).agents = << <<Star>> >>
      /\ ToSet(Group(<< <<Star>> >>).rules) = {} /\ Group(<< <<Star>> >>).delay = NoDelay
  <2>1. << <<Star>> >> \in Seq(Seq(Signs))
    <3>1. Star \in Signs
      BY DEF Signs
    <3>2. <<Star>> \in Seq(Signs)
      BY <3>1
    <3> QED BY <3>2
  <2> QED BY <2>1, GroupIs
<1>3. /\ opened \in Seq(Groups) /\ opened # <<>>
      /\ Len(opened) = IF Opens(file, line) THEN Len(gs) + 1 ELSE Len(gs)
      /\ Opens(file, line) => gs = <<>> /\ Len(opened) = 1 /\ last = Group(<< <<Star>> >>)
      /\ ~Opens(file, line) => opened = gs /\ gs # <<>>
  <2>0. Opens(file, line) <=> gs = <<>>
    BY DEF Opens, IsRule
  <2>1. CASE gs = <<>>
    <3>1. opened = <<Group(<< <<Star>> >>)>> /\ Len(gs) = 0
      BY <2>1
    <3> QED BY <1>2, <2>0, <2>1, <3>1
  <2>2. CASE gs # <<>>
    BY <1>1, <2>0, <2>2
  <2> QED BY <2>1, <2>2
<1>4. ChangesLast(opened, changed, FALSE, new)
  <2>1. line.field = "allow" \/ line.field = "disallow"
    BY DEF IsRule
  <2>2. new.collecting = FALSE /\ new = [groups |-> new.groups, collecting |-> FALSE]
    BY <2>1 DEF ReadLine, ReadRule
  <2>3. CASE says
    BY <1>3, <2>1, <2>3 DEF ReadLine, ReadRule, ToLast, RuleOf, ChangesLast
  <2>4. CASE ~says
    <3>1. new = [groups |-> opened, collecting |-> FALSE]
      BY <2>1, <2>4 DEF ReadLine, ReadRule
    <3>2. [opened EXCEPT ![Len(opened)] = last] = opened
      BY <1>3
    <3> QED BY <2>4, <3>1, <3>2 DEF ChangesLast
  <2> QED BY <2>3, <2>4
<1> HIDE DEF gs, new, opened
<1>5. last \in Groups /\ Len(opened) \in Nat /\ Len(opened) # 0
  BY <1>3
<1> HIDE DEF last
<1>6. /\ changed \in Groups /\ changed.agents = last.agents /\ changed.delay = last.delay
      /\ ToSet(changed.rules) = ToSet(last.rules) \cup (IF says THEN {RuleOf(line)} ELSE {})
  <2>1. CASE says
    <3>1. last.rules \in Seq(RobotsRules) /\ RuleOf(line) \in RobotsRules
      BY <1>1, <1>5 DEF Groups, RuleOf, RobotsRules
    <3>2. /\ Append(last.rules, RuleOf(line)) \in Seq(RobotsRules)
          /\ ToSet(Append(last.rules, RuleOf(line))) = ToSet(last.rules) \cup {RuleOf(line)}
      BY <3>1, Appended, ToSetAppended
    <3> QED BY <1>5, <2>1, <3>2 DEF Groups
  <2>2. CASE ~says
    BY <1>5, <2>2
  <2> QED BY <2>1, <2>2
<1> HIDE DEF changed
<1>7. /\ new \in Files /\ Len(new.groups) = Len(opened) /\ ~new.collecting
      /\ AgentsIn(new, Len(opened)) = ToSet(last.agents)
      /\ RulesIn(new, Len(opened)) = ToSet(last.rules) \cup (IF says THEN {RuleOf(line)} ELSE {})
      /\ DelayIn(new, Len(opened)) = last.delay
      /\ \A g \in 1..(Len(opened) - 1) :
           /\ AgentsIn(new, g) = ToSet(opened[g].agents) /\ RulesIn(new, g) = ToSet(opened[g].rules)
           /\ DelayIn(new, g) = opened[g].delay
  <2>1. opened \in Seq(Groups) /\ opened # <<>> /\ changed \in Groups /\ FALSE \in BOOLEAN
    BY <1>3, <1>6
  <2>2. /\ new \in Files /\ Len(new.groups) = Len(opened) /\ new.collecting = FALSE
        /\ AgentsIn(new, Len(opened)) = ToSet(changed.agents)
        /\ RulesIn(new, Len(opened)) = ToSet(changed.rules)
        /\ DelayIn(new, Len(opened)) = changed.delay
        /\ \A g \in 1..(Len(opened) - 1) :
             /\ AgentsIn(new, g) = ToSet(opened[g].agents) /\ RulesIn(new, g) = ToSet(opened[g].rules)
             /\ DelayIn(new, g) = opened[g].delay
    <3>1. LastIs(opened, changed, FALSE, new)
      BY <1>4, <2>1, LastGroupChanged
    <3> QED BY <3>1 DEF LastIs
  <2> QED BY <1>6, <2>2
<1>8. ASSUME NEW g \in 1..Len(opened)
      PROVE  /\ AgentsIn(new, g) = AgentsIn(file, g) \cup (IF gs = <<>> THEN {<<Star>>} ELSE {})
             /\ RulesIn(new, g) = RulesIn(file, g) \cup (IF says /\ g = Len(opened) THEN {RuleOf(line)} ELSE {})
             /\ DelayIn(new, g) = DelayIn(file, g)
  <2>1. CASE Opens(file, line)
    <3>1. gs = <<>> /\ g = 1 /\ g = Len(opened) /\ last = Group(<< <<Star>> >>)
      BY <1>3, <2>1
    <3>2. AgentsIn(file, g) = {} /\ RulesIn(file, g) = {} /\ DelayIn(file, g) = NoDelay
      BY <3>1 DEF AgentsIn, RulesIn, DelayIn, gs
    <3>3. ToSet(last.agents) = {<<Star>>}
      BY <1>2, <3>1 DEF ToSet
    <3> QED BY <1>2, <1>7, <3>1, <3>2, <3>3
  <2>2. CASE ~Opens(file, line)
    <3>1. opened = gs /\ gs # <<>>
      BY <1>3, <2>2
    <3>2. AgentsIn(file, g) = ToSet(gs[g].agents) /\ RulesIn(file, g) = ToSet(gs[g].rules) /\ DelayIn(file, g) = gs[g].delay
      BY <3>1 DEF AgentsIn, RulesIn, DelayIn, gs
    <3>3. CASE g = Len(opened)
      BY <1>7, <3>1, <3>2, <3>3 DEF last
    <3>4. CASE g # Len(opened)
      <4>1. g \in 1..(Len(opened) - 1)
        BY <1>5, <3>4
      <4> QED BY <1>7, <3>1, <3>2, <3>4, <4>1
    <3> QED BY <3>3, <3>4
  <2> QED BY <2>1, <2>2
<1>9. line.field # "user-agent" /\ line.field # "crawl-delay"
  BY DEF IsRule
<1>10. gs = file.groups /\ new = ReadLine(file, line)
  BY DEF gs, new
<1> HIDE DEF says
<1> QED BY <1>3, <1>7, <1>8, <1>9, <1>10 DEF Reads, says

\* What a delay's line does (parse).
LEMMA DelayRead ==
  ASSUME NEW file \in Files, NEW line, IsLine(line), line.field = "crawl-delay", MaxDelay \in Nat
  PROVE  Reads(file, line, ReadLine(file, line))
<1> DEFINE gs == file.groups
           new == ReadLine(file, line)
           last == gs[Len(gs)]
           changed == [last EXCEPT !.delay = AtMost(line.seconds, MaxDelay)]
<1>0. ~IsRule(line) /\ line.field # "user-agent" /\ ~Opens(file, line)
  BY DEF IsRule, Opens
<1>1. gs \in Seq(Groups) /\ file.collecting \in BOOLEAN /\ Len(gs) \in Nat /\ line.seconds \in Int
  BY DEF Files, IsLine
<1>2. AtMost(line.seconds, MaxDelay) = IF line.seconds > MaxDelay THEN MaxDelay ELSE line.seconds
  BY <1>1 DEF AtMost
<1>3. new.collecting = FALSE /\ new = [groups |-> new.groups, collecting |-> FALSE]
  BY DEF ReadLine, ReadDelay
<1>4. CASE line.seconds < 0 \/ gs = <<>>
  <2>1. new = [groups |-> gs, collecting |-> FALSE]
    BY <1>1, <1>4 DEF ReadLine, ReadDelay, ToLast
  <2>2. \A g \in 1..Len(gs) : AgentsIn(new, g) = AgentsIn(file, g) /\ RulesIn(new, g) = RulesIn(file, g) /\ DelayIn(new, g) = DelayIn(file, g)
    BY <2>1 DEF AgentsIn, RulesIn, DelayIn
  <2>3. new \in Files /\ new.groups = gs /\ ~new.collecting
    BY <1>1, <2>1 DEF Files
  <2>4. gs = <<>> => Len(gs) = 0
    BY <1>1
  <2>5. \A g \in 1..Len(gs) : ~(line.seconds >= 0)
    BY <1>1, <1>4, <2>4
  <2> HIDE DEF new
  <2> QED BY <1>0, <2>2, <2>3, <2>5 DEF Reads, new
<1>5. CASE line.seconds >= 0 /\ gs # <<>>
  <2>1. last \in Groups /\ Len(gs) # 0
    BY <1>1, <1>5
  <2>2. ChangesLast(gs, changed, FALSE, new)
    <3>1. ~(line.seconds < 0)
      BY <1>1, <1>5
    <3>2. new.groups = ToLast(gs, LAMBDA g : [g EXCEPT !.delay = IF line.seconds > MaxDelay THEN MaxDelay ELSE line.seconds])
      BY <3>1 DEF ReadLine, ReadDelay
    <3>3. new.groups = [gs EXCEPT ![Len(gs)] = changed]
      BY <1>2, <1>5, <3>2 DEF ToLast
    <3> QED BY <1>3, <3>3 DEF ChangesLast
  <2> HIDE DEF last, new
  <2>3. changed \in Groups /\ changed.agents = last.agents /\ changed.rules = last.rules /\ changed.delay = AtMost(line.seconds, MaxDelay)
    <3>1. AtMost(line.seconds, MaxDelay) \in Int
      BY <1>1, <1>2
    <3> QED BY <2>1, <3>1 DEF Groups
  <2> HIDE DEF changed, gs
  <2>4. /\ new \in Files /\ Len(new.groups) = Len(gs) /\ new.collecting = FALSE
        /\ AgentsIn(new, Len(gs)) = ToSet(changed.agents)
        /\ RulesIn(new, Len(gs)) = ToSet(changed.rules)
        /\ DelayIn(new, Len(gs)) = changed.delay
        /\ \A g \in 1..(Len(gs) - 1) :
             /\ AgentsIn(new, g) = ToSet(gs[g].agents) /\ RulesIn(new, g) = ToSet(gs[g].rules)
             /\ DelayIn(new, g) = gs[g].delay
    <3>1. gs \in Seq(Groups) /\ gs # <<>> /\ changed \in Groups /\ FALSE \in BOOLEAN
      BY <1>1, <1>5, <2>3
    <3>2. LastIs(gs, changed, FALSE, new)
      BY <2>2, <3>1, LastGroupChanged
    <3> QED BY <3>2 DEF LastIs
  <2>5. ASSUME NEW g \in 1..Len(gs)
        PROVE  /\ AgentsIn(new, g) = AgentsIn(file, g) /\ RulesIn(new, g) = RulesIn(file, g)
               /\ DelayIn(new, g) = IF g = Len(gs) THEN AtMost(line.seconds, MaxDelay) ELSE DelayIn(file, g)
    <3>1. AgentsIn(file, g) = ToSet(gs[g].agents) /\ RulesIn(file, g) = ToSet(gs[g].rules) /\ DelayIn(file, g) = gs[g].delay
      BY DEF AgentsIn, RulesIn, DelayIn, gs
    <3>2. CASE g = Len(gs)
      BY <2>3, <2>4, <3>1, <3>2 DEF last
    <3>3. CASE g # Len(gs)
      <4>1. g \in 1..(Len(gs) - 1)
        BY <1>1, <3>3
      <4> QED BY <2>4, <3>1, <3>3, <4>1
    <3> QED BY <3>2, <3>3
  <2>6. gs = file.groups /\ new = ReadLine(file, line)
    BY DEF gs, new
  <2> QED BY <1>0, <1>5, <2>4, <2>5, <2>6 DEF Reads
<1>6. line.seconds < 0 \/ line.seconds >= 0
  BY <1>1
<1> QED BY <1>4, <1>5, <1>6

\* What any line does.
LEMMA LineRead ==
  ASSUME NEW file \in Files, NEW line, IsLine(line), MaxDelay \in Nat
  PROVE  Reads(file, line, ReadLine(file, line))
<1>1. CASE line.field = "user-agent"
  BY <1>1, AgentRead
<1>2. CASE IsRule(line)
  BY <1>2, RuleRead
<1>3. CASE line.field = "crawl-delay"
  BY <1>3, DelayRead
<1>4. CASE ~(IsRule(line) \/ line.field \in {"crawl-delay", "user-agent"})
  <2>1. ReadLine(file, line) = file /\ ~Opens(file, line)
    BY <1>4 DEF ReadLine, IsRule, Opens
  <2> QED BY <1>4, <2>1 DEF Reads
<1> QED BY <1>1, <1>2, <1>3, <1>4

\* What has been read of a file after each of its lines (parse).
LEMMA ReadWalk ==
  ASSUME NEW L, \A line \in L : IsLine(line), NEW lines \in Seq(L), MaxDelay \in Nat
  PROVE  \E v \in [0..Len(lines) -> Files] :
           /\ v[0] = Unread /\ \A k \in 1..Len(lines) : v[k] = ReadLine(v[k - 1], lines[k])
           /\ FoldLeft(ReadLine, Unread, lines) = v[Len(lines)]
<1> DEFINE n == Len(lines)
           base == Unread
           States == Files
           Value(x, i) == ReadLine(x, lines[i])
           step == [i \in 1..n |-> [x \in States |-> Value(x, i)]]
           Is(g) == g = [s \in SUBSET (DOMAIN lines) |-> IF s = {} THEN base ELSE Value(g[s \ {Max(s)}], Max(s))]
           u == CHOOSE g : Is(g)
           f == [s \in SUBSET (1..n) |-> Value(u[s \ {Max(s)}], Max(s))]
<1>1. n \in Nat /\ base \in States /\ DOMAIN lines = 1..n
  BY DEF Unread, Files
<1>2. FoldLeft(ReadLine, Unread, lines) = u[1..n]
  BY <1>1 DEF FoldLeft, MapThenFoldSet
<1>3. \A i \in 1..n, x \in States : Value(x, i) \in States
  <2> SUFFICES ASSUME NEW i \in 1..n, NEW x \in Files PROVE ReadLine(x, lines[i]) \in Files
    OBVIOUS
  <2>1. IsLine(lines[i])
    OBVIOUS
  <2> QED BY <2>1, LineRead DEF Reads
<1>4. step \in [1..n -> [States -> States]] /\ \A i \in 1..n, x \in States : step[i][x] = Value(x, i)
  BY <1>3
<1>5. base = Unread /\ \A x, i : Value(x, i) = ReadLine(x, lines[i])
  OBVIOUS
<1> HIDE DEF n, States, base, step, Value
<1>6. \A s \in SUBSET (1..n) : s # {} => Max(s) \in 1..n
  BY <1>1, TakesLast
<1>7. Is(u)
  <2>1. n \in Nat /\ base \in States
    BY <1>1
  <2>2. step \in [1..n -> [States -> States]]
    BY <1>4
  <2>3. PICK g \in [SUBSET (1..n) -> States] : IsLeftFold(g, n, base, step)
    BY <2>1, <2>2, LeftFoldExists
  <2>4. \A s \in SUBSET (1..n) : s # {} => g[s \ {Max(s)}] \in States
    OBVIOUS
  <2>5. Is(g)
    BY <1>1, <1>4, <1>6, <2>3, <2>4 DEF IsLeftFold
  <2> QED BY <2>5
<1>8. ComesTo(u, f, n, base)
  BY <1>1, <1>7 DEF ComesTo
<1>9. StepsOn(u, f, n, States, step)
  <2>1. \A s \in SUBSET (1..n) : f[s] = Value(u[s \ {Max(s)}], Max(s))
    OBVIOUS
  <2> HIDE DEF u, f
  <2>2. ASSUME NEW s \in SUBSET (1..n), s # {}, u[s \ {Max(s)}] \in States
        PROVE  f[s] = step[Max(s)][u[s \ {Max(s)}]]
    BY <1>4, <1>6, <2>1, <2>2
  <2> QED BY <2>2, Zenon DEF StepsOn
<1> HIDE DEF u, f, Is
<1>10. PICK v \in [0..n -> States] : IsWalk(v, n, base, step) /\ v[n] = u[1..n]
  <2>1. n \in Nat /\ base \in States
    BY <1>1
  <2>2. step \in [1..n -> [States -> States]]
    BY <1>4
  <2>3. ComesTo(u, f, n, base) /\ StepsOn(u, f, n, States, step)
    BY <1>8, <1>9
  <2> QED BY <2>1, <2>2, <2>3, LeftFoldWalks
<1>11. v[0] = base /\ \A k \in 1..n : v[k] = Value(v[k - 1], k)
  <2>1. \A k \in 1..n : k - 1 \in 0..n
    BY <1>1
  <2> QED BY <1>4, <1>10, <2>1 DEF IsWalk
<1>12. v[0] = Unread /\ \A k \in 1..n : v[k] = ReadLine(v[k - 1], lines[k])
  BY <1>5, <1>11
<1> QED BY <1>2, <1>10, <1>12 DEF n, States

-----------------------------------------------------------------------------
(* How many groups the lines open *)

\* How many groups there are after each line, and whether agents are being
\* collected: the lines in A name agents, those in R are rules, those in D delays.
Counting(n, A, R, D, N, C) ==
  /\ N[0] = 0 /\ ~C[0]
  /\ \A k \in 1..n :
       /\ k \in A => C[k] /\ N[k] = IF C[k - 1] /\ N[k - 1] # 0 THEN N[k - 1] ELSE N[k - 1] + 1
       /\ k \in R => ~C[k] /\ N[k] = IF N[k - 1] = 0 THEN 1 ELSE N[k - 1]
       /\ k \in D => ~C[k] /\ N[k] = N[k - 1]
       /\ k \notin A \cup R \cup D => (C[k] <=> C[k - 1]) /\ N[k] = N[k - 1]

\* The lines from i to k end no run of agents.
Unended(E, i, k) == \A e \in E : ~(i < e /\ e <= k)

\* No agent after i, up to line k, comes after the end of a run.
OneGroup(A, E, i, k) == \A a \in A : i < a /\ a <= k => Unended(E, i, a - 1)

\* What the counts are after k lines.
CountedSoFar(n, A, R, D, N, C, k) ==
  /\ N[k] \in Nat /\ \A i \in 0..k : N[i] \in Nat /\ N[i] <= N[k]
  /\ \A i \in A \cup R : i <= k => N[i] >= 1
  /\ C[k] <=> \E i \in A : i <= k /\ Unended(R \cup D, i, k)
  /\ \A i \in A : i <= k => (N[k] = N[i] <=> OneGroup(A, R \cup D, i, k))
  /\ \A e \in R \cup D, a \in A : e < a /\ a <= k => N[e] < N[a]
  /\ N[k] > 0 => \E i \in A \cup R : i <= k
  /\ (\A a \in A : ~(a <= k)) => N[k] <= 1

\* Counting from line to line keeps that.
LEMMA CountingHolds ==
  ASSUME NEW n \in Nat, NEW A \in SUBSET (1..n), NEW R \in SUBSET (1..n), NEW D \in SUBSET (1..n),
         \A k \in A : k \notin R /\ k \notin D, NEW N, NEW C, Counting(n, A, R, D, N, C)
  PROVE  \A k \in 0..n : CountedSoFar(n, A, R, D, N, C, k)
<1> DEFINE E == R \cup D
           Good(k) == CountedSoFar(n, A, R, D, N, C, k)
           G == {k \in Nat : k <= n => Good(k)}
<1>0. A \in SUBSET (1..n) /\ R \in SUBSET (1..n) /\ E \in SUBSET (1..n) /\ N[0] = 0 /\ ~C[0]
  BY DEF Counting
<1>1. 0 \in G
  <2>1. \A i \in A \cup E : i \in Nat /\ i > 0
    BY <1>0
  <2>2. Good(0)
    BY <1>0, <2>1 DEF CountedSoFar
  <2> QED BY <2>2
<1>2. ASSUME NEW k \in Nat, k \in G PROVE k + 1 \in G
  <2> SUFFICES ASSUME k + 1 <= n PROVE Good(k + 1)
    OBVIOUS
  <2> DEFINE m == k + 1
  <2>0. m \in 1..n /\ m - 1 = k /\ k \in 0..n /\ m \in Nat /\ k < m /\ m \in Int
    OBVIOUS
  <2>1. Good(k)
    BY <1>2
  <2>2. /\ m \in A => C[m] /\ N[m] = IF C[k] /\ N[k] # 0 THEN N[k] ELSE N[k] + 1
        /\ m \in R => ~C[m] /\ N[m] = IF N[k] = 0 THEN 1 ELSE N[k]
        /\ m \in D => ~C[m] /\ N[m] = N[k]
        /\ m \notin A \cup R \cup D => (C[m] <=> C[k]) /\ N[m] = N[k]
    BY <2>0 DEF Counting
  <2> HIDE DEF m, G
  <2>3. \A i \in A \cup E : i \in Nat /\ i > 0 /\ (i <= m <=> i <= k \/ i = m)
    BY <1>0, <2>0
  <2>4. \A i \in 0..m : i \in 0..k \/ i = m
    BY <2>0
  <2>5. N[k] \in Nat /\ \A i \in 0..k : N[i] \in Nat /\ N[i] <= N[k]
    BY <2>1 DEF CountedSoFar
  <2>6. N[m] \in Nat /\ N[k] <= N[m] /\ N[m] <= N[k] + 1 /\ \A i \in 0..m : N[i] \in Nat /\ N[i] <= N[m]
    <3>1. N[m] \in Nat /\ N[k] <= N[m] /\ N[m] <= N[k] + 1
      BY <2>2, <2>5
    <3>2. ASSUME NEW i \in 0..k PROVE N[i] <= N[m]
      BY <2>5, <3>1
    <3> QED BY <2>4, <2>5, <3>1, <3>2
  <2>7. \A i \in A \cup E : i <= k => i \in 0..k
    BY <2>0, <2>3
  <2>8. ASSUME NEW i \in A \cup R, i <= m PROVE N[i] >= 1
    <3>1. CASE i <= k
      BY <2>1, <3>1 DEF CountedSoFar
    <3>2. CASE i = m
      BY <2>2, <2>5, <3>2
    <3> QED BY <2>3, <2>8, <3>1, <3>2
  <2>9. ASSUME NEW i \in Nat, i <= k PROVE Unended(E, i, m) <=> Unended(E, i, k) /\ m \notin E
    <3>1. \A e \in E : (i < e /\ e <= m) <=> (i < e /\ e <= k) \/ (e = m)
      BY <2>0, <2>3, <2>9
    <3> QED BY <3>1 DEF Unended
  <2>10. Unended(E, m, m)
    BY <2>3, <2>0 DEF Unended
  <2>11. C[m] <=> \E i \in A : i <= m /\ Unended(E, i, m)
    <3>0. C[k] <=> \E i \in A : i <= k /\ Unended(E, i, k)
      BY <2>1 DEF CountedSoFar
    <3>1. CASE m \in A
      BY <2>0, <2>2, <2>10, <3>1
    <3>2. CASE m \in E
      <4>1. \A i \in A : i <= m => i \in Nat /\ i <= k
        BY <2>3, <3>2
      <4> QED BY <2>2, <2>9, <3>2, <4>1
    <3>3. CASE m \notin A \cup E
      <4>1. \A i \in A : (i <= m <=> i <= k) /\ i \in Nat
        BY <2>3, <3>3
      <4> QED BY <2>2, <2>9, <3>0, <3>3, <4>1
    <3> QED BY <3>1, <3>2, <3>3
  <2>12. ASSUME NEW i \in A, i <= k
         PROVE OneGroup(A, E, i, m) <=> OneGroup(A, E, i, k) /\ (m \in A => Unended(E, i, k))
    <3>1. \A a \in A : (i < a /\ a <= m) <=> (i < a /\ a <= k) \/ a = m
      BY <2>0, <2>3, <2>12
    <3> QED BY <2>0, <3>1 DEF OneGroup
  <2>13. ASSUME NEW i \in A, i <= k PROVE N[m] = N[i] <=> OneGroup(A, E, i, m)
    <3>0. (N[k] = N[i] <=> OneGroup(A, E, i, k)) /\ N[i] >= 1 /\ N[i] <= N[k] /\ N[i] \in Nat
      BY <2>1, <2>5, <2>7, <2>13 DEF CountedSoFar
    <3>1. CASE m \notin A
      <4>1. N[m] = N[k]
        BY <2>2, <2>5, <3>0, <3>1
      <4> QED BY <2>12, <2>13, <3>0, <3>1, <4>1
    <3>2. CASE m \in A /\ C[k]
      <4>1. N[m] = N[k]
        BY <2>2, <2>5, <3>0, <3>2
      <4>2. PICK b \in A : b <= k /\ Unended(E, b, k)
        BY <2>1, <3>2 DEF CountedSoFar
      <4>3. OneGroup(A, E, i, k) => Unended(E, i, k)
        <5> SUFFICES ASSUME OneGroup(A, E, i, k), NEW e \in E, i < e, e <= k PROVE FALSE
          BY DEF Unended
        <5>1. ~(b < e)
          BY <4>2 DEF Unended
        <5>2. b \in Nat /\ e \in Nat /\ i \in Nat /\ b # e
          BY <2>0, <2>3, <4>2
        <5>3. i < b /\ e <= b - 1
          BY <5>1, <5>2
        <5>4. Unended(E, i, b - 1)
          BY <4>2, <5>3 DEF OneGroup
        <5> QED BY <5>3, <5>4 DEF Unended
      <4> QED BY <2>12, <2>13, <3>0, <3>2, <4>1, <4>3
    <3>3. CASE m \in A /\ ~C[k]
      <4>1. N[m] = N[k] + 1 /\ N[m] # N[i]
        BY <2>2, <2>5, <3>0, <3>3
      <4>2. ~Unended(E, i, k)
        BY <2>1, <2>13, <3>3 DEF CountedSoFar
      <4> QED BY <2>12, <2>13, <3>3, <4>1, <4>2
    <3> QED BY <3>1, <3>2, <3>3
  <2>14. ASSUME NEW i \in A, i <= m PROVE N[m] = N[i] <=> OneGroup(A, E, i, m)
    <3>1. CASE i = m
      <4>1. OneGroup(A, E, m, m)
        BY <2>3, <2>0 DEF OneGroup
      <4> QED BY <3>1, <4>1
    <3> QED BY <2>3, <2>13, <2>14, <3>1
  <2>15. ASSUME NEW e \in E, NEW a \in A, e < a, a <= m PROVE N[e] < N[a]
    <3>0. e \in Nat /\ a \in Nat
      BY <2>3
    <3>1. CASE a <= k
      BY <2>1, <2>15, <3>1 DEF CountedSoFar
    <3>2. CASE a = m /\ C[k]
      <4>1. PICK b \in A : b <= k /\ Unended(E, b, k)
        BY <2>1, <3>2 DEF CountedSoFar
      <4>2. b \in Nat /\ b # e /\ e <= k
        BY <2>0, <2>3, <2>15, <3>0, <3>2, <4>1
      <4>3. ~(b < e)
        BY <4>1, <4>2 DEF Unended
      <4>4. e < b
        BY <3>0, <4>2, <4>3
      <4>5. N[e] < N[b]
        BY <2>1, <4>1, <4>4 DEF CountedSoFar
      <4>6. N[b] <= N[m] /\ N[b] \in Nat /\ N[e] \in Nat
        BY <2>5, <2>6, <2>7, <4>1, <4>2
      <4> QED BY <2>6, <3>2, <4>5, <4>6
    <3>3. CASE a = m /\ ~C[k]
      <4>1. e <= k
        BY <2>0, <2>15, <3>0, <3>3
      <4>2. N[e] <= N[k] /\ N[e] \in Nat
        BY <2>5, <2>7, <4>1
      <4>3. N[m] = N[k] + 1
        BY <2>2, <2>5, <3>3
      <4> QED BY <2>5, <3>3, <4>2, <4>3
    <3> QED BY <2>3, <2>15, <3>1, <3>2, <3>3
  <2>16. ASSUME N[m] > 0 PROVE \E i \in A \cup R : i <= m
    <3>1. CASE m \in A \cup R
      BY <2>0, <3>1
    <3>2. CASE m \notin A \cup R
      <4>1. N[m] = N[k]
        BY <2>2, <3>2
      <4>2. \E i \in A \cup R : i <= k
        BY <2>1, <2>16, <4>1 DEF CountedSoFar
      <4> QED BY <2>3, <4>2
    <3> QED BY <3>1, <3>2
  <2>17. ASSUME \A a \in A : ~(a <= m) PROVE N[m] <= 1
    <3>1. m \notin A /\ \A a \in A : ~(a <= k)
      BY <2>0, <2>3, <2>17
    <3>2. N[k] <= 1
      BY <2>1, <3>1 DEF CountedSoFar
    <3> QED BY <2>2, <2>5, <3>1, <3>2
  <2>18. CountedSoFar(n, A, R, D, N, C, m)
    BY <2>6, <2>8, <2>11, <2>14, <2>15, <2>16, <2>17 DEF CountedSoFar
  <2> QED BY <2>18 DEF m
<1>3. \A k \in Nat : k \in G
  <2> HIDE DEF G
  <2> QED BY <1>1, <1>2, ByNumber
<1> QED BY <1>3

-----------------------------------------------------------------------------
(* What the groups hold in the end (Parse) *)

\* The lines of a file that name agents, those that are rules and those that are
\* delays; of these, the rules that say something (Telling) and the delays that are
\* numbers (Pausing).
Naming(lines)   == {i \in 1..Len(lines) : lines[i].field = "user-agent"}
Ruling(lines)   == {i \in 1..Len(lines) : IsRule(lines[i])}
Delaying(lines) == {i \in 1..Len(lines) : lines[i].field = "crawl-delay"}
Telling(lines)  == {i \in Ruling(lines) : lines[i].field = "allow" \/ lines[i].value # <<>>}
Pausing(lines)  == {i \in Delaying(lines) : lines[i].seconds >= 0}

\* A file as it is read line by line.
ReadThrough(lines, v) ==
  /\ v \in [0..Len(lines) -> Files] /\ v[0] = Unread
  /\ \A k \in 1..Len(lines) : Reads(v[k - 1], lines[k], v[k])

\* How many groups there are after each line, and whether agents are collected.
GroupsAfter(lines, v) == [k \in 0..Len(lines) |-> Len(v[k].groups)]
CollectingAfter(lines, v) == [k \in 0..Len(lines) |-> v[k].collecting]

\* The groups are counted as the lines say.
LEMMA GroupsCounted ==
  ASSUME NEW L, NEW lines \in Seq(L), NEW v, ReadThrough(lines, v)
  PROVE  Counting(Len(lines), Naming(lines), Ruling(lines), Delaying(lines), GroupsAfter(lines, v), CollectingAfter(lines, v))
<1> DEFINE n == Len(lines)
           N == GroupsAfter(lines, v)
           C == CollectingAfter(lines, v)
<1>1. n \in Nat /\ v \in [0..n -> Files] /\ v[0] = Unread
  BY DEF ReadThrough
<1>2. N[0] = 0 /\ ~C[0]
  BY <1>1 DEF GroupsAfter, CollectingAfter, Unread
<1>3. ASSUME NEW k \in 1..n
      PROVE  /\ k \in Naming(lines) => C[k] /\ N[k] = IF C[k - 1] /\ N[k - 1] # 0 THEN N[k - 1] ELSE N[k - 1] + 1
             /\ k \in Ruling(lines) => ~C[k] /\ N[k] = IF N[k - 1] = 0 THEN 1 ELSE N[k - 1]
             /\ k \in Delaying(lines) => ~C[k] /\ N[k] = N[k - 1]
             /\ k \notin Naming(lines) \cup Ruling(lines) \cup Delaying(lines) => (C[k] <=> C[k - 1]) /\ N[k] = N[k - 1]
  <2> DEFINE file == v[k - 1]
             new == v[k]
             line == lines[k]
  <2>1. k - 1 \in 0..n /\ k \in 0..n
    BY <1>1
  <2>2. file \in Files /\ Reads(file, line, new)
    BY <1>1, <2>1 DEF ReadThrough
  <2>3. N[k] = Len(new.groups) /\ C[k] = new.collecting /\ N[k - 1] = Len(file.groups) /\ C[k - 1] = file.collecting
    BY <2>1 DEF GroupsAfter, CollectingAfter
  <2>4. /\ k \in Naming(lines) <=> line.field = "user-agent"
        /\ k \in Ruling(lines) <=> IsRule(line)
        /\ k \in Delaying(lines) <=> line.field = "crawl-delay"
    BY DEF Naming, Ruling, Delaying
  <2> HIDE DEF file, new, line, n, N, C
  <2>5. file.groups \in Seq(Groups) /\ Len(file.groups) \in Nat /\ file.collecting \in BOOLEAN /\ (file.groups = <<>> <=> Len(file.groups) = 0)
    BY <2>2 DEF Files
  <2>6. /\ Len(new.groups) = IF Opens(file, line) THEN Len(file.groups) + 1 ELSE Len(file.groups)
        /\ line.field = "user-agent" => new.collecting
        /\ IsRule(line) \/ line.field = "crawl-delay" => ~new.collecting
        /\ ~(IsRule(line) \/ line.field \in {"crawl-delay", "user-agent"}) => new.collecting = file.collecting
    BY <2>2 DEF Reads
  <2>7. CASE line.field = "user-agent"
    <3>1. ~IsRule(line) /\ line.field # "crawl-delay" /\ (Opens(file, line) <=> ~(file.collecting /\ file.groups # <<>>))
      BY <2>7 DEF IsRule, Opens
    <3> QED BY <2>3, <2>4, <2>5, <2>6, <2>7, <3>1
  <2>8. CASE IsRule(line)
    <3>1. line.field # "user-agent" /\ line.field # "crawl-delay" /\ (Opens(file, line) <=> file.groups = <<>>)
      BY <2>8 DEF IsRule, Opens
    <3> QED BY <2>3, <2>4, <2>5, <2>6, <2>8, <3>1
  <2>9. CASE line.field # "user-agent" /\ ~IsRule(line)
    <3>1. ~Opens(file, line)
      BY <2>9 DEF Opens
    <3> QED BY <2>3, <2>4, <2>5, <2>6, <2>9, <3>1
  <2> QED BY <2>7, <2>8, <2>9
<1> QED BY <1>2, <1>3 DEF Counting

\* The groups after a line, whether there or not.
LEMMA LineAdds ==
  ASSUME NEW L, NEW lines \in Seq(L), NEW v, ReadThrough(lines, v), NEW k \in 1..Len(lines), NEW g \in Nat \ {0}
  PROVE  LET N == GroupsAfter(lines, v) IN
         /\ N[k] \in Nat /\ N[k - 1] \in Nat /\ N[k - 1] <= N[k]
         /\ AgentsIn(v[k], g) = AgentsIn(v[k - 1], g)
              \cup (IF k \in Naming(lines) /\ N[k] = g THEN {lines[k].value} ELSE {})
              \cup (IF k \in Ruling(lines) /\ N[k - 1] = 0 /\ g = 1 THEN {<<Star>>} ELSE {})
         /\ RulesIn(v[k], g) = RulesIn(v[k - 1], g) \cup (IF k \in Telling(lines) /\ N[k] = g THEN {RuleOf(lines[k])} ELSE {})
         /\ DelayIn(v[k], g) = IF k \in Pausing(lines) /\ N[k] = g THEN AtMost(lines[k].seconds, MaxDelay) ELSE DelayIn(v[k - 1], g)
         /\ N[k] > N[k - 1] => N[k] = N[k - 1] + 1 /\ (k \in Naming(lines) \/ (k \in Ruling(lines) /\ N[k - 1] = 0))
<1> DEFINE n == Len(lines)
           N == GroupsAfter(lines, v)
           file == v[k - 1]
           new == v[k]
           line == lines[k]
<1>1. n \in Nat /\ v \in [0..n -> Files]
  BY DEF ReadThrough
<1>2. k - 1 \in 0..n /\ k \in 0..n
  BY <1>1
<1>3. file \in Files /\ Reads(file, line, new)
  BY <1>1, <1>2 DEF ReadThrough
<1>4. N[k] = Len(new.groups) /\ N[k - 1] = Len(file.groups)
  BY <1>2 DEF GroupsAfter
<1>5. /\ k \in Naming(lines) <=> line.field = "user-agent"
      /\ k \in Ruling(lines) <=> IsRule(line)
      /\ k \in Telling(lines) <=> IsRule(line) /\ (line.field = "allow" \/ line.value # <<>>)
      /\ k \in Pausing(lines) <=> line.field = "crawl-delay" /\ line.seconds >= 0
  BY DEF Naming, Ruling, Delaying, Telling, Pausing
<1> HIDE DEF file, new, line, n, N
<1>6. Len(file.groups) \in Nat /\ (file.groups = <<>> <=> Len(file.groups) = 0)
  <2>1. file.groups \in Seq(Groups)
    BY <1>3 DEF Files
  <2> QED BY <2>1
<1>7. /\ Len(new.groups) = IF Opens(file, line) THEN Len(file.groups) + 1 ELSE Len(file.groups)
      /\ Opens(file, line) => line.field = "user-agent" \/ (IsRule(line) /\ Len(file.groups) = 0)
      /\ IsRule(line) /\ file.groups = <<>> => Opens(file, line)
  BY <1>3, <1>6 DEF Reads, Opens
<1>8. N[k] \in Nat /\ N[k - 1] \in Nat /\ N[k - 1] <= N[k]
  BY <1>4, <1>6, <1>7
<1>9. CASE g \in 1..N[k]
  <2>1. g \in 1..Len(new.groups) /\ (g = Len(new.groups) <=> N[k] = g)
    BY <1>4, <1>9
  <2>2. IsRule(line) /\ file.groups = <<>> => g = 1
    BY <1>6, <1>7, <2>1
  <2>3. IsRule(line) /\ file.groups = <<>> <=> k \in Ruling(lines) /\ N[k - 1] = 0 /\ g = 1
    BY <1>4, <1>5, <1>6, <2>2
  <2>4. AgentsIn(new, g) = AgentsIn(file, g)
              \cup (IF k \in Naming(lines) /\ N[k] = g THEN {line.value} ELSE {})
              \cup (IF k \in Ruling(lines) /\ N[k - 1] = 0 /\ g = 1 THEN {<<Star>>} ELSE {})
    BY <1>3, <1>5, <2>1, <2>3 DEF Reads
  <2>5. /\ RulesIn(new, g) = RulesIn(file, g) \cup (IF k \in Telling(lines) /\ N[k] = g THEN {RuleOf(line)} ELSE {})
        /\ DelayIn(new, g) = IF k \in Pausing(lines) /\ N[k] = g THEN AtMost(line.seconds, MaxDelay) ELSE DelayIn(file, g)
    BY <1>3, <1>5, <2>1 DEF Reads
  <2> QED BY <1>4, <1>5, <1>6, <1>7, <1>8, <2>4, <2>5 DEF file, new, line, N
<1>10. CASE g \notin 1..N[k]
  <2>1. g # N[k] /\ g \notin 1..Len(new.groups) /\ g \notin 1..Len(file.groups)
    BY <1>4, <1>8, <1>10
  <2>2. ~(k \in Ruling(lines) /\ N[k - 1] = 0 /\ g = 1)
    BY <1>4, <1>5, <1>6, <1>7, <1>8, <1>10
  <2>3. /\ AgentsIn(new, g) = {} /\ AgentsIn(file, g) = {} /\ RulesIn(new, g) = {} /\ RulesIn(file, g) = {}
        /\ DelayIn(new, g) = NoDelay /\ DelayIn(file, g) = NoDelay
    BY <2>1 DEF AgentsIn, RulesIn, DelayIn
  <2> QED BY <1>4, <1>5, <1>6, <1>7, <1>8, <2>1, <2>2, <2>3 DEF file, new, line, N
<1> QED BY <1>9, <1>10

\* What the groups of a file hold.
Holds(lines, groups, N) ==
  /\ groups \in Seq(Groups) /\ Len(groups) = N[Len(lines)]
  /\ \A g \in 1..Len(groups) :
       /\ ToSet(groups[g].agents) # {}
       /\ ToSet(groups[g].agents) = {lines[i].value : i \in {i \in Naming(lines) : N[i] = g}}
            \cup (IF g = 1 /\ \E i \in Ruling(lines) : N[i - 1] = 0 THEN {<<Star>>} ELSE {})
       /\ ToSet(groups[g].rules) = {RuleOf(lines[i]) : i \in {i \in Telling(lines) : N[i] = g}}
       /\ (\A i \in Pausing(lines) : N[i] # g) => groups[g].delay = NoDelay
       /\ \A j \in Pausing(lines) : N[j] = g /\ (\A i \in Pausing(lines) : N[i] = g => i <= j)
            => groups[g].delay = AtMost(lines[j].seconds, MaxDelay)

\* The groups hold what the lines say.
LEMMA GroupsHold ==
  ASSUME NEW L, NEW lines \in Seq(L), NEW v, ReadThrough(lines, v)
  PROVE  Holds(lines, v[Len(lines)].groups, GroupsAfter(lines, v))
<1> DEFINE n == Len(lines)
           N == GroupsAfter(lines, v)
           groups == v[n].groups
<1>1. n \in Nat /\ v \in [0..n -> Files] /\ v[0] = Unread
  BY DEF ReadThrough
<1>2. groups \in Seq(Groups) /\ Len(groups) = N[n]
  BY <1>1 DEF Files, GroupsAfter
<1>3. ASSUME NEW g \in Nat \ {0} PROVE AgentsIn(v[0], g) = {} /\ RulesIn(v[0], g) = {} /\ DelayIn(v[0], g) = NoDelay
  BY <1>1 DEF Unread, AgentsIn, RulesIn, DelayIn
<1>4. Naming(lines) \in SUBSET (1..n) /\ Ruling(lines) \in SUBSET (1..n) /\ Telling(lines) \in SUBSET (1..n) /\ Pausing(lines) \in SUBSET (1..n)
  BY DEF Naming, Ruling, Telling, Pausing, Delaying
<1>5. \A k \in Naming(lines) : k \notin Ruling(lines)
  BY DEF Naming, Ruling, IsRule
<1>6. ASSUME NEW g \in 1..Len(groups)
      PROVE  ToSet(groups[g].agents) = AgentsIn(v[n], g) /\ ToSet(groups[g].rules) = RulesIn(v[n], g) /\ groups[g].delay = DelayIn(v[n], g)
  BY <1>6 DEF AgentsIn, RulesIn, DelayIn
<1> HIDE DEF n, N, groups
<1>7. ASSUME NEW g \in Nat \ {0}, NEW k \in 1..n
      PROVE  /\ N[k] \in Nat /\ N[k - 1] \in Nat /\ N[k - 1] <= N[k]
             /\ AgentsIn(v[k], g) = AgentsIn(v[k - 1], g)
                  \cup (IF k \in Naming(lines) /\ N[k] = g THEN {lines[k].value} ELSE {})
                  \cup (IF k \in Ruling(lines) /\ N[k - 1] = 0 /\ g = 1 THEN {<<Star>>} ELSE {})
             /\ RulesIn(v[k], g) = RulesIn(v[k - 1], g) \cup (IF k \in Telling(lines) /\ N[k] = g THEN {RuleOf(lines[k])} ELSE {})
             /\ DelayIn(v[k], g) = IF k \in Pausing(lines) /\ N[k] = g THEN AtMost(lines[k].seconds, MaxDelay) ELSE DelayIn(v[k - 1], g)
             /\ N[k] > N[k - 1] => N[k] = N[k - 1] + 1 /\ (k \in Naming(lines) \/ (k \in Ruling(lines) /\ N[k - 1] = 0))
  BY <1>7, LineAdds DEF n, N
<1>8. ASSUME NEW g \in Nat \ {0}
      PROVE  AgentsIn(v[n], g) = {lines[i].value : i \in {i \in Naming(lines) : N[i] = g}}
                  \cup (IF g = 1 /\ \E i \in Ruling(lines) : N[i - 1] = 0 THEN {<<Star>>} ELSE {})
  <2> DEFINE S == {i \in Naming(lines) : N[i] = g}
             T == {i \in Ruling(lines) : N[i - 1] = 0 /\ g = 1}
             f == [i \in 1..n |-> IF i \in S THEN lines[i].value ELSE <<Star>>]
             m == [k \in 0..n |-> AgentsIn(v[k], g)]
  <2>1. S \in SUBSET (1..n) /\ T \in SUBSET (1..n) /\ \A k \in S : k \notin T
    BY <1>4, <1>5
  <2>2. ASSUME NEW k \in 1..n PROVE m[k] = m[k - 1] \cup (IF k \in S \cup T THEN {f[k]} ELSE {})
    <3>1. k \in 0..n /\ k - 1 \in 0..n
      BY <1>1
    <3>2. m[k] = m[k - 1] \cup (IF k \in S THEN {lines[k].value} ELSE {}) \cup (IF k \in T THEN {<<Star>>} ELSE {})
      BY <1>7, <3>1
    <3>3. (k \in S => f[k] = lines[k].value) /\ (k \in T => f[k] = <<Star>>)
      BY <2>1
    <3> HIDE DEF S, T, f, m
    <3> QED BY <2>1, <3>2, <3>3
  <2>3. m[0] = {} /\ m[n] = AgentsIn(v[n], g)
    BY <1>1, <1>3
  <2>4. (\A i \in S : f[i] = lines[i].value) /\ (\A i \in T : f[i] = <<Star>>)
    BY <2>1
  <2>5. T # {} <=> g = 1 /\ \E i \in Ruling(lines) : N[i - 1] = 0
    OBVIOUS
  <2> HIDE DEF S, T, f, m
  <2>6. GathersFrom(m, n, S \cup T, f) /\ S \cup T \in SUBSET (1..n)
    BY <2>1, <2>2, <2>3 DEF GathersFrom
  <2>7. m[n] = {f[i] : i \in S \cup T}
    BY <1>1, <2>6, GathersAll
  <2>8. m[n] = {lines[i].value : i \in S} \cup (IF T # {} THEN {<<Star>>} ELSE {})
    BY <2>4, <2>7
  <2> QED BY <2>3, <2>5, <2>8 DEF S
<1>9. ASSUME NEW g \in Nat \ {0}
      PROVE  RulesIn(v[n], g) = {RuleOf(lines[i]) : i \in {i \in Telling(lines) : N[i] = g}}
  <2> DEFINE S == {i \in Telling(lines) : N[i] = g}
             f == [i \in 1..n |-> RuleOf(lines[i])]
             m == [k \in 0..n |-> RulesIn(v[k], g)]
  <2>1. S \in SUBSET (1..n)
    BY <1>4
  <2>2. ASSUME NEW k \in 1..n PROVE m[k] = m[k - 1] \cup (IF k \in S THEN {f[k]} ELSE {})
    <3>1. k \in 0..n /\ k - 1 \in 0..n
      BY <1>1
    <3> QED BY <1>7, <3>1
  <2>3. m[0] = {} /\ m[n] = RulesIn(v[n], g)
    BY <1>1, <1>3
  <2>4. \A i \in S : f[i] = RuleOf(lines[i])
    BY <2>1
  <2> HIDE DEF S, f, m
  <2>5. GathersFrom(m, n, S, f)
    BY <2>2, <2>3 DEF GathersFrom
  <2>6. m[n] = {f[i] : i \in S}
    BY <1>1, <2>1, <2>5, GathersAll
  <2>7. {f[i] : i \in S} = {RuleOf(lines[i]) : i \in S}
    BY <2>4
  <2> QED BY <2>3, <2>6, <2>7 DEF S
<1>10. ASSUME NEW g \in Nat \ {0}
       PROVE  /\ (\A i \in Pausing(lines) : N[i] # g) => DelayIn(v[n], g) = NoDelay
              /\ \A j \in Pausing(lines) : N[j] = g /\ (\A i \in Pausing(lines) : N[i] = g => i <= j)
                   => DelayIn(v[n], g) = AtMost(lines[j].seconds, MaxDelay)
  <2> DEFINE S == {i \in Pausing(lines) : N[i] = g}
             f == [i \in 1..n |-> AtMost(lines[i].seconds, MaxDelay)]
             d == [k \in 0..n |-> DelayIn(v[k], g)]
  <2>1. S \in SUBSET (1..n)
    BY <1>4
  <2>2. ASSUME NEW k \in 1..n PROVE d[k] = IF k \in S THEN f[k] ELSE d[k - 1]
    <3>1. k \in 0..n /\ k - 1 \in 0..n
      BY <1>1
    <3> QED BY <1>7, <3>1
  <2>3. d[0] = NoDelay /\ d[n] = DelayIn(v[n], g)
    BY <1>1, <1>3
  <2>4. \A i \in S : f[i] = AtMost(lines[i].seconds, MaxDelay)
    BY <2>1
  <2>5. \A i \in Pausing(lines) : i \in S <=> N[i] = g
    OBVIOUS
  <2>6. S \subseteq Pausing(lines)
    OBVIOUS
  <2> HIDE DEF S, f, d
  <2>7. KeepsLast(d, n, S, f)
    BY <2>2 DEF KeepsLast
  <2>8. (S = {} => d[n] = d[0]) /\ \A j \in S : (\A i \in S : i <= j) => d[n] = f[j]
    BY <1>1, <2>1, <2>7, KeptLast
  <2>9. (\A i \in Pausing(lines) : N[i] # g) => S = {}
    BY <2>5, <2>6
  <2>10. ASSUME NEW j \in Pausing(lines), N[j] = g, \A i \in Pausing(lines) : N[i] = g => i <= j
         PROVE  DelayIn(v[n], g) = AtMost(lines[j].seconds, MaxDelay)
    <3>1. j \in S /\ \A i \in S : i <= j
      BY <2>5, <2>6, <2>10
    <3> QED BY <2>3, <2>4, <2>8, <3>1
  <2> QED BY <2>3, <2>8, <2>9, <2>10
<1>11. \A g \in 1..N[n] : AgentsIn(v[n], g) # {}
  <2> DEFINE G == {k \in Nat : k <= n => \A g \in 1..N[k] : AgentsIn(v[k], g) # {}}
  <2>1. 0 \in G
    BY <1>1 DEF N, n, GroupsAfter, Unread
  <2>2. ASSUME NEW k \in Nat, k \in G PROVE k + 1 \in G
    <3> SUFFICES ASSUME k + 1 <= n, NEW g \in 1..N[k + 1] PROVE AgentsIn(v[k + 1], g) # {}
      OBVIOUS
    <3> DEFINE m == k + 1
    <3>1. m \in 1..n /\ m - 1 = k
      BY <1>1
    <3>0. g \in 1..N[m] /\ \A x \in 1..N[k] : AgentsIn(v[k], x) # {}
      BY <1>1, <2>2
    <3> HIDE DEF m, G
    <3> SUFFICES AgentsIn(v[m], g) # {}
      BY DEF m
    <3>2. N[k] \in Nat /\ N[m] \in Nat
      <4>1. 1 \in Nat \ {0}
        OBVIOUS
      <4> QED BY <1>7, <3>1, <4>1
    <3>3. g \in Nat \ {0}
      BY <3>0, <3>2
    <3>4. /\ N[k] \in Nat /\ N[m] \in Nat /\ N[k] <= N[m]
          /\ AgentsIn(v[m], g) = AgentsIn(v[k], g)
                  \cup (IF m \in Naming(lines) /\ N[m] = g THEN {lines[m].value} ELSE {})
                  \cup (IF m \in Ruling(lines) /\ N[k] = 0 /\ g = 1 THEN {<<Star>>} ELSE {})
          /\ N[m] > N[k] => N[m] = N[k] + 1 /\ (m \in Naming(lines) \/ (m \in Ruling(lines) /\ N[k] = 0))
      BY <1>7, <3>1, <3>3
    <3>5. CASE g \in 1..N[k]
      BY <3>0, <3>4, <3>5
    <3>6. CASE g \notin 1..N[k]
      <4>1. g = N[m] /\ N[m] = N[k] + 1
        BY <3>0, <3>3, <3>4, <3>6
      <4>2. m \in Naming(lines) \/ (m \in Ruling(lines) /\ N[k] = 0 /\ g = 1)
        BY <3>4, <4>1
      <4>3. CASE m \in Naming(lines)
        <5>1. lines[m].value \in AgentsIn(v[m], g)
          BY <3>4, <4>1, <4>3
        <5> QED BY <5>1
      <4>4. CASE m \in Ruling(lines) /\ N[k] = 0 /\ g = 1
        <5>1. <<Star>> \in AgentsIn(v[m], g)
          BY <3>4, <4>4
        <5> QED BY <5>1
      <4> QED BY <4>2, <4>3, <4>4
    <3> QED BY <3>5, <3>6
  <2>3. \A k \in Nat : k \in G
    <3> HIDE DEF G
    <3> QED BY <2>1, <2>2, ByNumber
  <2> QED BY <1>1, <2>3
<1>12. \A g \in 1..Len(groups) : g \in Nat \ {0} /\ g \in 1..N[n]
  BY <1>2
<1>13. ASSUME NEW g \in 1..Len(groups)
       PROVE  /\ ToSet(groups[g].agents) # {}
              /\ ToSet(groups[g].agents) = {lines[i].value : i \in {i \in Naming(lines) : N[i] = g}}
                   \cup (IF g = 1 /\ \E i \in Ruling(lines) : N[i - 1] = 0 THEN {<<Star>>} ELSE {})
              /\ ToSet(groups[g].rules) = {RuleOf(lines[i]) : i \in {i \in Telling(lines) : N[i] = g}}
              /\ (\A i \in Pausing(lines) : N[i] # g) => groups[g].delay = NoDelay
              /\ \A j \in Pausing(lines) : N[j] = g /\ (\A i \in Pausing(lines) : N[i] = g => i <= j)
                   => groups[g].delay = AtMost(lines[j].seconds, MaxDelay)
  <2>0. g \in Nat \ {0} /\ g \in 1..N[n]
    BY <1>12
  <2>1. ToSet(groups[g].agents) = AgentsIn(v[n], g) /\ ToSet(groups[g].rules) = RulesIn(v[n], g) /\ groups[g].delay = DelayIn(v[n], g)
    BY <1>6
  <2>2. ToSet(groups[g].agents) # {}
    BY <1>11, <2>0, <2>1
  <2>3. ToSet(groups[g].agents) = {lines[i].value : i \in {i \in Naming(lines) : N[i] = g}}
                   \cup (IF g = 1 /\ \E i \in Ruling(lines) : N[i - 1] = 0 THEN {<<Star>>} ELSE {})
    BY <1>8, <2>0, <2>1
  <2>4. ToSet(groups[g].rules) = {RuleOf(lines[i]) : i \in {i \in Telling(lines) : N[i] = g}}
    BY <1>9, <2>0, <2>1
  <2>5. /\ (\A i \in Pausing(lines) : N[i] # g) => groups[g].delay = NoDelay
        /\ \A j \in Pausing(lines) : N[j] = g /\ (\A i \in Pausing(lines) : N[i] = g => i <= j)
             => groups[g].delay = AtMost(lines[j].seconds, MaxDelay)
    BY <1>10, <2>0, <2>1
  <2> QED BY <2>2, <2>3, <2>4, <2>5
<1> QED BY <1>2, <1>13 DEF Holds, n, N, groups

\* A file as it is read: how its groups are counted, and what they hold.
FileRead(lines, groups, N, C) ==
  /\ Holds(lines, groups, N)
  /\ \A k \in 0..Len(lines) : CountedSoFar(Len(lines), Naming(lines), Ruling(lines), Delaying(lines), N, C, k)

\* Every file is read so.
LEMMA FileIsRead ==
  ASSUME NEW L, \A line \in L : IsLine(line), NEW lines \in Seq(L), MaxDelay \in Nat
  PROVE  \E N, C : FileRead(lines, Parse(lines), N, C)
<1>1. PICK v \in [0..Len(lines) -> Files] :
           /\ v[0] = Unread /\ \A k \in 1..Len(lines) : v[k] = ReadLine(v[k - 1], lines[k])
           /\ FoldLeft(ReadLine, Unread, lines) = v[Len(lines)]
  BY ReadWalk
<1>2. ReadThrough(lines, v)
  <2>1. ASSUME NEW k \in 1..Len(lines) PROVE Reads(v[k - 1], lines[k], v[k])
    <3>1. k - 1 \in 0..Len(lines) /\ lines[k] \in L
      OBVIOUS
    <3>2. v[k - 1] \in Files /\ IsLine(lines[k])
      BY <3>1
    <3> QED BY <1>1, <3>2, LineRead
  <2> QED BY <1>1, <2>1 DEF ReadThrough
<1>3. Parse(lines) = v[Len(lines)].groups
  BY <1>1 DEF Parse
<1>4. Holds(lines, Parse(lines), GroupsAfter(lines, v))
  BY <1>2, <1>3, GroupsHold
<1>5. Counting(Len(lines), Naming(lines), Ruling(lines), Delaying(lines), GroupsAfter(lines, v), CollectingAfter(lines, v))
  BY <1>2, GroupsCounted
<1>6. /\ Len(lines) \in Nat /\ Naming(lines) \in SUBSET (1..Len(lines)) /\ Ruling(lines) \in SUBSET (1..Len(lines))
      /\ Delaying(lines) \in SUBSET (1..Len(lines)) /\ \A k \in Naming(lines) : k \notin Ruling(lines) /\ k \notin Delaying(lines)
  BY DEF Naming, Ruling, Delaying, IsRule
<1>7. \A k \in 0..Len(lines) : CountedSoFar(Len(lines), Naming(lines), Ruling(lines), Delaying(lines),
                                            GroupsAfter(lines, v), CollectingAfter(lines, v), k)
  BY <1>5, <1>6, CountingHolds
<1>8. FileRead(lines, Parse(lines), GroupsAfter(lines, v), CollectingAfter(lines, v))
  BY <1>4, <1>7 DEF FileRead
<1> QED BY <1>8

-----------------------------------------------------------------------------
(* The group that speaks for us (GroupFor) *)

\* The count of groups, in the forms that are used below.
LEMMA Counts ==
  ASSUME NEW L, NEW lines \in Seq(L), NEW groups, NEW N, NEW C, FileRead(lines, groups, N, C)
  PROVE  LET A == Naming(lines)
             E == Ruling(lines) \cup Delaying(lines)
         IN  /\ \A k \in 0..Len(lines) : N[k] \in Nat
             /\ \A i, k \in 0..Len(lines) : i <= k => N[i] <= N[k]
             /\ \A i \in A \cup Ruling(lines) : N[i] >= 1
             /\ \A e \in E, a \in A : e < a => N[e] < N[a]
             /\ \A i \in A, j \in E : i < j => (N[j] = N[i] <=> OneGroup(A, E, i, j))
             /\ \A k \in 0..Len(lines) : (\A a \in A : ~(a <= k)) => N[k] <= 1
             /\ \A k \in 0..Len(lines) : N[k] > 0 => \E i \in A \cup Ruling(lines) : i <= k
<1> DEFINE n == Len(lines)
           A == Naming(lines)
           R == Ruling(lines)
           D == Delaying(lines)
           E == R \cup D
<1>1. n \in Nat /\ A \in SUBSET (1..n) /\ R \in SUBSET (1..n) /\ D \in SUBSET (1..n)
  BY DEF Naming, Ruling, Delaying
<1>2. \A k \in 0..n : CountedSoFar(n, A, R, D, N, C, k)
  BY DEF FileRead
<1> HIDE DEF n, A, R, D
<1>3. \A i \in A \cup E : i \in 0..n /\ i \in Nat
  BY <1>1
<1>4. \A k \in 0..n : N[k] \in Nat /\ \A i \in 0..k : N[i] <= N[k]
  BY <1>2 DEF CountedSoFar
<1>5. ASSUME NEW i \in 0..n, NEW k \in 0..n, i <= k PROVE N[i] <= N[k]
  <2>1. i \in 0..k
    BY <1>5
  <2> QED BY <1>4, <2>1
<1>6. ASSUME NEW i \in A \cup R PROVE N[i] >= 1
  BY <1>2, <1>3 DEF CountedSoFar
<1>7. ASSUME NEW e \in E, NEW a \in A, e < a PROVE N[e] < N[a]
  BY <1>2, <1>3, <1>7 DEF CountedSoFar
<1>8. ASSUME NEW i \in A, NEW j \in E, i < j PROVE N[j] = N[i] <=> OneGroup(A, E, i, j)
  <2>1. CountedSoFar(n, A, R, D, N, C, j)
    BY <1>2, <1>3
  <2>2. i <= j
    BY <1>3, <1>8
  <2> QED BY <2>1, <2>2 DEF CountedSoFar
<1>9. ASSUME NEW k \in 0..n PROVE /\ (\A a \in A : ~(a <= k)) => N[k] <= 1
                                  /\ N[k] > 0 => \E i \in A \cup R : i <= k
  BY <1>2 DEF CountedSoFar
<1> QED BY <1>4, <1>5, <1>6, <1>7, <1>8, <1>9 DEF n, A, R, D

\* The agents that speak to us: 0 is everyone's, of the rules before any agent.
Speakers(lines) ==
  {i \in Naming(lines) : Specificity(lines[i].value) >= 0} \cup
  (IF \E i \in Ruling(lines) : \A k \in Naming(lines) : i < k THEN {0} ELSE {})

\* How well each does.
Rank(lines, i) == IF i = 0 THEN 0 ELSE Specificity(lines[i].value)

\* Which of them we listen to: the first of those that speak to us best.
OursOf(lines) ==
  {i \in Speakers(lines) : \A k \in Speakers(lines) :
     Rank(lines, i) > Rank(lines, k) \/ (Rank(lines, i) = Rank(lines, k) /\ i <= k)}

\* The group that an agent is in.
PlaceOf(N, i) == IF i = 0 THEN 1 ELSE N[i]

\* Rules stand before any agent exactly when the first group was opened by one.
LEMMA OrphansAre ==
  ASSUME NEW L, NEW lines \in Seq(L), NEW groups, NEW N, NEW C, FileRead(lines, groups, N, C)
  PROVE  (\E i \in Ruling(lines) : N[i - 1] = 0) <=> \E i \in Ruling(lines) : \A k \in Naming(lines) : i < k
<1> DEFINE A == Naming(lines)
           R == Ruling(lines)
           n == Len(lines)
<1>1. n \in Nat /\ A \in SUBSET (1..n) /\ R \in SUBSET (1..n) /\ \A i \in A : i \notin R
  BY DEF Naming, Ruling, IsRule
<1>2. /\ \A k \in 0..n : N[k] \in Nat
      /\ \A i, k \in 0..n : i <= k => N[i] <= N[k]
      /\ \A i \in A \cup R : N[i] >= 1
      /\ \A k \in 0..n : N[k] > 0 => \E i \in A \cup R : i <= k
  BY Counts
<1> HIDE DEF A, R, n
<1>3. ASSUME NEW i \in R, N[i - 1] = 0, NEW k \in A PROVE i < k
  <2>1. i - 1 \in 0..n /\ k \in 0..n /\ N[k] >= 1 /\ i # k
    BY <1>1, <1>2
  <2>2. ~(k <= i - 1)
    BY <1>2, <1>3, <2>1
  <2> QED BY <1>1, <2>1, <2>2
<1>4. ASSUME NEW i \in R, \A k \in A : i < k PROVE \E r \in R : N[r - 1] = 0
  <2>1. PICK r \in R : \A s \in R : ~(s < r)
    <3>1. R # {} /\ R \subseteq Nat
      BY <1>1
    <3>2. \E r \in R : \A s \in R : r <= s
      BY <3>1, LeastNat
    <3> QED BY <1>1, <3>2
  <2>2. r - 1 \in 0..n /\ i \in Nat /\ r \in Nat
    BY <1>1
  <2>3. \A j \in A \cup R : j \in Nat
    BY <1>1
  <2>4. ASSUME NEW j \in A \cup R, j <= r - 1 PROVE FALSE
    <3>1. j < r /\ ~(i < r)
      BY <2>1, <2>2, <2>3, <2>4
    <3>2. CASE j \in R
      BY <2>1, <3>1, <3>2
    <3>3. CASE j \in A
      <4>1. i < j
        BY <1>4, <3>3
      <4>2. r <= i
        BY <2>1, <2>2
      <4> QED BY <2>1, <2>2, <2>3, <3>1, <4>1
    <3> QED BY <3>2, <3>3
  <2>5. ~(N[r - 1] > 0) /\ N[r - 1] \in Nat
    BY <1>2, <2>2, <2>4
  <2>6. N[r - 1] = 0
    BY <2>5
  <2> QED BY <2>6
<1> QED BY <1>3, <1>4 DEF A, R

\* Where an agent stands is a group, and later agents stand no earlier.
LEMMA SpeakersStand ==
  ASSUME NEW L, \A line \in L : IsLine(line), NEW lines \in Seq(L), NEW groups, NEW N, NEW C, FileRead(lines, groups, N, C)
  PROVE  /\ Speakers(lines) \in SUBSET (0..Len(lines))
         /\ \A i \in Speakers(lines) : PlaceOf(N, i) \in 1..Len(groups) /\ Rank(lines, i) \in Nat
         /\ \A i, k \in Speakers(lines) : i <= k => PlaceOf(N, i) <= PlaceOf(N, k)
<1> DEFINE A == Naming(lines)
           R == Ruling(lines)
           n == Len(lines)
<1>1. n \in Nat /\ A \in SUBSET (1..n) /\ R \in SUBSET (1..n)
  BY DEF Naming, Ruling
<1>2. /\ \A k \in 0..n : N[k] \in Nat
      /\ \A i, k \in 0..n : i <= k => N[i] <= N[k]
      /\ \A i \in A \cup R : N[i] >= 1
  BY Counts
<1>3. Len(groups) = N[n]
  BY DEF FileRead, Holds
<1> HIDE DEF n
<1>4. ASSUME NEW i \in Speakers(lines)
      PROVE  i = 0 \/ (i \in A /\ i # 0 /\ Specificity(lines[i].value) >= 0)
  BY <1>1 DEF Speakers
<1>5. 0 \in Speakers(lines) => R # {}
  BY <1>1 DEF Speakers
<1> HIDE DEF A, R
<1>6. Speakers(lines) \in SUBSET (0..n)
  <2>1. 0 \in 0..n /\ \A i \in A : i \in 0..n
    BY <1>1
  <2> QED BY <1>4, <2>1
<1>7. ASSUME NEW i \in Speakers(lines) PROVE PlaceOf(N, i) \in 1..Len(groups) /\ Rank(lines, i) \in Nat
  <2>1. CASE i = 0
    <3>1. PICK r \in R : TRUE
      BY <1>5, <2>1
    <3>2. r \in 0..n /\ n \in 0..n /\ r <= n
      BY <1>1
    <3>3. 1 <= N[n] /\ N[n] \in Nat
      BY <1>2, <3>2
    <3> QED BY <1>3, <2>1, <3>3 DEF PlaceOf, Rank
  <2>2. CASE i # 0
    <3>1. i \in A /\ Specificity(lines[i].value) >= 0
      BY <1>4, <2>2
    <3>2. i \in 0..n /\ n \in 0..n /\ i <= n /\ i \in 1..n
      BY <1>1, <3>1
    <3>3. 1 <= N[i] /\ N[i] <= N[n] /\ N[n] \in Nat /\ N[i] \in Nat
      BY <1>2, <3>1, <3>2
    <3>4. Specificity(lines[i].value) \in Nat
      <4>1. lines[i].value \in Seq(Signs)
        <5>1. lines[i] \in L
          BY <3>2 DEF n
        <5> QED BY <5>1 DEF IsLine
      <4>2. Len(lines[i].value) \in Nat
        BY <4>1
      <4> QED BY <3>1, <4>2 DEF Specificity
    <3> QED BY <1>3, <2>2, <3>3, <3>4 DEF PlaceOf, Rank
  <2> QED BY <2>1, <2>2
<1>8. ASSUME NEW i \in Speakers(lines), NEW k \in Speakers(lines), i <= k PROVE PlaceOf(N, i) <= PlaceOf(N, k)
  <2>1. i \in 0..n /\ k \in 0..n
    BY <1>6
  <2>2. CASE i = 0
    <3>1. PlaceOf(N, i) = 1 /\ PlaceOf(N, k) \in 1..Len(groups)
      BY <1>7, <2>2 DEF PlaceOf
    <3> QED BY <3>1
  <2>3. CASE i # 0
    <3>1. k # 0
      BY <1>8, <2>1, <2>3
    <3> QED BY <1>2, <1>8, <2>1, <2>3, <3>1 DEF PlaceOf
  <2> QED BY <2>2, <2>3
<1> QED BY <1>6, <1>7, <1>8 DEF n

\* What a group claims is the best rank of those in it that speak to us.
LEMMA ClaimIs ==
  ASSUME NEW L, \A line \in L : IsLine(line), NEW lines \in Seq(L), NEW groups, NEW N, NEW C, FileRead(lines, groups, N, C),
         NEW g \in 1..Len(groups)
  PROVE  /\ Claim(groups[g]) \in Int
         /\ \A i \in Speakers(lines) : PlaceOf(N, i) = g => Rank(lines, i) <= Claim(groups[g])
         /\ Claim(groups[g]) >= 0 => \E i \in Speakers(lines) : PlaceOf(N, i) = g /\ Rank(lines, i) = Claim(groups[g])
<1> DEFINE group == groups[g]
           claims == {Specificity(group.agents[i]) : i \in DOMAIN group.agents}
           m == Len(group.agents)
           f == [i \in 1..m |-> Specificity(group.agents[i])]
<1>1. group \in Groups /\ groups \in Seq(Groups)
  BY DEF FileRead, Holds
<1>2. group.agents \in Seq(Seq(Signs)) /\ m \in Nat /\ DOMAIN group.agents = 1..m
  BY <1>1 DEF Groups
<1>3. ASSUME NEW agent \in Seq(Signs) PROVE Specificity(agent) \in Int
  <2>1. Len(agent) \in Nat
    OBVIOUS
  <2> QED BY <2>1 DEF Specificity
<1>4. ToSet(group.agents) = {group.agents[i] : i \in 1..m} /\ ToSet(group.agents) # {}
  BY <1>2 DEF FileRead, Holds, ToSet
<1>5. \A a \in ToSet(group.agents) : \E i \in Speakers(lines) \cup {-1} :
         IF i = -1 THEN Specificity(a) < 0 ELSE PlaceOf(N, i) = g /\ Rank(lines, i) = Specificity(a)
  <2> SUFFICES ASSUME NEW a \in ToSet(group.agents), ~(Specificity(a) < 0)
               PROVE  \E i \in Speakers(lines) : PlaceOf(N, i) = g /\ Rank(lines, i) = Specificity(a) /\ i # -1
    OBVIOUS
  <2>0. Specificity(a) >= 0
    <3>1. a \in Seq(Signs)
      BY <1>2, <1>4
    <3> QED BY <1>3, <3>1
  <2>1. a \in {lines[i].value : i \in {i \in Naming(lines) : N[i] = g}}
          \/ (a = <<Star>> /\ g = 1 /\ \E i \in Ruling(lines) : N[i - 1] = 0)
    BY DEF FileRead, Holds
  <2>2. CASE a \in {lines[i].value : i \in {i \in Naming(lines) : N[i] = g}}
    <3>1. PICK i \in Naming(lines) : N[i] = g /\ a = lines[i].value
      BY <2>2
    <3>2. i # 0 /\ i # -1 /\ i \in Speakers(lines)
      BY <2>0, <3>1 DEF Speakers, Naming
    <3> QED BY <3>1, <3>2 DEF PlaceOf, Rank
  <2>3. CASE a = <<Star>> /\ g = 1 /\ \E i \in Ruling(lines) : N[i - 1] = 0
    <3>1. \E i \in Ruling(lines) : \A k \in Naming(lines) : i < k
      BY <2>3, OrphansAre
    <3>2. 0 \in Speakers(lines)
      BY <3>1 DEF Speakers
    <3>3. Specificity(a) = 0
      BY <2>3 DEF Specificity
    <3> QED BY <2>3, <3>2, <3>3 DEF PlaceOf, Rank
  <2> QED BY <2>1, <2>2, <2>3
<1>6. ASSUME NEW i \in Speakers(lines), PlaceOf(N, i) = g
      PROVE  \E a \in ToSet(group.agents) : Rank(lines, i) = Specificity(a)
  <2>1. CASE i = 0
    <3>1. g = 1 /\ \E r \in Ruling(lines) : \A k \in Naming(lines) : r < k
      BY <1>6, <2>1 DEF PlaceOf, Speakers, Naming
    <3>2. \E r \in Ruling(lines) : N[r - 1] = 0
      BY <3>1, OrphansAre
    <3>3. <<Star>> \in ToSet(group.agents)
      BY <3>1, <3>2 DEF FileRead, Holds
    <3> QED BY <2>1, <3>3 DEF Rank, Specificity
  <2>2. CASE i # 0
    <3>1. i \in Naming(lines) /\ N[i] = g
      BY <1>6, <2>2 DEF PlaceOf, Speakers
    <3>2. {lines[k].value : k \in {k \in Naming(lines) : N[k] = g}} \subseteq ToSet(group.agents)
      BY DEF FileRead, Holds
    <3>3. lines[i].value \in ToSet(group.agents)
      <4> HIDE DEF group
      <4> QED BY <3>1, <3>2
    <3> QED BY <2>2, <3>3 DEF Rank
  <2> QED BY <2>1, <2>2
<1>7. PICK best \in 1..m : \A j \in 1..m : f[best] > f[j] \/ (f[best] = f[j] /\ best <= j)
  <2>1. 1..m \in SUBSET (0..m) /\ 1..m # {}
    <3>1. 1..m # {}
      BY <1>4
    <3>2. m \in Nat
      BY <1>2
    <3> HIDE DEF m
    <3> QED BY <3>1, <3>2
  <2>2. \A i \in 1..m : f[i] \in Int
    BY <1>2, <1>3
  <2> HIDE DEF f, m
  <2> QED BY <1>2, <2>1, <2>2, FirstGreatest
<1>8. \A i \in 1..m : f[i] \in Int /\ f[i] = Specificity(group.agents[i])
  BY <1>2, <1>3
<1>9. claims = {f[i] : i \in 1..m}
  BY <1>2
<1> HIDE DEF f, claims
<1>10. f[best] \in claims /\ \A c \in claims : c <= f[best] /\ c \in Int
  BY <1>7, <1>8, <1>9
<1>11. Claim(group) = CHOOSE c \in claims : \A d \in claims : d <= c
  BY DEF Claim, claims
<1>12. Claim(group) \in claims /\ \A d \in claims : d <= Claim(group)
  BY <1>10, <1>11
<1>13. claims = {Specificity(a) : a \in ToSet(group.agents)}
  BY <1>4, <1>8, <1>9
<1>14. Claim(group) \in Int
  BY <1>10, <1>12
<1>15. ASSUME Claim(group) >= 0 PROVE \E i \in Speakers(lines) : PlaceOf(N, i) = g /\ Rank(lines, i) = Claim(group)
  <2>1. PICK a \in ToSet(group.agents) : Claim(group) = Specificity(a)
    BY <1>12, <1>13
  <2>2. ~(Specificity(a) < 0)
    BY <1>14, <1>15, <2>1
  <2> QED BY <1>5, <2>1, <2>2
<1>16. ASSUME NEW i \in Speakers(lines), PlaceOf(N, i) = g PROVE Rank(lines, i) <= Claim(group)
  <2>1. Rank(lines, i) \in claims
    BY <1>6, <1>13, <1>16
  <2> QED BY <1>12, <2>1
<1> QED BY <1>14, <1>15, <1>16

\* The group that speaks for us is that of the agent we listen to.
LEMMA GroupForIs ==
  ASSUME NEW L, \A line \in L : IsLine(line), NEW lines \in Seq(L), NEW groups, NEW N, NEW C, FileRead(lines, groups, N, C)
  PROVE  /\ OursOf(lines) = {} => GroupFor(groups) = {}
         /\ \A i \in OursOf(lines) : GroupFor(groups) = {PlaceOf(N, i)}
<1> DEFINE claiming == {g \in DOMAIN groups : Claim(groups[g]) >= 0}
           Before(g, h) == Claim(groups[h]) < Claim(groups[g]) \/ (Claim(groups[h]) = Claim(groups[g]) /\ g <= h)
<1>1. groups \in Seq(Groups) /\ DOMAIN groups = 1..Len(groups) /\ Len(groups) \in Nat
  BY DEF FileRead, Holds
<1>2. GroupFor(groups) = {g \in claiming : \A h \in claiming : Before(g, h)}
  BY DEF GroupFor
<1>3. \A g \in claiming : g \in 1..Len(groups) /\ g \in Nat /\ Claim(groups[g]) >= 0
  BY <1>1
<1>4. \A g \in 1..Len(groups) :
         /\ Claim(groups[g]) \in Int
         /\ \A i \in Speakers(lines) : PlaceOf(N, i) = g => Rank(lines, i) <= Claim(groups[g])
         /\ Claim(groups[g]) >= 0 => \E i \in Speakers(lines) : PlaceOf(N, i) = g /\ Rank(lines, i) = Claim(groups[g])
  BY ClaimIs
<1>5. /\ Speakers(lines) \in SUBSET (0..Len(lines))
      /\ \A i \in Speakers(lines) : PlaceOf(N, i) \in 1..Len(groups) /\ Rank(lines, i) \in Nat
      /\ \A i, k \in Speakers(lines) : i <= k => PlaceOf(N, i) <= PlaceOf(N, k)
  BY SpeakersStand
<1>6. ASSUME OursOf(lines) = {} PROVE GroupFor(groups) = {}
  <2> DEFINE f == [i \in 0..Len(lines) |-> Rank(lines, i)]
  <2>1. ASSUME Speakers(lines) # {} PROVE FALSE
    <3>0. Len(lines) \in Nat /\ \A i \in Speakers(lines) : f[i] \in Int /\ f[i] = Rank(lines, i)
      BY <1>5
    <3> HIDE DEF f
    <3>1. PICK i \in Speakers(lines) : \A j \in Speakers(lines) : f[i] > f[j] \/ (f[i] = f[j] /\ i <= j)
      BY <1>5, <2>1, <3>0, FirstGreatest
    <3>2. i \in OursOf(lines)
      BY <3>0, <3>1 DEF OursOf
    <3> QED BY <1>6, <3>2
  <2>2. claiming = {}
    <3> SUFFICES ASSUME NEW g \in claiming PROVE FALSE
      OBVIOUS
    <3> HIDE DEF claiming
    <3> QED BY <1>3, <1>4, <2>1
  <2> HIDE DEF claiming, Before
  <2> QED BY <1>2, <2>2
<1>7. ASSUME NEW i \in OursOf(lines) PROVE GroupFor(groups) = {PlaceOf(N, i)}
  <2> DEFINE p == PlaceOf(N, i)
  <2>1. i \in Speakers(lines) /\ \A k \in Speakers(lines) : Rank(lines, i) > Rank(lines, k) \/ (Rank(lines, i) = Rank(lines, k) /\ i <= k)
    BY DEF OursOf
  <2>2. p \in 1..Len(groups) /\ Rank(lines, i) \in Nat /\ p \in Nat
    BY <1>5, <2>1
  <2>3. Claim(groups[p]) = Rank(lines, i)
    <3>1. Rank(lines, i) <= Claim(groups[p]) /\ Claim(groups[p]) \in Int
      BY <1>4, <2>1, <2>2
    <3>2. Claim(groups[p]) >= 0
      BY <2>2, <3>1
    <3>3. PICK k \in Speakers(lines) : Rank(lines, k) = Claim(groups[p])
      BY <1>4, <2>2, <3>2
    <3>4. Rank(lines, k) <= Rank(lines, i)
      BY <1>5, <2>1, <2>2
    <3> QED BY <2>2, <3>1, <3>3, <3>4
  <2>4. p \in claiming
    BY <1>1, <2>2, <2>3
  <2> HIDE DEF claiming, p
  <2>5. ASSUME NEW h \in claiming PROVE Before(p, h)
    <3>1. PICK k \in Speakers(lines) : PlaceOf(N, k) = h /\ Rank(lines, k) = Claim(groups[h])
      BY <1>3, <1>4
    <3>2. CASE Rank(lines, i) > Rank(lines, k)
      BY <1>5, <2>2, <2>3, <3>1, <3>2
    <3>3. CASE Rank(lines, i) = Rank(lines, k) /\ i <= k
      <4>1. p <= h
        BY <1>5, <2>1, <3>1, <3>3 DEF p
      <4> QED BY <2>3, <3>1, <3>3, <4>1
    <3> QED BY <2>1, <3>2, <3>3
  <2>6. ASSUME NEW g \in GroupFor(groups) PROVE g = p
    <3>1. g \in claiming /\ Before(g, p)
      BY <1>2, <2>4
    <3>2. Before(p, g)
      BY <2>5, <3>1
    <3>3. g \in Nat /\ Claim(groups[g]) \in Int /\ Claim(groups[p]) \in Int
      BY <1>3, <1>4, <2>2, <3>1
    <3> QED BY <2>2, <3>1, <3>2, <3>3
  <2>7. p \in GroupFor(groups)
    BY <1>2, <2>4, <2>5
  <2> QED BY <2>6, <2>7 DEF p
<1> QED BY <1>6, <1>7

\* Whether a line is in the group that an agent's line is in.
Leads(lines, i, j) ==
  /\ i < j
  /\ \A k \in Naming(lines) :
       i < k /\ k < j => (Ruling(lines) \cup Delaying(lines)) \cap (i + 1)..(k - 1) = {} /\ i # 0

\* The lines of a group are those that its agents lead.
LEMMA LeadsIs ==
  ASSUME NEW L, \A line \in L : IsLine(line), NEW lines \in Seq(L), NEW groups, NEW N, NEW C, FileRead(lines, groups, N, C),
         NEW i \in Speakers(lines), NEW j \in Ruling(lines) \cup Delaying(lines)
  PROVE  N[j] = PlaceOf(N, i) <=> Leads(lines, i, j) /\ (i = 0 /\ j \notin Ruling(lines) => \E r \in Ruling(lines) : r < j)
<1> DEFINE A == Naming(lines)
           R == Ruling(lines)
           E == R \cup Delaying(lines)
           n == Len(lines)
<1>1. n \in Nat /\ A \in SUBSET (1..n) /\ R \in SUBSET (1..n) /\ E \in SUBSET (1..n) /\ \A k \in A : k \notin E
  BY DEF Naming, Ruling, Delaying, IsRule
<1>2. /\ \A k \in 0..n : N[k] \in Nat
      /\ \A h, k \in 0..n : h <= k => N[h] <= N[k]
      /\ \A k \in A \cup R : N[k] >= 1
      /\ \A e \in E, a \in A : e < a => N[e] < N[a]
      /\ \A a \in A, e \in E : a < e => (N[e] = N[a] <=> OneGroup(A, E, a, e))
      /\ \A k \in 0..n : (\A a \in A : ~(a <= k)) => N[k] <= 1
      /\ \A k \in 0..n : N[k] > 0 => \E h \in A \cup R : h <= k
  BY Counts
<1>3. /\ i = 0 => \E r \in R : \A k \in A : r < k
      /\ i # 0 => i \in A
  BY <1>1 DEF Speakers
<1>4. Leads(lines, i, j) <=> i < j /\ \A k \in A : i < k /\ k < j => E \cap (i + 1)..(k - 1) = {} /\ i # 0
  BY DEF Leads
<1>5. j \in E
  OBVIOUS
<1> HIDE DEF A, R, E, n
<1>6. \A k \in A \cup E : k \in Nat /\ k > 0 /\ k \in 0..n
  BY <1>1
<1>7. CASE i = 0
  <2>1. Leads(lines, i, j) <=> \A k \in A : ~(k < j)
    BY <1>4, <1>5, <1>6, <1>7
  <2>2. PICK r \in R : \A k \in A : r < k
    BY <1>3, <1>7
  <2>3. r \in E /\ r \in 0..n /\ N[r] >= 1 /\ j \in 0..n
    BY <1>1, <1>2, <1>5, <1>6 DEF E
  <2>4. ASSUME N[j] = 1 PROVE (\A k \in A : ~(k < j)) /\ (j \notin R => \E s \in R : s < j)
    <3>1. ASSUME NEW k \in A, k < j PROVE FALSE
      <4>1. r < k /\ N[r] < N[k]
        BY <1>2, <2>2, <2>3
      <4>2. N[k] <= N[j]
        BY <1>2, <1>5, <1>6, <3>1
      <4> QED BY <1>2, <1>5, <1>6, <2>3, <2>4, <4>1, <4>2
    <3>2. PICK h \in A \cup R : h <= j
      BY <1>2, <2>3, <2>4
    <3>3. ASSUME j \notin R PROVE h \in R /\ h < j
      <4>1. h # j
        BY <1>1, <1>5, <3>2, <3>3
      <4>2. h < j
        BY <1>1, <1>6, <1>5, <3>2, <4>1
      <4> QED BY <3>1, <3>2, <4>2
    <3> QED BY <3>1, <3>3
  <2>5. ASSUME \A k \in A : ~(k < j), j \notin R => \E s \in R : s < j PROVE N[j] = 1
    <3>1. \A k \in A : ~(k <= j)
      BY <1>1, <1>5, <1>6, <2>5
    <3>2. N[j] <= 1 /\ N[j] \in Nat
      BY <1>2, <2>3, <3>1
    <3>3. N[j] >= 1
      <4>1. CASE j \in R
        BY <1>2, <4>1
      <4>2. CASE j \notin R
        <5>1. PICK s \in R : s < j
          BY <2>5, <4>2
        <5>2. s \in 0..n /\ N[s] >= 1 /\ s <= j
          BY <1>1, <1>2, <2>3, <5>1
        <5> QED BY <1>2, <2>3, <5>2
      <4> QED BY <4>1, <4>2
    <3> QED BY <3>2, <3>3
  <2>6. PlaceOf(N, i) = 1
    BY <1>7 DEF PlaceOf
  <2> QED BY <1>7, <2>1, <2>4, <2>5, <2>6 DEF R
<1>8. CASE i # 0
  <2>1. i \in A /\ PlaceOf(N, i) = N[i] /\ i \in Nat /\ j \in Nat /\ i # j
    BY <1>1, <1>3, <1>5, <1>6, <1>8 DEF PlaceOf
  <2>2. CASE j < i
    <3>1. N[j] < N[i] /\ N[j] \in Nat /\ N[i] \in Nat
      BY <1>2, <1>5, <1>6, <2>1, <2>2
    <3>2. ~Leads(lines, i, j)
      BY <1>4, <2>1, <2>2
    <3> QED BY <2>1, <3>1, <3>2
  <2>3. CASE i < j
    <3>1. N[j] = N[i] <=> OneGroup(A, E, i, j)
      BY <1>2, <1>5, <2>1, <2>3
    <3>2. ASSUME NEW k \in A, i < k, k < j PROVE Unended(E, i, k - 1) <=> E \cap (i + 1)..(k - 1) = {}
      <4>1. \A e \in E : (i < e /\ e <= k - 1) <=> e \in (i + 1)..(k - 1)
        <5>1. k \in Nat /\ \A e \in E : e \in Nat
          BY <1>6
        <5> QED BY <2>1, <5>1
      <4> QED BY <4>1 DEF Unended
    <3>3. \A k \in A : k <= j <=> k < j
      BY <1>1, <1>5, <1>6
    <3>4. OneGroup(A, E, i, j) <=> \A k \in A : i < k /\ k < j => E \cap (i + 1)..(k - 1) = {}
      BY <3>2, <3>3 DEF OneGroup
    <3> QED BY <1>4, <1>8, <2>1, <2>3, <3>1, <3>4
  <2> QED BY <2>1, <2>2, <2>3
<1> QED BY <1>7, <1>8

-----------------------------------------------------------------------------
(* The longest rule decides, and the last delay holds *)

\* A rule or a delay is led by an agent we listen to exactly when it is in the
\* group that speaks for us.
LEMMA LedByOurs ==
  ASSUME NEW L, \A line \in L : IsLine(line), NEW lines \in Seq(L), NEW groups, NEW N, NEW C, FileRead(lines, groups, N, C),
         NEW j \in Ruling(lines) \cup Delaying(lines)
  PROVE  N[j] \in GroupFor(groups)
           <=> \E i \in OursOf(lines) : Leads(lines, i, j) /\ (i = 0 /\ j \notin Ruling(lines) => \E r \in Ruling(lines) : r < j)
<1>1. /\ OursOf(lines) = {} => GroupFor(groups) = {}
      /\ \A i \in OursOf(lines) : GroupFor(groups) = {PlaceOf(N, i)}
  BY GroupForIs
<1>2. ASSUME NEW i \in OursOf(lines)
      PROVE  N[j] = PlaceOf(N, i) <=> Leads(lines, i, j) /\ (i = 0 /\ j \notin Ruling(lines) => \E r \in Ruling(lines) : r < j)
  <2>1. i \in Speakers(lines)
    BY DEF OursOf
  <2> QED BY <2>1, LeadsIs
<1> QED BY <1>1, <1>2

\* The groups that speak for us are groups of the file.
LEMMA GroupForStands ==
  ASSUME NEW L, \A line \in L : IsLine(line), NEW lines \in Seq(L), NEW groups, NEW N, NEW C, FileRead(lines, groups, N, C)
  PROVE  GroupFor(groups) \subseteq 1..Len(groups)
<1>1. groups \in Seq(Groups)
  BY DEF FileRead, Holds
<1> QED BY <1>1 DEF GroupFor

\* The rules of a file that apply to a path.
Applying(lines, path) ==
  {j \in Ruling(lines) : /\ \E i \in OursOf(lines) : Leads(lines, i, j)
                         /\ lines[j].field = "allow" \/ lines[j].value # <<>>
                         /\ Stands(lines[j].value, path)}

\* The longest of some rules.
LongestOf(lines, S) == {j \in S : \A k \in S : Len(lines[k].value) <= Len(lines[j].value)}

\* There is always a longest.
LEMMA LongestStands ==
  ASSUME NEW lines, NEW n \in Nat, NEW S \in SUBSET (0..n), S # {}, \A j \in S : Len(lines[j].value) \in Nat
  PROVE  LongestOf(lines, S) # {}
<1> DEFINE f == [j \in 0..n |-> Len(lines[j].value)]
<1>1. \A j \in S : f[j] \in Int /\ f[j] = Len(lines[j].value)
  OBVIOUS
<1> HIDE DEF f
<1>2. PICK i \in S : \A j \in S : f[i] > f[j] \/ (f[i] = f[j] /\ i <= j)
  BY <1>1, FirstGreatest
<1>3. i \in LongestOf(lines, S)
  BY <1>1, <1>2 DEF LongestOf
<1> QED BY <1>3

\* The rules that match are those of the lines that apply.
LEMMA MatchingIs ==
  ASSUME NEW L, \A line \in L : IsLine(line), NEW lines \in Seq(L), MaxDelay \in Nat, NEW path \in Seq(Signs)
  PROVE  {rule \in UNION {ToSet(Parse(lines)[g].rules) : g \in GroupFor(Parse(lines))} : GlobMatch(rule.pattern, path)}
           = {RuleOf(lines[j]) : j \in Applying(lines, path)}
<1> DEFINE groups == Parse(lines)
           GF == GroupFor(groups)
           rules == UNION {ToSet(groups[g].rules) : g \in GF}
<1>1. PICK N, C : FileRead(lines, groups, N, C)
  BY FileIsRead
<1> HIDE DEF groups
<1>2. GF \subseteq 1..Len(groups)
  BY <1>1, GroupForStands
<1>3. ASSUME NEW j \in Ruling(lines) PROVE N[j] \in GF <=> \E i \in OursOf(lines) : Leads(lines, i, j)
  BY <1>1, LedByOurs
<1>4. ASSUME NEW g \in GF PROVE ToSet(groups[g].rules) = {RuleOf(lines[i]) : i \in {i \in Telling(lines) : N[i] = g}}
  BY <1>1, <1>2 DEF FileRead, Holds
<1>5. rules = {RuleOf(lines[j]) : j \in {j \in Telling(lines) : N[j] \in GF}}
  <2> HIDE DEF GF
  <2>1. ASSUME NEW rule \in rules PROVE \E j \in Telling(lines) : N[j] \in GF /\ rule = RuleOf(lines[j])
    <3>1. PICK g \in GF : rule \in ToSet(groups[g].rules)
      OBVIOUS
    <3> QED BY <1>4, <3>1
  <2>2. ASSUME NEW j \in Telling(lines), N[j] \in GF PROVE RuleOf(lines[j]) \in rules
    <3>1. RuleOf(lines[j]) \in ToSet(groups[N[j]].rules)
      BY <1>4, <2>2
    <3> QED BY <2>2, <3>1
  <2> HIDE DEF rules
  <2> QED BY <2>1, <2>2
<1>6. ASSUME NEW j \in Telling(lines)
      PROVE  GlobMatch(RuleOf(lines[j]).pattern, path) <=> Stands(lines[j].value, path)
  <2>1. lines[j].value \in Seq(Signs)
    <3>1. lines[j] \in L
      BY DEF Telling, Ruling
    <3> QED BY <3>1 DEF IsLine
  <2>2. RuleOf(lines[j]).pattern = lines[j].value
    BY DEF RuleOf
  <2> QED BY <2>1, <2>2, GlobMatchIs
<1>7. ASSUME NEW j PROVE j \in Applying(lines, path) <=> j \in Telling(lines) /\ N[j] \in GF /\ Stands(lines[j].value, path)
  <2> HIDE DEF GF
  <2> QED BY <1>3 DEF Applying, Telling
<1> HIDE DEF rules, GF
<1>8. ASSUME NEW rule PROVE rule \in rules /\ GlobMatch(rule.pattern, path) <=> \E j \in Applying(lines, path) : rule = RuleOf(lines[j])
  <2>1. rule \in rules <=> \E j \in Telling(lines) : N[j] \in GF /\ rule = RuleOf(lines[j])
    BY <1>5
  <2> QED BY <1>6, <1>7, <2>1
<1>9. {rule \in rules : GlobMatch(rule.pattern, path)} = {RuleOf(lines[j]) : j \in Applying(lines, path)}
  BY <1>8
<1> QED BY <1>9 DEF rules, GF, groups

\* Of the rules that apply the longest decides, Allow before Disallow.
LEMMA LongestDecides ==
  ASSUME NEW L, \A line \in L : IsLine(line), NEW lines \in Seq(L), MaxDelay \in Nat, NEW path \in Seq(Signs)
  PROVE  Allows(Parse(lines), path)
           <=> \/ LongestOf(lines, Applying(lines, path)) = {}
               \/ \E j \in LongestOf(lines, Applying(lines, path)) : lines[j].field = "allow"
<1> DEFINE S == Applying(lines, path)
           M == {RuleOf(lines[j]) : j \in S}
           n == Len(lines)
<1>1. Allows(Parse(lines), path) <=> M = {} \/ \E rule \in M : rule.allow /\ \A other \in M : Outranks(rule, other)
  <2> HIDE DEF M
  <2>1. {rule \in UNION {ToSet(Parse(lines)[g].rules) : g \in GroupFor(Parse(lines))} : GlobMatch(rule.pattern, path)} = M
    BY MatchingIs DEF M
  <2> QED BY <2>1 DEF Allows
<1>2. ASSUME NEW j \in S
      PROVE  /\ RuleOf(lines[j]).allow = (lines[j].field = "allow") /\ RuleOf(lines[j]).pattern = lines[j].value
             /\ Len(lines[j].value) \in Nat /\ j \in 1..n
  <2>1. j \in 1..n /\ lines[j] \in L
    BY DEF Applying, Ruling
  <2>2. lines[j].value \in Seq(Signs)
    BY <2>1 DEF IsLine
  <2> QED BY <2>1, <2>2 DEF RuleOf
<1> HIDE DEF S
<1>3. ASSUME NEW j \in S, NEW k \in S
      PROVE  RuleOf(lines[j]).allow => (Outranks(RuleOf(lines[j]), RuleOf(lines[k])) <=> Len(lines[k].value) <= Len(lines[j].value))
  <2>1. /\ RuleOf(lines[j]).pattern = lines[j].value /\ RuleOf(lines[k]).pattern = lines[k].value
        /\ Len(lines[j].value) \in Nat /\ Len(lines[k].value) \in Nat
    BY <1>2
  <2> QED BY <2>1 DEF Outranks
<1>4. (\E rule \in M : rule.allow /\ \A other \in M : Outranks(rule, other))
        <=> \E j \in LongestOf(lines, S) : lines[j].field = "allow"
  <2>1. ASSUME NEW j \in S, RuleOf(lines[j]).allow, \A k \in S : Outranks(RuleOf(lines[j]), RuleOf(lines[k]))
        PROVE  j \in LongestOf(lines, S) /\ lines[j].field = "allow"
    BY <1>2, <1>3, <2>1 DEF LongestOf
  <2>2. ASSUME NEW j \in LongestOf(lines, S), lines[j].field = "allow"
        PROVE  j \in S /\ RuleOf(lines[j]).allow /\ \A k \in S : Outranks(RuleOf(lines[j]), RuleOf(lines[k]))
    <3>1. j \in S /\ \A k \in S : Len(lines[k].value) <= Len(lines[j].value)
      BY DEF LongestOf
    <3> QED BY <1>2, <1>3, <2>2, <3>1
  <2>3. ASSUME NEW rule \in M PROVE \E j \in S : rule = RuleOf(lines[j])
    OBVIOUS
  <2>4. \A j \in S : RuleOf(lines[j]) \in M
    OBVIOUS
  <2> HIDE DEF M
  <2> QED BY <2>1, <2>2, <2>3, <2>4
<1>5. M = {} <=> LongestOf(lines, S) = {}
  <2>1. M = {} <=> S = {}
    OBVIOUS
  <2>2. ASSUME S # {} PROVE LongestOf(lines, S) # {}
    <3>1. n \in Nat /\ S \in SUBSET (0..n) /\ \A j \in S : Len(lines[j].value) \in Nat
      BY <1>2
    <3> QED BY <2>2, <3>1, LongestStands
  <2>3. S = {} => LongestOf(lines, S) = {}
    BY DEF LongestOf
  <2> QED BY <2>1, <2>2, <2>3
<1> QED BY <1>1, <1>4, <1>5 DEF S

\* The delays that are asked of us.
Asked(lines) ==
  {j \in Pausing(lines) : \E i \in OursOf(lines) : Leads(lines, i, j) /\ (i = 0 => \E r \in Ruling(lines) : r < j)}

\* The last of them is what we wait.
LEMMA LastDelayHolds ==
  ASSUME NEW L, \A line \in L : IsLine(line), NEW lines \in Seq(L), MaxDelay \in Nat
  PROVE  CrawlDelay(Parse(lines)) = {AtMost(lines[j].seconds, MaxDelay) : j \in {j \in Asked(lines) : \A k \in Asked(lines) : k <= j}}
<1> DEFINE groups == Parse(lines)
           GF == GroupFor(groups)
           S == Asked(lines)
           n == Len(lines)
<1>1. PICK N, C : FileRead(lines, groups, N, C)
  BY FileIsRead
<1> HIDE DEF groups
<1>2. GF \subseteq 1..Len(groups)
  BY <1>1, GroupForStands
<1>3. \A j \in Pausing(lines) : j \in Delaying(lines) /\ j \notin Ruling(lines) /\ j \in 1..n /\ lines[j].seconds >= 0
  BY DEF Pausing, Delaying, Ruling, IsRule
<1>4. ASSUME NEW j PROVE j \in S <=> j \in Pausing(lines) /\ N[j] \in GF
  <2>1. ASSUME j \in Pausing(lines)
        PROVE  N[j] \in GF <=> \E i \in OursOf(lines) : Leads(lines, i, j) /\ (i = 0 => \E r \in Ruling(lines) : r < j)
    BY <1>1, <1>3, <2>1, LedByOurs
  <2> QED BY <2>1 DEF Asked
<1>5. GF = {} \/ \E g : GF = {g}
  <2>1. /\ OursOf(lines) = {} => GroupFor(groups) = {}
        /\ \A i \in OursOf(lines) : GroupFor(groups) = {PlaceOf(N, i)}
    BY <1>1, GroupForIs
  <2> QED BY <2>1
<1>6. CrawlDelay(groups) = {groups[g].delay : g \in GF} \ {NoDelay}
  BY DEF CrawlDelay
<1> DEFINE last == {j \in S : \A k \in S : k <= j}
           W(j) == AtMost(lines[j].seconds, MaxDelay)
<1>7. \A j \in Pausing(lines) : W(j) # NoDelay
  <2> SUFFICES ASSUME NEW j \in Pausing(lines) PROVE W(j) >= 0 /\ W(j) \in Int
    BY DEF NoDelay
  <2>1. lines[j].seconds \in Int /\ lines[j].seconds >= 0
    <3>1. lines[j] \in L
      BY <1>3
    <3> QED BY <1>3, <3>1 DEF IsLine
  <2> QED BY <2>1 DEF AtMost
<1> HIDE DEF S, GF, W
<1>8. CrawlDelay(groups) = {W(j) : j \in last}
  <2>1. CASE GF = {}
    <3>1. S = {}
      BY <1>4, <2>1
    <3> QED BY <1>6, <2>1, <3>1
  <2>2. CASE \E g : GF = {g}
    <3>1. PICK g : GF = {g}
      BY <2>2
    <3>2. g \in 1..Len(groups)
      BY <1>2, <3>1
    <3>3. /\ (\A i \in Pausing(lines) : N[i] # g) => groups[g].delay = NoDelay
          /\ \A j \in Pausing(lines) : N[j] = g /\ (\A i \in Pausing(lines) : N[i] = g => i <= j) => groups[g].delay = W(j)
      BY <1>1, <3>2 DEF FileRead, Holds, W
    <3>4. \A j : j \in S <=> j \in Pausing(lines) /\ N[j] = g
      BY <1>4, <3>1
    <3>5. CrawlDelay(groups) = {groups[g].delay} \ {NoDelay}
      BY <1>6, <3>1
    <3>6. CASE S = {}
      <4>1. groups[g].delay = NoDelay
        BY <3>3, <3>4, <3>6
      <4> QED BY <3>5, <3>6, <4>1
    <3>7. CASE S # {}
      <4>1. S \in SUBSET (1..n) /\ n \in Nat
        BY <1>3, <3>4
      <4>2. PICK j \in S : \A k \in S : k <= j
        <5> DEFINE f == [i \in 1..n |-> i]
        <5>1. \A i \in S : f[i] \in Int /\ f[i] = i
          BY <4>1
        <5>2. S \in SUBSET (0..n)
          BY <4>1
        <5> HIDE DEF f
        <5>3. PICK j \in S : \A k \in S : f[j] > f[k] \/ (f[j] = f[k] /\ j <= k)
          BY <3>7, <4>1, <5>1, <5>2, FirstGreatest
        <5>4. \A k \in S : k <= j
          BY <5>1, <5>3
        <5> QED BY <5>4
      <4>3. groups[g].delay = W(j) /\ W(j) # NoDelay
        BY <1>7, <3>3, <3>4, <4>2
      <4>4. last = {j}
        <5>1. \A k \in S : k \in Nat
          BY <4>1
        <5>2. \A k \in S : j <= k => k = j
          BY <4>2, <5>1
        <5> QED BY <4>2, <5>2
      <4> HIDE DEF last
      <4> QED BY <3>5, <4>3, <4>4
    <3> QED BY <3>6, <3>7
  <2> QED BY <1>5, <2>1, <2>2
<1> QED BY <1>8 DEF S, W, groups

-----------------------------------------------------------------------------
(* An answer and its chunks (ReadCapped) *)

\* The parts of one sort, of any sequence.
PartsOf(P, is) == {part \in P : part.is = is}

\* The parts of one sort among the first of a sequence.
LEMMA SiftWalk ==
  ASSUME NEW P, NEW some \in Seq(P), NEW is
  PROVE  \E v \in [0..Len(some) -> Seq(PartsOf(P, is))] :
           /\ v[0] = <<>> /\ \A k \in 1..Len(some) : v[k] = (IF some[k].is = is THEN Append(v[k - 1], some[k]) ELSE v[k - 1])
           /\ OfSort(some, is) = v[Len(some)]
<1> DEFINE n == Len(some)
           base == <<>>
           States == Seq(PartsOf(P, is))
           Value(x, i) == (IF some[i].is = is THEN Append(x, some[i]) ELSE x)
           step == [i \in 1..n |-> [x \in States |-> Value(x, i)]]
           Is(g) == g = [s \in SUBSET (DOMAIN some) |-> IF s = {} THEN base ELSE Value(g[s \ {Max(s)}], Max(s))]
           u == CHOOSE g : Is(g)
           f == [s \in SUBSET (1..n) |-> Value(u[s \ {Max(s)}], Max(s))]
<1>1. n \in Nat /\ base \in States /\ DOMAIN some = 1..n
  OBVIOUS
<1>2. OfSort(some, is) = u[1..n]
  BY <1>1 DEF OfSort, FoldLeft, MapThenFoldSet
<1>3. \A i \in 1..n, x \in States : Value(x, i) \in States
  <2> SUFFICES ASSUME NEW i \in 1..n, NEW x \in States PROVE Value(x, i) \in States
    OBVIOUS
  <2>1. some[i] \in P
    OBVIOUS
  <2> QED BY <2>1 DEF PartsOf
<1>4. step \in [1..n -> [States -> States]] /\ \A i \in 1..n, x \in States : step[i][x] = Value(x, i)
  BY <1>3
<1>5. base = <<>> /\ \A x, i : Value(x, i) = (IF some[i].is = is THEN Append(x, some[i]) ELSE x)
  OBVIOUS
<1> HIDE DEF n, States, base, step, Value
<1>6. \A s \in SUBSET (1..n) : s # {} => Max(s) \in 1..n
  BY <1>1, TakesLast
<1>7. Is(u)
  <2>1. n \in Nat /\ base \in States
    BY <1>1
  <2>2. step \in [1..n -> [States -> States]]
    BY <1>4
  <2>3. PICK g \in [SUBSET (1..n) -> States] : IsLeftFold(g, n, base, step)
    BY <2>1, <2>2, LeftFoldExists
  <2>4. \A s \in SUBSET (1..n) : s # {} => g[s \ {Max(s)}] \in States
    OBVIOUS
  <2>5. Is(g)
    BY <1>1, <1>4, <1>6, <2>3, <2>4 DEF IsLeftFold
  <2> QED BY <2>5
<1>8. ComesTo(u, f, n, base)
  BY <1>1, <1>7 DEF ComesTo
<1>9. StepsOn(u, f, n, States, step)
  <2>1. \A s \in SUBSET (1..n) : f[s] = Value(u[s \ {Max(s)}], Max(s))
    OBVIOUS
  <2> HIDE DEF u, f
  <2>2. ASSUME NEW s \in SUBSET (1..n), s # {}, u[s \ {Max(s)}] \in States
        PROVE  f[s] = step[Max(s)][u[s \ {Max(s)}]]
    BY <1>4, <1>6, <2>1, <2>2
  <2> QED BY <2>2, Zenon DEF StepsOn
<1> HIDE DEF u, f, Is
<1>10. PICK v \in [0..n -> States] : IsWalk(v, n, base, step) /\ v[n] = u[1..n]
  <2>1. n \in Nat /\ base \in States
    BY <1>1
  <2>2. step \in [1..n -> [States -> States]]
    BY <1>4
  <2>3. ComesTo(u, f, n, base) /\ StepsOn(u, f, n, States, step)
    BY <1>8, <1>9
  <2> QED BY <2>1, <2>2, <2>3, LeftFoldWalks
<1>11. v[0] = base /\ \A k \in 1..n : v[k] = Value(v[k - 1], k)
  <2>1. \A k \in 1..n : k - 1 \in 0..n
    BY <1>1
  <2> QED BY <1>4, <1>10, <2>1 DEF IsWalk
<1>12. v[0] = <<>> /\ \A k \in 1..n : v[k] = (IF some[k].is = is THEN Append(v[k - 1], some[k]) ELSE v[k - 1])
  BY <1>5, <1>11
<1> QED BY <1>2, <1>10, <1>12 DEF n, States

\* They are parts of that sort.
LEMMA OfSortAre ==
  ASSUME NEW P, NEW some \in Seq(P), NEW is
  PROVE  OfSort(some, is) \in Seq(PartsOf(P, is))
<1> DEFINE States == Seq(PartsOf(P, is))
<1> HIDE DEF States
<1>1. PICK v \in [0..Len(some) -> States] : OfSort(some, is) = v[Len(some)]
  BY SiftWalk DEF States
<1>2. Len(some) \in 0..Len(some)
  OBVIOUS
<1>3. OfSort(some, is) \in States
  BY <1>1, <1>2
<1> QED BY <1>3 DEF States

\* What a chunk of a body is.
IsChunk(part) == part.bytes \in Nat /\ part.failed \in {"no", "timeout", "transport"}

\* What is kept of the chunks read (NothingRead, Arrive).
Received(P) == [body : Seq(P), bytes : Nat, failed : {"no", "timeout", "transport", "too_large"}]

\* What has been read after each chunk (read_capped).
LEMMA ArriveWalk ==
  ASSUME NEW P, \A part \in P : IsChunk(part), NEW chunks \in Seq(P)
  PROVE  \E v \in [0..Len(chunks) -> Received(P)] :
           /\ v[0] = NothingRead /\ \A k \in 1..Len(chunks) : v[k] = Arrive(v[k - 1], chunks[k])
           /\ FoldLeft(Arrive, NothingRead, chunks) = v[Len(chunks)]
<1> DEFINE n == Len(chunks)
           base == NothingRead
           States == Received(P)
           Value(x, i) == Arrive(x, chunks[i])
           step == [i \in 1..n |-> [x \in States |-> Value(x, i)]]
           Is(g) == g = [s \in SUBSET (DOMAIN chunks) |-> IF s = {} THEN base ELSE Value(g[s \ {Max(s)}], Max(s))]
           u == CHOOSE g : Is(g)
           f == [s \in SUBSET (1..n) |-> Value(u[s \ {Max(s)}], Max(s))]
<1>1. n \in Nat /\ base \in States /\ DOMAIN chunks = 1..n
  BY DEF NothingRead, Received
<1>2. FoldLeft(Arrive, NothingRead, chunks) = u[1..n]
  BY <1>1 DEF FoldLeft, MapThenFoldSet
<1>3. \A i \in 1..n, x \in States : Value(x, i) \in States
  <2> SUFFICES ASSUME NEW i \in 1..n, NEW x \in Received(P) PROVE Arrive(x, chunks[i]) \in Received(P)
    OBVIOUS
  <2> DEFINE chunk == chunks[i]
  <2>1. chunk \in P /\ chunk.bytes \in Nat /\ chunk.failed \in {"no", "timeout", "transport"}
    BY DEF IsChunk
  <2> HIDE DEF chunk
  <2>2. x.body \in Seq(P) /\ x.bytes \in Nat /\ x.bytes + chunk.bytes \in Nat
    BY <2>1 DEF Received
  <2>3. Append(x.body, chunk) \in Seq(P)
    BY <2>1, <2>2
  <2>4. Arrive(x, chunk) \in Received(P)
    BY <2>1, <2>2, <2>3 DEF Arrive, Received
  <2> QED BY <2>4 DEF chunk
<1>4. step \in [1..n -> [States -> States]] /\ \A i \in 1..n, x \in States : step[i][x] = Value(x, i)
  BY <1>3
<1>5. base = NothingRead /\ \A x, i : Value(x, i) = Arrive(x, chunks[i])
  OBVIOUS
<1> HIDE DEF n, States, base, step, Value
<1>6. \A s \in SUBSET (1..n) : s # {} => Max(s) \in 1..n
  BY <1>1, TakesLast
<1>7. Is(u)
  <2>1. n \in Nat /\ base \in States
    BY <1>1
  <2>2. step \in [1..n -> [States -> States]]
    BY <1>4
  <2>3. PICK g \in [SUBSET (1..n) -> States] : IsLeftFold(g, n, base, step)
    BY <2>1, <2>2, LeftFoldExists
  <2>4. \A s \in SUBSET (1..n) : s # {} => g[s \ {Max(s)}] \in States
    OBVIOUS
  <2>5. Is(g)
    BY <1>1, <1>4, <1>6, <2>3, <2>4 DEF IsLeftFold
  <2> QED BY <2>5
<1>8. ComesTo(u, f, n, base)
  BY <1>1, <1>7 DEF ComesTo
<1>9. StepsOn(u, f, n, States, step)
  <2>1. \A s \in SUBSET (1..n) : f[s] = Value(u[s \ {Max(s)}], Max(s))
    OBVIOUS
  <2> HIDE DEF u, f
  <2>2. ASSUME NEW s \in SUBSET (1..n), s # {}, u[s \ {Max(s)}] \in States
        PROVE  f[s] = step[Max(s)][u[s \ {Max(s)}]]
    BY <1>4, <1>6, <2>1, <2>2
  <2> QED BY <2>2, Zenon DEF StepsOn
<1> HIDE DEF u, f, Is
<1>10. PICK v \in [0..n -> States] : IsWalk(v, n, base, step) /\ v[n] = u[1..n]
  <2>1. n \in Nat /\ base \in States
    BY <1>1
  <2>2. step \in [1..n -> [States -> States]]
    BY <1>4
  <2>3. ComesTo(u, f, n, base) /\ StepsOn(u, f, n, States, step)
    BY <1>8, <1>9
  <2> QED BY <2>1, <2>2, <2>3, LeftFoldWalks
<1>11. v[0] = base /\ \A k \in 1..n : v[k] = Value(v[k - 1], k)
  <2>1. \A k \in 1..n : k - 1 \in 0..n
    BY <1>1
  <2> QED BY <1>4, <1>10, <2>1 DEF IsWalk
<1>12. v[0] = NothingRead /\ \A k \in 1..n : v[k] = Arrive(v[k - 1], chunks[k])
  BY <1>5, <1>11
<1> QED BY <1>2, <1>10, <1>12 DEF n, States

\* How much the first chunks weigh.
LEMMA WeighWalk ==
  ASSUME NEW P, \A part \in P : IsChunk(part), NEW chunks \in Seq(P)
  PROVE  \E v \in [0..Len(chunks) -> Nat] :
           /\ v[0] = 0 /\ \A k \in 1..Len(chunks) : v[k] = (v[k - 1] + chunks[k].bytes)
           /\ Weighs(chunks) = v[Len(chunks)]
<1> DEFINE n == Len(chunks)
           base == 0
           States == Nat
           Value(x, i) == (x + chunks[i].bytes)
           step == [i \in 1..n |-> [x \in States |-> Value(x, i)]]
           Is(g) == g = [s \in SUBSET (DOMAIN chunks) |-> IF s = {} THEN base ELSE Value(g[s \ {Max(s)}], Max(s))]
           u == CHOOSE g : Is(g)
           f == [s \in SUBSET (1..n) |-> Value(u[s \ {Max(s)}], Max(s))]
<1>1. n \in Nat /\ base \in States /\ DOMAIN chunks = 1..n
  OBVIOUS
<1>2. Weighs(chunks) = u[1..n]
  BY <1>1 DEF Weighs, FoldLeft, MapThenFoldSet
<1>3. \A i \in 1..n, x \in States : Value(x, i) \in States
  <2> SUFFICES ASSUME NEW i \in 1..n, NEW x \in Nat PROVE x + chunks[i].bytes \in Nat
    OBVIOUS
  <2>1. chunks[i].bytes \in Nat
    BY DEF IsChunk
  <2> QED BY <2>1
<1>4. step \in [1..n -> [States -> States]] /\ \A i \in 1..n, x \in States : step[i][x] = Value(x, i)
  BY <1>3
<1>5. base = 0 /\ \A x, i : Value(x, i) = (x + chunks[i].bytes)
  OBVIOUS
<1> HIDE DEF n, States, base, step, Value
<1>6. \A s \in SUBSET (1..n) : s # {} => Max(s) \in 1..n
  BY <1>1, TakesLast
<1>7. Is(u)
  <2>1. n \in Nat /\ base \in States
    BY <1>1
  <2>2. step \in [1..n -> [States -> States]]
    BY <1>4
  <2>3. PICK g \in [SUBSET (1..n) -> States] : IsLeftFold(g, n, base, step)
    BY <2>1, <2>2, LeftFoldExists
  <2>4. \A s \in SUBSET (1..n) : s # {} => g[s \ {Max(s)}] \in States
    OBVIOUS
  <2>5. Is(g)
    BY <1>1, <1>4, <1>6, <2>3, <2>4 DEF IsLeftFold
  <2> QED BY <2>5
<1>8. ComesTo(u, f, n, base)
  BY <1>1, <1>7 DEF ComesTo
<1>9. StepsOn(u, f, n, States, step)
  <2>1. \A s \in SUBSET (1..n) : f[s] = Value(u[s \ {Max(s)}], Max(s))
    OBVIOUS
  <2> HIDE DEF u, f
  <2>2. ASSUME NEW s \in SUBSET (1..n), s # {}, u[s \ {Max(s)}] \in States
        PROVE  f[s] = step[Max(s)][u[s \ {Max(s)}]]
    BY <1>4, <1>6, <2>1, <2>2
  <2> QED BY <2>2, Zenon DEF StepsOn
<1> HIDE DEF u, f, Is
<1>10. PICK v \in [0..n -> States] : IsWalk(v, n, base, step) /\ v[n] = u[1..n]
  <2>1. n \in Nat /\ base \in States
    BY <1>1
  <2>2. step \in [1..n -> [States -> States]]
    BY <1>4
  <2>3. ComesTo(u, f, n, base) /\ StepsOn(u, f, n, States, step)
    BY <1>8, <1>9
  <2> QED BY <2>1, <2>2, <2>3, LeftFoldWalks
<1>11. v[0] = base /\ \A k \in 1..n : v[k] = Value(v[k - 1], k)
  <2>1. \A k \in 1..n : k - 1 \in 0..n
    BY <1>1
  <2> QED BY <1>4, <1>10, <2>1 DEF IsWalk
<1>12. v[0] = 0 /\ \A k \in 1..n : v[k] = (v[k - 1] + chunks[k].bytes)
  BY <1>5, <1>11
<1> QED BY <1>2, <1>10, <1>12 DEF n, States

\* A body that is read without a failure is all that arrived, within the limit;
\* one that is too large is larger than that (read_capped).
LEMMA WholeIsRead ==
  ASSUME NEW P, \A part \in P : IsChunk(part), NEW chunks \in Seq(P), MaxBytes \in Nat,
         NEW read, read = FoldLeft(Arrive, NothingRead, chunks)
  PROVE  /\ read \in Received(P)
         /\ read.failed = "no" => read.body = chunks /\ Weighs(chunks) <= MaxBytes
         /\ read.failed = "too_large" => Weighs(chunks) > MaxBytes
<1> DEFINE n == Len(chunks)
<1>0. n \in Nat
  OBVIOUS
<1>1. PICK v \in [0..n -> Received(P)] :
           /\ v[0] = NothingRead /\ \A k \in 1..n : v[k] = Arrive(v[k - 1], chunks[k])
           /\ FoldLeft(Arrive, NothingRead, chunks) = v[n]
  BY ArriveWalk
<1>2. PICK w \in [0..n -> Nat] :
           /\ w[0] = 0 /\ \A k \in 1..n : w[k] = (w[k - 1] + chunks[k].bytes)
           /\ Weighs(chunks) = w[n]
  BY WeighWalk
<1> DEFINE Good(k) == /\ v[k].failed = "no" => /\ v[k].bytes = w[k] /\ w[k] <= MaxBytes /\ Len(v[k].body) = k
                                               /\ \A i \in 1..k : v[k].body[i] = chunks[i]
                      /\ v[k].failed = "too_large" => w[k] > MaxBytes
           G == {k \in Nat : k <= n => Good(k)}
<1>3. Good(0)
  <2>1. v[0].failed = "no" /\ v[0].bytes = 0 /\ v[0].body = <<>>
    BY <1>1 DEF NothingRead
  <2> QED BY <1>2, <2>1
<1>4. ASSUME NEW k \in Nat, k + 1 <= n, Good(k) PROVE Good(k + 1)
  <2> DEFINE m == k + 1
             x == v[k]
             y == v[m]
             chunk == chunks[m]
  <2>1. m \in 1..n /\ m - 1 = k /\ k \in 0..n /\ m \in 0..n
    BY <1>4
  <2>2. y = Arrive(x, chunk) /\ w[m] = w[k] + chunk.bytes /\ w[k] \in Nat /\ w[m] \in Nat
    BY <1>1, <1>2, <2>1
  <2>3. x \in Received(P) /\ chunk \in P
    BY <1>1, <2>1
  <2>4. chunk.bytes \in Nat /\ chunk.failed \in {"no", "timeout", "transport"} /\ x.body \in Seq(P) /\ x.bytes \in Nat
    BY <2>3 DEF IsChunk, Received
  <2>5. /\ x.failed = "no" => x.bytes = w[k] /\ w[k] <= MaxBytes /\ Len(x.body) = k /\ \A i \in 1..k : x.body[i] = chunks[i]
        /\ x.failed = "too_large" => w[k] > MaxBytes
    BY <1>4
  <2> HIDE DEF y, m, x, chunk
  <2>6. CASE x.failed # "no"
    <3>1. y = x
      BY <2>2, <2>6 DEF Arrive
    <3>2. w[m] >= w[k]
      BY <2>2, <2>4
    <3>3. y.failed = "too_large" => w[m] > MaxBytes
      BY <2>2, <2>5, <3>1, <3>2
    <3> QED BY <2>6, <3>1, <3>3 DEF y, m
  <2>7. CASE x.failed = "no" /\ chunk.failed # "no"
    <3>1. y.failed = chunk.failed
      BY <2>2, <2>3, <2>7 DEF Arrive, Received
    <3>2. y.failed # "no" /\ y.failed # "too_large"
      BY <2>4, <2>7, <3>1
    <3> QED BY <3>2 DEF y, m
  <2>8. CASE x.failed = "no" /\ chunk.failed = "no" /\ x.bytes + chunk.bytes > MaxBytes
    <3>1. y.failed = "too_large"
      BY <2>2, <2>3, <2>8 DEF Arrive, Received
    <3>2. w[m] > MaxBytes
      BY <2>2, <2>5, <2>8
    <3> QED BY <3>1, <3>2 DEF y, m
  <2>9. CASE x.failed = "no" /\ chunk.failed = "no" /\ ~(x.bytes + chunk.bytes > MaxBytes)
    <3>1. y.failed = "no" /\ y.bytes = x.bytes + chunk.bytes /\ y.body = Append(x.body, chunk)
      BY <2>2, <2>3, <2>9 DEF Arrive, Received
    <3>2. y.bytes = w[m] /\ w[m] <= MaxBytes
      BY <2>2, <2>4, <2>5, <2>9, <3>1
    <3>3. Len(y.body) = m /\ y.body[m] = chunk /\ \A i \in 1..k : y.body[i] = chunks[i]
      <4>1. /\ Len(Append(x.body, chunk)) = Len(x.body) + 1 /\ Append(x.body, chunk)[Len(x.body) + 1] = chunk
            /\ \A i \in 1..Len(x.body) : Append(x.body, chunk)[i] = x.body[i]
        BY <2>3, <2>4, Appended
      <4>2. Len(x.body) = k
        BY <2>5, <2>9
      <4> QED BY <2>5, <2>9, <3>1, <4>1, <4>2 DEF m
    <3>4. \A i \in 1..m : i \in 1..k \/ i = m
      BY <2>1
    <3>5. \A i \in 1..m : y.body[i] = chunks[i]
      BY <3>3, <3>4 DEF chunk
    <3> QED BY <3>1, <3>2, <3>3, <3>5 DEF y, m
  <2> QED BY <2>6, <2>7, <2>8, <2>9
<1> HIDE DEF Good, n
<1>5. \A k \in Nat : k \in G
  <2>1. 0 \in G
    BY <1>3
  <2>2. ASSUME NEW k \in Nat, k \in G PROVE k + 1 \in G
    <3> SUFFICES ASSUME k + 1 <= n PROVE Good(k + 1)
      OBVIOUS
    <3>1. k <= n
      BY <1>0
    <3> QED BY <1>4, <2>2, <3>1
  <2> HIDE DEF G
  <2> QED BY <2>1, <2>2, ByNumber
<1>6. Good(n) /\ read = v[n] /\ read \in Received(P)
  <2>1. n \in 0..n
    BY <1>0
  <2> QED BY <1>0, <1>1, <1>5, <2>1
<1>7. ASSUME read.failed = "no" PROVE read.body = chunks /\ Weighs(chunks) <= MaxBytes
  <2>1. w[n] <= MaxBytes /\ Len(read.body) = n /\ \A i \in 1..n : read.body[i] = chunks[i]
    BY <1>6, <1>7 DEF Good
  <2>2. read.body \in Seq(P)
    BY <1>6 DEF Received
  <2>3. read.body = chunks
    BY <2>1, <2>2 DEF n
  <2> QED BY <1>2, <2>1, <2>3
<1>8. ASSUME read.failed = "too_large" PROVE Weighs(chunks) > MaxBytes
  BY <1>2, <1>6, <1>8 DEF Good
<1> QED BY <1>6, <1>7, <1>8

\* A file that asks us to stay away from a path does not allow it.
LEMMA AskedIsKept ==
  ASSUME NEW P, NEW chunks \in Seq(P), MaxDelay \in Nat, NEW path \in Seq(Signs),
         \A part \in P : part.line.field = "disallow" /\ IsLine(part.line),
         Allows(Parse(FileOf(chunks)), path), NEW chunk \in ToSet(chunks), chunk.line.value # <<>>
  PROVE  ~Stands(chunk.line.value, path)
<1> DEFINE agent == [field |-> "user-agent", value |-> <<Star>>, seconds |-> -1]
           L == {agent} \cup {part.line : part \in P}
           lines == FileOf(chunks)
           rest == [i \in DOMAIN chunks |-> chunks[i].line]
           n == Len(chunks)
<1>1. n \in Nat /\ DOMAIN chunks = 1..n
  OBVIOUS
<1>2. \A line \in L : IsLine(line)
  <2>1. <<Star>> \in Seq(Signs)
    <3>1. Star \in Signs
      BY DEF Signs
    <3> QED BY <3>1
  <2>2. IsLine(agent)
    BY <2>1 DEF IsLine
  <2> HIDE DEF agent
  <2> QED BY <2>2
<1>3. rest \in Seq(L) /\ Len(rest) = n /\ \A i \in 1..n : rest[i] = chunks[i].line
  <2>1. \A i \in 1..n : chunks[i].line \in L
    OBVIOUS
  <2>2. rest = [i \in 1..n |-> chunks[i].line]
    BY <1>1
  <2> HIDE DEF L, n, rest
  <2> QED BY <1>1, <2>1, <2>2
<1>4. <<agent>> \in Seq(L) /\ lines = <<agent>> \o rest
  BY DEF FileOf
<1> HIDE DEF lines, rest, L
<1>5. lines \in Seq(L) /\ Len(lines) = n + 1 /\ lines[1] = agent /\ \A i \in 1..n : lines[i + 1] = chunks[i].line
  <2>1. Len(<<agent>>) = 1 /\ <<agent>>[1] = agent
    OBVIOUS
  <2> HIDE DEF agent, n
  <2>2. lines \in Seq(L) /\ Len(lines) = n + 1 /\ lines[1] = agent
    BY <1>1, <1>3, <1>4, <2>1
  <2>3. ASSUME NEW i \in 1..n PROVE lines[i + 1] = chunks[i].line
    BY <1>1, <1>3, <1>4, <2>1
  <2> QED BY <2>2, <2>3
<1>6. ASSUME NEW j \in 2..(n + 1) PROVE lines[j].field = "disallow"
  <2>1. j - 1 \in 1..n /\ (j - 1) + 1 = j
    BY <1>1
  <2>2. chunks[j - 1] \in P
    BY <2>1
  <2> QED BY <1>5, <2>1, <2>2
<1>7. Naming(lines) = {1} /\ Ruling(lines) \subseteq 2..(n + 1)
  <2>1. \A i \in 1..(n + 1) : i = 1 \/ i \in 2..(n + 1)
    BY <1>1
  <2>2. lines[1].field = "user-agent" /\ 1 \in 1..(n + 1)
    BY <1>1, <1>5
  <2> QED BY <1>5, <1>6, <2>1, <2>2 DEF Naming, Ruling, IsRule
<1>8. OursOf(lines) = {1}
  <2>1. Specificity(lines[1].value) = 0
    BY <1>5 DEF Specificity
  <2>2. ~\E i \in Ruling(lines) : \A k \in Naming(lines) : i < k
    BY <1>7
  <2>3. Speakers(lines) = {1}
    BY <1>7, <2>1, <2>2 DEF Speakers
  <2>4. Rank(lines, 1) = 0
    BY <2>1 DEF Rank
  <2> QED BY <2>3, <2>4 DEF OursOf
<1> DEFINE S == Applying(lines, path)
<1>9. S \in SUBSET (0..(n + 1)) /\ \A j \in S : lines[j].field = "disallow" /\ Len(lines[j].value) \in Nat
  <2>1. \A j \in S : j \in 2..(n + 1)
    BY <1>7 DEF Applying
  <2>2. \A j \in 2..(n + 1) : j \in 0..(n + 1) /\ lines[j] \in L
    BY <1>1, <1>5
  <2>3. \A j \in S : lines[j].value \in Seq(Signs)
    BY <1>2, <2>1, <2>2 DEF IsLine
  <2> QED BY <1>6, <2>1, <2>2, <2>3
<1>10. LongestOf(lines, S) = {}
  <2>1. \/ LongestOf(lines, S) = {}
        \/ \E j \in LongestOf(lines, S) : lines[j].field = "allow"
    BY <1>2, <1>5, LongestDecides DEF lines
  <2>2. \A j \in LongestOf(lines, S) : j \in S
    BY DEF LongestOf
  <2> HIDE DEF S
  <2> QED BY <1>9, <2>1, <2>2
<1>11. S = {}
  <2> HIDE DEF S
  <2>1. n + 1 \in Nat
    BY <1>1
  <2> QED BY <1>9, <1>10, <2>1, LongestStands
<1> SUFFICES ASSUME Stands(chunk.line.value, path) PROVE FALSE
  OBVIOUS
<1>12. PICK i \in 1..n : chunk = chunks[i]
  BY <1>1 DEF ToSet
<1>13. lines[i + 1] = chunk.line /\ i + 1 \in 2..(n + 1) /\ i + 1 \in 1..(n + 1)
  BY <1>1, <1>5, <1>12
<1>14. i + 1 \in Ruling(lines)
  BY <1>5, <1>6, <1>13 DEF Ruling, IsRule
<1>15. Leads(lines, 1, i + 1)
  BY <1>1, <1>7, <1>13 DEF Leads
<1>16. i + 1 \in S
  BY <1>8, <1>13, <1>14, <1>15 DEF Applying
<1> QED BY <1>11, <1>16

-----------------------------------------------------------------------------
(* What an occurrence adds, by its field *)

\* What c of l tokens of a field come to, by the field's length.
Spread(field, l) == (Unit - B[field]) * Average[field] + B[field] * l

\* How many occurrences those count for.
Norm(field, c, l) ==
  IF Average[field] = 0 THEN c * Unit ELSE (c * Unit * Unit * Average[field]) \div Spread(field, l)

\* What they add to the frequency that is saturated.
Adds(field, c, l) == IF c = 0 THEN 0 ELSE By(FieldWeight[field], Norm(field, c, l))

\* Tokens that are there are spread over something.
LEMMA SpreadIs ==
  ASSUME NEW field \in ScoredFields, Average[field] # 0, NEW l \in Nat
  PROVE  /\ Spread(field, l) \in Nat /\ B[field] * l <= Spread(field, l) /\ (l > 0 => Spread(field, l) > 0)
         /\ Spread(field, l + 1) = Spread(field, l) + B[field] /\ B[field] \in Nat
<1> DEFINE b == B[field]
           average == Average[field]
           rest == Unit - b
<1>1. b \in Nat /\ b <= Unit /\ average \in Nat /\ average > 0 /\ Unit \in Nat /\ Unit > 0
  BY ScoringAssumption DEF ScoringAssumption
<1>2. rest \in Nat /\ (rest > 0 \/ b > 0)
  BY <1>1
<1>3. rest * average \in Nat /\ b * l \in Nat /\ b * (l + 1) = b * l + b
  BY <1>1, <1>2
<1>4. (rest > 0 => rest * average > 0) /\ (b > 0 /\ l > 0 => b * l > 0)
  BY <1>1, <1>2, SMTT(30)
<1>5. Spread(field, l) = rest * average + b * l /\ Spread(field, l + 1) = rest * average + b * (l + 1)
  BY DEF Spread
<1> HIDE DEF b, average, rest
<1>6. /\ rest * average + b * l \in Nat /\ b * l <= rest * average + b * l /\ (l > 0 => rest * average + b * l > 0)
      /\ rest * average + b * (l + 1) = (rest * average + b * l) + b
  <2> DEFINE x == rest * average
             y == b * l
             z == b * (l + 1)
  <2>1. x \in Nat /\ y \in Nat /\ z = y + b /\ (rest > 0 => x > 0) /\ (b > 0 /\ l > 0 => y > 0)
    BY <1>3, <1>4
  <2> HIDE DEF x, y, z
  <2>2. x + y \in Nat /\ y <= x + y /\ (l > 0 => x + y > 0) /\ x + z = (x + y) + b
    BY <1>1, <1>2, <2>1
  <2> QED BY <2>2 DEF x, y, z
<1> QED BY <1>1, <1>5, <1>6 DEF b

\* One token more, in a field longer by it, comes to no less; a field that is
\* longer by another token to no more.
LEMMA NormGrows ==
  ASSUME NEW field \in ScoredFields, NEW c \in Nat \ {0}, NEW l \in Nat, c <= l
  PROVE  /\ Norm(field, c, l) \in Nat /\ Norm(field, c + 1, l + 1) \in Nat /\ Norm(field, c, l + 1) \in Nat
         /\ Norm(field, c, l) <= Norm(field, c + 1, l + 1)
         /\ Norm(field, c, l + 1) <= Norm(field, c, l)
<1>0. Unit \in Nat /\ Average[field] \in Nat
  BY ScoringAssumption DEF ScoringAssumption
<1>1. CASE Average[field] = 0
  <2>1. c * Unit \in Nat /\ (c + 1) * Unit = c * Unit + Unit
    BY <1>0
  <2> QED BY <1>0, <1>1, <2>1 DEF Norm
<1>2. CASE Average[field] # 0
  <2> DEFINE m == Unit * Unit * Average[field]
             s == Spread(field, l)
             t == Spread(field, l + 1)
             b == B[field]
  <2>1. s \in Nat \ {0} /\ b * l <= s /\ t = s + b /\ b \in Nat
    <3>1. l > 0
      OBVIOUS
    <3>2. /\ s \in Nat /\ b * l <= s /\ (l > 0 => s > 0)
          /\ t = s + b /\ b \in Nat
      BY <1>2, SpreadIs
    <3> HIDE DEF s, t, b
    <3> QED BY <3>1, <3>2
  <2>2. t \in Nat \ {0}
    BY <2>1
  <2>3. m \in Nat
    BY <1>0
  <2>4. \A n \in Nat : n * Unit * Unit * Average[field] = n * m
    <3> SUFFICES ASSUME NEW n \in Nat PROVE n * Unit * Unit * Average[field] = n * m
      OBVIOUS
    <3> DEFINE average == Average[field]
    <3>1. average \in Nat
      BY <1>0
    <3> HIDE DEF average
    <3>2. ((n * Unit) * Unit) * average = n * ((Unit * Unit) * average)
      BY <1>0, <3>1
    <3> QED BY <3>2 DEF average
  <2>5. /\ Norm(field, c, l) = (c * m) \div s /\ Norm(field, c + 1, l + 1) = ((c + 1) * m) \div t
        /\ Norm(field, c, l + 1) = (c * m) \div t
    <3>1. c * Unit * Unit * Average[field] = c * m
      BY <2>4
    <3>2. (c + 1) * Unit * Unit * Average[field] = (c + 1) * m
      <4>1. c + 1 \in Nat
        OBVIOUS
      <4> HIDE DEF m
      <4> QED BY <2>4, <4>1
    <3> QED BY <1>2, <3>1, <3>2 DEF Norm
  <2> HIDE DEF m, s, t, b
  <2>6. c * m \in Nat /\ (c + 1) * m \in Nat
    BY <2>3
  <2>7. c * t <= (c + 1) * s
    <3>1. b * c <= b * l
      BY <2>1, TimesMono
    <3>2. c * t = c * s + b * c /\ (c + 1) * s = c * s + s
      BY <2>1
    <3> DEFINE x == b * c
               y == b * l
               z == c * s
    <3>3. x \in Nat /\ y \in Nat /\ z \in Nat /\ x <= y /\ y <= s
      BY <2>1, <3>1
    <3> HIDE DEF x, y, z
    <3>4. z + x <= z + s
      BY <2>1, <3>3
    <3> QED BY <3>2, <3>4 DEF x, z
  <2>8. (c * m) * t <= ((c + 1) * m) * s
    <3>1. c * t \in Int /\ (c + 1) * s \in Int
      BY <2>1, <2>2
    <3>2. m * (c * t) <= m * ((c + 1) * s)
      BY <2>3, <2>7, <3>1, TimesMono
    <3>3. m * (c * t) = (c * m) * t /\ m * ((c + 1) * s) = ((c + 1) * m) * s
      BY <2>1, <2>2, <2>3
    <3> QED BY <3>2, <3>3
  <2>9. (c * m) * s <= (c * m) * t
    BY <2>1, <2>2, <2>6, TimesMono
  <2>10. (c * m) \div s <= ((c + 1) * m) \div t /\ (c * m) \div t <= (c * m) \div s
    BY <2>1, <2>2, <2>6, <2>8, <2>9, QuotientMono
  <2>11. (c * m) \div s \in Nat /\ ((c + 1) * m) \div t \in Nat /\ (c * m) \div t \in Nat
    BY <2>1, <2>2, <2>6, QuotientIs
  <2> QED BY <2>5, <2>10, <2>11
<1> QED BY <1>1, <1>2

\* So with what they add.
LEMMA AddsGrow ==
  ASSUME NEW field \in ScoredFields, NEW c \in Nat, NEW l \in Nat, c <= l
  PROVE  /\ Adds(field, c, l) \in Nat
         /\ Adds(field, c, l) <= Adds(field, c + 1, l + 1)
         /\ Adds(field, c, l + 1) <= Adds(field, c, l)
<1> DEFINE w == FieldWeight[field]
<1>1. w \in Nat /\ Unit \in Nat \ {0}
  BY ScoringAssumption DEF ScoringAssumption
<1>2. ASSUME NEW x \in Nat, NEW y \in Nat, x <= y PROVE By(w, x) \in Nat /\ By(w, x) <= By(w, y)
  <2> HIDE DEF w
  <2>1. w * x \in Nat /\ w * y \in Nat /\ w * x <= w * y
    <3>1. w \in Nat /\ x \in Int /\ y \in Int
      BY <1>1
    <3> QED BY <1>2, <3>1, TimesMono
  <2>2. (w * x) * Unit <= (w * y) * Unit
    BY <1>1, <2>1, TimesMono
  <2>3. (w * x) \div Unit <= (w * y) \div Unit /\ (w * x) \div Unit \in Nat
    BY <1>1, <2>1, <2>2, QuotientMono, QuotientIs
  <2> QED BY <2>3 DEF By
<1>3. CASE c = 0
  <2>1. Norm(field, 1, l + 1) \in Nat
    <3>1. CASE l = 0
      <4>1. Norm(field, 1, 1) \in Nat
        BY NormGrows
      <4> QED BY <3>1, <4>1
    <3>2. CASE l # 0
      <4>1. 1 \in Nat \ {0} /\ 1 <= l
        BY <3>2
      <4> QED BY <4>1, NormGrows
    <3> QED BY <3>1, <3>2
  <2>2. By(w, Norm(field, 1, l + 1)) \in Nat
    <3> HIDE DEF w
    <3> QED BY <1>2, <2>1
  <2> QED BY <1>3, <2>2 DEF Adds
<1>4. CASE c # 0
  <2> DEFINE x == Norm(field, c, l)
             y == Norm(field, c + 1, l + 1)
             z == Norm(field, c, l + 1)
  <2>1. x \in Nat /\ y \in Nat /\ z \in Nat /\ x <= y /\ z <= x
    <3>1. c \in Nat \ {0}
      BY <1>4
    <3> QED BY <3>1, NormGrows
  <2> HIDE DEF x, y, z, w
  <2>2. By(w, x) \in Nat /\ By(w, x) <= By(w, y) /\ By(w, z) <= By(w, x)
    BY <1>2, <2>1
  <2>3. Adds(field, c, l) = By(w, x) /\ Adds(field, c + 1, l + 1) = By(w, y) /\ Adds(field, c, l + 1) = By(w, z)
    BY <1>4 DEF Adds, w, x, y, z
  <2> QED BY <2>2, <2>3
<1> QED BY <1>3, <1>4

-----------------------------------------------------------------------------
(* What the fields add up to, and what a term is worth by its rarity *)

\* Counts that fit into their fields.
Fits(counts, lengths) ==
  /\ counts \in [ScoredFields -> Nat] /\ lengths \in [ScoredFields -> Nat]
  /\ \A field \in ScoredFields : counts[field] <= lengths[field]

\* What each field adds.
Additions(counts, lengths) == [field \in ScoredFields |-> Adds(field, counts[field], lengths[field])]

\* The pseudo-frequency is the sum over the fields, whatever their order.
LEMMA PseudoIsSum ==
  ASSUME NEW counts, NEW lengths, Fits(counts, lengths)
  PROVE  /\ PseudoFrequency(counts, lengths) = SumOf(Additions(counts, lengths), ScoredFields)
         /\ PseudoFrequency(counts, lengths) \in Nat
<1> DEFINE R == {field \in ScoredFields : counts[field] # 0}
           e == Additions(counts, lengths)
           P(v) == v = [s \in SUBSET R |-> IF s = {} THEN 0
                          ELSE By(FieldWeight[First(s)], Normalised(First(s), counts, lengths)) + v[s \ {First(s)}]]
           Q(v) == v = [s \in SUBSET R |-> IF s = {} THEN 0 ELSE e[First(s)] + v[s \ {First(s)}]]
<1>1. PseudoFrequency(counts, lengths) = (CHOOSE v : P(v))[R]
  BY DEF PseudoFrequency, FoldSet, MapThenFoldSet, First
<1>2. SumOf(e, R) = (CHOOSE v : Q(v))[R]
  BY DEF SumOf, SumsOver
<1>3. ASSUME NEW field \in R
      PROVE  By(FieldWeight[field], Normalised(field, counts, lengths)) = e[field]
  <2>1. field \in ScoredFields /\ counts[field] # 0
    OBVIOUS
  <2>2. Normalised(field, counts, lengths) = Norm(field, counts[field], lengths[field])
    BY DEF Normalised, Norm, Spread
  <2> QED BY <2>1, <2>2 DEF Additions, Adds
<1>4. ASSUME NEW s \in SUBSET R, s # {} PROVE First(s) \in R
  BY <1>4 DEF First
<1> HIDE DEF e, R
<1>5. ASSUME NEW v PROVE P(v) <=> Q(v)
  BY <1>3, <1>4
<1> HIDE DEF P, Q
<1>6. (CHOOSE v : P(v)) = (CHOOSE v : Q(v))
  BY <1>5
<1>7. PseudoFrequency(counts, lengths) = SumOf(e, R)
  BY <1>1, <1>2, <1>6
<1>8. R \in SUBSET ScoredFields /\ IsFiniteSet(ScoredFields)
  BY ScoringAssumption DEF ScoringAssumption, R
<1>9. \A field \in ScoredFields : e[field] \in Nat
  <2> SUFFICES ASSUME NEW field \in ScoredFields PROVE e[field] \in Nat
    OBVIOUS
  <2>1. counts[field] \in Nat /\ lengths[field] \in Nat /\ counts[field] <= lengths[field]
    BY DEF Fits
  <2> QED BY <2>1, AddsGrow DEF e, Additions
<1>10. \A field \in ScoredFields : e[field] = IF field \in R THEN e[field] ELSE 0
  BY DEF e, R, Additions, Adds
<1>11. SumOf(e, ScoredFields) = SumOf(e, R)
  <2>1. \A field \in R : e[field] \in Int
    BY <1>8, <1>9
  <2> QED BY <1>8, <1>10, <2>1, SumOverPart
<1>12. SumOf(e, ScoredFields) \in Nat
  BY <1>8, <1>9, SumPositive
<1> QED BY <1>7, <1>11, <1>12 DEF e

\* Where every field adds no less, the sum is no less.
LEMMA PseudoGrows ==
  ASSUME NEW counts, NEW lengths, Fits(counts, lengths), NEW more, NEW longer, Fits(more, longer),
         \A field \in ScoredFields :
           Adds(field, counts[field], lengths[field]) <= Adds(field, more[field], longer[field])
  PROVE  PseudoFrequency(counts, lengths) <= PseudoFrequency(more, longer)
<1> DEFINE e == Additions(counts, lengths)
           f == Additions(more, longer)
<1>1. \A field \in ScoredFields : e[field] \in Int /\ f[field] \in Int /\ e[field] <= f[field]
  <2> SUFFICES ASSUME NEW field \in ScoredFields PROVE e[field] \in Int /\ f[field] \in Int /\ e[field] <= f[field]
    OBVIOUS
  <2>1. counts[field] \in Nat /\ lengths[field] \in Nat /\ counts[field] <= lengths[field]
    BY DEF Fits
  <2>2. more[field] \in Nat /\ longer[field] \in Nat /\ more[field] <= longer[field]
    BY DEF Fits
  <2>3. Adds(field, counts[field], lengths[field]) \in Nat /\ Adds(field, more[field], longer[field]) \in Nat
    BY <2>1, <2>2, AddsGrow
  <2> QED BY <2>3 DEF Additions
<1>2. IsFiniteSet(ScoredFields)
  BY ScoringAssumption DEF ScoringAssumption
<1> HIDE DEF e, f
<1>3. SumOf(e, ScoredFields) <= SumOf(f, ScoredFields)
  BY <1>1, <1>2, SumMono
<1> QED BY <1>3, PseudoIsSum DEF e, f

\* The idf of a term that documents have is more than nothing.
LEMMA IdfIsPositive ==
  ASSUME NEW frequency \in Nat, frequency > 0
  PROVE  Idf(frequency) \in Nat /\ Idf(frequency) > 0
<1> DEFINE n == Clamp(frequency, 0, Documents)
<1>1. Documents \in Nat \ {0} /\ Unit \in Nat /\ Unit > 2 * Documents
  BY ScoringAssumption DEF ScoringAssumption
<1>2. n \in 1..Documents
  BY <1>1 DEF Clamp
<1>3. Odds(n) > Unit
  <2> DEFINE a == ((Documents - n) * 2 + 1) * Unit
             b == n * 2 + 1
             q == a \div b
  <2>1. a \in Nat /\ b \in Nat \ {0} /\ b <= a
    <3> HIDE DEF n
    <3> DEFINE d == (Documents - n) * 2
    <3>1. d \in Nat /\ b \in Nat \ {0} /\ b <= Unit
      BY <1>1, <1>2
    <3> HIDE DEF d
    <3>2. (d + 1) * Unit = d * Unit + Unit /\ d * Unit \in Nat
      BY <1>1, <3>1
    <3>3. (d + 1) * Unit \in Nat /\ Unit <= (d + 1) * Unit
      BY <1>1, <3>2
    <3>4. a = (d + 1) * Unit
      BY DEF d
    <3> HIDE DEF a, b
    <3> QED BY <1>1, <3>1, <3>3, <3>4
  <2> HIDE DEF a, b
  <2>2. q \in Nat /\ a < b * (q + 1)
    BY <2>1, QuotientIs
  <2> HIDE DEF q
  <2>3. q > 0
    BY <2>1, <2>2
  <2>4. Odds(n) = Unit + q
    BY DEF Odds, Per, q, a, b
  <2> QED BY <1>1, <2>2, <2>3, <2>4
<1>4. Log(Odds(n)) \in Nat \ {0}
  <2> HIDE DEF n
  <2> QED BY <1>2, <1>3, ScoringAssumption DEF ScoringAssumption
<1> QED BY <1>4 DEF Idf

-----------------------------------------------------------------------------
(* How often a term stands in a field *)

\* The tokens of a field.
InField(T, field) == {token \in T : token.field = field}

\* A document's counts and lengths, as numbers of places.
LEMMA CountsAre ==
  ASSUME NEW T, NEW tokens \in Seq(T)
  PROVE  /\ \A term : CountsOf(tokens, term)
              = [field \in ScoredFields |-> Cardinality(PlacesAmong(tokens, {[field |-> field, term |-> term]}))]
         /\ LengthsOf(tokens) = [field \in ScoredFields |-> Cardinality(PlacesAmong(tokens, InField(T, field)))]
<1>1. \A i \in DOMAIN tokens : tokens[i] \in T
  OBVIOUS
<1>2. ASSUME NEW field PROVE {i \in DOMAIN tokens : tokens[i].field = field} = PlacesAmong(tokens, InField(T, field))
  BY <1>1 DEF PlacesAmong, InField
<1>3. ASSUME NEW field, NEW term
      PROVE  {i \in DOMAIN tokens : tokens[i] = [field |-> field, term |-> term]}
               = PlacesAmong(tokens, {[field |-> field, term |-> term]})
  BY DEF PlacesAmong
<1>4. ASSUME NEW term PROVE CountsOf(tokens, term)
        = [field \in ScoredFields |-> Cardinality(PlacesAmong(tokens, {[field |-> field, term |-> term]}))]
  BY <1>3 DEF CountsOf
<1>5. LengthsOf(tokens) = [field \in ScoredFields |-> Cardinality(PlacesAmong(tokens, InField(T, field)))]
  BY <1>2 DEF LengthsOf
<1> QED BY <1>4, <1>5

\* A term's counts fit into the lengths.
LEMMA CountsFit ==
  ASSUME NEW T, NEW tokens \in Seq(T), NEW term
  PROVE  Fits(CountsOf(tokens, term), LengthsOf(tokens))
<1>1. ASSUME NEW field \in ScoredFields
      PROVE  /\ CountsOf(tokens, term)[field] \in Nat /\ LengthsOf(tokens)[field] \in Nat
             /\ CountsOf(tokens, term)[field] <= LengthsOf(tokens)[field]
  <2> DEFINE token == [field |-> field, term |-> term]
             P == {token} \cap T
             Q == InField(T, field)
  <2>1. P \subseteq Q
    BY DEF InField
  <2>2. PlacesAmong(tokens, {token}) = PlacesAmong(tokens, P)
    <3>1. \A i \in DOMAIN tokens : tokens[i] \in T
      OBVIOUS
    <3> HIDE DEF token
    <3> QED BY <3>1 DEF PlacesAmong
  <2>3. CountsOf(tokens, term)[field] = Cardinality(PlacesAmong(tokens, {token}))
    BY CountsAre
  <2>4. LengthsOf(tokens)[field] = Cardinality(PlacesAmong(tokens, Q))
    BY CountsAre
  <2> HIDE DEF token, P, Q
  <2> QED BY <2>1, <2>2, <2>3, <2>4, PlacesOfPart
<1>2. DOMAIN CountsOf(tokens, term) = ScoredFields /\ DOMAIN LengthsOf(tokens) = ScoredFields
      /\ CountsOf(tokens, term) = [field \in ScoredFields |-> CountsOf(tokens, term)[field]]
      /\ LengthsOf(tokens) = [field \in ScoredFields |-> LengthsOf(tokens)[field]]
  BY DEF CountsOf, LengthsOf
<1> QED BY <1>1, <1>2 DEF Fits

\* Another token: its field is longer by it, and holds its term once more.
LEMMA CountsAppended ==
  ASSUME NEW T, NEW tokens \in Seq(T), NEW at \in ScoredFields, NEW other, NEW term,
         NEW field \in ScoredFields
  PROVE  LET token == [field |-> at, term |-> other]
         IN  /\ LengthsOf(Append(tokens, token))[field] = LengthsOf(tokens)[field] + (IF field = at THEN 1 ELSE 0)
             /\ CountsOf(Append(tokens, token), term)[field]
                  = CountsOf(tokens, term)[field] + (IF field = at /\ term = other THEN 1 ELSE 0)
<1> DEFINE token == [field |-> at, term |-> other]
           U == T \cup {token}
           P == {[field |-> field, term |-> term]}
           Q == InField(U, field)
<1>1. tokens \in Seq(U) /\ token \in U
  <2> HIDE DEF token
  <2>1. \A i \in 1..Len(tokens) : tokens[i] \in U
    OBVIOUS
  <2> QED BY <2>1
<1>2. Append(tokens, token) \in Seq(U)
  BY <1>1
<1>3. token \in Q <=> field = at
  BY DEF InField
<1>4. token \in P <=> field = at /\ term = other
  <2>1. token = [field |-> field, term |-> term] => token.field = field /\ token.term = term
    OBVIOUS
  <2>2. token.field = at /\ token.term = other
    OBVIOUS
  <2>3. field = at /\ term = other => token = [field |-> field, term |-> term]
    OBVIOUS
  <2> HIDE DEF token
  <2> QED BY <2>1, <2>2, <2>3
<1> HIDE DEF token, U
<1>5. LengthsOf(tokens)[field] = Cardinality(PlacesAmong(tokens, Q))
      /\ LengthsOf(Append(tokens, token))[field] = Cardinality(PlacesAmong(Append(tokens, token), Q))
  BY <1>1, <1>2, CountsAre
<1>6. CountsOf(tokens, term)[field] = Cardinality(PlacesAmong(tokens, P))
      /\ CountsOf(Append(tokens, token), term)[field] = Cardinality(PlacesAmong(Append(tokens, token), P))
  <2>1. ASSUME NEW some \in Seq(U) PROVE CountsOf(some, term)[field] = Cardinality(PlacesAmong(some, P))
    <3>1. CountsOf(some, term) = [f \in ScoredFields |-> Cardinality(PlacesAmong(some, {[field |-> f, term |-> term]}))]
      BY CountsAre
    <3> QED BY <3>1
  <2> QED BY <1>1, <1>2, <2>1
<1> HIDE DEF P, Q
<1>7. Cardinality(PlacesAmong(Append(tokens, token), Q)) = Cardinality(PlacesAmong(tokens, Q)) + (IF token \in Q THEN 1 ELSE 0)
  BY <1>1, PlacesAppended
<1>8. Cardinality(PlacesAmong(Append(tokens, token), P)) = Cardinality(PlacesAmong(tokens, P)) + (IF token \in P THEN 1 ELSE 0)
  BY <1>1, PlacesAppended
<1>9. /\ LengthsOf(Append(tokens, token))[field] = LengthsOf(tokens)[field] + (IF field = at THEN 1 ELSE 0)
      /\ CountsOf(Append(tokens, token), term)[field]
           = CountsOf(tokens, term)[field] + (IF field = at /\ term = other THEN 1 ELSE 0)
  BY <1>3, <1>4, <1>5, <1>6, <1>7, <1>8
<1> QED BY <1>9 DEF token

-----------------------------------------------------------------------------
(* One more occurrence, and one further apart *)

\* What a term adds, by its pseudo-frequency.
LEMMA ContributionIs ==
  ASSUME NEW frequency \in Nat, frequency > 0, NEW counts, NEW lengths, Fits(counts, lengths)
  PROVE  /\ Contribution(frequency, counts, lengths) \in Nat /\ Contribution(frequency, counts, lengths) < Idf(frequency)
         /\ \A more, longer : Fits(more, longer) /\ PseudoFrequency(counts, lengths) <= PseudoFrequency(more, longer)
              => Contribution(frequency, counts, lengths) <= Contribution(frequency, more, longer)
<1>1. K1 \in Nat \ {0}
  BY ScoringAssumption DEF ScoringAssumption
<1>2. Idf(frequency) \in Nat /\ Idf(frequency) > 0
  BY IdfIsPositive
<1>3. PseudoFrequency(counts, lengths) \in Nat
  BY PseudoIsSum
<1>4. Contribution(frequency, counts, lengths) \in Nat /\ Contribution(frequency, counts, lengths) < Idf(frequency)
  <2> DEFINE p == PseudoFrequency(counts, lengths)
             worth == Idf(frequency)
  <2>1. p \in Nat /\ p <= p /\ worth \in Nat /\ worth > 0
    BY <1>2, <1>3
  <2> HIDE DEF p, worth
  <2>2. (worth * p) \div (K1 + p) \in Nat /\ (worth * p) \div (K1 + p) < worth
    BY <1>1, <2>1, Saturates
  <2> QED BY <2>2 DEF Contribution, p, worth
<1>5. ASSUME NEW more, NEW longer, Fits(more, longer), PseudoFrequency(counts, lengths) <= PseudoFrequency(more, longer)
      PROVE  Contribution(frequency, counts, lengths) <= Contribution(frequency, more, longer)
  <2>1. PseudoFrequency(more, longer) \in Nat
    BY <1>5, PseudoIsSum
  <2> QED BY <1>1, <1>2, <1>3, <1>5, <2>1, Saturates DEF Contribution
<1> QED BY <1>4, <1>5

\* An occurrence more counts for no less, another word for no more.
LEMMA TokenCounts ==
  ASSUME NEW T, NEW tokens \in Seq(T), NEW at \in ScoredFields, NEW frequency \in Nat, frequency > 0
  PROVE  /\ Worth(Append(tokens, [field |-> at, term |-> 1]), frequency) >= Worth(tokens, frequency)
         /\ Worth(Append(tokens, [field |-> at, term |-> 2]), frequency) <= Worth(tokens, frequency)
<1> DEFINE with(term) == Append(tokens, [field |-> at, term |-> term])
<1>1. ASSUME NEW term PROVE Fits(CountsOf(with(term), 1), LengthsOf(with(term)))
  <2> DEFINE token == [field |-> at, term |-> term]
             U == T \cup {token}
  <2>1. tokens \in Seq(U) /\ token \in U
    <3> HIDE DEF token
    <3>1. \A i \in 1..Len(tokens) : tokens[i] \in U
      OBVIOUS
    <3> QED BY <3>1
  <2>2. Append(tokens, token) \in Seq(U)
    BY <2>1
  <2> HIDE DEF token, U
  <2>3. Fits(CountsOf(Append(tokens, token), 1), LengthsOf(Append(tokens, token)))
    BY <2>2, CountsFit
  <2> QED BY <2>3 DEF token
<1>2. Fits(CountsOf(tokens, 1), LengthsOf(tokens))
  BY CountsFit
<1>3. ASSUME NEW term, NEW field \in ScoredFields
      PROVE  /\ LengthsOf(with(term))[field] = LengthsOf(tokens)[field] + (IF field = at THEN 1 ELSE 0)
             /\ CountsOf(with(term), 1)[field] = CountsOf(tokens, 1)[field] + (IF field = at /\ term = 1 THEN 1 ELSE 0)
  <2>1. LET token == [field |-> at, term |-> term]
        IN  /\ LengthsOf(Append(tokens, token))[field] = LengthsOf(tokens)[field] + (IF field = at THEN 1 ELSE 0)
            /\ CountsOf(Append(tokens, token), 1)[field]
                 = CountsOf(tokens, 1)[field] + (IF field = at /\ 1 = term THEN 1 ELSE 0)
    BY CountsAppended
  <2> QED BY <2>1
<1>4. ASSUME NEW field \in ScoredFields
      PROVE  /\ CountsOf(tokens, 1)[field] \in Nat /\ LengthsOf(tokens)[field] \in Nat
             /\ CountsOf(tokens, 1)[field] <= LengthsOf(tokens)[field]
  BY <1>2 DEF Fits
<1> HIDE DEF with
<1>5. PseudoFrequency(CountsOf(tokens, 1), LengthsOf(tokens)) <= PseudoFrequency(CountsOf(with(1), 1), LengthsOf(with(1)))
  <2>1. ASSUME NEW field \in ScoredFields
        PROVE  Adds(field, CountsOf(tokens, 1)[field], LengthsOf(tokens)[field])
                 <= Adds(field, CountsOf(with(1), 1)[field], LengthsOf(with(1))[field])
    <3> DEFINE c == CountsOf(tokens, 1)[field]
               l == LengthsOf(tokens)[field]
    <3>1. c \in Nat /\ l \in Nat /\ c <= l
      BY <1>4
    <3>2. /\ field = at => CountsOf(with(1), 1)[field] = c + 1 /\ LengthsOf(with(1))[field] = l + 1
          /\ field # at => CountsOf(with(1), 1)[field] = c /\ LengthsOf(with(1))[field] = l
      BY <1>3, <3>1
    <3> HIDE DEF c, l
    <3>3. Adds(field, c, l) \in Nat /\ Adds(field, c, l) <= Adds(field, c + 1, l + 1)
      BY <3>1, AddsGrow
    <3>4. Adds(field, c, l) <= Adds(field, CountsOf(with(1), 1)[field], LengthsOf(with(1))[field])
      BY <3>2, <3>3
    <3> QED BY <3>4 DEF c, l
  <2> QED BY <1>1, <1>2, <2>1, PseudoGrows
<1>6. PseudoFrequency(CountsOf(with(2), 1), LengthsOf(with(2))) <= PseudoFrequency(CountsOf(tokens, 1), LengthsOf(tokens))
  <2>1. ASSUME NEW field \in ScoredFields
        PROVE  Adds(field, CountsOf(with(2), 1)[field], LengthsOf(with(2))[field])
                 <= Adds(field, CountsOf(tokens, 1)[field], LengthsOf(tokens)[field])
    <3> DEFINE c == CountsOf(tokens, 1)[field]
               l == LengthsOf(tokens)[field]
    <3>1. c \in Nat /\ l \in Nat /\ c <= l
      BY <1>4
    <3>2. /\ field = at => CountsOf(with(2), 1)[field] = c /\ LengthsOf(with(2))[field] = l + 1
          /\ field # at => CountsOf(with(2), 1)[field] = c /\ LengthsOf(with(2))[field] = l
      BY <1>3, <3>1
    <3> HIDE DEF c, l
    <3>3. Adds(field, c, l) \in Nat /\ Adds(field, c, l + 1) <= Adds(field, c, l)
      BY <3>1, AddsGrow
    <3>4. Adds(field, CountsOf(with(2), 1)[field], LengthsOf(with(2))[field]) <= Adds(field, c, l)
      BY <3>2, <3>3
    <3> QED BY <3>4 DEF c, l
  <2> QED BY <1>1, <1>2, <2>1, PseudoGrows
<1>7. Worth(tokens, frequency) <= Worth(with(1), frequency)
  BY <1>1, <1>2, <1>5, ContributionIs DEF Worth
<1>8. Worth(with(2), frequency) <= Worth(tokens, frequency)
  <2>1. Fits(CountsOf(with(2), 1), LengthsOf(with(2)))
    BY <1>1
  <2> QED BY <1>2, <1>6, <2>1, ContributionIs DEF Worth
<1>9. Worth(tokens, frequency) \in Nat /\ Worth(with(1), frequency) \in Nat
  <2>1. Fits(CountsOf(with(1), 1), LengthsOf(with(1)))
    BY <1>1
  <2> QED BY <1>2, <2>1, ContributionIs DEF Worth
<1>10. Worth(with(1), frequency) >= Worth(tokens, frequency)
  BY <1>7, <1>9
<1> QED BY <1>8, <1>10 DEF with

\* A bonus is something, and no more for what is further apart.
LEMMA BonusFalls ==
  ASSUME NEW span \in 1..4
  PROVE  /\ ProximityBonus(span, 2) \in Nat /\ ProximityBonus(span, 2) > 0
         /\ ProximityBonus(span + 1, 2) \in Nat /\ ProximityBonus(span + 1, 2) <= ProximityBonus(span, 2)
<1> DEFINE w == ProximityWeight * 2
<1>1. w \in Nat /\ w >= 4
  BY ScoringAssumption DEF ScoringAssumption
<1>2. Clamp(span - 1, 0, span) = span - 1 /\ Clamp(span, 0, span + 1) = span
  BY DEF Clamp
<1>3. ProximityBonus(span, 2) = w \div span /\ ProximityBonus(span + 1, 2) = w \div (span + 1)
  <2>1. 2 - 1 = 1 /\ span + 1 - 1 = span /\ 1 + (span - 1) = span /\ 1 + span = span + 1 /\ ~(2 < 2)
    OBVIOUS
  <2>2. ProximityBonus(span, 2) = w \div (1 + Clamp(span - 1, 0, span))
    BY <2>1 DEF ProximityBonus
  <2>3. ProximityBonus(span + 1, 2) = w \div (1 + Clamp(span, 0, span + 1))
    BY <2>1 DEF ProximityBonus
  <2> HIDE DEF w
  <2> QED BY <1>2, <2>1, <2>2, <2>3
<1> HIDE DEF w
<1>4. span \in Nat \ {0} /\ span + 1 \in Nat \ {0} /\ span <= w
  BY <1>1
<1>5. w \div span \in Nat /\ w < span * (w \div span + 1) /\ w \div (span + 1) \in Nat
  BY <1>1, <1>4, QuotientIs
<1>6. w \div span > 0
  <2> DEFINE q == w \div span
  <2>1. q \in Nat /\ w < span * (q + 1)
    BY <1>5
  <2> HIDE DEF q
  <2>2. q = 0 => w < span
    BY <1>4, <2>1
  <2>3. q > 0
    BY <1>1, <1>4, <2>1, <2>2
  <2> QED BY <2>3 DEF q
<1>7. w \div (span + 1) <= w \div span
  <2>1. w * span <= w * (span + 1)
    BY <1>1, <1>4, TimesMono
  <2> QED BY <1>1, <1>4, <2>1, QuotientMono
<1> QED BY <1>3, <1>5, <1>6, <1>7

-----------------------------------------------------------------------------
(* Both phases, and what they add up to *)

\* A share of a number is one.
LEMMA ByIs ==
  ASSUME NEW a \in Int, NEW b \in Int
  PROVE  By(a, b) \in Int
<1>1. Unit \in Nat \ {0}
  BY ScoringAssumption DEF ScoringAssumption
<1> DEFINE x == a * b
<1>2. x \in Int
  OBVIOUS
<1> HIDE DEF x
<1>3. x \div Unit \in Int
  BY <1>1, <1>2
<1> QED BY <1>3 DEF By, x

\* What an authority table may say of a host, or no table.
Tables == {{}, {0}, {700}}

\* What standing adds is a number.
LEMMA StandingIs ==
  ASSUME NEW authority \in Tables
  PROVE  By(AuthorityWeight, Standing(authority)) \in Int
<1>1. Unit \in Nat \ {0} /\ AuthorityWeight \in Int
  BY ScoringAssumption DEF ScoringAssumption
<1>2. Standing(authority) \in Int
  BY <1>1 DEF Standing, Clamp, Tables
<1> QED BY <1>1, <1>2, ByIs

\* So is what quality adds.
LEMMA QualityIs ==
  ASSUME NEW quality \in Qualities
  PROVE  By(QualityWeight, QualityFactor(quality)) \in Int
<1>1. Unit \in Nat \ {0} /\ QualityWeight \in Int
  BY ScoringAssumption DEF ScoringAssumption
<1>2. QualityFactor(quality) \in Int
  <2> DEFINE text == 2 * Clamp(quality.textRatio, 0, Unit \div 2)
             links == Unit - Clamp(quality.linkDensity, 0, Unit)
             scripts == (Unit * 15) \div (15 + quality.scripts)
  <2>1. quality.textRatio \in Int /\ quality.linkDensity \in Int /\ quality.scripts \in Nat
    BY DEF Qualities
  <2>2. text \in Int /\ links \in Int
    <3>1. Unit \div 2 \in Int
      BY <1>1
    <3> QED BY <1>1, <2>1, <3>1 DEF Clamp
  <2>3. scripts \in Int
    <3>1. Unit * 15 \in Nat /\ 15 + quality.scripts \in Nat \ {0}
      BY <1>1, <2>1
    <3> QED BY <3>1, QuotientIs
  <2>4. QualityFactor(quality) = By(By(text, links), scripts)
    BY DEF QualityFactor
  <2> HIDE DEF text, links, scripts
  <2>5. By(text, links) \in Int
    BY <2>2, ByIs
  <2> QED BY <2>3, <2>4, <2>5, ByIs
<1> QED BY <1>1, <1>2, ByIs

\* The total of a document of two terms: what the terms come to in both phases,
\* what standing and quality add, and in the second the bonus.
Totals(counts, lengths, quality, authority, text, rest) ==
  /\ ScoreWithoutProximity(<<1, 2>>, counts, lengths, quality, authority) = text + rest
  /\ Explain(<<1, 2>>, counts, lengths, quality, {}, authority).total = text + rest
  /\ \A span : ProximityBonus(span, 2) \in Nat =>
       Explain(<<1, 2>>, counts, lengths, quality, {span}, authority).total = text + ProximityBonus(span, 2) + rest

\* They do so for some relevance and some rest.
SumUp(counts, lengths, quality, authority) ==
  \E text \in Nat, rest \in Int : Totals(counts, lengths, quality, authority, text, rest)

\* Every document has such a total.
LEMMA TotalsAre ==
  ASSUME NEW T, NEW tokens \in Seq(T), NEW quality \in Qualities, NEW authority \in Tables
  PROVE  SumUp([t \in 1..2 |-> CountsOf(tokens, t)], LengthsOf(tokens), quality, authority)
<1> DEFINE frequencies == <<1, 2>>
           counts == [t \in 1..2 |-> CountsOf(tokens, t)]
           lengths == LengthsOf(tokens)
           terms == [t \in DOMAIN counts |-> Contribution(frequencies[t], counts[t], lengths)]
           text == FoldLeft(LAMBDA sum, n : sum + n, 0, terms)
           places == [t \in DOMAIN counts |-> t]
           standing == By(AuthorityWeight, Standing(authority))
           fine == By(QualityWeight, QualityFactor(quality))
           first == FoldLeft(LAMBDA sum, t :
                               LET pseudo == PseudoFrequency(counts[t], lengths)
                               IN  sum + (Idf(frequencies[t]) * pseudo) \div (K1 + pseudo), 0, places)
<1>1. DOMAIN counts = 1..2 /\ \A t \in 1..2 : counts[t] = CountsOf(tokens, t) /\ frequencies[t] = t
  OBVIOUS
<1>2. terms \in [1..2 -> Nat]
  <2>1. \A t \in 1..2 : Contribution(t, CountsOf(tokens, t), lengths) \in Nat
    <3> SUFFICES ASSUME NEW t \in 1..2 PROVE Contribution(t, CountsOf(tokens, t), lengths) \in Nat
      OBVIOUS
    <3>1. t \in Nat /\ t > 0
      OBVIOUS
    <3>2. Fits(CountsOf(tokens, t), LengthsOf(tokens))
      BY CountsFit
    <3> QED BY <3>1, <3>2, ContributionIs
  <2>2. \A t \in DOMAIN counts : Contribution(frequencies[t], counts[t], lengths) = Contribution(t, CountsOf(tokens, t), lengths)
    BY <1>1
  <2> HIDE DEF counts, frequencies, lengths
  <2> QED BY <1>1, <2>1, <2>2
<1>3. text \in Nat
  <2> HIDE DEF terms
  <2> QED BY <1>2, TwoTerms
<1>4. first = text
  <2> DEFINE P(g) == g = [s \in SUBSET (DOMAIN places) |-> IF s = {} THEN 0
                            ELSE LET pseudo == PseudoFrequency(counts[places[Max(s)]], lengths)
                                 IN  g[s \ {Max(s)}] + (Idf(frequencies[places[Max(s)]]) * pseudo) \div (K1 + pseudo)]
             Q(g) == g = [s \in SUBSET (DOMAIN terms) |-> IF s = {} THEN 0 ELSE g[s \ {Max(s)}] + terms[Max(s)]]
  <2>1. first = (CHOOSE g : P(g))[DOMAIN places]
    BY DEF FoldLeft, MapThenFoldSet
  <2>2. text = (CHOOSE g : Q(g))[DOMAIN terms]
    BY DEF FoldLeft, MapThenFoldSet
  <2>3. DOMAIN places = 1..2 /\ DOMAIN terms = 1..2 /\ \A t \in 1..2 : places[t] = t
    BY <1>1
  <2>4. ASSUME NEW t \in 1..2
        PROVE  terms[t] = LET pseudo == PseudoFrequency(counts[places[t]], lengths)
                          IN  (Idf(frequencies[places[t]]) * pseudo) \div (K1 + pseudo)
    <3>1. terms[t] = Contribution(frequencies[t], counts[t], lengths) /\ places[t] = t
      BY <1>1, <2>3
    <3> HIDE DEF terms, places, counts, frequencies, lengths
    <3> QED BY <3>1 DEF Contribution
  <2>5. \A s \in SUBSET (1..2) : s # {} => Max(s) \in 1..2
    BY TakesLast
  <2> HIDE DEF terms, places, counts, frequencies, lengths, text, first
  <2>6. ASSUME NEW g PROVE P(g) <=> Q(g)
    <3>1. ASSUME NEW s \in SUBSET (1..2), s # {}
          PROVE  g[s \ {Max(s)}] + terms[Max(s)]
                   = LET pseudo == PseudoFrequency(counts[places[Max(s)]], lengths)
                     IN  g[s \ {Max(s)}] + (Idf(frequencies[places[Max(s)]]) * pseudo) \div (K1 + pseudo)
      <4>1. Max(s) \in 1..2
        BY <2>5, <3>1
      <4> QED BY <2>4, <4>1
    <3> DEFINE a == [s \in SUBSET (1..2) |-> IF s = {} THEN 0
                           ELSE LET pseudo == PseudoFrequency(counts[places[Max(s)]], lengths)
                                IN  g[s \ {Max(s)}] + (Idf(frequencies[places[Max(s)]]) * pseudo) \div (K1 + pseudo)]
               b == [s \in SUBSET (1..2) |-> IF s = {} THEN 0 ELSE g[s \ {Max(s)}] + terms[Max(s)]]
    <3>2. a = b
      BY <3>1
    <3>3. (P(g) <=> g = a) /\ (Q(g) <=> g = b)
      <4>1. P(g) <=> g = a
        BY <2>3, Zenon
      <4>2. Q(g) <=> g = b
        BY <2>3, Zenon
      <4> QED BY <4>1, <4>2
    <3> QED BY <3>2, <3>3, Zenon
  <2> HIDE DEF P, Q
  <2>7. (CHOOSE g : P(g)) = (CHOOSE g : Q(g))
    BY <2>6
  <2> QED BY <2>1, <2>2, <2>3, <2>7
<1>5. standing \in Int /\ fine \in Int
  <2> HIDE DEF terms, text, places, first, counts, lengths, frequencies
  <2>1. By(AuthorityWeight, Standing(authority)) \in Int
    BY StandingIs
  <2>2. By(QualityWeight, QualityFactor(quality)) \in Int
    BY QualityIs
  <2> QED BY <2>1, <2>2
<1>6. ScoreWithoutProximity(frequencies, counts, lengths, quality, authority) = first + standing + fine
  BY DEF ScoreWithoutProximity
<1>7. Len(terms) = 2
  <2> HIDE DEF terms
  <2> QED BY <1>2
<1>8. Explain(frequencies, counts, lengths, quality, {}, authority).total = text + 0 + standing + fine
  BY DEF Explain
<1>9. ASSUME NEW span
      PROVE  Explain(frequencies, counts, lengths, quality, {span}, authority).total
               = text + ProximityBonus(span, 2) + standing + fine
  <2>1. (CHOOSE x \in {span} : TRUE) = span /\ {span} # {}
    OBVIOUS
  <2>2. Explain(frequencies, counts, lengths, quality, {span}, authority).total
          = text + (IF {span} = {} THEN 0 ELSE ProximityBonus(CHOOSE x \in {span} : TRUE, Len(terms))) + standing + fine
    BY DEF Explain
  <2> HIDE DEF terms, text, standing, fine, frequencies, counts, lengths
  <2> QED BY <1>7, <2>1, <2>2
<1> HIDE DEF terms, text, standing, fine, first, places
<1>10. standing + fine \in Int
  BY <1>5
<1>11. /\ first + standing + fine = text + (standing + fine)
       /\ text + 0 + standing + fine = text + (standing + fine)
       /\ \A bonus \in Nat : text + bonus + standing + fine = text + bonus + (standing + fine)
  BY <1>3, <1>4, <1>5
<1> HIDE DEF frequencies, counts, lengths
<1>12. Totals(counts, lengths, quality, authority, text, standing + fine)
  <2>1. /\ ScoreWithoutProximity(frequencies, counts, lengths, quality, authority) = text + (standing + fine)
        /\ Explain(frequencies, counts, lengths, quality, {}, authority).total = text + (standing + fine)
    BY <1>6, <1>8, <1>11
  <2>2. ASSUME NEW span, ProximityBonus(span, 2) \in Nat
        PROVE  Explain(frequencies, counts, lengths, quality, {span}, authority).total
                 = text + ProximityBonus(span, 2) + (standing + fine)
    BY <1>9, <1>11, <2>2
  <2> QED BY <2>1, <2>2 DEF Totals, frequencies
<1>13. SumUp(counts, lengths, quality, authority)
  BY <1>3, <1>10, <1>12 DEF SumUp
<1> QED BY <1>13 DEF counts, lengths

\* Both phases come to one score, but for the bonus.
LEMMA PhasesAreOne ==
  ASSUME NEW T, parts \in Seq(T)
  PROVE  PhasesAgree
<1> SUFFICES ASSUME NEW quality \in Qualities, NEW authority \in {{}, {0}, {700}}
             PROVE  LET counts  == [t \in 1..2 |-> CountsOf(parts, t)]
                        first   == ScoreWithoutProximity(<<1, 2>>, counts, LengthsOf(parts), quality, authority)
                        total(spans) == Explain(<<1, 2>>, counts, LengthsOf(parts), quality, spans, authority).total
                    IN  /\ total({}) = first
                        /\ \A span \in 1..4 : total({span}) > first /\ total({span + 1}) <= total({span})
  BY DEF PhasesAgree
<1> DEFINE counts == [t \in 1..2 |-> CountsOf(parts, t)]
           lengths == LengthsOf(parts)
           first == ScoreWithoutProximity(<<1, 2>>, counts, lengths, quality, authority)
           total(spans) == Explain(<<1, 2>>, counts, lengths, quality, spans, authority).total
<1>1. SumUp(counts, lengths, quality, authority)
  BY TotalsAre, ZenonT(40) DEF Tables
<1>2. PICK text \in Nat, rest \in Int : Totals(counts, lengths, quality, authority, text, rest)
  <2> HIDE DEF counts, lengths
  <2> QED BY <1>1 DEF SumUp
<1>3. /\ first = text + rest /\ total({}) = text + rest
      /\ \A span : ProximityBonus(span, 2) \in Nat => total({span}) = text + ProximityBonus(span, 2) + rest
  <2> HIDE DEF counts, lengths
  <2> QED BY <1>2 DEF Totals
<1> HIDE DEF first, total
<1>4. ASSUME NEW span \in 1..4 PROVE total({span}) > first /\ total({span + 1}) <= total({span})
  <2> DEFINE x == ProximityBonus(span, 2)
             y == ProximityBonus(span + 1, 2)
  <2>1. x \in Nat /\ x > 0 /\ y \in Nat /\ y <= x
    BY BonusFalls
  <2>2. total({span}) = text + x + rest /\ total({span + 1}) = text + y + rest
    BY <1>3, <2>1
  <2> HIDE DEF x, y
  <2> QED BY <1>3, <2>1, <2>2
<1>5. total({}) = first
  BY <1>3
<1> QED BY <1>4, <1>5 DEF first, total, counts, lengths

\* A score rises with what matches, at most so far, and alike in both of the
\* phases that compute it, for documents of any length and any weights.
LEMMA ScoresSoundFor ==
  ASSUME NEW T, Made("tokens") => parts \in Seq(T)
  PROVE  ScoresAreSound
<1>1. MatchNeverHurts
  <2> SUFFICES ASSUME Made("tokens"), NEW frequency \in Frequencies, NEW field \in ScoredFields
               PROVE  /\ Worth(Append(parts, [field |-> field, term |-> 1]), frequency) >= Worth(parts, frequency)
                      /\ Worth(Append(parts, [field |-> field, term |-> 2]), frequency) <= Worth(parts, frequency)
    BY DEF MatchNeverHurts
  <2>1. frequency \in Nat /\ frequency > 0
    BY ScoringAssumption DEF Frequencies, ScoringAssumption
  <2> QED BY <2>1, TokenCounts
<1>2. SaturatedOnce
  <2> SUFFICES ASSUME Made("tokens"), NEW frequency \in Frequencies
               PROVE  Worth(parts, frequency) < Idf(frequency)
    BY DEF SaturatedOnce
  <2>1. frequency \in Nat /\ frequency > 0
    BY ScoringAssumption DEF Frequencies, ScoringAssumption
  <2>2. Fits(CountsOf(parts, 1), LengthsOf(parts))
    BY CountsFit
  <2> QED BY <2>1, <2>2, ContributionIs DEF Worth
<1>3. PhasesAgree
  <2>1. CASE Made("tokens")
    BY <2>1, PhasesAreOne
  <2>2. CASE ~Made("tokens")
    BY <2>2 DEF PhasesAgree
  <2> QED BY <2>1, <2>2
<1> QED BY <1>1, <1>2, <1>3 DEF ScoresAreSound

-----------------------------------------------------------------------------
(* What a grade gains (Gain) *)

\* The powers of two.
LEMMA PowersDouble ==
  /\ PowerOfTwo[0] = 1
  /\ \A n \in Nat : PowerOfTwo[n] \in Nat /\ PowerOfTwo[n] > 0 /\ PowerOfTwo[n + 1] = 2 * PowerOfTwo[n]
<1> DEFINE States == Nat
           base == 1
           step == [x \in States |-> 2 * x]
           w == [n \in Nat |-> CHOOSE v \in [SUBSET (1..n) -> States] : IsIterating(v, n, base, step)]
           f == [n \in Nat |-> w[n][1..n]]
           Is(g) == g = [n \in Nat |-> IF n = 0 THEN 1 ELSE 2 * g[n - 1]]
<1>1. base \in States /\ step \in [States -> States]
  OBVIOUS
<1>2. \A x \in States : step[x] = 2 * x /\ x \in Nat
  OBVIOUS
<1>3. base = 1
  OBVIOUS
<1> HIDE DEF States, base, step
<1>4. \A n \in Nat : IsIterating(w[n], n, base, step)
  BY <1>1, IteratingExists
<1> HIDE DEF w
<1>5. Iterates(w, States, base, step)
  BY <1>1, <1>4, IterationSteps
<1>6. f[0] = 1 /\ \A n \in Nat : f[n] \in Nat /\ f[n + 1] = 2 * f[n]
  <2>1. f[0] = w[0][1..0] /\ \A n \in Nat : f[n] = w[n][1..n] /\ f[n + 1] = w[n + 1][1..(n + 1)]
    OBVIOUS
  <2> HIDE DEF f
  <2>2. f[0] = base /\ \A n \in Nat : f[n] \in States /\ f[n + 1] = step[f[n]]
    BY <1>5, <2>1 DEF Iterates
  <2> QED BY <1>2, <1>3, <2>2
<1> HIDE DEF f
<1>7. Is(f)
  <2>1. f = [n \in Nat |-> f[n]]
    BY DEF f
  <2>2. \A n \in Nat : n # 0 => n - 1 \in Nat /\ (n - 1) + 1 = n
    OBVIOUS
  <2>3. \A n \in Nat : f[n] = IF n = 0 THEN 1 ELSE 2 * f[n - 1]
    BY <1>6, <2>2
  <2> QED BY <2>1, <2>3
<1>8. Is(PowerOfTwo)
  BY <1>7 DEF PowerOfTwo
<1>9. PowerOfTwo[0] = 1 /\ \A n \in Nat : PowerOfTwo[n + 1] = 2 * PowerOfTwo[n]
  <2>1. \A n \in Nat : PowerOfTwo[n] = IF n = 0 THEN 1 ELSE 2 * PowerOfTwo[n - 1]
    BY <1>8
  <2>2. \A n \in Nat : n + 1 \in Nat /\ n + 1 # 0 /\ (n + 1) - 1 = n
    OBVIOUS
  <2> QED BY <2>1, <2>2
<1> DEFINE G == {n \in Nat : PowerOfTwo[n] \in Nat /\ PowerOfTwo[n] > 0}
<1>10. \A n \in Nat : n \in G
  <2>1. 0 \in G
    BY <1>9
  <2>2. \A n \in Nat : n \in G => n + 1 \in G
    BY <1>9
  <2> HIDE DEF G
  <2> QED BY <2>1, <2>2, ByNumber
<1> QED BY <1>9, <1>10

\* A better grade is worth more.
LEMMA GainGrows ==
  /\ Gain(0) = 0 /\ \A n \in Nat : Gain(n) \in Nat /\ Gain(n) < Gain(n + 1)
BY PowersDouble DEF Gain

-----------------------------------------------------------------------------
(* No order of places is worth more than the best *)

\* The places among the first n that a grade is reached at.
Attain(a, n, g) == {i \in 1..n : a[i] >= g}

\* What the places gain, grades counted up to h only.
Gained(D, a, n, h) == [i \in 1..n |-> Gain(IF a[i] < h THEN a[i] ELSE h) * D[i]]

NonNegative(a, n) == \A i \in 1..n : a[i] \in Nat

\* What counting one grade more adds.
GainsBy(D, a, n, h) ==
  /\ SumOf(Gained(D, a, n, h), 1..n) \in Int /\ SumOf(D, Attain(a, n, h + 1)) \in Int
  /\ SumOf(Gained(D, a, n, h + 1), 1..n)
       = SumOf(Gained(D, a, n, h), 1..n) + (Gain(h + 1) - Gain(h)) * SumOf(D, Attain(a, n, h + 1))

\* Counting one grade more adds what it gains where it is reached.
LEMMA WorthGrows ==
  ASSUME NEW n \in Nat, NEW D, Weights(D, n), NEW a, NonNegative(a, n), NEW h \in Nat
  PROVE  GainsBy(D, a, n, h)
<1> DEFINE S == 1..n
           X == Attain(a, n, h + 1)
           e == Gained(D, a, n, h + 1)
           f == Gained(D, a, n, h)
           g == [i \in S |-> IF i \in X THEN D[i] ELSE 0]
           c == Gain(h + 1) - Gain(h)
<1>1. IsFiniteSet(S) /\ X \in SUBSET S /\ IsFiniteSet(X)
  <2>1. IsFiniteSet(S) /\ X \in SUBSET S
    BY FS_Interval DEF Attain
  <2> QED BY <2>1, FS_Subset
<1>2. \A i \in S : D[i] \in Int /\ a[i] \in Nat
  BY DEF Weights, NonNegative
<1>3. c \in Int
  BY GainGrows
<1>4. ASSUME NEW i \in S PROVE f[i] \in Int /\ g[i] \in Int /\ e[i] = 1 * f[i] + c * g[i]
  <2>1. D[i] \in Int /\ a[i] \in Nat /\ Gain(a[i]) \in Int /\ Gain(h) \in Int /\ Gain(h + 1) \in Int /\ h + 1 \in Nat
    BY <1>2, GainGrows
  <2>2. CASE a[i] >= h + 1
    <3>1. ~ (a[i] < h) /\ ~ (a[i] < h + 1) /\ i \in X
      BY <2>1, <2>2 DEF Attain
    <3>2. f[i] = Gain(h) * D[i] /\ e[i] = Gain(h + 1) * D[i] /\ g[i] = D[i]
      BY <3>1 DEF Gained
    <3>3. Gain(h + 1) * D[i] = Gain(h) * D[i] + (Gain(h + 1) - Gain(h)) * D[i] /\ Gain(h) * D[i] \in Int
      <4> DEFINE x == Gain(h + 1)
                 y == Gain(h)
                 z == D[i]
      <4>1. x \in Int /\ y \in Int /\ z \in Int
        BY <2>1
      <4> HIDE DEF x, y, z
      <4>2. x * z = y * z + (x - y) * z /\ y * z \in Int
        BY <4>1
      <4> QED BY <4>2 DEF x, y, z
    <3> HIDE DEF e, f, g, X
    <3> QED BY <2>1, <3>2, <3>3
  <2>3. CASE a[i] < h + 1
    <3>1. i \notin X /\ (a[i] < h \/ a[i] = h)
      BY <2>1, <2>3 DEF Attain
    <3>2. f[i] = Gain(a[i]) * D[i] /\ e[i] = Gain(a[i]) * D[i] /\ g[i] = 0
      <4>1. e[i] = Gain(a[i]) * D[i] /\ g[i] = 0
        BY <2>3, <3>1 DEF Gained
      <4>2. f[i] = Gain(a[i]) * D[i]
        BY <2>1, <3>1 DEF Gained
      <4> QED BY <4>1, <4>2
    <3>3. Gain(a[i]) * D[i] \in Int
      BY <2>1
    <3> HIDE DEF e, f, g, X, c
    <3> QED BY <1>3, <3>2, <3>3
  <2> QED BY <2>1, <2>2, <2>3
<1>5. SumOf(g, S) = SumOf(D, X)
  <2>1. Restricts(g, S, D, X)
    BY <1>1, <1>2 DEF Restricts
  <2> HIDE DEF S, X, g
  <2> QED BY <1>1, <2>1, Restricted
<1>6. SumOf(e, S) = 1 * SumOf(f, S) + c * SumOf(g, S)
  <2>1. Combines(e, S, 1, f, c, g)
    <3> HIDE DEF S, X, e, f, g, c
    <3> QED BY <1>3, <1>4 DEF Combines
  <2> HIDE DEF S, X, e, f, g, c
  <2> QED BY <1>1, <2>1, Combined
<1>7. SumOf(f, S) \in Int /\ SumOf(D, X) \in Int
  <2>1. \A i \in S : f[i] \in Int
    BY <1>4
  <2>2. \A i \in X : D[i] \in Int
    BY <1>1, <1>2
  <2> HIDE DEF S, X, f
  <2> QED BY <1>1, <2>1, <2>2, SumLaws
<1> QED
  <2> HIDE DEF S, X, e, f, g, c
  <2>1. SumOf(e, S) = SumOf(f, S) + c * SumOf(D, X)
    BY <1>3, <1>5, <1>6, <1>7
  <2> QED BY <1>7, <2>1 DEF GainsBy, S, X, e, f, c

\* As many places as there may be reach each grade, and they are the first.
Best(b, n, N, top) == \A g \in 1..top : N[g] \in Nat /\ Attain(b, n, g) = {i \in 1..n : i <= N[g]}

\* No more places reach each grade.
Scarce(a, n, N, top) == \A g \in 1..top : Cardinality(Attain(a, n, g)) <= N[g]

\* Worth no more, and as much only where they reach each grade alike.
WorthNoMore(D, a, b, n, top) ==
  /\ SumOf(Gained(D, a, n, top), 1..n) <= SumOf(Gained(D, b, n, top), 1..n)
  /\ SumOf(Gained(D, a, n, top), 1..n) = SumOf(Gained(D, b, n, top), 1..n) =>
       \A g \in 1..top : Attain(a, n, g) = Attain(b, n, g)

\* No order of places with no more of each grade is worth more, and none as much
\* but the best.
LEMMA BestIsBest ==
  ASSUME NEW n \in Nat, NEW D, Weights(D, n), NEW a, NEW b, NEW top \in Nat, NEW N, Best(b, n, N, top),
         NonNegative(a, n), NonNegative(b, n), Scarce(a, n, N, top)
  PROVE  WorthNoMore(D, a, b, n, top)
<1> DEFINE S == 1..n
           Mine(h) == SumOf(Gained(D, a, n, h), S)
           Most(h) == SumOf(Gained(D, b, n, h), S)
           Alike(h) == \A g \in 1..h : Attain(a, n, g) = Attain(b, n, g)
           G == {h \in Nat : h <= top => Mine(h) <= Most(h) /\ (Mine(h) = Most(h) => Alike(h))}
<1>1. 0 \in G
  <2>1. Gained(D, a, n, 0) = Gained(D, b, n, 0)
    <3>1. \A i \in 1..n : Gain(0) = 0 /\ ~ (a[i] < 0) /\ ~ (b[i] < 0)
      BY GainGrows DEF NonNegative
    <3> QED BY <3>1 DEF Gained
  <2>2. Mine(0) = Most(0) /\ Mine(0) \in Int
    BY <2>1, WorthGrows DEF GainsBy
  <2> HIDE DEF Mine, Most
  <2> QED BY <2>2
<1>2. ASSUME NEW h \in Nat, h \in G PROVE h + 1 \in G
  <2> SUFFICES ASSUME h + 1 <= top PROVE Mine(h + 1) <= Most(h + 1) /\ (Mine(h + 1) = Most(h + 1) => Alike(h + 1))
    BY <1>2
  <2> DEFINE X == Attain(a, n, h + 1)
             Y == Attain(b, n, h + 1)
             k == N[h + 1]
             c == Gain(h + 1) - Gain(h)
             m == IF k < n THEN k ELSE n
             x == SumOf(D, X)
             y == SumOf(D, Y)
  <2>1. h + 1 \in 1..top /\ h <= top
    OBVIOUS
  <2>2. k \in Nat /\ m \in 0..n /\ Y = 1..m
    <3>1. k \in Nat /\ Y = {i \in 1..n : i <= k}
      BY <2>1 DEF Best
    <3> HIDE DEF k, Y
    <3>2. m \in 0..n /\ {i \in 1..n : i <= k} = 1..m
      BY <3>1
    <3> QED BY <3>1, <3>2
  <2>3. X \in SUBSET S /\ IsFiniteSet(X) /\ Cardinality(X) <= m
    <3>1. X \in SUBSET S /\ IsFiniteSet(S) /\ Cardinality(S) = n
      BY FS_Interval DEF Attain
    <3>2. IsFiniteSet(X) /\ Cardinality(X) <= n
      <4> HIDE DEF X, S
      <4> QED BY <3>1, FS_Subset
    <3>3. Cardinality(X) <= k
      BY <2>1 DEF Scarce
    <3> HIDE DEF X, S
    <3> QED BY <3>1, <3>2, <3>3
  <2>4. x \in Int /\ y \in Int /\ x <= y /\ (x = y => X = Y)
    <3>1. SumOf(D, X) \in Int /\ SumOf(D, 1..m) \in Int /\ SumOf(D, X) <= SumOf(D, 1..m)
          /\ (SumOf(D, X) = SumOf(D, 1..m) => X = 1..m)
      <4> HIDE DEF X, m
      <4> QED BY <2>2, <2>3, FirstWeighMost
    <3> QED BY <2>2, <3>1
  <2>5. c \in Int /\ c > 0
    BY GainGrows
  <2>6. Mine(h) \in Int /\ Mine(h + 1) = Mine(h) + c * x
    <3>1. GainsBy(D, a, n, h)
      BY WorthGrows
    <3> QED BY <3>1 DEF GainsBy
  <2>7. Most(h) \in Int /\ Most(h + 1) = Most(h) + c * y
    <3>1. GainsBy(D, b, n, h)
      BY WorthGrows
    <3> QED BY <3>1 DEF GainsBy
  <2>8. Mine(h) <= Most(h) /\ (Mine(h) = Most(h) => Alike(h))
    BY <1>2, <2>1
  <2>9. Alike(h) /\ X = Y => Alike(h + 1)
    <3>1. \A g \in 1..(h + 1) : g \in 1..h \/ g = h + 1
      OBVIOUS
    <3> QED BY <3>1
  <2> HIDE DEF Mine, Most, x, y, c, Alike, X, Y
  <2>10. c * x <= c * y /\ (c * x = c * y => x = y) /\ c * x \in Int /\ c * y \in Int
    BY <2>4, <2>5
  <2>11. Mine(h + 1) <= Most(h + 1) /\ (Mine(h + 1) = Most(h + 1) => Mine(h) = Most(h) /\ x = y)
    BY <2>4, <2>6, <2>7, <2>8, <2>10
  <2> QED BY <2>4, <2>8, <2>9, <2>11
<1>3. top \in G
  <2> HIDE DEF G
  <2> QED BY <1>1, <1>2, ByNumber
<1> QED BY <1>3 DEF WorthNoMore

-----------------------------------------------------------------------------
(* Sums along places and pairs (Dcg, Shuffled) *)

\* What the places gain, each as much as it is worth.
Gains(places) == [i \in DOMAIN places |-> Gain(places[i]) * Discount[i]]

\* The gain of a page is the sum of that of its places.
LEMMA DcgIsSum ==
  ASSUME NEW n \in Nat, NEW places, DOMAIN places = 1..n, \A i \in 1..n : Gains(places)[i] \in Int
  PROVE  Dcg(places) = SumOf(Gains(places), 1..n)
<1> DEFINE e == Gains(places)
           own == [i \in DOMAIN places |-> i]
           P(g) == g = [s \in SUBSET (1..n) |-> IF s = {} THEN 0
                          ELSE g[s \ {Max(s)}] + Gain(places[own[Max(s)]]) * Discount[own[Max(s)]]]
<1>1. Dcg(places) = (CHOOSE g : P(g))[1..n]
  BY DEF Dcg, FoldLeft, MapThenFoldSet
<1>2. ASSUME NEW s \in SUBSET (1..n), s # {}
      PROVE  Gain(places[own[Max(s)]]) * Discount[own[Max(s)]] = e[Max(s)]
  <2>1. Max(s) \in 1..n
    BY <1>2, TakesLast
  <2> QED BY <2>1 DEF Gains
<1> HIDE DEF e, own
<1>3. ASSUME NEW g PROVE P(g) <=> IsSumAlong(g, n, e)
  BY <1>2 DEF IsSumAlong
<1> HIDE DEF P
<1>4. (CHOOSE g : P(g)) = (CHOOSE g : IsSumAlong(g, n, e))
  BY <1>3
<1>5. \A i \in 1..n : e[i] \in Int
  BY DEF e
<1> QED BY <1>1, <1>4, <1>5, SumAlong DEF e

\* The differences of the pairs, some the other way round.
Differences(pairs, flips) == [i \in DOMAIN pairs |-> (IF flips[i] THEN -1 ELSE 1) * (pairs[i].after - pairs[i].before)]

\* What a trial sums up is their sum.
LEMMA ShuffledIsSum ==
  ASSUME NEW n \in Nat, NEW pairs, DOMAIN pairs = 1..n, NEW flips, \A i \in 1..n : Differences(pairs, flips)[i] \in Int
  PROVE  Shuffled(pairs, flips) = SumOf(Differences(pairs, flips), 1..n)
<1> DEFINE e == Differences(pairs, flips)
           own == [i \in DOMAIN pairs |-> i]
           P(g) == g = [s \in SUBSET (1..n) |-> IF s = {} THEN 0
                          ELSE g[s \ {Max(s)}] + (IF flips[own[Max(s)]] THEN -1 ELSE 1)
                                                    * (pairs[own[Max(s)]].after - pairs[own[Max(s)]].before)]
<1>1. Shuffled(pairs, flips) = (CHOOSE g : P(g))[1..n]
  BY DEF Shuffled, FoldLeft, MapThenFoldSet
<1>2. ASSUME NEW s \in SUBSET (1..n), s # {}
      PROVE  (IF flips[own[Max(s)]] THEN -1 ELSE 1) * (pairs[own[Max(s)]].after - pairs[own[Max(s)]].before) = e[Max(s)]
  <2>1. Max(s) \in 1..n
    BY <1>2, TakesLast
  <2> QED BY <2>1 DEF Differences
<1> HIDE DEF e, own
<1>3. ASSUME NEW g PROVE P(g) <=> IsSumAlong(g, n, e)
  BY <1>2 DEF IsSumAlong
<1> HIDE DEF P
<1>4. (CHOOSE g : P(g)) = (CHOOSE g : IsSumAlong(g, n, e))
  BY <1>3
<1>5. \A i \in 1..n : e[i] \in Int
  BY DEF e
<1> QED BY <1>1, <1>4, <1>5, SumAlong DEF e

-----------------------------------------------------------------------------
(* The best page that there could be (Ideal) *)

\* Grades of a finite number of pages.
Judging(grades) == IsFiniteSet(DOMAIN grades) /\ \A url \in DOMAIN grades : grades[url] \in 0..MaxGrade

\* The grades for some of the pages that a hit may be are such.
LEMMA GradingsJudge ==
  ASSUME NEW grades \in Gradings
  PROVE  Judging(grades)
<1> DEFINE H == Parts["hits"]
           U == {hit.url : hit \in H}
           F == {hit.final : hit \in H}
<1>1. IsFiniteSet(H)
  BY ContentAssumption DEF ContentAssumption
<1>2. IsFiniteSet(U) /\ IsFiniteSet(F)
  <2> HIDE DEF H
  <2>1. IsFiniteSet(U)
    <3> DEFINE f == [hit \in H |-> hit.url]
    <3>1. U = {f[hit] : hit \in H}
      OBVIOUS
    <3> HIDE DEF f, U
    <3> QED BY <1>1, <3>1, ImageIsFinite
  <2>2. IsFiniteSet(F)
    <3> DEFINE f == [hit \in H |-> hit.final]
    <3>1. F = {f[hit] : hit \in H}
      OBVIOUS
    <3> HIDE DEF f, F
    <3> QED BY <1>1, <3>1, ImageIsFinite
  <2> QED BY <2>1, <2>2
<1>3. PICK urls \in SUBSET (U \cup F) : grades \in [urls -> 0..MaxGrade]
  BY DEF Gradings
<1>4. IsFiniteSet(U \cup F)
  <2> HIDE DEF U, F
  <2> QED BY <1>2, FS_Union
<1>5. IsFiniteSet(urls)
  <2> HIDE DEF U, F
  <2> QED BY <1>3, <1>4, FS_Subset
<1> QED BY <1>3, <1>5 DEF Judging

\* The better the grade, the fewer pages have it.
LEMMA GradedFromIs ==
  ASSUME NEW grades, Judging(grades)
  PROVE  /\ GradedFrom(grades, 0) = DOMAIN grades
         /\ \A g \in Nat : IsFiniteSet(GradedFrom(grades, g)) /\ Cardinality(GradedFrom(grades, g)) \in Nat
         /\ \A g, h \in Nat : g <= h => Cardinality(GradedFrom(grades, h)) <= Cardinality(GradedFrom(grades, g))
<1> DEFINE X(g) == GradedFrom(grades, g)
<1>0. MaxGrade \in Nat
  BY EvaluationAssumption DEF EvaluationAssumption
<1>1. X(0) = DOMAIN grades
  BY <1>0 DEF GradedFrom, Judging
<1>2. ASSUME NEW g \in Nat PROVE IsFiniteSet(X(g)) /\ Cardinality(X(g)) \in Nat
  <2>1. X(g) \in SUBSET (DOMAIN grades) /\ IsFiniteSet(DOMAIN grades)
    BY DEF GradedFrom, Judging
  <2> HIDE DEF X
  <2>2. IsFiniteSet(X(g))
    BY <2>1, FS_Subset
  <2> QED BY <2>2, FS_CardinalityType
<1>3. ASSUME NEW g \in Nat, NEW h \in Nat, g <= h PROVE Cardinality(X(h)) <= Cardinality(X(g))
  <2>1. X(h) \in SUBSET X(g)
    BY <1>0, <1>3 DEF GradedFrom, Judging
  <2> HIDE DEF X
  <2> QED BY <1>2, <2>1, FS_Subset
<1> QED BY <1>1, <1>2, <1>3

\* Each place of the best page has every grade that enough pages reach.
LEMMA IdealIs ==
  ASSUME NEW grades, Judging(grades), NEW depth \in Nat
  PROVE  \E m \in 0..depth :
           /\ DOMAIN Ideal(grades, depth) = 1..m
           /\ \A i \in 1..m : Ideal(grades, depth)[i] \in 0..MaxGrade
           /\ \A i \in 1..m : \A g \in 1..MaxGrade : Ideal(grades, depth)[i] >= g <=> Cardinality(GradedFrom(grades, g)) >= i
           /\ \A i \in (m + 1)..depth : \A g \in 1..MaxGrade : ~ (Cardinality(GradedFrom(grades, g)) >= i)
<1> DEFINE best == Ideal(grades, depth)
           N(g) == Cardinality(GradedFrom(grades, g))
           all == Cardinality(DOMAIN grades)
           m == Min({depth, all})
           R(i) == {g \in 0..MaxGrade : N(g) >= i}
<1>0. MaxGrade \in Nat
  BY EvaluationAssumption DEF EvaluationAssumption
<1>1. all = N(0) /\ all \in Nat /\ \A g \in Nat : N(g) \in Nat
  BY GradedFromIs
<1>2. \A g, h \in Nat : g <= h => N(h) <= N(g)
  BY GradedFromIs
<1>3. best = [i \in 1..m |-> Max(R(i))]
  BY DEF Ideal
<1> HIDE DEF best, N, all
<1>4. m \in 0..depth /\ m <= all /\ (m = depth \/ m = all)
  <2>1. m = IF depth <= all THEN depth ELSE all
    BY <1>1, LeastOfTwo
  <2> HIDE DEF m
  <2> QED BY <1>1, <2>1
<1> HIDE DEF m
<1>5. ASSUME NEW i \in 1..m PROVE best[i] \in R(i) /\ \A g \in R(i) : best[i] >= g
  <2>1. R(i) \in SUBSET Nat /\ R(i) \in SUBSET (0..MaxGrade) /\ 0 \in R(i) /\ IsFiniteSet(0..MaxGrade)
    <3>1. R(i) \in SUBSET Nat /\ R(i) \in SUBSET (0..MaxGrade)
      BY <1>0
    <3>2. 0 \in R(i)
      BY <1>0, <1>1, <1>4
    <3>3. IsFiniteSet(0..MaxGrade)
      BY <1>0, FS_Interval
    <3> QED BY <3>1, <3>2, <3>3
  <2>2. best[i] = Max(R(i))
    BY <1>3
  <2> HIDE DEF R
  <2>3. IsFiniteSet(R(i))
    BY <2>1, FS_Subset
  <2>4. \E x \in R(i) : \A y \in R(i) : y <= x
    BY <2>1, <2>3, GreatestNat
  <2>5. \E x \in R(i) : \A y \in R(i) : x >= y
    BY <2>1, <2>4
  <2> QED BY <2>2, <2>5 DEF Max
<1>6. ASSUME NEW i \in 1..m, NEW g \in 1..MaxGrade PROVE best[i] >= g <=> N(g) >= i
  <2>1. best[i] \in Nat /\ N(best[i]) >= i /\ N(best[i]) \in Nat /\ g \in Nat /\ N(g) \in Nat /\ i \in Nat
    BY <1>0, <1>1, <1>4, <1>5
  <2>2. ASSUME best[i] >= g PROVE N(g) >= i
    <3>1. N(best[i]) <= N(g)
      BY <1>2, <2>1, <2>2
    <3> QED BY <2>1, <3>1
  <2>3. ASSUME N(g) >= i PROVE best[i] >= g
    BY <1>0, <1>5, <2>3
  <2> QED BY <2>2, <2>3
<1>7. ASSUME NEW i \in (m + 1)..depth, NEW g \in 1..MaxGrade PROVE ~ (N(g) >= i)
  <2>1. N(g) \in Nat /\ N(g) <= all /\ all \in Nat
    <3>1. 0 \in Nat /\ g \in Nat /\ 0 <= g
      BY <1>0
    <3> QED BY <1>1, <1>2, <3>1
  <2> QED BY <1>4, <2>1
<1>8. DOMAIN best = 1..m /\ \A i \in 1..m : best[i] \in 0..MaxGrade
  BY <1>3, <1>5
<1> QED BY <1>4, <1>6, <1>7, <1>8 DEF best, N

\* Grades of places, none for those beyond them.
Padded(places, n) == [i \in 1..n |-> IF i \in DOMAIN places THEN places[i] ELSE 0]

\* What is beyond a page adds nothing to it.
LEMMA DcgPadded ==
  ASSUME NEW n \in Nat, n <= Len(Discount), NEW k \in 0..n, NEW places, DOMAIN places = 1..k,
         \A i \in 1..k : places[i] \in 0..MaxGrade
  PROVE  Dcg(places) = SumOf(Gained(Discount, Padded(places, n), n, MaxGrade), 1..n)
<1> DEFINE e == Gained(Discount, Padded(places, n), n, MaxGrade)
           f == Gains(places)
           S == 1..n
           R == 1..k
<1>0. MaxGrade \in Nat /\ \A i \in 1..n : Discount[i] \in Int
  BY EvaluationAssumption DEF EvaluationAssumption
<1>1. \A i \in R : f[i] \in Int
  <2> SUFFICES ASSUME NEW i \in R PROVE f[i] \in Int
    OBVIOUS
  <2>1. f[i] = Gain(places[i]) * Discount[i] /\ Discount[i] \in Int /\ places[i] \in Nat
    BY <1>0 DEF Gains
  <2>2. Gain(places[i]) \in Int
    BY <2>1, GainGrows
  <2> QED BY <2>1, <2>2
<1>2. \A i \in S : e[i] = IF i \in R THEN f[i] ELSE 0
  <2> SUFFICES ASSUME NEW i \in S PROVE e[i] = IF i \in R THEN f[i] ELSE 0
    OBVIOUS
  <2>1. CASE i \in R
    <3>1. Padded(places, n)[i] = places[i] /\ places[i] \in 0..MaxGrade
      BY <2>1 DEF Padded
    <3>2. (IF places[i] < MaxGrade THEN places[i] ELSE MaxGrade) = places[i]
      BY <1>0, <3>1
    <3> QED BY <2>1, <3>1, <3>2 DEF Gained, Gains
  <2>2. CASE i \notin R
    <3>1. Padded(places, n)[i] = 0 /\ Gain(0) = 0
      BY <2>2, GainGrows DEF Padded
    <3>2. (IF 0 < MaxGrade THEN 0 ELSE MaxGrade) = 0
      BY <1>0
    <3>3. e[i] = 0 * Discount[i]
      BY <3>1, <3>2 DEF Gained
    <3> QED BY <1>0, <2>2, <3>3
  <2> QED BY <2>1, <2>2
<1>3. IsFiniteSet(S) /\ R \in SUBSET S
  BY FS_Interval
<1>4. Dcg(places) = SumOf(f, R)
  <2>1. k \in Nat /\ \A i \in 1..k : Gains(places)[i] \in Int
    BY <1>1
  <2> QED BY <2>1, DcgIsSum
<1>5. Restricts(e, S, f, R)
  BY <1>1, <1>2 DEF Restricts
<1> HIDE DEF e, f, S, R
<1>6. SumOf(e, S) = SumOf(f, R)
  BY <1>3, <1>5, Restricted
<1> QED BY <1>4, <1>6 DEF e, S

-----------------------------------------------------------------------------
(* A score is a share of the best *)

\* The places of a page, the grade of what stands there at each.
LEMMA PlacesAre ==
  ASSUME NEW grades, Judging(grades), NEW H, NEW hits \in Seq(H), NEW depth \in Nat
  PROVE  LET ranked == Ranked(grades, hits, depth)
             places == [i \in DOMAIN ranked |-> GradeAt(grades, ranked[i])]
         IN  /\ \E k \in 0..depth : DOMAIN ranked = 1..k /\ DOMAIN places = 1..k
             /\ \A i \in DOMAIN ranked : places[i] = GradeAt(grades, ranked[i]) /\ places[i] \in 0..MaxGrade
<1> DEFINE k == IF Len(hits) < depth THEN Len(hits) ELSE depth
           ranked == Ranked(grades, hits, depth)
           places == [i \in DOMAIN ranked |-> GradeAt(grades, ranked[i])]
<1>1. k \in 0..depth
  BY Len(hits) \in Nat
<1>2. DOMAIN ranked = 1..k /\ DOMAIN places = 1..k
  BY DEF Ranked
<1> HIDE DEF ranked, k
<1>3. \A i \in DOMAIN ranked : GradeAt(grades, ranked[i]) \in 0..MaxGrade
  BY EvaluationAssumption DEF EvaluationAssumption, GradeAt, Judging
<1>4. \A i \in DOMAIN ranked : places[i] = GradeAt(grades, ranked[i]) /\ places[i] \in 0..MaxGrade
  BY <1>3
<1> QED BY <1>1, <1>2, <1>4 DEF ranked

\* Where no two count under one URL, no more places reach a grade than pages do.
LEMMA PlacesAreFew ==
  ASSUME NEW grades, Judging(grades), NEW ranked, NEW k \in Nat, DOMAIN ranked = 1..k, IsInjective(ranked),
         NEW g \in 1..MaxGrade, NEW X, X = {i \in 1..k : GradeAt(grades, ranked[i]) >= g}
  PROVE  Cardinality(X) <= Cardinality(GradedFrom(grades, g))
<1> DEFINE T == GradedFrom(grades, g)
           f == [i \in X |-> ranked[i]]
<1>1. \A i \in X : ranked[i] \in T
  <2> SUFFICES ASSUME NEW i \in X PROVE ranked[i] \in T
    OBVIOUS
  <2>1. GradeAt(grades, ranked[i]) >= g /\ g > 0
    BY EvaluationAssumption DEF EvaluationAssumption
  <2>2. ranked[i] \in DOMAIN grades
    BY <2>1 DEF GradeAt
  <2> QED BY <2>1, <2>2 DEF GradeAt, GradedFrom
<1>2. IsFiniteSet(T)
  BY GradedFromIs, EvaluationAssumption DEF EvaluationAssumption
<1>3. f \in Injection(X, T)
  <2>1. f \in [X -> T]
    BY <1>1
  <2>2. \A i, j \in X : f[i] = f[j] => i = j
    BY DEF IsInjective
  <2> QED BY <2>1, <2>2 DEF Injection, IsInjective
<1> HIDE DEF f, T
<1>4. Cardinality(X) <= Cardinality(T)
  BY <1>2, <1>3, FS_Injection
<1> QED BY <1>4 DEF T

\* Scores are shares, of any hits and grades.
LEMMA SharesOf ==
  ASSUME NEW grades, Judging(grades), NEW H, NEW hits \in Seq(H), NEW depth \in Nat, depth <= Len(Discount),
         IsInjective(Ranked(grades, hits, depth))
  PROVE  LET scored == Scored(grades, hits, depth)
             ranked == Ranked(grades, hits, depth)
             best   == Ideal(grades, depth)
         IN  /\ scored.dcg <= scored.ideal /\ scored.found <= scored.relevant
             /\ (scored.dcg = scored.ideal <=>
                   \A i \in 1..depth : (IF i \in DOMAIN ranked THEN GradeAt(grades, ranked[i]) ELSE 0)
                                         = (IF i \in DOMAIN best THEN best[i] ELSE 0))
<1> DEFINE ranked == Ranked(grades, hits, depth)
           places == [i \in DOMAIN ranked |-> GradeAt(grades, ranked[i])]
           best == Ideal(grades, depth)
           a == Padded(places, depth)
           b == Padded(best, depth)
           N == [g \in 1..MaxGrade |-> Cardinality(GradedFrom(grades, g))]
           scored == Scored(grades, hits, depth)
           top == MaxGrade
<1>0. top \in Nat /\ RelevantAt \in 1..top /\ Weights(Discount, depth)
  <2>1. \A i \in 1..depth : i \in DOMAIN Discount
    BY EvaluationAssumption DEF EvaluationAssumption
  <2>2. MaxGrade \in Nat /\ RelevantAt \in 1..MaxGrade /\ Discount \in Seq(Nat \ {0})
    BY EvaluationAssumption DEF EvaluationAssumption
  <2>3. \A i \in 1..depth : Discount[i] \in Nat /\ Discount[i] > 0
    BY <2>1, <2>2
  <2>4. \A i, j \in 1..depth : i < j => Discount[i] > Discount[j]
    BY <2>1, EvaluationAssumption DEF EvaluationAssumption
  <2> QED BY <2>2, <2>3, <2>4 DEF Weights
<1>1. PICK k \in 0..depth : DOMAIN ranked = 1..k /\ DOMAIN places = 1..k
  BY PlacesAre
<1>2. \A i \in 1..k : places[i] = GradeAt(grades, ranked[i]) /\ places[i] \in 0..top
  BY <1>1, PlacesAre
<1>3. PICK m \in 0..depth :
           /\ DOMAIN best = 1..m
           /\ \A i \in 1..m : best[i] \in 0..top
           /\ \A i \in 1..m : \A g \in 1..top : best[i] >= g <=> Cardinality(GradedFrom(grades, g)) >= i
           /\ \A i \in (m + 1)..depth : \A g \in 1..top : ~ (Cardinality(GradedFrom(grades, g)) >= i)
  BY IdealIs
<1>4. /\ scored.dcg = Dcg(places) /\ scored.ideal = Dcg(best)
      /\ scored.found = Cardinality({i \in DOMAIN places : places[i] >= RelevantAt})
      /\ scored.relevant = Cardinality(GradedFrom(grades, RelevantAt))
  BY DEF Scored, Relevant
<1>5. IsInjective(ranked)
  OBVIOUS
<1> HIDE DEF scored, places, best, ranked, top
<1>6. ASSUME NEW i \in 1..depth
      PROVE  /\ a[i] = (IF i \in DOMAIN ranked THEN GradeAt(grades, ranked[i]) ELSE 0) /\ a[i] \in 0..top
             /\ b[i] = (IF i \in DOMAIN best THEN best[i] ELSE 0) /\ b[i] \in 0..top
  <2>1. a[i] = (IF i \in DOMAIN places THEN places[i] ELSE 0) /\ b[i] = (IF i \in DOMAIN best THEN best[i] ELSE 0)
    BY DEF Padded
  <2>2. a[i] = (IF i \in DOMAIN ranked THEN GradeAt(grades, ranked[i]) ELSE 0)
    BY <1>1, <1>2, <2>1
  <2>3. a[i] \in 0..top
    BY <1>0, <1>1, <1>2, <2>1
  <2>4. b[i] \in 0..top
    BY <1>0, <1>3, <2>1
  <2> QED BY <2>1, <2>2, <2>3, <2>4
<1>7. NonNegative(a, depth) /\ NonNegative(b, depth)
  BY <1>0, <1>6 DEF NonNegative
<1>8. ASSUME NEW g \in 1..top PROVE Attain(a, depth, g) = {i \in 1..k : GradeAt(grades, ranked[i]) >= g}
  <2>1. ASSUME NEW i \in 1..depth, a[i] >= g PROVE i \in 1..k
    <3>1. ~ (0 >= g)
      BY <1>0
    <3> QED BY <1>1, <1>6, <2>1, <3>1
  <2>2. \A i \in 1..k : i \in 1..depth /\ a[i] = GradeAt(grades, ranked[i])
    BY <1>1, <1>6
  <2> HIDE DEF a
  <2> QED BY <2>1, <2>2 DEF Attain
<1>9. Scarce(a, depth, N, top)
  <2> SUFFICES ASSUME NEW g \in 1..top PROVE Cardinality(Attain(a, depth, g)) <= Cardinality(GradedFrom(grades, g))
    BY DEF top, Scarce
  <2> DEFINE X == Attain(a, depth, g)
  <2>1. X = {i \in 1..k : GradeAt(grades, ranked[i]) >= g} /\ k \in Nat /\ g \in 1..MaxGrade
    BY <1>8 DEF top
  <2> HIDE DEF X
  <2>2. Cardinality(X) <= Cardinality(GradedFrom(grades, g))
    BY <1>1, <1>5, <2>1, PlacesAreFew
  <2> QED BY <2>2 DEF X
<1>10. Best(b, depth, N, top)
  <2> SUFFICES ASSUME NEW g \in 1..top PROVE N[g] \in Nat /\ Attain(b, depth, g) = {i \in 1..depth : i <= N[g]}
    BY DEF Best
  <2>1. N[g] = Cardinality(GradedFrom(grades, g)) /\ g \in Nat
    BY DEF top
  <2>2. N[g] \in Nat
    BY <2>1, GradedFromIs
  <2>3. ASSUME NEW i \in 1..depth PROVE b[i] >= g <=> i <= N[g]
    <3>1. CASE i \in 1..m
      <4>1. b[i] = best[i]
        BY <1>3, <1>6, <3>1
      <4> QED BY <1>3, <2>1, <2>2, <3>1, <4>1
    <3>2. CASE i \notin 1..m
      <4>1. b[i] = 0 /\ i \in (m + 1)..depth
        BY <1>3, <1>6, <3>2
      <4>2. ~ (0 >= g)
        BY <1>0
      <4>3. ~ (N[g] >= i)
        BY <1>3, <2>1, <4>1
      <4> QED BY <2>2, <4>1, <4>2, <4>3
    <3> QED BY <3>1, <3>2
  <2> HIDE DEF b, N
  <2>4. Attain(b, depth, g) = {i \in 1..depth : i <= N[g]}
    BY <2>3 DEF Attain
  <2> QED BY <2>2, <2>4
<1>11. /\ Dcg(places) = SumOf(Gained(Discount, a, depth, top), 1..depth)
       /\ Dcg(best) = SumOf(Gained(Discount, b, depth, top), 1..depth)
  <2>1. Dcg(places) = SumOf(Gained(Discount, Padded(places, depth), depth, MaxGrade), 1..depth)
    BY <1>1, <1>2, DcgPadded DEF top
  <2>2. Dcg(best) = SumOf(Gained(Discount, Padded(best, depth), depth, MaxGrade), 1..depth)
    BY <1>3, DcgPadded DEF top
  <2> QED BY <2>1, <2>2 DEF top
<1> HIDE DEF a, b, N
<1> DEFINE mine == SumOf(Gained(Discount, a, depth, top), 1..depth)
           most == SumOf(Gained(Discount, b, depth, top), 1..depth)
<1>12. mine <= most /\ (mine = most => \A g \in 1..top : Attain(a, depth, g) = Attain(b, depth, g))
  <2>1. WorthNoMore(Discount, a, b, depth, top)
    BY <1>0, <1>7, <1>9, <1>10, BestIsBest
  <2> QED BY <2>1 DEF WorthNoMore
<1>13. (\A g \in 1..top : Attain(a, depth, g) = Attain(b, depth, g)) => \A i \in 1..depth : a[i] = b[i]
  <2> SUFFICES ASSUME \A g \in 1..top : Attain(a, depth, g) = Attain(b, depth, g), NEW i \in 1..depth PROVE a[i] = b[i]
    OBVIOUS
  <2>1. \A g \in 1..top : a[i] >= g <=> b[i] >= g
    BY DEF Attain
  <2>2. a[i] \in 0..top /\ b[i] \in 0..top
    BY <1>6
  <2>3. (a[i] > 0 => b[i] >= a[i]) /\ (b[i] > 0 => a[i] >= b[i])
    BY <1>0, <2>1, <2>2
  <2> QED BY <1>0, <2>2, <2>3
<1>14. (\A i \in 1..depth : a[i] = b[i]) => mine = most
  <2> SUFFICES ASSUME \A i \in 1..depth : a[i] = b[i] PROVE Gained(Discount, a, depth, top) = Gained(Discount, b, depth, top)
    OBVIOUS
  <2> QED BY DEF Gained
<1>15. mine = most <=> \A i \in 1..depth : a[i] = b[i]
  <2> HIDE DEF mine, most
  <2> QED BY <1>12, <1>13, <1>14
<1>16. (\A i \in 1..depth : a[i] = b[i]) <=>
         \A i \in 1..depth : (IF i \in DOMAIN ranked THEN GradeAt(grades, ranked[i]) ELSE 0)
                               = (IF i \in DOMAIN best THEN best[i] ELSE 0)
  BY <1>6
<1>17. scored.found <= scored.relevant
  <2> DEFINE X == {i \in DOMAIN places : places[i] >= RelevantAt}
  <2>1. X = {i \in 1..k : GradeAt(grades, ranked[i]) >= RelevantAt} /\ k \in Nat /\ RelevantAt \in 1..MaxGrade
    BY <1>0, <1>1, <1>2 DEF top
  <2> HIDE DEF X
  <2>2. Cardinality(X) <= Cardinality(GradedFrom(grades, RelevantAt))
    BY <1>1, <1>5, <2>1, PlacesAreFew
  <2> QED BY <1>4, <2>2 DEF X
<1>18. scored.dcg = mine /\ scored.ideal = most
  BY <1>4, <1>11
<1> HIDE DEF mine, most
<1> QED BY <1>12, <1>15, <1>16, <1>17, <1>18 DEF scored, ranked, best

-----------------------------------------------------------------------------
(* Judged under either URL, and compared in pairs (Compare) *)

\* A page counts as judged under either of its URLs.
LEMMA JudgedEither ==
  ASSUME NEW grades, NEW H, NEW hits \in Seq(H)
  PROVE  Scored(grades, hits, Len(hits)).judged
           = Cardinality({i \in DOMAIN hits : {hits[i].url, hits[i].final} \cap DOMAIN grades # {}})
<1> DEFINE ranked == Ranked(grades, hits, Len(hits))
           X == {i \in DOMAIN ranked : ranked[i] \in DOMAIN grades}
           Y == {i \in DOMAIN hits : {hits[i].url, hits[i].final} \cap DOMAIN grades # {}}
<1>1. Scored(grades, hits, Len(hits)).judged = Cardinality(X)
  BY DEF Scored
<1>2. DOMAIN ranked = DOMAIN hits /\ \A i \in DOMAIN hits : ranked[i] = RankedAs(grades, hits[i])
  BY DEF Ranked
<1>3. \A i \in DOMAIN hits :
         RankedAs(grades, hits[i]) \in DOMAIN grades <=> {hits[i].url, hits[i].final} \cap DOMAIN grades # {}
  BY DEF RankedAs
<1> HIDE DEF ranked
<1>4. X = Y
  BY <1>2, <1>3
<1> QED BY <1>1, <1>4

\* Pairs of whole numbers.
AreScores(pairs, n) == n \in Nat /\ DOMAIN pairs = 1..n /\ \A i \in 1..n : pairs[i].before \in Int /\ pairs[i].after \in Int

\* The pairs the other way round.
Turned(pairs) == [i \in DOMAIN pairs |-> [before |-> pairs[i].after, after |-> pairs[i].before]]

\* The differences are numbers, and so is their sum.
LEMMA SumsOfPairs ==
  ASSUME NEW pairs, NEW n, AreScores(pairs, n), NEW flips \in [1..n -> BOOLEAN]
  PROVE  /\ Shuffled(pairs, flips) = SumOf(Differences(pairs, flips), 1..n) /\ Shuffled(pairs, flips) \in Int
         /\ \A i \in 1..n : Differences(pairs, flips)[i] \in Int
<1> DEFINE e == Differences(pairs, flips)
           S == 1..n
<1>1. \A i \in S : e[i] \in Int
  <2> SUFFICES ASSUME NEW i \in S PROVE e[i] \in Int
    OBVIOUS
  <2>1. pairs[i].before \in Int /\ pairs[i].after \in Int /\ i \in DOMAIN pairs
    BY DEF AreScores
  <2>2. e[i] = (IF flips[i] THEN -1 ELSE 1) * (pairs[i].after - pairs[i].before)
    BY <2>1 DEF Differences
  <2> QED BY <2>1, <2>2
<1>2. Shuffled(pairs, flips) = SumOf(e, S)
  BY <1>1, ShuffledIsSum DEF AreScores
<1>3. IsFiniteSet(S)
  BY FS_Interval DEF AreScores
<1>4. SumOf(e, S) \in Int
  <2> HIDE DEF e, S
  <2> QED BY <1>1, <1>3, SumLaws
<1> QED BY <1>1, <1>2, <1>4

\* Turned round, the sum is turned round.
LEMMA TurnedSums ==
  ASSUME NEW pairs, NEW n, AreScores(pairs, n), NEW flips \in [1..n -> BOOLEAN]
  PROVE  AreScores(Turned(pairs), n) /\ Shuffled(Turned(pairs), flips) = -Shuffled(pairs, flips)
<1> DEFINE f == Differences(pairs, flips)
           e == Differences(Turned(pairs), flips)
           S == 1..n
<1>1. AreScores(Turned(pairs), n)
  BY DEF AreScores, Turned
<1>2. Shuffled(pairs, flips) = SumOf(f, S) /\ Shuffled(pairs, flips) \in Int
  BY SumsOfPairs
<1>3. \A i \in S : f[i] \in Int
  BY SumsOfPairs
<1>4. Shuffled(Turned(pairs), flips) = SumOf(e, S)
  BY <1>1, SumsOfPairs
<1>5. \A i \in S : e[i] = (-1) * f[i] + 0 * f[i]
  <2> SUFFICES ASSUME NEW i \in S PROVE e[i] = (-1) * f[i] + 0 * f[i]
    OBVIOUS
  <2> DEFINE x == pairs[i].before
             y == pairs[i].after
  <2>1. x \in Int /\ y \in Int /\ i \in DOMAIN pairs /\ flips[i] \in BOOLEAN
    BY DEF AreScores
  <2>2. f[i] = (IF flips[i] THEN -1 ELSE 1) * (y - x)
    BY <2>1 DEF Differences
  <2>3. e[i] = (IF flips[i] THEN -1 ELSE 1) * (x - y)
    BY <2>1 DEF Differences, Turned
  <2> HIDE DEF e, f, x, y
  <2> QED BY <2>1, <2>2, <2>3
<1>6. IsFiniteSet(S)
  BY FS_Interval DEF AreScores
<1> DEFINE back == -1
           none == 0
<1>7. Combines(e, S, back, f, none, f)
  <2> HIDE DEF e, f, S
  <2> QED BY <1>3, <1>5 DEF Combines
<1>8. SumOf(e, S) = back * SumOf(f, S) + none * SumOf(f, S)
  <2> HIDE DEF e, f, S, back, none
  <2> QED BY <1>6, <1>7, Combined
<1> HIDE DEF e, f, S
<1> QED BY <1>1, <1>2, <1>4, <1>8

\* Where nothing differs, no sum does.
LEMMA NothingDiffers ==
  ASSUME NEW pairs, NEW n, AreScores(pairs, n), \A i \in 1..n : pairs[i].after = pairs[i].before,
         NEW flips \in [1..n -> BOOLEAN]
  PROVE  Shuffled(pairs, flips) = 0
<1> DEFINE f == Differences(pairs, flips)
           S == 1..n
           none == 0
<1>1. \A i \in S : f[i] = none
  <2> SUFFICES ASSUME NEW i \in S PROVE f[i] = 0
    OBVIOUS
  <2>1. pairs[i].before \in Int /\ pairs[i].after = pairs[i].before /\ i \in DOMAIN pairs
    BY DEF AreScores
  <2>2. pairs[i].after - pairs[i].before = 0
    BY <2>1
  <2>3. f[i] = (IF flips[i] THEN -1 ELSE 1) * 0
    BY <2>1, <2>2 DEF Differences
  <2> QED BY <2>3
<1>2. Shuffled(pairs, flips) = SumOf(f, S)
  BY SumsOfPairs
<1>3. IsFiniteSet(S) /\ none \in Int
  BY FS_Interval DEF AreScores
<1>4. SumOf(f, S) = Cardinality(S) * none
  <2> HIDE DEF f, S, none
  <2> QED BY <1>1, <1>3, SumConst
<1>5. Cardinality(S) \in Nat
  <2> HIDE DEF S
  <2> QED BY <1>3, FS_CardinalityType
<1> QED BY <1>2, <1>4, <1>5

\* A comparison does not care which of the two is which.
LEMMA Paired ==
  ASSUME NEW pairs, NEW n, AreScores(pairs, n), NEW trials \in Seq([1..n -> BOOLEAN])
  PROVE  LET result == Compare(pairs, trials)
             turned == Compare(Turned(pairs), trials)
         IN  /\ turned.difference = -result.difference /\ turned.chance = result.chance
             /\ turned.better = result.worse /\ turned.worse = result.better
             /\ result.chance[1] \in 1..result.chance[2]
             /\ result.better + result.worse = 0 => result.chance[1] = result.chance[2]
<1> DEFINE other == Turned(pairs)
           fair == [i \in 1..n |-> FALSE]
           X == Extreme(pairs, trials)
           T == DOMAIN trials
           up == {i \in DOMAIN pairs : pairs[i].after > pairs[i].before}
           down == {i \in DOMAIN pairs : pairs[i].after < pairs[i].before}
<1>1. DOMAIN pairs = 1..n /\ DOMAIN other = 1..n /\ n \in Nat /\ AreScores(other, n)
  BY TurnedSums DEF AreScores, Turned
<1>2. Observed(pairs) = Shuffled(pairs, fair) /\ Observed(other) = Shuffled(other, fair) /\ fair \in [1..n -> BOOLEAN]
  BY <1>1 DEF Observed
<1> HIDE DEF fair
<1>3. Observed(pairs) \in Int /\ Observed(other) = -Observed(pairs)
  <2>1. Shuffled(pairs, fair) \in Int
    BY <1>2, SumsOfPairs
  <2>2. Shuffled(other, fair) = -Shuffled(pairs, fair)
    BY <1>2, TurnedSums
  <2> QED BY <1>2, <2>1, <2>2
<1>4. \A t \in T : Shuffled(pairs, trials[t]) \in Int /\ Shuffled(other, trials[t]) = -Shuffled(pairs, trials[t])
  <2> SUFFICES ASSUME NEW t \in T
               PROVE  Shuffled(pairs, trials[t]) \in Int /\ Shuffled(other, trials[t]) = -Shuffled(pairs, trials[t])
    OBVIOUS
  <2>1. trials[t] \in [1..n -> BOOLEAN]
    OBVIOUS
  <2> QED BY <2>1, SumsOfPairs, TurnedSums
<1>5. Extreme(other, trials) = X
  <2>1. \A x \in Int : Size(-x) = Size(x)
    BY DEF Size
  <2>2. \A t \in T : Size(Shuffled(other, trials[t])) = Size(Shuffled(pairs, trials[t]))
    BY <1>4, <2>1
  <2>3. Size(Observed(other)) = Size(Observed(pairs))
    BY <1>3, <2>1
  <2> QED BY <2>2, <2>3 DEF Extreme
<1>6. /\ {i \in DOMAIN other : other[i].after > other[i].before} = down
      /\ {i \in DOMAIN other : other[i].after < other[i].before} = up
  <2>1. \A i \in 1..n : other[i].after = pairs[i].before /\ other[i].before = pairs[i].after
    BY <1>1 DEF Turned
  <2>2. \A i \in 1..n : pairs[i].before \in Int /\ pairs[i].after \in Int
    BY DEF AreScores
  <2> HIDE DEF other
  <2> QED BY <1>1, <2>1, <2>2
<1>7. X \in SUBSET T /\ IsFiniteSet(T) /\ Cardinality(T) = Len(trials) /\ Len(trials) \in Nat
  <2>1. T = 1..Len(trials) /\ Len(trials) \in Nat /\ X \in SUBSET T
    BY DEF Extreme
  <2> DEFINE l == Len(trials)
  <2>2. l \in Nat
    BY <2>1
  <2> HIDE DEF T, X, l
  <2>3. IsFiniteSet(1..l) /\ Cardinality(1..l) = l
    BY <2>2, FS_Interval
  <2> QED BY <2>1, <2>3 DEF l
<1>8. Cardinality(X) \in Nat /\ Cardinality(X) <= Len(trials)
  <2> HIDE DEF X, T
  <2>1. IsFiniteSet(X) /\ Cardinality(X) <= Cardinality(T)
    BY <1>7, FS_Subset
  <2>2. Cardinality(X) \in Nat
    BY <2>1, FS_CardinalityType
  <2> QED BY <1>7, <2>1, <2>2
<1>9. IsFiniteSet(up) /\ IsFiniteSet(down)
  <2>1. up \in SUBSET (1..n) /\ down \in SUBSET (1..n) /\ IsFiniteSet(1..n)
    BY <1>1, FS_Interval
  <2> HIDE DEF up, down
  <2> QED BY <2>1, FS_Subset
<1>10. Cardinality(up) + Cardinality(down) = 0 => Cardinality(X) = Len(trials)
  <2> SUFFICES ASSUME Cardinality(up) + Cardinality(down) = 0 PROVE Cardinality(X) = Len(trials)
    OBVIOUS
  <2>1. up = {} /\ down = {}
    <3> HIDE DEF up, down
    <3>1. Cardinality(up) \in Nat /\ Cardinality(down) \in Nat
      BY <1>9, FS_CardinalityType
    <3>2. Cardinality(up) = 0 /\ Cardinality(down) = 0
      BY <3>1
    <3> QED BY <1>9, <3>2, FS_EmptySet
  <2>2. \A i \in 1..n : pairs[i].after = pairs[i].before
    <3> SUFFICES ASSUME NEW i \in 1..n PROVE pairs[i].after = pairs[i].before
      OBVIOUS
    <3>1. pairs[i].after \in Int /\ pairs[i].before \in Int /\ i \in DOMAIN pairs
      BY DEF AreScores
    <3>2. ~ (pairs[i].after > pairs[i].before) /\ ~ (pairs[i].after < pairs[i].before)
      BY <2>1, <3>1
    <3> QED BY <3>1, <3>2
  <2>3. \A t \in T : trials[t] \in [1..n -> BOOLEAN]
    OBVIOUS
  <2>4. \A t \in T : Shuffled(pairs, trials[t]) = 0
    BY <2>2, <2>3, NothingDiffers
  <2>5. Observed(pairs) = 0
    BY <1>2, <2>2, NothingDiffers
  <2>6. X = T
    <3>1. Size(0) = 0 /\ 0 >= 0
      BY DEF Size
    <3>2. \A t \in T : Size(Shuffled(pairs, trials[t])) >= Size(Observed(pairs))
      BY <2>4, <2>5, <3>1
    <3> QED BY <3>2 DEF Extreme
  <2> QED BY <1>7, <2>6
<1>11. pairs = <<>> <=> other = <<>>
  BY <1>1, SMTT(30) DEF Turned
<1> DEFINE result == Compare(pairs, trials)
           turned == Compare(other, trials)
<1>12. /\ result.difference = Observed(pairs) /\ result.better = Cardinality(up) /\ result.worse = Cardinality(down)
       /\ result.chance = IF pairs = <<>> THEN <<1, 1>> ELSE <<Cardinality(X) + 1, Len(trials) + 1>>
  BY DEF Compare
<1>13. /\ turned.difference = Observed(other) /\ turned.better = Cardinality(down) /\ turned.worse = Cardinality(up)
       /\ turned.chance = IF other = <<>> THEN <<1, 1>> ELSE <<Cardinality(X) + 1, Len(trials) + 1>>
  <2> HIDE DEF other, X, up, down
  <2> QED BY <1>5, <1>6 DEF Compare
<1> HIDE DEF other, X, up, down, result, turned
<1>14. turned.difference = -result.difference /\ turned.chance = result.chance
  BY <1>3, <1>11, <1>12, <1>13
<1>15. result.chance[1] \in 1..result.chance[2]
  BY <1>8, <1>12
<1>16. result.better + result.worse = 0 => result.chance[1] = result.chance[2]
  BY <1>8, <1>10, <1>12
<1> QED BY <1>12, <1>13, <1>14, <1>15, <1>16 DEF result, turned, other

-----------------------------------------------------------------------------
(* What reading a line of judgments comes to (ReadJudgment) *)

\* What may have been read from lines of some sort.
EntriesOf(P) ==
  [query  : {line.query : line \in P},
   grades : UNION {[urls -> {line.grade : line \in P}] : urls \in SUBSET {line.url : line \in P}}]
ReadOf(P) == [queries : Seq(EntriesOf(P)), failed : BOOLEAN]

\* The query a grade is for, with the grade.
WithGrade(entry, line) == [entry EXCEPT !.grades = Graded(@, line.url, line.grade)]

\* A grade joins those of its query.
LEMMA GradeJoins ==
  ASSUME NEW P, NEW entry \in EntriesOf(P), NEW line \in P
  PROVE  /\ WithGrade(entry, line) \in EntriesOf(P) /\ WithGrade(entry, line).query = entry.query
         /\ DOMAIN WithGrade(entry, line).grades = {line.url} \cup DOMAIN entry.grades
         /\ WithGrade(entry, line).grades[line.url] = line.grade
         /\ \A url \in DOMAIN entry.grades : url # line.url => WithGrade(entry, line).grades[url] = entry.grades[url]
<1> DEFINE g == entry.grades
           h == Graded(g, line.url, line.grade)
           G == {x.grade : x \in P}
           U == {x.url : x \in P}
           Q == {x.query : x \in P}
<1>1. h = [url \in {line.url} \cup DOMAIN g |-> IF url \in {line.url} THEN line.grade ELSE g[url]]
  BY DEF Graded
<1>2. entry.query \in Q /\ entry = [query |-> entry.query, grades |-> g] /\ \E urls \in SUBSET U : g \in [urls -> G]
  BY DEF EntriesOf
<1>3. PICK urls \in SUBSET U : g \in [urls -> G]
  BY <1>2
<1>4. line.url \in U /\ line.grade \in G
  OBVIOUS
<1>5. WithGrade(entry, line) = [query |-> entry.query, grades |-> h]
  BY <1>2 DEF WithGrade
<1> HIDE DEF g, h, G, U, Q
<1>6. h \in [({line.url} \cup urls) -> G] /\ DOMAIN h = {line.url} \cup DOMAIN g /\ {line.url} \cup urls \in SUBSET U
  BY <1>1, <1>3, <1>4
<1>7. h[line.url] = line.grade /\ \A url \in DOMAIN g : url # line.url => h[url] = g[url]
  BY <1>1
<1>8. [query |-> entry.query, grades |-> h] \in EntriesOf(P)
  <2>1. h \in UNION {[some -> G] : some \in SUBSET U}
    BY <1>6
  <2> QED BY <1>2, <2>1 DEF EntriesOf, G, U, Q
<1> QED BY <1>5, <1>6, <1>7, <1>8 DEF g

\* What reading a line comes to.
LEMMA JudgmentRead ==
  ASSUME NEW P, NEW read \in ReadOf(P), NEW line \in P, line.is \in {"blank", "query", "grade"}
  PROVE  LET next == ReadJudgment(read, line)
             entry == [query |-> line.query, grades |-> <<>>]
             n == Len(read.queries)
         IN  /\ next \in ReadOf(P)
             /\ next.failed <=> read.failed \/ Faulty(read, line)
             /\ ~ next.failed /\ line.is = "blank" => next.queries = read.queries
             /\ ~ next.failed /\ line.is = "query" => next.queries = Append(read.queries, entry) /\ entry \in EntriesOf(P)
             /\ ~ next.failed /\ line.is = "grade" =>
                  /\ read.queries # <<>>
                  /\ next.queries = [read.queries EXCEPT ![n] = WithGrade(read.queries[n], line)]
<1> DEFINE next == ReadJudgment(read, line)
           entry == [query |-> line.query, grades |-> <<>>]
           q == read.queries
           n == Len(q)
<1>1. read = [queries |-> q, failed |-> read.failed] /\ q \in Seq(EntriesOf(P)) /\ read.failed \in BOOLEAN
  BY DEF ReadOf
<1>2. CASE read.failed
  <2>1. next = read
    BY <1>2 DEF ReadJudgment
  <2> QED BY <1>2, <2>1
<1>3. CASE ~ read.failed /\ Faulty(read, line)
  <2>1. next = [queries |-> q, failed |-> TRUE]
    BY <1>1, <1>3 DEF ReadJudgment
  <2>2. next \in ReadOf(P)
    BY <1>1, <2>1 DEF ReadOf
  <2> QED BY <1>3, <2>1, <2>2
<1>4. CASE ~ read.failed /\ ~ Faulty(read, line) /\ line.is = "blank"
  <2>1. next = read
    BY <1>4 DEF ReadJudgment
  <2> QED BY <1>4, <2>1
<1>5. CASE ~ read.failed /\ ~ Faulty(read, line) /\ line.is = "query"
  <2>1. next = [read EXCEPT !.queries = Append(@, entry)]
    BY <1>5 DEF ReadJudgment
  <2>2. next = [queries |-> Append(q, entry), failed |-> FALSE]
    BY <1>1, <1>5, <2>1
  <2>3. entry \in EntriesOf(P)
    <3>1. <<>> \in [{} -> {x.grade : x \in P}] /\ {} \in SUBSET {x.url : x \in P}
      OBVIOUS
    <3>2. <<>> \in UNION {[urls -> {x.grade : x \in P}] : urls \in SUBSET {x.url : x \in P}}
      BY <3>1
    <3>3. line.query \in {x.query : x \in P}
      OBVIOUS
    <3> QED BY <3>2, <3>3 DEF EntriesOf
  <2> HIDE DEF entry, q, next
  <2>4. Append(q, entry) \in Seq(EntriesOf(P))
    BY <1>1, <2>3
  <2>5. next \in ReadOf(P)
    BY <2>2, <2>4 DEF ReadOf
  <2> QED BY <1>5, <2>2, <2>3, <2>5 DEF entry, q, next
<1>6. CASE ~ read.failed /\ ~ Faulty(read, line) /\ line.is = "grade"
  <2>1. q # <<>>
    BY <1>6 DEF Faulty
  <2>2. next = [read EXCEPT !.queries[Len(read.queries)].grades = Graded(@, line.url, line.grade)]
    BY <1>6 DEF ReadJudgment
  <2>3. n \in 1..Len(q) /\ DOMAIN q = 1..Len(q) /\ q[n] \in EntriesOf(P)
    BY <1>1, <2>1
  <2>4. next = [queries |-> [q EXCEPT ![n] = WithGrade(q[n], line)], failed |-> FALSE]
    BY <1>1, <1>6, <2>2, <2>3 DEF WithGrade
  <2>5. WithGrade(q[n], line) \in EntriesOf(P)
    BY <2>3, GradeJoins
  <2>6. [q EXCEPT ![n] = WithGrade(q[n], line)] \in Seq(EntriesOf(P))
    <3> DEFINE c == WithGrade(q[n], line)
    <3> HIDE DEF c, q
    <3> QED BY <1>1, <2>1, <2>5, LastChanged DEF c
  <2> HIDE DEF next, q
  <2>7. next \in ReadOf(P)
    BY <2>4, <2>6 DEF ReadOf
  <2> QED BY <1>6, <2>1, <2>4, <2>7 DEF next, q
<1> QED BY <1>2, <1>3, <1>4, <1>5, <1>6

-----------------------------------------------------------------------------
(* A file of judgments, line after line *)

\* The lines of a file of judgments.
AreLines(P) == \A line \in P : line.is \in {"blank", "query", "grade"}

\* What is read, line after line.
LEMMA JudgmentsWalk ==
  ASSUME NEW P, AreLines(P), NEW lines \in Seq(P)
  PROVE  \E v \in [0..Len(lines) -> ReadOf(P)] :
           /\ v[0] = NoJudgments /\ \A k \in 1..Len(lines) : v[k] = ReadJudgment(v[k - 1], lines[k])
           /\ ParseJudgments(lines) = v[Len(lines)]
<1> DEFINE n == Len(lines)
           base == NoJudgments
           States == ReadOf(P)
           Value(x, i) == ReadJudgment(x, lines[i])
           step == [i \in 1..n |-> [x \in States |-> Value(x, i)]]
           Is(g) == g = [s \in SUBSET (DOMAIN lines) |-> IF s = {} THEN base ELSE Value(g[s \ {Max(s)}], Max(s))]
           u == CHOOSE g : Is(g)
           f == [s \in SUBSET (1..n) |-> Value(u[s \ {Max(s)}], Max(s))]
<1>1. n \in Nat /\ base \in States /\ DOMAIN lines = 1..n
  BY DEF NoJudgments, ReadOf
<1>2. ParseJudgments(lines) = u[1..n]
  BY <1>1 DEF ParseJudgments, FoldLeft, MapThenFoldSet
<1>3. \A i \in 1..n, x \in States : Value(x, i) \in States
  <2> SUFFICES ASSUME NEW i \in 1..n, NEW x \in States PROVE Value(x, i) \in States
    OBVIOUS
  <2>1. lines[i] \in P /\ lines[i].is \in {"blank", "query", "grade"}
    BY DEF AreLines
  <2> QED BY <2>1, JudgmentRead
<1>4. step \in [1..n -> [States -> States]] /\ \A i \in 1..n, x \in States : step[i][x] = Value(x, i)
  BY <1>3
<1>5. base = NoJudgments /\ \A x, i : Value(x, i) = ReadJudgment(x, lines[i])
  OBVIOUS
<1> HIDE DEF n, States, base, step, Value
<1>6. \A s \in SUBSET (1..n) : s # {} => Max(s) \in 1..n
  BY <1>1, TakesLast
<1>7. Is(u)
  <2>1. n \in Nat /\ base \in States
    BY <1>1
  <2>2. step \in [1..n -> [States -> States]]
    BY <1>4
  <2>3. PICK g \in [SUBSET (1..n) -> States] : IsLeftFold(g, n, base, step)
    BY <2>1, <2>2, LeftFoldExists
  <2>4. \A s \in SUBSET (1..n) : s # {} => g[s \ {Max(s)}] \in States
    OBVIOUS
  <2>5. Is(g)
    BY <1>1, <1>4, <1>6, <2>3, <2>4 DEF IsLeftFold
  <2> QED BY <2>5
<1>8. ComesTo(u, f, n, base)
  BY <1>1, <1>7 DEF ComesTo
<1>9. StepsOn(u, f, n, States, step)
  <2>1. \A s \in SUBSET (1..n) : f[s] = Value(u[s \ {Max(s)}], Max(s))
    OBVIOUS
  <2> HIDE DEF u, f
  <2>2. ASSUME NEW s \in SUBSET (1..n), s # {}, u[s \ {Max(s)}] \in States
        PROVE  f[s] = step[Max(s)][u[s \ {Max(s)}]]
    BY <1>4, <1>6, <2>1, <2>2
  <2> QED BY <2>2, Zenon DEF StepsOn
<1> HIDE DEF u, f, Is
<1>10. PICK v \in [0..n -> States] : IsWalk(v, n, base, step) /\ v[n] = u[1..n]
  <2>1. n \in Nat /\ base \in States
    BY <1>1
  <2>2. step \in [1..n -> [States -> States]]
    BY <1>4
  <2>3. ComesTo(u, f, n, base) /\ StepsOn(u, f, n, States, step)
    BY <1>8, <1>9
  <2> QED BY <2>1, <2>2, <2>3, LeftFoldWalks
<1>11. v[0] = base /\ \A k \in 1..n : v[k] = Value(v[k - 1], k)
  <2>1. \A k \in 1..n : k - 1 \in 0..n
    BY <1>1
  <2> QED BY <1>4, <1>10, <2>1 DEF IsWalk
<1> QED BY <1>2, <1>5, <1>10, <1>11 DEF n, States

-----------------------------------------------------------------------------
(* What is held when a query begins and when a grade is given *)

\* A grade is held for a page under a query.
Held(read, query, url, grade) ==
  \E i \in DOMAIN read.queries : /\ read.queries[i].query = query
                                 /\ url \in DOMAIN read.queries[i].grades /\ read.queries[i].grades[url] = grade

\* A query begun has no grades yet, and those of the others stay.
LEMMA HeldBegun ==
  ASSUME NEW P, NEW read \in ReadOf(P), NEW next \in ReadOf(P), NEW query,
         [query |-> query, grades |-> <<>>] \in EntriesOf(P),
         next.queries = Append(read.queries, [query |-> query, grades |-> <<>>])
  PROVE  /\ Judged(next) = Judged(read) \cup {query} /\ next.queries # <<>>
         /\ Last(next.queries).query = query /\ DOMAIN Last(next.queries).grades = {}
         /\ \A q, url, grade : Held(next, q, url, grade) <=> Held(read, q, url, grade)
<1> DEFINE entry == [query |-> query, grades |-> <<>>]
           s == read.queries
           t == next.queries
           n == Len(s)
<1>1. s \in Seq(EntriesOf(P)) /\ entry \in EntriesOf(P) /\ t = Append(s, entry)
  BY DEF ReadOf
<1>2. entry.query = query /\ DOMAIN entry.grades = {}
  OBVIOUS
<1> HIDE DEF entry, s, t
<1>3. t \in Seq(EntriesOf(P)) /\ Len(t) = n + 1 /\ t[n + 1] = entry /\ (\A i \in 1..n : t[i] = s[i]) /\ n \in Nat
  BY <1>1, Appended
<1>4. DOMAIN s = 1..n /\ DOMAIN t = 1..(n + 1) /\ t # <<>>
  <2>1. \A u \in Seq(EntriesOf(P)) : DOMAIN u = 1..Len(u) /\ (u = <<>> => Len(u) = 0)
    OBVIOUS
  <2>2. n + 1 # 0
    BY <1>3
  <2> QED BY <1>1, <1>3, <2>1, <2>2
<1>5. Last(t) = entry
  BY <1>3 DEF Last
<1>6. Judged(next) = Judged(read) \cup {query}
  <2>1. Judged(next) = {t[i].query : i \in 1..(n + 1)} /\ Judged(read) = {s[i].query : i \in 1..n}
    BY <1>4 DEF Judged, s, t
  <2>2. \A i \in 1..(n + 1) : i \in 1..n \/ i = n + 1
    BY <1>3
  <2>3. n + 1 \in 1..(n + 1) /\ \A i \in 1..n : i \in 1..(n + 1)
    BY <1>3
  <2> QED BY <1>2, <1>3, <2>1, <2>2, <2>3
<1>7. ASSUME NEW q, NEW url, NEW grade PROVE Held(next, q, url, grade) <=> Held(read, q, url, grade)
  <2>1. Held(next, q, url, grade) <=>
           \E i \in 1..(n + 1) : t[i].query = q /\ url \in DOMAIN t[i].grades /\ t[i].grades[url] = grade
    BY <1>4 DEF Held, t
  <2>2. Held(read, q, url, grade) <=>
           \E i \in 1..n : s[i].query = q /\ url \in DOMAIN s[i].grades /\ s[i].grades[url] = grade
    BY <1>4 DEF Held, s
  <2>3. \A i \in 1..(n + 1) : url \in DOMAIN t[i].grades => i \in 1..n
    BY <1>2, <1>3
  <2>4. \A i \in 1..n : i \in 1..(n + 1) /\ t[i] = s[i]
    BY <1>3
  <2> QED BY <2>1, <2>2, <2>3, <2>4
<1> QED BY <1>2, <1>4, <1>5, <1>6, <1>7 DEF t

\* The grade of a line is held beside those held before.
HeldToo(next, read, line) ==
  /\ Judged(next) = Judged(read) /\ next.queries # <<>>
  /\ Last(next.queries).query = Last(read.queries).query
  /\ DOMAIN Last(next.queries).grades = {line.url} \cup DOMAIN Last(read.queries).grades
  /\ \A q, url, grade : Held(next, q, url, grade) <=>
       \/ Held(read, q, url, grade)
       \/ q = Last(read.queries).query /\ url = line.url /\ grade = line.grade

\* A grade given is.
LEMMA HeldGraded ==
  ASSUME NEW P, NEW read \in ReadOf(P), NEW next \in ReadOf(P), NEW line \in P,
         read.queries # <<>>, line.url \notin DOMAIN Last(read.queries).grades,
         next.queries = [read.queries EXCEPT ![Len(read.queries)] = WithGrade(read.queries[Len(read.queries)], line)]
  PROVE  HeldToo(next, read, line)
<1> DEFINE s == read.queries
           t == next.queries
           n == Len(s)
           c == WithGrade(s[n], line)
<1>1. s \in Seq(EntriesOf(P)) /\ t = [s EXCEPT ![n] = c] /\ s # <<>>
  BY DEF ReadOf
<1>2. n \in DOMAIN s /\ n \in Nat /\ Last(s) = s[n] /\ s[n] \in EntriesOf(P)
  <2> DEFINE E == EntriesOf(P)
  <2>1. s \in Seq(E) /\ s # <<>>
    BY <1>1
  <2> HIDE DEF s, E
  <2>2. Len(s) \in DOMAIN s /\ Len(s) \in Nat /\ Last(s) = s[Len(s)] /\ Last(s) \in E
    BY <2>1, TheLast
  <2> QED BY <2>2 DEF E
<1>3. /\ c \in EntriesOf(P) /\ c.query = s[n].query /\ DOMAIN c.grades = {line.url} \cup DOMAIN s[n].grades
      /\ c.grades[line.url] = line.grade /\ \A url \in DOMAIN s[n].grades : url # line.url => c.grades[url] = s[n].grades[url]
  <2> HIDE DEF s
  <2> QED BY <1>2, GradeJoins
<1>0. line.url \notin DOMAIN s[n].grades
  BY <1>2
<1> HIDE DEF c, s, t
<1>4. t \in Seq(EntriesOf(P)) /\ Len(t) = n /\ t[n] = c /\ \A i \in 1..(n - 1) : t[i] = s[i]
  BY <1>1, <1>3, LastChanged
<1>5. DOMAIN s = 1..n /\ DOMAIN t = 1..n /\ t # <<>> /\ n # 0
  <2>1. \A u \in Seq(EntriesOf(P)) : DOMAIN u = 1..Len(u) /\ (u = <<>> <=> Len(u) = 0)
    OBVIOUS
  <2> QED BY <1>1, <1>4, <2>1
<1>6. Last(t) = c
  BY <1>4 DEF Last
<1>7. \A i \in 1..n : t[i].query = s[i].query /\ (i # n => t[i] = s[i])
  <2>1. \A i \in 1..n : i = n \/ i \in 1..(n - 1)
    BY <1>2
  <2> QED BY <1>3, <1>4, <2>1
<1>8. Judged(next) = Judged(read)
  <2>1. Judged(next) = {t[i].query : i \in 1..n} /\ Judged(read) = {s[i].query : i \in 1..n}
    BY <1>5 DEF Judged, s, t
  <2> QED BY <1>7, <2>1
<1>9. ASSUME NEW q, NEW url, NEW grade
      PROVE  Held(next, q, url, grade) <=>
               Held(read, q, url, grade) \/ (q = Last(s).query /\ url = line.url /\ grade = line.grade)
  <2>1. Held(next, q, url, grade) <=>
           \E i \in 1..n : t[i].query = q /\ url \in DOMAIN t[i].grades /\ t[i].grades[url] = grade
    BY <1>5 DEF Held, t
  <2>2. Held(read, q, url, grade) <=>
           \E i \in 1..n : s[i].query = q /\ url \in DOMAIN s[i].grades /\ s[i].grades[url] = grade
    BY <1>5 DEF Held, s
  <2>3. n \in 1..n
    BY <1>2, <1>5
  <2>4. ASSUME Held(next, q, url, grade)
        PROVE  Held(read, q, url, grade) \/ (q = Last(s).query /\ url = line.url /\ grade = line.grade)
    <3>1. PICK i \in 1..n : t[i].query = q /\ url \in DOMAIN t[i].grades /\ t[i].grades[url] = grade
      BY <2>1, <2>4
    <3>2. CASE i # n
      BY <1>7, <2>2, <3>1, <3>2
    <3>3. CASE i = n
      <4>1. c.query = q /\ url \in DOMAIN c.grades /\ c.grades[url] = grade
        BY <1>4, <3>1, <3>3
      <4>2. CASE url = line.url
        BY <1>2, <1>3, <4>1, <4>2
      <4>3. CASE url # line.url
        <5>1. url \in DOMAIN s[n].grades /\ s[n].grades[url] = grade /\ s[n].query = q
          BY <1>3, <4>1, <4>3
        <5> QED BY <2>2, <2>3, <5>1
      <4> QED BY <4>2, <4>3
    <3> QED BY <3>2, <3>3
  <2>5. ASSUME Held(read, q, url, grade) PROVE Held(next, q, url, grade)
    <3>1. PICK i \in 1..n : s[i].query = q /\ url \in DOMAIN s[i].grades /\ s[i].grades[url] = grade
      BY <2>2, <2>5
    <3>2. CASE i # n
      BY <1>7, <2>1, <3>1, <3>2
    <3>3. CASE i = n
      <4>1. url # line.url /\ url \in DOMAIN c.grades /\ c.grades[url] = grade /\ c.query = q
        BY <1>0, <1>3, <3>1, <3>3
      <4> QED BY <1>4, <2>1, <2>3, <4>1
    <3> QED BY <3>2, <3>3
  <2>6. ASSUME q = Last(s).query, url = line.url, grade = line.grade PROVE Held(next, q, url, grade)
    <3>1. c.query = q /\ url \in DOMAIN c.grades /\ c.grades[url] = grade
      BY <1>2, <1>3, <2>6
    <3> QED BY <1>4, <2>1, <2>3, <3>1
  <2> QED BY <2>4, <2>5, <2>6
<1> QED BY <1>2, <1>3, <1>5, <1>6, <1>8, <1>9 DEF HeldToo, s, t

-----------------------------------------------------------------------------
(* What there is to say against a line *)

\* A line that there is nothing to say against after those before it.
LineIsSound(i) ==
  /\ i \in QueryLines => parts[i].query # "" /\ \A j \in QueryLines : j < i => parts[j].query # parts[i].query
  /\ i \in GradeLines =>
       /\ Owner(i) # {} /\ parts[i].url # "" /\ parts[i].grade \in 0..MaxGrade
       /\ \A j \in GradeLines : j < i /\ Owner(j) = Owner(i) => parts[j].url # parts[i].url

\* The queries begun within the first k lines, and the newest of them.
BegunBy(k) == {j \in QueryLines : j <= k}
Newest(o, k) == o \in BegunBy(k) /\ \A j \in BegunBy(k) : j <= o

\* The pages graded after line o within the first k lines.
GradedSince(o, k) == {parts[i].url : i \in {i \in GradeLines : o < i /\ i <= k}}

\* A grade is written for a page under a query within the first k lines.
WrittenBy(k, query, url, grade) ==
  \E i \in GradeLines : i <= k /\ url = parts[i].url /\ grade = parts[i].grade /\ \E o \in Owner(i) : query = parts[o].query

\* There is a newest of the queries begun.
LEMMA NewestExists ==
  ASSUME NEW P, parts \in Seq(P), NEW k \in Nat, BegunBy(k) # {}
  PROVE  \E o \in BegunBy(k) : Newest(o, k)
<1> DEFINE S == BegunBy(k)
<1>1. S \in SUBSET Nat /\ S \in SUBSET (1..k) /\ IsFiniteSet(1..k)
  <2>1. \A j \in S : j \in 1..Len(parts) /\ j <= k
    BY DEF BegunBy, QueryLines
  <2>2. Len(parts) \in Nat
    OBVIOUS
  <2> HIDE DEF S
  <2>3. S \in SUBSET Nat /\ S \in SUBSET (1..k)
    BY <2>1, <2>2
  <2> QED BY <2>3, FS_Interval
<1>2. IsFiniteSet(S)
  <2> HIDE DEF S
  <2> QED BY <1>1, FS_Subset
<1>3. \E o \in S : \A j \in S : j <= o
  <2> HIDE DEF S
  <2>1. S # {}
    BY DEF S
  <2> QED BY <1>1, <1>2, <2>1, GreatestNat
<1> QED BY <1>3 DEF Newest

\* A line is a number.
LEMMA LinesStand ==
  ASSUME NEW P, parts \in Seq(P)
  PROVE  /\ DOMAIN parts = 1..Len(parts) /\ Len(parts) \in Nat
         /\ \A i \in QueryLines \cup GradeLines : i \in Nat /\ i > 0 /\ i \in DOMAIN parts /\ parts[i] \in P
         /\ \A i \in QueryLines : i \notin GradeLines
<1>1. DOMAIN parts = 1..Len(parts) /\ Len(parts) \in Nat /\ \A i \in DOMAIN parts : parts[i] \in P
  OBVIOUS
<1>2. QueryLines \subseteq DOMAIN parts /\ GradeLines \subseteq DOMAIN parts /\ \A i \in QueryLines : i \notin GradeLines
  BY DEF QueryLines, GradeLines
<1>3. \A i \in 1..Len(parts) : i \in Nat /\ i > 0
  BY <1>1
<1> QED BY <1>1, <1>2, <1>3

\* A grade is for the newest query before it.
LEMMA OwnerIs ==
  ASSUME NEW P, parts \in Seq(P), NEW k \in Nat
  PROVE  /\ \A o : Newest(o, k) => \A i \in GradeLines : i <= k + 1 =>
              (o < i => Owner(i) = {o}) /\ (Owner(i) = {o} => o < i)
         /\ BegunBy(k) = {} => \A i \in GradeLines : i <= k + 1 => Owner(i) = {}
         /\ \A i \in GradeLines : i <= k + 1 => \A o \in Owner(i) : o \in BegunBy(k)
<1>1. \A i \in QueryLines \cup GradeLines : i \in Nat
  BY LinesStand
<1>2. ASSUME NEW i \in GradeLines, i <= k + 1, NEW j \in QueryLines, j < i PROVE j \in BegunBy(k)
  <2>1. i \in Nat /\ j \in Nat
    BY <1>1
  <2> QED BY <1>2, <2>1 DEF BegunBy
<1>3. ASSUME NEW i \in GradeLines, i <= k + 1 PROVE \A o \in Owner(i) : o \in BegunBy(k)
  BY <1>2, <1>3 DEF Owner
<1>4. ASSUME NEW o, Newest(o, k), NEW i \in GradeLines, i <= k + 1, o < i PROVE Owner(i) = {o}
  <2>1. o \in QueryLines /\ \A j \in QueryLines : j < i => j <= o
    BY <1>2, <1>4 DEF Newest, BegunBy
  <2>2. o \in Owner(i)
    BY <1>4, <2>1 DEF Owner
  <2>3. ASSUME NEW x \in Owner(i) PROVE x = o
    <3>1. x \in QueryLines /\ x < i /\ o <= x
      BY <1>4, <2>1 DEF Owner
    <3>2. x <= o /\ x \in Nat /\ o \in Nat
      BY <1>1, <2>1, <3>1
    <3> QED BY <3>1, <3>2
  <2> QED BY <2>2, <2>3
<1>5. ASSUME NEW o, NEW i \in GradeLines, Owner(i) = {o} PROVE o < i
  <2>1. o \in Owner(i)
    BY <1>5
  <2> QED BY <2>1 DEF Owner
<1> QED BY <1>3, <1>4, <1>5

\* What has been read after k lines.
ReadTo(read, k) ==
  /\ read.failed <=> \E i \in 1..k : ~ LineIsSound(i)
  /\ ~ read.failed =>
       /\ Judged(read) = {parts[j].query : j \in BegunBy(k)} /\ (read.queries = <<>> <=> BegunBy(k) = {})
       /\ \A o : Newest(o, k) => /\ Last(read.queries).query = parts[o].query
                                 /\ DOMAIN Last(read.queries).grades = GradedSince(o, k)
       /\ \A q, url, grade : Held(read, q, url, grade) <=> WrittenBy(k, q, url, grade)

\* A line is at fault exactly when there is something to say against it.
LEMMA FaultsAre ==
  ASSUME NEW P, parts \in Seq(P), NEW k \in Nat, k + 1 \in DOMAIN parts, NEW read, ReadTo(read, k), ~ read.failed
  PROVE  Faulty(read, parts[k + 1]) <=> ~ LineIsSound(k + 1)
<1> DEFINE i == k + 1
           line == parts[i]
<1>0. i \in DOMAIN parts /\ (line.is = "query" <=> i \in QueryLines) /\ (line.is = "grade" <=> i \in GradeLines)
  BY DEF QueryLines, GradeLines
<1>1. \A j \in QueryLines \cup GradeLines : j \in Nat
  BY LinesStand
<1>2. Judged(read) = {parts[j].query : j \in BegunBy(k)} /\ (read.queries = <<>> <=> BegunBy(k) = {})
  BY DEF ReadTo
<1>3. \A o : Newest(o, k) => DOMAIN Last(read.queries).grades = GradedSince(o, k)
  BY DEF ReadTo
<1>4. i \in Nat /\ \A j \in Nat : j < i <=> j <= k
  OBVIOUS
<1> HIDE DEF i, line
<1>5. CASE i \in QueryLines
  <2>1. i \notin GradeLines
    BY <1>5, LinesStand
  <2>2. line.query \in Judged(read) <=> \E j \in QueryLines : j < i /\ parts[j].query = line.query
    <3>1. \A j \in QueryLines : j < i <=> j \in BegunBy(k)
      BY <1>1, <1>4 DEF BegunBy
    <3>2. \A j \in BegunBy(k) : j \in QueryLines
      BY DEF BegunBy
    <3> QED BY <1>2, <3>1, <3>2
  <2>3. Faulty(read, line) <=> line.query = "" \/ line.query \in Judged(read)
    BY <1>0, <1>5, <2>1 DEF Faulty
  <2>4. LineIsSound(i) <=> line.query # "" /\ \A j \in QueryLines : j < i => parts[j].query # line.query
    BY <1>5, <2>1 DEF LineIsSound, line
  <2> QED BY <2>2, <2>3, <2>4 DEF i, line
<1>6. CASE i \in GradeLines
  <2>1. i \notin QueryLines
    BY <1>6, LinesStand
  <2>2. Faulty(read, line) <=> \/ read.queries = <<>> \/ line.grade \notin 0..MaxGrade \/ line.url = ""
                               \/ line.url \in DOMAIN Last(read.queries).grades
    BY <1>0, <1>6, <2>1 DEF Faulty
  <2>3. LineIsSound(i) <=> /\ Owner(i) # {} /\ line.url # "" /\ line.grade \in 0..MaxGrade
                           /\ \A j \in GradeLines : j < i /\ Owner(j) = Owner(i) => parts[j].url # line.url
    BY <1>6, <2>1 DEF LineIsSound, line
  <2>4. CASE BegunBy(k) = {}
    <3>1. Owner(i) = {}
      BY <1>6, <2>4, OwnerIs DEF i
    <3> QED BY <1>2, <2>2, <2>3, <2>4, <3>1 DEF i, line
  <2>5. CASE BegunBy(k) # {}
    <3>1. PICK o \in BegunBy(k) : Newest(o, k)
      BY <2>5, NewestExists
    <3>2. o \in Nat /\ o < i
      <4>1. o \in QueryLines /\ o <= k
        BY DEF BegunBy
      <4> QED BY <1>1, <1>4, <4>1
    <3>3. i <= k + 1
      BY <1>4 DEF i
    <3>4. Owner(i) = {o}
      BY <1>6, <3>1, <3>2, <3>3, OwnerIs
    <3>5. ASSUME NEW j \in GradeLines PROVE (j < i /\ Owner(j) = Owner(i)) <=> (o < j /\ j <= k)
      <4>1. j \in Nat /\ (j < i <=> j <= k)
        BY <1>1, <1>4
      <4>2. j <= k => j <= k + 1
        BY <4>1
      <4>3. j <= k => (o < j <=> Owner(j) = {o})
        BY <3>1, <4>2, OwnerIs
      <4> QED BY <3>4, <4>1, <4>3
    <3>6. line.url \in DOMAIN Last(read.queries).grades <=> \E j \in GradeLines : o < j /\ j <= k /\ parts[j].url = line.url
      <4>1. DOMAIN Last(read.queries).grades = GradedSince(o, k)
        BY <1>3, <3>1
      <4> QED BY <4>1 DEF GradedSince
    <3>7. read.queries # <<>> /\ Owner(i) # {}
      BY <1>2, <2>5, <3>4
    <3>8. (\A j \in GradeLines : j < i /\ Owner(j) = Owner(i) => parts[j].url # line.url)
            <=> line.url \notin DOMAIN Last(read.queries).grades
      BY <3>5, <3>6
    <3> QED BY <2>2, <2>3, <3>7, <3>8 DEF i, line
  <2> QED BY <2>4, <2>5
<1>7. CASE i \notin QueryLines /\ i \notin GradeLines
  <2>1. ~ Faulty(read, line)
    BY <1>0, <1>7 DEF Faulty
  <2>2. LineIsSound(i)
    BY <1>7 DEF LineIsSound
  <2> QED BY <2>1, <2>2 DEF i, line
<1> QED BY <1>5, <1>6, <1>7

-----------------------------------------------------------------------------
(* What has been read is what was written *)

\* One line more.
LEMMA OneLineMore ==
  ASSUME NEW P, parts \in Seq(P), NEW k \in Nat, k + 1 \in DOMAIN parts
  PROVE  /\ \A i : i \in QueryLines \cup GradeLines => (i <= k + 1 <=> i <= k \/ i = k + 1)
         /\ k + 1 \notin QueryLines => BegunBy(k + 1) = BegunBy(k) /\ \A o : Newest(o, k + 1) <=> Newest(o, k)
         /\ k + 1 \in QueryLines => BegunBy(k + 1) = BegunBy(k) \cup {k + 1} /\ \A o : Newest(o, k + 1) <=> o = k + 1
         /\ k + 1 \notin GradeLines => /\ \A o : GradedSince(o, k + 1) = GradedSince(o, k)
                                       /\ \A q, url, grade : WrittenBy(k + 1, q, url, grade) <=> WrittenBy(k, q, url, grade)
         /\ GradedSince(k + 1, k + 1) = {}
<1> DEFINE n == k + 1
<1>1. \A i \in QueryLines \cup GradeLines : i \in Nat
  BY LinesStand
<1>2. \A i \in Nat : i <= n <=> i <= k \/ i = n
  OBVIOUS
<1>3. n \in Nat /\ \A i \in Nat : (i <= k => i <= n /\ ~ (n <= i)) /\ ~ (n < i /\ i <= n)
  OBVIOUS
<1> HIDE DEF n
<1>4. \A i \in QueryLines \cup GradeLines : i <= n <=> i <= k \/ i = n
  BY <1>1, <1>2
<1>5. n \notin QueryLines => BegunBy(n) = BegunBy(k)
  BY <1>4 DEF BegunBy
<1>6. n \notin QueryLines => \A o : Newest(o, n) <=> Newest(o, k)
  BY <1>5 DEF Newest
<1>7. n \in QueryLines => BegunBy(n) = BegunBy(k) \cup {n}
  BY <1>4 DEF BegunBy
<1>8. n \in QueryLines => \A o : Newest(o, n) <=> o = n
  <2> SUFFICES ASSUME n \in QueryLines, NEW o PROVE Newest(o, n) <=> o = n
    OBVIOUS
  <2>1. \A j \in BegunBy(k) : j \in Nat /\ j <= n /\ ~ (n <= j)
    BY <1>1, <1>3 DEF BegunBy
  <2>2. n <= n
    BY <1>3
  <2> QED BY <1>7, <2>1, <2>2 DEF Newest
<1>9. n \notin GradeLines => \A o : GradedSince(o, n) = GradedSince(o, k)
  BY <1>4 DEF GradedSince
<1>10. n \notin GradeLines => \A q, url, grade : WrittenBy(n, q, url, grade) <=> WrittenBy(k, q, url, grade)
  BY <1>4 DEF WrittenBy
<1>11. GradedSince(n, n) = {}
  BY <1>1, <1>3 DEF GradedSince
<1> QED BY <1>4, <1>5, <1>6, <1>7, <1>8, <1>9, <1>10, <1>11 DEF n

\* Reading a line keeps up with what is written.
LEMMA LineIsRead ==
  ASSUME NEW P, AreLines(P), parts \in Seq(P), NEW k \in Nat, k + 1 \in DOMAIN parts,
         NEW read \in ReadOf(P), ReadTo(read, k)
  PROVE  ReadTo(ReadJudgment(read, parts[k + 1]), k + 1)
<1> DEFINE n == k + 1
           line == parts[n]
           next == ReadJudgment(read, line)
           entry == [query |-> line.query, grades |-> <<>>]
<1>1. line \in P /\ line.is \in {"blank", "query", "grade"} /\ n \in DOMAIN parts
  BY LinesStand DEF AreLines
<1>2. /\ next \in ReadOf(P) /\ (next.failed <=> read.failed \/ Faulty(read, line))
      /\ ~ next.failed /\ line.is = "blank" => next.queries = read.queries
      /\ ~ next.failed /\ line.is = "query" => next.queries = Append(read.queries, entry) /\ entry \in EntriesOf(P)
      /\ ~ next.failed /\ line.is = "grade" =>
           /\ read.queries # <<>>
           /\ next.queries = [read.queries EXCEPT ![Len(read.queries)] = WithGrade(read.queries[Len(read.queries)], line)]
  BY <1>1, JudgmentRead
<1>3. next.failed <=> \E i \in 1..n : ~ LineIsSound(i)
  <2>1. read.failed <=> \E i \in 1..k : ~ LineIsSound(i)
    BY DEF ReadTo
  <2>2. ~ read.failed => (Faulty(read, line) <=> ~ LineIsSound(n))
    BY FaultsAre
  <2>3. \A i : i \in 1..n <=> i \in 1..k \/ i = n
    OBVIOUS
  <2> HIDE DEF n, line, next
  <2> QED BY <1>2, <2>1, <2>2, <2>3
<1>4. /\ \A i : i \in QueryLines \cup GradeLines => (i <= n <=> i <= k \/ i = n)
      /\ n \notin QueryLines => BegunBy(n) = BegunBy(k) /\ \A o : Newest(o, n) <=> Newest(o, k)
      /\ n \in QueryLines => BegunBy(n) = BegunBy(k) \cup {n} /\ \A o : Newest(o, n) <=> o = n
      /\ n \notin GradeLines => /\ \A o : GradedSince(o, n) = GradedSince(o, k)
                                /\ \A q, url, grade : WrittenBy(n, q, url, grade) <=> WrittenBy(k, q, url, grade)
      /\ GradedSince(n, n) = {}
  BY OneLineMore
<1>5. (line.is = "query" <=> n \in QueryLines) /\ (line.is = "grade" <=> n \in GradeLines)
  BY <1>1 DEF QueryLines, GradeLines
<1> HIDE DEF n, next
<1> SUFFICES ASSUME ~ next.failed
             PROVE  /\ Judged(next) = {parts[j].query : j \in BegunBy(n)} /\ (next.queries = <<>> <=> BegunBy(n) = {})
                    /\ \A o : Newest(o, n) => /\ Last(next.queries).query = parts[o].query
                                              /\ DOMAIN Last(next.queries).grades = GradedSince(o, n)
                    /\ \A q, url, grade : Held(next, q, url, grade) <=> WrittenBy(n, q, url, grade)
  BY <1>3 DEF ReadTo, n, next
<1>6. /\ Judged(read) = {parts[j].query : j \in BegunBy(k)} /\ (read.queries = <<>> <=> BegunBy(k) = {})
      /\ \A o : Newest(o, k) => /\ Last(read.queries).query = parts[o].query
                                /\ DOMAIN Last(read.queries).grades = GradedSince(o, k)
      /\ \A q, url, grade : Held(read, q, url, grade) <=> WrittenBy(k, q, url, grade)
  BY <1>2 DEF ReadTo
<1>7. CASE line.is = "blank"
  <2>1. n \notin QueryLines /\ n \notin GradeLines
    BY <1>5, <1>7
  <2>2. next.queries = read.queries
    BY <1>2, <1>7
  <2>3. Judged(next) = Judged(read) /\ \A q, url, grade : Held(next, q, url, grade) <=> Held(read, q, url, grade)
    BY <2>2 DEF Judged, Held
  <2> QED BY <1>4, <1>6, <2>1, <2>2, <2>3
<1>8. CASE line.is = "query"
  <2>1. n \in QueryLines /\ n \notin GradeLines
    BY <1>5, <1>8
  <2>2. next.queries = Append(read.queries, entry) /\ entry \in EntriesOf(P)
    BY <1>2, <1>8
  <2>3. /\ Judged(next) = Judged(read) \cup {line.query} /\ next.queries # <<>>
        /\ Last(next.queries).query = line.query /\ DOMAIN Last(next.queries).grades = {}
        /\ \A q, url, grade : Held(next, q, url, grade) <=> Held(read, q, url, grade)
    <3> HIDE DEF line
    <3> QED BY <1>2, <2>2, HeldBegun
  <2>4. Judged(next) = {parts[j].query : j \in BegunBy(n)} /\ BegunBy(n) # {}
    BY <1>4, <1>6, <2>1, <2>3
  <2> QED BY <1>4, <1>6, <2>1, <2>3, <2>4
<1>9. CASE line.is = "grade"
  <2>1. n \notin QueryLines /\ n \in GradeLines
    BY <1>5, <1>9
  <2>2. /\ read.queries # <<>>
        /\ next.queries = [read.queries EXCEPT ![Len(read.queries)] = WithGrade(read.queries[Len(read.queries)], line)]
    BY <1>2, <1>9
  <2>3. line.url \notin DOMAIN Last(read.queries).grades
    BY <1>2, <1>9 DEF Faulty
  <2>4. HeldToo(next, read, line)
    <3>1. next \in ReadOf(P) /\ line \in P
      BY <1>1, <1>2
    <3> HIDE DEF line
    <3> QED BY <2>2, <2>3, <3>1, HeldGraded
  <2>5. BegunBy(k) # {}
    BY <1>6, <2>2
  <2>6. PICK o \in BegunBy(k) : Newest(o, k)
    BY <2>5, NewestExists
  <2>7. \A x : Newest(x, k) => x = o
    <3>1. \A x \in BegunBy(k) : x \in Nat
      BY LinesStand DEF BegunBy
    <3> SUFFICES ASSUME NEW x, Newest(x, k) PROVE x = o
      OBVIOUS
    <3>2. x \in Nat /\ o \in Nat /\ x <= o /\ o <= x
      BY <2>6, <3>1 DEF Newest
    <3> QED BY <3>2
  <2>8. o < n /\ Owner(n) = {o}
    <3>1. o < n
      <4>1. o \in Nat /\ o <= k
        BY LinesStand DEF BegunBy
      <4> QED BY <4>1 DEF n
    <3>2. n <= k + 1
      BY DEF n
    <3> QED BY <2>1, <2>6, <3>1, <3>2, OwnerIs
  <2>9. GradedSince(o, n) = {line.url} \cup GradedSince(o, k)
    BY <1>4, <2>1, <2>8 DEF GradedSince
  <2>10. ASSUME NEW q, NEW url, NEW grade
         PROVE  WrittenBy(n, q, url, grade) <=>
                  WrittenBy(k, q, url, grade) \/ (q = parts[o].query /\ url = line.url /\ grade = line.grade)
    <3>1. \A i \in GradeLines : i <= n <=> i <= k \/ i = n
      BY <1>4
    <3>2. (url = parts[n].url /\ grade = parts[n].grade /\ \E x \in Owner(n) : q = parts[x].query)
            <=> (q = parts[o].query /\ url = line.url /\ grade = line.grade)
      BY <2>8
    <3> HIDE DEF line
    <3> QED BY <2>1, <3>1, <3>2 DEF WrittenBy
  <2> HIDE DEF line
  <2> QED BY <1>4, <1>6, <2>1, <2>4, <2>5, <2>6, <2>7, <2>9, <2>10 DEF HeldToo
<1> QED BY <1>1, <1>7, <1>8, <1>9

\* Read to its end, a file is what was written.
LEMMA FileIsJudged ==
  ASSUME NEW P, AreLines(P), parts \in Seq(P)
  PROVE  ReadTo(ParseJudgments(parts), Len(parts)) /\ ParseJudgments(parts) \in ReadOf(P)
<1> DEFINE n == Len(parts)
<1>1. PICK v \in [0..n -> ReadOf(P)] :
           /\ v[0] = NoJudgments /\ \A k \in 1..n : v[k] = ReadJudgment(v[k - 1], parts[k])
           /\ ParseJudgments(parts) = v[n]
  BY JudgmentsWalk
<1>2. n \in Nat /\ DOMAIN parts = 1..n
  BY LinesStand
<1> HIDE DEF n
<1> DEFINE G == {k \in Nat : k <= n => ReadTo(v[k], k)}
<1>3. 0 \in G
  <2>1. BegunBy(0) = {} /\ \A o : ~ Newest(o, 0)
    <3>1. \A j \in QueryLines : j \in Nat /\ j > 0
      BY LinesStand
    <3>2. BegunBy(0) = {}
      BY <3>1 DEF BegunBy
    <3> QED BY <3>2 DEF Newest
  <2>2. \A q, url, grade : ~ WrittenBy(0, q, url, grade)
    <3>1. \A j \in GradeLines : j \in Nat /\ j > 0
      BY LinesStand
    <3> QED BY <3>1 DEF WrittenBy
  <2>3. NoJudgments.failed = FALSE /\ NoJudgments.queries = <<>>
    BY DEF NoJudgments
  <2>4. Judged(NoJudgments) = {} /\ \A q, url, grade : ~ Held(NoJudgments, q, url, grade)
    BY <2>3 DEF Judged, Held
  <2>5. ~ \E i \in 1..0 : ~ LineIsSound(i)
    OBVIOUS
  <2>6. ReadTo(NoJudgments, 0)
    BY <2>1, <2>2, <2>3, <2>4, <2>5 DEF ReadTo
  <2> QED BY <1>1, <2>6
<1>4. ASSUME NEW k \in Nat, k \in G PROVE k + 1 \in G
  <2> SUFFICES ASSUME k + 1 <= n PROVE ReadTo(v[k + 1], k + 1)
    OBVIOUS
  <2>1. k + 1 \in 1..n /\ k \in 0..n /\ (k + 1) - 1 = k
    BY <1>2
  <2>2. ReadTo(v[k], k) /\ v[k] \in ReadOf(P) /\ k + 1 \in DOMAIN parts
    BY <1>1, <1>2, <1>4, <2>1
  <2>3. v[k + 1] = ReadJudgment(v[k], parts[k + 1])
    BY <1>1, <2>1
  <2> QED BY <2>2, <2>3, LineIsRead
<1>5. n \in G
  <2> HIDE DEF G
  <2> QED BY <1>2, <1>3, <1>4, ByNumber
<1>6. n \in 0..n /\ n <= n
  BY <1>2
<1> QED BY <1>1, <1>2, <1>5, <1>6 DEF n

-----------------------------------------------------------------------------
(* What is measured is fair *)

\* A file that is sound is one whose lines are.
LEMMA SoundLines ==
  ASSUME NEW P, parts \in Seq(P)
  PROVE  (\A i \in 1..Len(parts) : LineIsSound(i)) <=>
           /\ \A i \in QueryLines : parts[i].query # "" /\ \A j \in QueryLines : parts[i].query = parts[j].query => i = j
           /\ \A i \in GradeLines : /\ Owner(i) # {} /\ parts[i].url # "" /\ parts[i].grade \in 0..MaxGrade
                                   /\ \A j \in GradeLines : Owner(i) = Owner(j) /\ parts[i].url = parts[j].url => i = j
<1>1. /\ \A i \in QueryLines \cup GradeLines : i \in Nat /\ i \in 1..Len(parts)
      /\ \A i \in QueryLines : i \notin GradeLines
  BY LinesStand
<1>2. \A i, j \in QueryLines \cup GradeLines : (i < j \/ j < i \/ i = j) /\ ~ (i < i)
  BY <1>1
<1>3. (\A i \in 1..Len(parts) : LineIsSound(i)) <=> \A i \in QueryLines \cup GradeLines : LineIsSound(i)
  BY <1>1 DEF LineIsSound
<1>4. (\A i \in QueryLines : LineIsSound(i)) <=>
         \A i \in QueryLines : parts[i].query # "" /\ \A j \in QueryLines : parts[i].query = parts[j].query => i = j
  <2>1. \A i \in QueryLines : LineIsSound(i) <=>
           parts[i].query # "" /\ \A j \in QueryLines : j < i => parts[j].query # parts[i].query
    BY <1>1 DEF LineIsSound
  <2>2. ASSUME \A i \in QueryLines : \A j \in QueryLines : j < i => parts[j].query # parts[i].query,
               NEW i \in QueryLines, NEW j \in QueryLines, parts[i].query = parts[j].query
        PROVE  i = j
    BY <1>2, <2>2
  <2>3. ASSUME \A i \in QueryLines : \A j \in QueryLines : parts[i].query = parts[j].query => i = j,
               NEW i \in QueryLines, NEW j \in QueryLines, j < i
        PROVE  parts[j].query # parts[i].query
    BY <1>2, <2>3
  <2> QED BY <2>1, <2>2, <2>3
<1>5. (\A i \in GradeLines : LineIsSound(i)) <=>
         \A i \in GradeLines : /\ Owner(i) # {} /\ parts[i].url # "" /\ parts[i].grade \in 0..MaxGrade
                               /\ \A j \in GradeLines : Owner(i) = Owner(j) /\ parts[i].url = parts[j].url => i = j
  <2>1. \A i \in GradeLines : LineIsSound(i) <=>
           /\ Owner(i) # {} /\ parts[i].url # "" /\ parts[i].grade \in 0..MaxGrade
           /\ \A j \in GradeLines : j < i /\ Owner(j) = Owner(i) => parts[j].url # parts[i].url
    BY <1>1 DEF LineIsSound
  <2>2. ASSUME \A i \in GradeLines : \A j \in GradeLines : j < i /\ Owner(j) = Owner(i) => parts[j].url # parts[i].url,
               NEW i \in GradeLines, NEW j \in GradeLines, Owner(i) = Owner(j), parts[i].url = parts[j].url
        PROVE  i = j
    BY <1>2, <2>2
  <2>3. ASSUME \A i \in GradeLines : \A j \in GradeLines : Owner(i) = Owner(j) /\ parts[i].url = parts[j].url => i = j,
               NEW i \in GradeLines, NEW j \in GradeLines, j < i, Owner(j) = Owner(i)
        PROVE  parts[j].url # parts[i].url
    BY <1>2, <2>3
  <2> QED BY <2>1, <2>2, <2>3
<1> QED BY <1>3, <1>4, <1>5

\* A file is read as it is written.
LEMMA ReadAsWritten ==
  ASSUME NEW P, AreLines(P), Made("judgments") => parts \in Seq(P)
  PROVE  JudgmentsAsWritten
<1> DEFINE read == ParseJudgments(parts)
           n == Len(parts)
           written == UNION {{<<parts[k].query, parts[i].url, parts[i].grade>> : k \in Owner(i)} : i \in GradeLines}
           held == UNION {{<<read.queries[i].query, url, read.queries[i].grades[url]>> :
                             url \in DOMAIN read.queries[i].grades} : i \in DOMAIN read.queries}
<1> SUFFICES ASSUME Made("judgments")
             PROVE  /\ read.failed <=> ~ \A i \in 1..n : LineIsSound(i)
                    /\ (\A i \in 1..n : LineIsSound(i)) => Judged(read) = {parts[i].query : i \in QueryLines} /\ written = held
  BY SoundLines DEF JudgmentsAsWritten
<1>1. ReadTo(read, n)
  BY FileIsJudged
<1> HIDE DEF read
<1>2. read.failed <=> \E i \in 1..n : ~ LineIsSound(i)
  BY <1>1 DEF ReadTo
<1> SUFFICES ASSUME ~ read.failed PROVE Judged(read) = {parts[i].query : i \in QueryLines} /\ written = held
  BY <1>2
<1>3. \A i \in QueryLines \cup GradeLines : i <= n
  BY LinesStand
<1>4. BegunBy(n) = QueryLines
  BY <1>3 DEF BegunBy
<1>5. Judged(read) = {parts[i].query : i \in QueryLines}
  BY <1>1, <1>4 DEF ReadTo
<1>6. \A q, url, grade : Held(read, q, url, grade) <=> WrittenBy(n, q, url, grade)
  BY <1>1 DEF ReadTo
<1>7. ASSUME NEW t \in written PROVE t \in held
  <2>0. PICK i \in GradeLines : \E k \in Owner(i) : t = <<parts[k].query, parts[i].url, parts[i].grade>>
    OBVIOUS
  <2>1. PICK k \in Owner(i) : t = <<parts[k].query, parts[i].url, parts[i].grade>>
    BY <2>0
  <2>2. WrittenBy(n, parts[k].query, parts[i].url, parts[i].grade)
    BY <1>3 DEF WrittenBy
  <2>3. PICK j \in DOMAIN read.queries : /\ read.queries[j].query = parts[k].query
                                         /\ parts[i].url \in DOMAIN read.queries[j].grades
                                         /\ read.queries[j].grades[parts[i].url] = parts[i].grade
    BY <1>6, <2>2 DEF Held
  <2> QED BY <2>1, <2>3
<1>8. ASSUME NEW t \in held PROVE t \in written
  <2>0. PICK j \in DOMAIN read.queries : \E url \in DOMAIN read.queries[j].grades :
          t = <<read.queries[j].query, url, read.queries[j].grades[url]>>
    OBVIOUS
  <2>1. PICK url \in DOMAIN read.queries[j].grades : t = <<read.queries[j].query, url, read.queries[j].grades[url]>>
    BY <2>0
  <2>2. Held(read, read.queries[j].query, url, read.queries[j].grades[url])
    BY DEF Held
  <2>3. WrittenBy(n, read.queries[j].query, url, read.queries[j].grades[url])
    BY <1>6, <2>2
  <2>4. PICK i \in GradeLines : /\ url = parts[i].url /\ read.queries[j].grades[url] = parts[i].grade
                                 /\ \E k \in Owner(i) : read.queries[j].query = parts[k].query
    BY <2>3 DEF WrittenBy
  <2>5. \E k \in Owner(i) : t = <<parts[k].query, parts[i].url, parts[i].grade>>
    BY <2>1, <2>4
  <2> QED BY <2>5
<1> HIDE DEF written, held
<1> QED BY <1>5, <1>7, <1>8

\* What is measured is fair, of parts of any number.
LEMMA MeasuresFairFor ==
  ASSUME \A kind \in {"judgments", "hits", "pairs"} : Made(kind) => parts \in Seq(Parts[kind])
  PROVE  MeasuresAreFair
<1>1. JudgmentsAsWritten
  <2> DEFINE P == Parts["judgments"]
  <2>1. AreLines(P) /\ (Made("judgments") => parts \in Seq(P))
    BY ContentAssumption DEF ContentAssumption, AreLines
  <2> HIDE DEF P
  <2> QED BY <2>1, ReadAsWritten
<1>2. ScoresAreShares
  <2> DEFINE H == Parts["hits"]
  <2> SUFFICES ASSUME Made("hits"), NEW grades \in Gradings, NEW depth \in DOMAIN Discount,
                      IsInjective(Ranked(grades, parts, depth))
               PROVE  LET scored == Scored(grades, parts, depth)
                          ranked == Ranked(grades, parts, depth)
                          best   == Ideal(grades, depth)
                      IN  /\ scored.dcg <= scored.ideal /\ scored.found <= scored.relevant
                          /\ (scored.dcg = scored.ideal <=>
                                \A i \in 1..depth : (IF i \in DOMAIN ranked THEN GradeAt(grades, ranked[i]) ELSE 0)
                                                      = (IF i \in DOMAIN best THEN best[i] ELSE 0))
    BY DEF ScoresAreShares
  <2>1. depth \in Nat /\ depth <= Len(Discount)
    <3>1. Discount \in Seq(Nat \ {0})
      BY EvaluationAssumption DEF EvaluationAssumption
    <3> QED BY <3>1
  <2>2. Judging(grades)
    BY GradingsJudge
  <2>3. parts \in Seq(H)
    OBVIOUS
  <2> HIDE DEF H
  <2> QED BY <2>1, <2>2, <2>3, SharesOf
<1>3. JudgedUnderEither
  <2> DEFINE H == Parts["hits"]
  <2> SUFFICES ASSUME Made("hits"), NEW grades \in Gradings
               PROVE  Scored(grades, parts, Len(parts)).judged
                        = Cardinality({i \in DOMAIN parts : {parts[i].url, parts[i].final} \cap DOMAIN grades # {}})
    BY DEF JudgedUnderEither
  <2>1. parts \in Seq(H)
    OBVIOUS
  <2> HIDE DEF H
  <2> QED BY <2>1, JudgedEither
<1>4. ComparisonIsPaired
  <2> SUFFICES ASSUME Made("pairs"), NEW trials \in Trials
               PROVE  LET result == Compare(parts, trials)
                          turned == Compare(Turned(parts), trials)
                      IN  /\ turned.difference = -result.difference /\ turned.chance = result.chance
                          /\ turned.better = result.worse /\ turned.worse = result.better
                          /\ result.chance[1] \in 1..result.chance[2]
                          /\ result.better + result.worse = 0 => result.chance[1] = result.chance[2]
    BY DEF ComparisonIsPaired, Turned
  <2> DEFINE n == Len(parts)
             S == [1..n -> BOOLEAN]
  <2>1. n \in Nat /\ DOMAIN parts = 1..n /\ \A i \in 1..n : parts[i] \in Parts["pairs"]
    OBVIOUS
  <2>2. AreScores(parts, n)
    <3>1. \A pair \in Parts["pairs"] : pair.before \in Int /\ pair.after \in Int
      BY ContentAssumption DEF ContentAssumption
    <3> QED BY <2>1, <3>1 DEF AreScores
  <2>3. trials \in Seq(S)
    <3>1. PICK k \in 0..2 : trials \in [1..k -> S]
      BY <2>1 DEF Trials, UpTo
    <3> HIDE DEF S
    <3> QED BY <3>1
  <2> HIDE DEF n
  <2> QED BY <2>2, <2>3, Paired
<1> QED BY <1>1, <1>2, <1>3, <1>4 DEF MeasuresAreFair

-----------------------------------------------------------------------------
(* A page: its links, each once and as it is fetched *)

\* The parameters that are kept.
Remaining(P) == {pair \in P : pair[1] \notin Droppable}

\* The parameters that are kept among the first of a query (normalize).
LEMMA KeptWalk ==
  ASSUME NEW P, NEW query \in Seq(P)
  PROVE  \E v \in [0..Len(query) -> Seq(Remaining(P))] :
           /\ v[0] = <<>> /\ \A k \in 1..Len(query) : v[k] = (IF query[k][1] \in Droppable THEN v[k - 1] ELSE Append(v[k - 1], query[k]))
           /\ Kept(query) = v[Len(query)]
<1> DEFINE n == Len(query)
           base == <<>>
           States == Seq(Remaining(P))
           Value(x, i) == (IF query[i][1] \in Droppable THEN x ELSE Append(x, query[i]))
           step == [i \in 1..n |-> [x \in States |-> Value(x, i)]]
           Is(g) == g = [s \in SUBSET (DOMAIN query) |-> IF s = {} THEN base ELSE Value(g[s \ {Max(s)}], Max(s))]
           u == CHOOSE g : Is(g)
           f == [s \in SUBSET (1..n) |-> Value(u[s \ {Max(s)}], Max(s))]
<1>1. n \in Nat /\ base \in States /\ DOMAIN query = 1..n
  OBVIOUS
<1>2. Kept(query) = u[1..n]
  BY <1>1 DEF Kept, FoldLeft, MapThenFoldSet
<1>3. \A i \in 1..n, x \in States : Value(x, i) \in States
  <2> SUFFICES ASSUME NEW i \in 1..n, NEW x \in States PROVE Value(x, i) \in States
    OBVIOUS
  <2>1. query[i] \in P
    OBVIOUS
  <2> QED BY <2>1 DEF Remaining
<1>4. step \in [1..n -> [States -> States]] /\ \A i \in 1..n, x \in States : step[i][x] = Value(x, i)
  BY <1>3
<1>5. base = <<>> /\ \A x, i : Value(x, i) = (IF query[i][1] \in Droppable THEN x ELSE Append(x, query[i]))
  OBVIOUS
<1> HIDE DEF n, States, base, step, Value
<1>6. \A s \in SUBSET (1..n) : s # {} => Max(s) \in 1..n
  BY <1>1, TakesLast
<1>7. Is(u)
  <2>1. n \in Nat /\ base \in States
    BY <1>1
  <2>2. step \in [1..n -> [States -> States]]
    BY <1>4
  <2>3. PICK g \in [SUBSET (1..n) -> States] : IsLeftFold(g, n, base, step)
    BY <2>1, <2>2, LeftFoldExists
  <2>4. \A s \in SUBSET (1..n) : s # {} => g[s \ {Max(s)}] \in States
    OBVIOUS
  <2>5. Is(g)
    BY <1>1, <1>4, <1>6, <2>3, <2>4 DEF IsLeftFold
  <2> QED BY <2>5
<1>8. ComesTo(u, f, n, base)
  BY <1>1, <1>7 DEF ComesTo
<1>9. StepsOn(u, f, n, States, step)
  <2>1. \A s \in SUBSET (1..n) : f[s] = Value(u[s \ {Max(s)}], Max(s))
    OBVIOUS
  <2> HIDE DEF u, f
  <2>2. ASSUME NEW s \in SUBSET (1..n), s # {}, u[s \ {Max(s)}] \in States
        PROVE  f[s] = step[Max(s)][u[s \ {Max(s)}]]
    BY <1>4, <1>6, <2>1, <2>2
  <2> QED BY <2>2, Zenon DEF StepsOn
<1> HIDE DEF u, f, Is
<1>10. PICK v \in [0..n -> States] : IsWalk(v, n, base, step) /\ v[n] = u[1..n]
  <2>1. n \in Nat /\ base \in States
    BY <1>1
  <2>2. step \in [1..n -> [States -> States]]
    BY <1>4
  <2>3. ComesTo(u, f, n, base) /\ StepsOn(u, f, n, States, step)
    BY <1>8, <1>9
  <2> QED BY <2>1, <2>2, <2>3, LeftFoldWalks, SMTT(30)
<1>11. v[0] = base /\ \A k \in 1..n : v[k] = Value(v[k - 1], k)
  <2>1. \A k \in 1..n : k - 1 \in 0..n
    BY <1>1
  <2> QED BY <1>4, <1>10, <2>1 DEF IsWalk
<1>12. v[0] = <<>> /\ \A k \in 1..n : v[k] = (IF query[k][1] \in Droppable THEN v[k - 1] ELSE Append(v[k - 1], query[k]))
  BY <1>5, <1>11
<1> QED BY <1>2, <1>10, <1>12 DEF n, States

\* What is kept is worth keeping, and all of it is kept again.
LEMMA KeptIs ==
  ASSUME NEW P, NEW query \in Seq(P)
  PROVE  /\ Kept(query) \in Seq(Remaining(P))
         /\ (\A i \in 1..Len(query) : query[i][1] \notin Droppable) => Kept(query) = query
<1> DEFINE n == Len(query)
           R == Seq(Remaining(P))
<1>1. PICK v \in [0..n -> R] :
        /\ v[0] = <<>>
        /\ \A k \in 1..n : v[k] = (IF query[k][1] \in Droppable THEN v[k - 1] ELSE Append(v[k - 1], query[k]))
        /\ Kept(query) = v[n]
  BY KeptWalk
<1>2. n \in Nat /\ n \in 0..n
  OBVIOUS
<1>3. Kept(query) \in R
  <2> HIDE DEF R, n
  <2> QED BY <1>1, <1>2
<1>4. ASSUME \A i \in 1..n : query[i][1] \notin Droppable PROVE Kept(query) = query
  <2> DEFINE G == {k \in Nat : k <= n => Len(v[k]) = k /\ v[k] \in Seq(P) /\ \A i \in 1..k : v[k][i] = query[i]}
  <2>1. 0 \in G
    BY <1>1
  <2>2. ASSUME NEW k \in Nat, k \in G PROVE k + 1 \in G
    <3> SUFFICES ASSUME k + 1 <= n
                 PROVE  Len(v[k + 1]) = k + 1 /\ v[k + 1] \in Seq(P) /\ \A i \in 1..(k + 1) : v[k + 1][i] = query[i]
      OBVIOUS
    <3>1. k + 1 \in 1..n /\ (k + 1) - 1 = k /\ k <= n
      BY <1>2
    <3>2. v[k + 1] = Append(v[k], query[k + 1])
      BY <1>1, <1>4, <3>1
    <3>3. Len(v[k]) = k /\ v[k] \in Seq(P) /\ \A i \in 1..k : v[k][i] = query[i]
      BY <2>2, <3>1
    <3>4. query[k + 1] \in P
      BY <3>1
    <3> DEFINE x == v[k]
               p == query[k + 1]
    <3>5. /\ Append(x, p) \in Seq(P) /\ Len(Append(x, p)) = k + 1 /\ Append(x, p)[k + 1] = p
          /\ \A i \in 1..k : Append(x, p)[i] = query[i]
      <4>1. x \in Seq(P) /\ p \in P /\ Len(x) = k /\ \A i \in 1..k : x[i] = query[i]
        BY <3>3, <3>4
      <4> HIDE DEF x, p
      <4> QED BY <4>1, Appended
    <3>6. \A i \in 1..(k + 1) : i \in 1..k \/ i = k + 1
      OBVIOUS
    <3> HIDE DEF x, p
    <3>7. v[k + 1] = Append(x, p) /\ p = query[k + 1]
      BY <3>2 DEF x, p
    <3> QED BY <3>5, <3>6, <3>7
  <2>3. \A k \in Nat : k \in G
    <3> HIDE DEF G
    <3> QED BY <2>1, <2>2, ByNumber
  <2>4. Len(v[n]) = n /\ v[n] \in Seq(P) /\ \A i \in 1..n : v[n][i] = query[i]
    BY <1>2, <2>3
  <2> DEFINE w == v[n]
  <2>5. w \in Seq(P) /\ Len(w) = Len(query) /\ \A i \in 1..Len(query) : w[i] = query[i]
    BY <2>4
  <2>6. w = query
    <3> HIDE DEF w
    <3> QED BY <2>5
  <2> QED BY <1>1, <2>6
<1> QED BY <1>3, <1>4

\* What parameters are.
Pairs == STRING \X (STRING \cup {Empty})

\* Writing parameters back changes no name, and what is written is written so.
LEMMA WrittenIs ==
  ASSUME NEW query \in Seq(Pairs)
  PROVE  /\ Written(query) \in Seq(Pairs) /\ Len(Written(query)) = Len(query)
         /\ \A i \in 1..Len(query) : Written(query)[i][1] = query[i][1] /\ Written(query)[i][2] # NoValue
         /\ (\A i \in 1..Len(query) : query[i][2] # NoValue) => Written(query) = query
<1> DEFINE n == Len(query)
           w == Written(query)
<1>1. n \in Nat /\ DOMAIN query = 1..n /\ \A i \in 1..n : query[i] \in Pairs
  OBVIOUS
<1>2. w = [i \in 1..n |-> <<query[i][1], IF query[i][2] = NoValue THEN Empty ELSE query[i][2]>>]
  BY <1>1 DEF Written
<1>3. \A i \in 1..n : w[i] \in Pairs /\ w[i][1] = query[i][1] /\ w[i][2] # NoValue
  <2> SUFFICES ASSUME NEW i \in 1..n PROVE w[i] \in Pairs /\ w[i][1] = query[i][1] /\ w[i][2] # NoValue
    OBVIOUS
  <2>1. w[i] = <<query[i][1], IF query[i][2] = NoValue THEN Empty ELSE query[i][2]>>
    BY <1>2
  <2>2. query[i][1] \in STRING /\ query[i][2] \in STRING \cup {Empty}
    BY <1>1 DEF Pairs
  <2>3. Empty # NoValue
    BY DEF NoValue, Empty
  <2> DEFINE e == IF query[i][2] = NoValue THEN Empty ELSE query[i][2]
  <2>4. e \in STRING \cup {Empty} /\ e # NoValue
    BY <2>2, <2>3
  <2> HIDE DEF e, w
  <2>5. w[i] = <<query[i][1], e>>
    BY <2>1 DEF e
  <2>6. <<query[i][1], e>> \in Pairs
    BY <2>2, <2>4 DEF Pairs
  <2> DEFINE x == query[i][1]
  <2>7. <<x, e>>[1] = x /\ <<x, e>>[2] = e
    OBVIOUS
  <2>8. w[i] = <<x, e>> /\ <<x, e>> \in Pairs
    BY <2>5, <2>6
  <2> HIDE DEF x
  <2>9. w[i] \in Pairs /\ w[i][1] = x /\ w[i][2] # NoValue
    BY <2>4, <2>7, <2>8
  <2> QED BY <2>9 DEF x
<1>4. w \in Seq(Pairs) /\ Len(w) = n
  <2> HIDE DEF w, n
  <2>1. w \in [1..n -> Pairs]
    BY <1>2, <1>3
  <2> QED BY <1>1, <2>1
<1>5. ASSUME \A i \in 1..n : query[i][2] # NoValue PROVE w = query
  <2>1. \A i \in 1..n : <<query[i][1], query[i][2]>> = query[i]
    BY <1>1 DEF Pairs
  <2>2. \A i \in 1..n : w[i] = query[i]
    BY <1>2, <1>5, <2>1
  <2> HIDE DEF w
  <2> QED BY <1>1, <1>2, <2>2
<1> QED BY <1>3, <1>4, <1>5

\* A URL with another fragment, and with another query.
LEMMA FragmentSet ==
  ASSUME NEW scheme, NEW host, NEW port, NEW fragment, NEW path, NEW query, NEW new
  PROVE  [[scheme |-> scheme, host |-> host, port |-> port, fragment |-> fragment, path |-> path, query |-> query]
             EXCEPT !.fragment = new]
           = [scheme |-> scheme, host |-> host, port |-> port, fragment |-> new, path |-> path, query |-> query]
OBVIOUS

LEMMA QuerySet ==
  ASSUME NEW scheme, NEW host, NEW port, NEW fragment, NEW path, NEW query, NEW new
  PROVE  [[scheme |-> scheme, host |-> host, port |-> port, fragment |-> fragment, path |-> path, query |-> query]
             EXCEPT !.query = new]
           = [scheme |-> scheme, host |-> host, port |-> port, fragment |-> fragment, path |-> path, query |-> new]
OBVIOUS

\* What is fetched, part by part.
LEMMA NormalizedParts ==
  ASSUME NEW scheme, NEW host, NEW port, NEW fragment, NEW path, NEW query
  PROVE  Normalize([scheme |-> scheme, host |-> host, port |-> port, fragment |-> fragment, path |-> path, query |-> query])
           = [scheme |-> scheme, host |-> host, port |-> port, fragment |-> FALSE, path |-> path, query |-> Written(Kept(query))]
<1> DEFINE url == [scheme |-> scheme, host |-> host, port |-> port, fragment |-> fragment, path |-> path, query |-> query]
           bare == [scheme |-> scheme, host |-> host, port |-> port, fragment |-> FALSE, path |-> path, query |-> query]
           kept == Written(Kept(query))
<1>1. url.query = query
  OBVIOUS
<1>2. Normalize(url) = [[url EXCEPT !.fragment = FALSE] EXCEPT !.query = kept]
  <2>1. Normalize(url) = [url EXCEPT !.fragment = FALSE, !.query = Written(Kept(url.query))]
    BY DEF Normalize
  <2>2. Normalize(url) = [url EXCEPT !.fragment = FALSE, !.query = kept]
    BY <1>1, <2>1
  <2> HIDE DEF url, kept
  <2> QED BY <2>2
<1>3. [url EXCEPT !.fragment = FALSE] = bare
  <2> DEFINE none == FALSE
  <2> HIDE DEF none
  <2>1. [url EXCEPT !.fragment = none]
          = [scheme |-> scheme, host |-> host, port |-> port, fragment |-> none, path |-> path, query |-> query]
    BY FragmentSet
  <2> QED BY <2>1 DEF none
<1>4. [bare EXCEPT !.query = kept]
        = [scheme |-> scheme, host |-> host, port |-> port, fragment |-> FALSE, path |-> path, query |-> kept]
  <2> DEFINE none == FALSE
  <2> HIDE DEF kept, none
  <2>1. [[scheme |-> scheme, host |-> host, port |-> port, fragment |-> none, path |-> path, query |-> query] EXCEPT !.query = kept]
          = [scheme |-> scheme, host |-> host, port |-> port, fragment |-> none, path |-> path, query |-> kept]
    BY QuerySet
  <2> QED BY <2>1 DEF none
<1> HIDE DEF url, bare, kept
<1>5. Normalize(url)
        = [scheme |-> scheme, host |-> host, port |-> port, fragment |-> FALSE, path |-> path, query |-> kept]
  BY <1>2, <1>3, <1>4
<1> QED BY <1>5 DEF url, kept

\* A URL that is normalised stays what it is (normalize).
LEMMA NormalizedStays ==
  ASSUME NEW url, IsUrl(url)
  PROVE  Normalize(Normalize(url)) = Normalize(url)
<1> DEFINE q == url.query
           k == Kept(q)
           w == Written(k)
           P == Pairs
<1>1. q \in Seq(P)
  BY DEF IsUrl, Pairs
<1>2. k \in Seq(P) /\ \A i \in 1..Len(k) : k[i][1] \notin Droppable
  <2> HIDE DEF q, P
  <2>1. k \in Seq(Remaining(P))
    BY <1>1, KeptIs
  <2> HIDE DEF k
  <2>2. \A i \in 1..Len(k) : k[i] \in Remaining(P)
    BY <2>1
  <2> QED BY <2>1, <2>2 DEF Remaining
<1>3. w \in Seq(P) /\ Len(w) = Len(k) /\ \A i \in 1..Len(w) : w[i][1] \notin Droppable /\ w[i][2] # NoValue
  <2> HIDE DEF k
  <2> QED BY <1>2, WrittenIs
<1>4. Kept(w) = w
  <2> HIDE DEF w, P
  <2> QED BY <1>3, KeptIs
<1>5. Written(w) = w
  <2> HIDE DEF w
  <2> QED BY <1>3, WrittenIs
<1>6. Normalize(url) = [scheme |-> url.scheme, host |-> url.host, port |-> url.port, fragment |-> FALSE,
                        path |-> url.path, query |-> w]
  <2> DEFINE parted == [scheme |-> url.scheme, host |-> url.host, port |-> url.port, fragment |-> url.fragment,
                        path |-> url.path, query |-> url.query]
  <2>1. url = parted
    BY DEF IsUrl
  <2>2. Normalize(parted) = [scheme |-> url.scheme, host |-> url.host, port |-> url.port, fragment |-> FALSE,
                             path |-> url.path, query |-> w]
    BY NormalizedParts
  <2>3. Normalize(url) = Normalize(parted)
    <3> HIDE DEF parted
    <3> QED BY <2>1
  <2> HIDE DEF parted
  <2> QED BY <2>2, <2>3
<1> HIDE DEF w
<1>7. Normalize(Normalize(url)) = [scheme |-> url.scheme, host |-> url.host, port |-> url.port, fragment |-> FALSE,
                                   path |-> url.path, query |-> Written(Kept(w))]
  BY <1>6, NormalizedParts
<1> QED BY <1>4, <1>5, <1>6, <1>7

\* Where an anchor leads is a URL.
LEMMA JoinedIsUrl ==
  ASSUME NEW base, IsUrl(base), NEW href, Resolves(base, href), href.kind = "url" => IsUrl(href.url)
  PROVE  IsUrl(Join(base, href))
<1>1. CASE href.kind = "url"
  BY <1>1 DEF Join
<1>2. CASE href.kind = "path"
  <2>1. Join(base, href) = [scheme |-> base.scheme, host |-> base.host, port |-> base.port, fragment |-> FALSE,
                            path |-> Front(base.path) \o href.path, query |-> <<>>]
    BY <1>2 DEF Join, IsUrl
  <2> QED BY <2>1 DEF IsUrl
<1> QED BY <1>1, <1>2 DEF Resolves

\* What an anchor adds to a list of links.
LinkOf(base, a) == [url |-> Resolve(base, a.href), nofollow |-> a.nofollow]
LinksFrom(base, A) == {LinkOf(base, a) : a \in A}
WithLink(base, links, a) ==
  IF ~Resolves(base, a.href) \/ Listed(links, Resolve(base, a.href)) THEN links ELSE Append(links, LinkOf(base, a))

\* The links of the first anchors (collect_links).
LEMMA LinksWalk ==
  ASSUME NEW A, NEW anchors \in Seq(A), NEW page
  PROVE  \E v \in [0..Len(anchors) -> Seq(LinksFrom(page, A))] :
           /\ v[0] = <<>> /\ \A k \in 1..Len(anchors) : v[k] = (WithLink(page, v[k - 1], anchors[k]))
           /\ LinksOf(page, anchors) = v[Len(anchors)]
<1> DEFINE n == Len(anchors)
           base == <<>>
           States == Seq(LinksFrom(page, A))
           Value(x, i) == (WithLink(page, x, anchors[i]))
           step == [i \in 1..n |-> [x \in States |-> Value(x, i)]]
           Is(g) == g = [s \in SUBSET (DOMAIN anchors) |-> IF s = {} THEN base ELSE Value(g[s \ {Max(s)}], Max(s))]
           u == CHOOSE g : Is(g)
           f == [s \in SUBSET (1..n) |-> Value(u[s \ {Max(s)}], Max(s))]
<1>1. n \in Nat /\ base \in States /\ DOMAIN anchors = 1..n
  OBVIOUS
<1>2. LinksOf(page, anchors) = u[1..n]
  BY <1>1 DEF LinksOf, LinkOf, WithLink, FoldLeft, MapThenFoldSet
<1>3. \A i \in 1..n, x \in States : Value(x, i) \in States
  <2> SUFFICES ASSUME NEW i \in 1..n, NEW x \in States PROVE Value(x, i) \in States
    OBVIOUS
  <2>1. LinkOf(page, anchors[i]) \in LinksFrom(page, A)
    BY DEF LinksFrom
  <2> QED BY <2>1 DEF WithLink
<1>4. step \in [1..n -> [States -> States]] /\ \A i \in 1..n, x \in States : step[i][x] = Value(x, i)
  BY <1>3
<1>5. base = <<>> /\ \A x, i : Value(x, i) = (WithLink(page, x, anchors[i]))
  OBVIOUS
<1> HIDE DEF n, States, base, step, Value
<1>6. \A s \in SUBSET (1..n) : s # {} => Max(s) \in 1..n
  BY <1>1, TakesLast
<1>7. Is(u)
  <2>1. n \in Nat /\ base \in States
    BY <1>1
  <2>2. step \in [1..n -> [States -> States]]
    BY <1>4
  <2>3. PICK g \in [SUBSET (1..n) -> States] : IsLeftFold(g, n, base, step)
    BY <2>1, <2>2, LeftFoldExists
  <2>4. \A s \in SUBSET (1..n) : s # {} => g[s \ {Max(s)}] \in States
    OBVIOUS
  <2>5. Is(g)
    BY <1>1, <1>4, <1>6, <2>3, <2>4 DEF IsLeftFold
  <2> QED BY <2>5
<1>8. ComesTo(u, f, n, base)
  BY <1>1, <1>7 DEF ComesTo
<1>9. StepsOn(u, f, n, States, step)
  <2>1. \A s \in SUBSET (1..n) : f[s] = Value(u[s \ {Max(s)}], Max(s))
    OBVIOUS
  <2> HIDE DEF u, f
  <2>2. ASSUME NEW s \in SUBSET (1..n), s # {}, u[s \ {Max(s)}] \in States
        PROVE  f[s] = step[Max(s)][u[s \ {Max(s)}]]
    BY <1>4, <1>6, <2>1, <2>2
  <2> QED BY <2>2, Zenon DEF StepsOn
<1> HIDE DEF u, f, Is
<1>10. PICK v \in [0..n -> States] : IsWalk(v, n, base, step) /\ v[n] = u[1..n]
  <2>1. n \in Nat /\ base \in States
    BY <1>1
  <2>2. step \in [1..n -> [States -> States]]
    BY <1>4
  <2>3. ComesTo(u, f, n, base) /\ StepsOn(u, f, n, States, step)
    BY <1>8, <1>9
  <2> QED BY <2>1, <2>2, <2>3, LeftFoldWalks, SMTT(30)
<1>11. v[0] = base /\ \A k \in 1..n : v[k] = Value(v[k - 1], k)
  <2>1. \A k \in 1..n : k - 1 \in 0..n
    BY <1>1
  <2> QED BY <1>4, <1>10, <2>1 DEF IsWalk
<1>12. v[0] = <<>> /\ \A k \in 1..n : v[k] = (WithLink(page, v[k - 1], anchors[k]))
  BY <1>5, <1>11
<1> QED BY <1>2, <1>10, <1>12 DEF n, States

\* A list of links, of the anchors R among the first k, that lead to the URLs
\* at and that would be listed as own.
OnceIn(l) == \A i, j \in 1..Len(l) : l[i].url = l[j].url => i = j
FirstsIn(l, R, at, own, k) ==
  \A i \in 1..Len(l) : \E m \in R : m <= k /\ l[i] = own[m] /\ \A j \in R : at[j] = at[m] => m <= j
AllIn(l, R, at, k) == \A m \in R : m <= k => \E i \in 1..Len(l) : l[i].url = at[m]

\* An anchor that leads where an earlier one does adds nothing.
LEMMA OneIsPassed ==
  ASSUME NEW n \in Nat, NEW R \in SUBSET (1..n), NEW at, NEW own, NEW S, NEW l \in Seq(S), NEW k \in Nat,
         OnceIn(l), FirstsIn(l, R, at, own, k), AllIn(l, R, at, k), k + 1 \notin R \/ Listed(l, at[k + 1])
  PROVE  FirstsIn(l, R, at, own, k + 1) /\ AllIn(l, R, at, k + 1)
<1>0. DOMAIN l = 1..Len(l) /\ Len(l) \in Nat
  OBVIOUS
<1>1. FirstsIn(l, R, at, own, k + 1)
  <2> SUFFICES ASSUME NEW i \in 1..Len(l)
               PROVE  \E m \in R : m <= k + 1 /\ l[i] = own[m] /\ \A j \in R : at[j] = at[m] => m <= j
    BY DEF FirstsIn
  <2>1. PICK m \in R : m <= k /\ l[i] = own[m] /\ \A j \in R : at[j] = at[m] => m <= j
    BY DEF FirstsIn
  <2>2. m <= k + 1
    BY <2>1
  <2> QED BY <2>1, <2>2
<1>2. AllIn(l, R, at, k + 1)
  <2> SUFFICES ASSUME NEW m \in R, m <= k + 1 PROVE \E i \in 1..Len(l) : l[i].url = at[m]
    BY DEF AllIn
  <2>1. m <= k \/ m = k + 1
    OBVIOUS
  <2>2. CASE m <= k
    BY <2>2 DEF AllIn
  <2>3. CASE m = k + 1
    BY <1>0, <2>3 DEF Listed
  <2> QED BY <2>1, <2>2, <2>3
<1> QED BY <1>1, <1>2

\* One that leads elsewhere is listed.
LEMMA OneIsListed ==
  ASSUME NEW n \in Nat, NEW R \in SUBSET (1..n), NEW at, NEW own, NEW S, NEW l \in Seq(S), NEW k \in Nat,
         OnceIn(l), FirstsIn(l, R, at, own, k), AllIn(l, R, at, k), k + 1 \in R, ~Listed(l, at[k + 1]),
         NEW more \in S, more = own[k + 1], more.url = at[k + 1]
  PROVE  LET x == Append(l, more) IN OnceIn(x) /\ FirstsIn(x, R, at, own, k + 1) /\ AllIn(x, R, at, k + 1)
<1> DEFINE x == Append(l, more)
<1>0. DOMAIN l = 1..Len(l) /\ Len(l) \in Nat
  OBVIOUS
<1>1. x \in Seq(S) /\ Len(x) = Len(l) + 1 /\ x[Len(l) + 1] = more /\ \A i \in 1..Len(l) : x[i] = l[i]
  BY Appended
<1> HIDE DEF x
<1>2. ASSUME NEW i \in 1..Len(x) PROVE i \in 1..Len(l) \/ i = Len(l) + 1
  BY <1>0, <1>1
<1>3. ASSUME NEW i \in 1..Len(l) PROVE l[i].url # at[k + 1]
  BY <1>0 DEF Listed
<1>4. OnceIn(x)
  <2> SUFFICES ASSUME NEW i \in 1..Len(x), NEW j \in 1..Len(x), x[i].url = x[j].url PROVE i = j
    BY DEF OnceIn
  <2>1. CASE i \in 1..Len(l) /\ j \in 1..Len(l)
    BY <1>1, <2>1 DEF OnceIn
  <2>2. CASE i = Len(l) + 1 /\ j \in 1..Len(l)
    BY <1>1, <1>3, <2>2
  <2>3. CASE j = Len(l) + 1 /\ i \in 1..Len(l)
    BY <1>1, <1>3, <2>3
  <2> QED BY <1>2, <2>1, <2>2, <2>3
<1>5. FirstsIn(x, R, at, own, k + 1)
  <2> SUFFICES ASSUME NEW i \in 1..Len(x)
               PROVE  \E m \in R : m <= k + 1 /\ x[i] = own[m] /\ \A j \in R : at[j] = at[m] => m <= j
    BY DEF FirstsIn
  <2>1. CASE i \in 1..Len(l)
    <3>1. PICK m \in R : m <= k /\ l[i] = own[m] /\ \A j \in R : at[j] = at[m] => m <= j
      BY <2>1 DEF FirstsIn
    <3>2. m <= k + 1 /\ x[i] = own[m]
      BY <1>1, <2>1, <3>1
    <3> QED BY <3>1, <3>2
  <2>2. CASE i = Len(l) + 1
    <3>1. ASSUME NEW j \in R, at[j] = at[k + 1] PROVE k + 1 <= j
      <4> SUFFICES ASSUME j <= k PROVE FALSE
        OBVIOUS
      <4>1. PICK h \in 1..Len(l) : l[h].url = at[j]
        BY DEF AllIn
      <4> QED BY <1>3, <3>1, <4>1
    <3>2. x[i] = own[k + 1]
      BY <1>1, <2>2
    <3> QED BY <3>1, <3>2
  <2> QED BY <1>2, <2>1, <2>2
<1>6. AllIn(x, R, at, k + 1)
  <2> SUFFICES ASSUME NEW m \in R, m <= k + 1 PROVE \E i \in 1..Len(x) : x[i].url = at[m]
    BY Zenon DEF AllIn
  <2>0. m \in Int /\ k \in Int
    OBVIOUS
  <2>1. m <= k \/ m = k + 1
    BY <2>0
  <2>2. CASE m <= k
    <3>1. PICK i \in 1..Len(l) : l[i].url = at[m]
      BY <2>2 DEF AllIn
    <3>2. i \in 1..Len(x) /\ x[i] = l[i]
      BY <1>0, <1>1
    <3> QED BY <3>1, <3>2
  <2>3. CASE m = k + 1
    <3>1. Len(l) + 1 \in 1..Len(x)
      BY <1>0, <1>1
    <3>2. x[Len(l) + 1].url = at[m]
      BY <1>1, <2>3
    <3> QED BY <3>1, <3>2
  <2> QED BY <2>1, <2>2, <2>3
<1> QED BY <1>4, <1>5, <1>6 DEF x

\* Of the anchors that lead to one URL the first is listed, and no other.
LEMMA FirstsAreListed ==
  ASSUME NEW n \in Nat, NEW R \in SUBSET (1..n), NEW at, NEW own, NEW S, NEW v \in [0..n -> Seq(S)],
         \A k \in 1..n : own[k] \in S /\ own[k].url = at[k],
         v[0] = <<>>,
         \A k \in 1..n : v[k] = IF k \notin R \/ Listed(v[k - 1], at[k]) THEN v[k - 1] ELSE Append(v[k - 1], own[k])
  PROVE  OnceIn(v[n]) /\ FirstsIn(v[n], R, at, own, n) /\ AllIn(v[n], R, at, n)
<1> DEFINE Good(k) == OnceIn(v[k]) /\ FirstsIn(v[k], R, at, own, k) /\ AllIn(v[k], R, at, k)
           G == {k \in Nat : k <= n => Good(k)}
<1>1. 0 \in G
  <2>1. Len(v[0]) = 0 /\ 1..0 = {} /\ \A m \in R : ~(m <= 0)
    OBVIOUS
  <2> QED BY <2>1 DEF OnceIn, FirstsIn, AllIn
<1>2. ASSUME NEW k \in Nat, k \in G PROVE k + 1 \in G
  <2> SUFFICES ASSUME k + 1 <= n PROVE Good(k + 1)
    OBVIOUS
  <2>1. k + 1 \in 1..n /\ k \in 0..n /\ (k + 1) - 1 = k /\ k <= n
    OBVIOUS
  <2>2. v[k] \in Seq(S) /\ Good(k) /\ own[k + 1] \in S /\ own[k + 1].url = at[k + 1]
    BY <1>2, <2>1
  <2>3. v[k + 1] = IF k + 1 \notin R \/ Listed(v[k], at[k + 1]) THEN v[k] ELSE Append(v[k], own[k + 1])
    BY <2>1
  <2>4. CASE k + 1 \notin R \/ Listed(v[k], at[k + 1])
    <3>1. v[k + 1] = v[k]
      BY <2>3, <2>4
    <3>2. FirstsIn(v[k], R, at, own, k + 1) /\ AllIn(v[k], R, at, k + 1)
      BY <2>2, <2>4, OneIsPassed
    <3> QED BY <2>2, <3>1, <3>2
  <2>5. CASE k + 1 \in R /\ ~Listed(v[k], at[k + 1])
    <3>1. v[k + 1] = Append(v[k], own[k + 1])
      BY <2>3, <2>5
    <3>2. LET x == Append(v[k], own[k + 1]) IN OnceIn(x) /\ FirstsIn(x, R, at, own, k + 1) /\ AllIn(x, R, at, k + 1)
      BY <2>2, <2>5, OneIsListed
    <3> QED BY <3>1, <3>2
  <2> QED BY <2>4, <2>5
<1>3. n \in G
  <2> HIDE DEF G
  <2> QED BY <1>1, <1>2, ByNumber
<1> QED BY <1>3

\* The links of a page are where its anchors lead, each once and as it will be
\* fetched, with what the first of its anchors says.
LEMMA LinksAreOnce ==
  ASSUME NEW A, parts \in Seq(A), \A a \in A : a.href.kind = "url" => IsUrl(a.href.url), NEW page, IsUrl(page)
  PROVE  LinksOnce(LinksOf(page, parts), page)
<1>0. PICK v \in [0..Len(parts) -> Seq(LinksFrom(page, A))] :
        /\ v[0] = <<>> /\ \A k \in 1..Len(parts) : v[k] = WithLink(page, v[k - 1], parts[k])
        /\ LinksOf(page, parts) = v[Len(parts)]
  BY LinksWalk
<1> DEFINE n == Len(parts)
           S == LinksFrom(page, A)
           R == {k \in 1..n : Resolves(page, parts[k].href)}
           at == [k \in 1..n |-> Resolve(page, parts[k].href)]
           own == [k \in 1..n |-> LinkOf(page, parts[k])]
           links == LinksOf(page, parts)
<1>1. n \in Nat /\ DOMAIN parts = 1..n /\ \A k \in 1..n : parts[k] \in A
  OBVIOUS
<1>2. v \in [0..n -> Seq(S)] /\ v[0] = <<>> /\ links = v[n] /\ \A k \in 1..n : v[k] = WithLink(page, v[k - 1], parts[k])
  BY <1>0
<1>3. \A k \in 1..n : own[k] \in S /\ own[k].url = at[k] /\ own[k].nofollow = parts[k].nofollow
  BY <1>1 DEF LinkOf, LinksFrom
<1>4. \A k \in 1..n : v[k] = IF k \notin R \/ Listed(v[k - 1], at[k]) THEN v[k - 1] ELSE Append(v[k - 1], own[k])
  BY <1>2 DEF WithLink
<1>5. OnceIn(links) /\ FirstsIn(links, R, at, own, n) /\ AllIn(links, R, at, n)
  <2>1. R \in SUBSET (1..n)
    OBVIOUS
  <2> HIDE DEF n, S, R, at, own, links
  <2>2. v[0] = <<>> /\ links = v[n] /\ \A k \in 1..n : own[k] \in S /\ own[k].url = at[k]
    BY <1>2, <1>3
  <2>3. OnceIn(v[n]) /\ FirstsIn(v[n], R, at, own, n) /\ AllIn(v[n], R, at, n)
    BY <1>1, <1>2, <1>4, <2>1, <2>2, FirstsAreListed
  <2> QED BY <2>2, <2>3
<1>6. links \in Seq(S) /\ DOMAIN links = 1..Len(links)
  <2>1. n \in 0..n
    BY <1>1
  <2>2. links \in Seq(S)
    BY <1>2, <2>1
  <2> HIDE DEF links, S
  <2> QED BY <2>2
<1>7. \A m \in R : Normalize(at[m]) = at[m]
  <2> SUFFICES ASSUME NEW m \in R PROVE Normalize(at[m]) = at[m]
    OBVIOUS
  <2> DEFINE url == Join(page, parts[m].href)
  <2>1. Resolves(page, parts[m].href) /\ parts[m].href.kind = "url" => IsUrl(parts[m].href.url)
    BY <1>1
  <2>2. IsUrl(url)
    BY <2>1, JoinedIsUrl
  <2>3. at[m] = Normalize(url)
    BY DEF Resolve
  <2> HIDE DEF url
  <2>4. Normalize(Normalize(url)) = Normalize(url)
    BY <2>2, NormalizedStays
  <2> QED BY <2>3, <2>4
<1>8. \A url : {i \in DOMAIN parts : Resolves(page, parts[i].href) /\ Resolve(page, parts[i].href) = url}
                 = {i \in R : at[i] = url}
  BY <1>1
<1> DEFINE to(url) == {i \in DOMAIN parts : Resolves(page, parts[i].href) /\ Resolve(page, parts[i].href) = url}
<1>9. \A i, j \in DOMAIN links : links[i].url = links[j].url => i = j
  BY <1>5, <1>6 DEF OnceIn
<1>10. ASSUME NEW link \in ToSet(links)
       PROVE  /\ Normalize(link.url) = link.url
              /\ \E i \in to(link.url) : (\A j \in to(link.url) : i <= j) /\ link.nofollow = parts[i].nofollow
  <2>1. PICK i \in 1..Len(links) : link = links[i]
    BY <1>6 DEF ToSet
  <2>2. PICK m \in R : links[i] = own[m] /\ \A j \in R : at[j] = at[m] => m <= j
    BY <1>5 DEF FirstsIn
  <2>3. link.url = at[m] /\ link.nofollow = parts[m].nofollow
    BY <1>3, <2>1, <2>2
  <2>4. to(link.url) = {j \in R : at[j] = link.url}
    BY <1>8
  <2> HIDE DEF at, own, links, R, to
  <2> QED BY <1>7, <2>2, <2>3, <2>4
<1>11. ASSUME NEW i \in DOMAIN parts, Resolves(page, parts[i].href)
       PROVE  \E link \in ToSet(links) : i \in to(link.url)
  <2>1. i \in R
    BY <1>1, <1>11
  <2>2. PICK l \in 1..Len(links) : links[l].url = at[i]
    BY <1>1, <1>5, <2>1 DEF AllIn
  <2>3. links[l] \in ToSet(links)
    BY <1>6 DEF ToSet
  <2>4. to(links[l].url) = {j \in R : at[j] = links[l].url}
    BY <1>8
  <2> HIDE DEF at, links, R, to
  <2> QED BY <2>1, <2>2, <2>3, <2>4
<1> HIDE DEF links, at, own, R, n
<1> QED BY <1>9, <1>10, <1>11 DEF LinksOnce, links

-----------------------------------------------------------------------------
(* A page: of its directives, the last word on a matter *)

AllWords == [is : STRING, n : Int]

AllDirectives == [index : BOOLEAN, follow : BOOLEAN, archive : BOOLEAN, snippet : BOOLEAN, limit : Int]

\* The last word of some kinds among those heard: none, or the one.
HeardLast(heard, kinds) ==
  LET at == {i \in DOMAIN heard : heard[i].is \in kinds}
  IN  {heard[i] : i \in {i \in at : \A j \in at : j <= i}}

\* What is said after a sequence of words was heard.
Says(d, heard) ==
  /\ d.index <=> \A word \in HeardLast(heard, {"noindex", "none", "all"}) : word.is = "all"
  /\ d.follow <=> \A word \in HeardLast(heard, {"nofollow", "none", "all"}) : word.is = "all"
  /\ d.archive <=> HeardLast(heard, {"noarchive"}) = {}
  /\ \A word \in HeardLast(heard, {"nosnippet", "max-snippet"}) :
       d.limit = (IF word.is = "nosnippet" THEN 0 ELSE IF word.n < 0 THEN Unlimited ELSE word.n)
  /\ d.snippet <=> d.limit # 0

\* A word of these kinds is the last one when it comes, another changes nothing.
LEMMA LastAppended ==
  ASSUME NEW heard \in Seq(AllWords), NEW word \in AllWords, NEW kinds
  PROVE  HeardLast(Append(heard, word), kinds) = IF word.is \in kinds THEN {word} ELSE HeardLast(heard, kinds)
<1> DEFINE x == Append(heard, word)
           n == Len(heard)
           at == {i \in DOMAIN heard : heard[i].is \in kinds}
           now == {i \in DOMAIN x : x[i].is \in kinds}
           ends == {i \in at : \A j \in at : j <= i}
           last == {i \in now : \A j \in now : j <= i}
<1>1. n \in Nat /\ DOMAIN heard = 1..n
  OBVIOUS
<1>2. DOMAIN x = 1..n + 1 /\ x[n + 1] = word /\ \A i \in 1..n : x[i] = heard[i]
  BY <1>1, Appended
<1>3. HeardLast(x, kinds) = {x[i] : i \in last} /\ HeardLast(heard, kinds) = {heard[i] : i \in ends}
  BY DEF HeardLast
<1>4. CASE word.is \in kinds
  <2>1. n + 1 \in now /\ \A i \in now : i \in Int /\ i <= n + 1
    BY <1>1, <1>2, <1>4
  <2>2. last = {n + 1}
    BY <1>1, <2>1
  <2>3. {x[i] : i \in last} = {word}
    BY <1>2, <2>2
  <2> QED BY <1>3, <1>4, <2>3
<1>5. CASE word.is \notin kinds
  <2>1. now = at
    BY <1>1, <1>2, <1>5
  <2>2. \A i \in last : i \in 1..n /\ x[i] = heard[i]
    BY <1>1, <1>2, <2>1
  <2>3. last = ends
    BY <2>1
  <2> HIDE DEF last, ends, x
  <2>4. {x[i] : i \in last} = {heard[i] : i \in ends}
    BY <2>2, <2>3
  <2> QED BY <1>3, <1>5, <2>4 DEF x
<1> QED BY <1>4, <1>5

\* A limit settles whether there is a snippet.
LEMMA LimitSettles ==
  ASSUME NEW d \in AllDirectives, NEW n \in Int
  PROVE  /\ Limit(d, n) \in AllDirectives
         /\ Limit(d, n).index = d.index /\ Limit(d, n).follow = d.follow /\ Limit(d, n).archive = d.archive
         /\ Limit(d, n).limit = (IF n < 0 THEN Unlimited ELSE n) /\ (Limit(d, n).snippet <=> Limit(d, n).limit # 0)
<1> DEFINE allowed == n # 0
           limit == IF n < 0 THEN Unlimited ELSE n
<1>1. allowed \in BOOLEAN /\ limit \in Int /\ (allowed <=> limit # 0)
  BY DEF Unlimited
<1>2. Limit(d, n) = [d EXCEPT !.limit = limit, !.snippet = allowed]
  BY DEF Limit
<1>3. limit = IF n < 0 THEN Unlimited ELSE n
  OBVIOUS
<1> HIDE DEF allowed, limit
<1>4. LET e == [d EXCEPT !.limit = limit, !.snippet = allowed]
      IN  /\ e \in AllDirectives /\ e.index = d.index /\ e.follow = d.follow /\ e.archive = d.archive
          /\ e.limit = limit /\ e.snippet = allowed
  BY <1>1 DEF AllDirectives
<1> QED BY <1>1, <1>2, <1>3, <1>4

\* What one word changes.
LEMMA WordApplied ==
  ASSUME NEW d \in AllDirectives, NEW word \in AllWords
  PROVE  LET e == ApplyWord(d, word)
         IN  /\ e \in AllDirectives
             /\ e.index = (IF word.is \in {"noindex", "none"} THEN FALSE ELSE IF word.is = "all" THEN TRUE ELSE d.index)
             /\ e.follow = (IF word.is \in {"nofollow", "none"} THEN FALSE ELSE IF word.is = "all" THEN TRUE ELSE d.follow)
             /\ e.archive = (IF word.is = "noarchive" THEN FALSE ELSE d.archive)
             /\ word.is = "nosnippet" => e.limit = 0
             /\ word.is = "max-snippet" => e.limit = IF word.n < 0 THEN Unlimited ELSE word.n
             /\ word.is \in {"nosnippet", "max-snippet"} => (e.snippet <=> e.limit # 0)
             /\ word.is \notin {"nosnippet", "max-snippet"} => e.limit = d.limit /\ e.snippet = d.snippet
<1>1. word.n \in Int
  BY DEF AllWords
<1>2. CASE word.is = "nosnippet"
  <2>1. ApplyWord(d, word) = Limit(d, 0)
    BY <1>2 DEF ApplyWord
  <2> QED BY <1>2, <2>1, LimitSettles
<1>3. CASE word.is = "max-snippet"
  <2>1. ApplyWord(d, word) = Limit(d, word.n)
    BY <1>3 DEF ApplyWord
  <2> QED BY <1>1, <1>3, <2>1, LimitSettles
<1>4. CASE word.is = "none"
  <2>1. ApplyWord(d, word) = [d EXCEPT !.index = FALSE, !.follow = FALSE]
    BY <1>4 DEF ApplyWord
  <2> QED BY <1>4, <2>1 DEF AllDirectives
<1>5. CASE word.is = "all"
  <2>1. ApplyWord(d, word) = [d EXCEPT !.index = TRUE, !.follow = TRUE]
    BY <1>5 DEF ApplyWord
  <2> QED BY <1>5, <2>1 DEF AllDirectives
<1>6. CASE word.is = "noindex"
  <2>1. ApplyWord(d, word) = [d EXCEPT !.index = FALSE]
    BY <1>6 DEF ApplyWord
  <2> QED BY <1>6, <2>1 DEF AllDirectives
<1>7. CASE word.is = "nofollow"
  <2>1. ApplyWord(d, word) = [d EXCEPT !.follow = FALSE]
    BY <1>7 DEF ApplyWord
  <2> QED BY <1>7, <2>1 DEF AllDirectives
<1>8. CASE word.is = "noarchive"
  <2>1. ApplyWord(d, word) = [d EXCEPT !.archive = FALSE]
    BY <1>8 DEF ApplyWord
  <2> QED BY <1>8, <2>1 DEF AllDirectives
<1>9. CASE word.is \notin {"noindex", "nofollow", "noarchive", "nosnippet", "none", "all", "max-snippet"}
  <2>1. ApplyWord(d, word) = d
    BY <1>9 DEF ApplyWord
  <2> QED BY <1>9, <2>1
<1> QED BY <1>2, <1>3, <1>4, <1>5, <1>6, <1>7, <1>8, <1>9

\* One word more said, one word more heard.
LEMMA OneWordSaid ==
  ASSUME NEW d \in AllDirectives, NEW heard \in Seq(AllWords), NEW word \in AllWords, Says(d, heard)
  PROVE  Says(ApplyWord(d, word), Append(heard, word))
<1> DEFINE e == ApplyWord(d, word)
           x == Append(heard, word)
<1>1. /\ e.index = (IF word.is \in {"noindex", "none"} THEN FALSE ELSE IF word.is = "all" THEN TRUE ELSE d.index)
      /\ e.follow = (IF word.is \in {"nofollow", "none"} THEN FALSE ELSE IF word.is = "all" THEN TRUE ELSE d.follow)
      /\ e.archive = (IF word.is = "noarchive" THEN FALSE ELSE d.archive)
      /\ word.is = "nosnippet" => e.limit = 0
      /\ word.is = "max-snippet" => e.limit = IF word.n < 0 THEN Unlimited ELSE word.n
      /\ word.is \in {"nosnippet", "max-snippet"} => (e.snippet <=> e.limit # 0)
      /\ word.is \notin {"nosnippet", "max-snippet"} => e.limit = d.limit /\ e.snippet = d.snippet
  BY WordApplied
<1>2. \A kinds : HeardLast(x, kinds) = IF word.is \in kinds THEN {word} ELSE HeardLast(heard, kinds)
  BY LastAppended
<1> HIDE DEF e, x
<1>3. e.index <=> \A w \in HeardLast(x, {"noindex", "none", "all"}) : w.is = "all"
  <2> DEFINE kinds == {"noindex", "none", "all"}
  <2>1. d.index <=> \A w \in HeardLast(heard, kinds) : w.is = "all"
    BY DEF Says
  <2>2. HeardLast(x, kinds) = IF word.is \in kinds THEN {word} ELSE HeardLast(heard, kinds)
    BY <1>2
  <2>3. CASE word.is \in kinds
    BY <1>1, <2>2, <2>3
  <2>4. CASE word.is \notin kinds
    BY <1>1, <2>1, <2>2, <2>4
  <2> QED BY <2>3, <2>4
<1>4. e.follow <=> \A w \in HeardLast(x, {"nofollow", "none", "all"}) : w.is = "all"
  <2> DEFINE kinds == {"nofollow", "none", "all"}
  <2>1. d.follow <=> \A w \in HeardLast(heard, kinds) : w.is = "all"
    BY DEF Says
  <2>2. HeardLast(x, kinds) = IF word.is \in kinds THEN {word} ELSE HeardLast(heard, kinds)
    BY <1>2
  <2>3. CASE word.is \in kinds
    BY <1>1, <2>2, <2>3
  <2>4. CASE word.is \notin kinds
    BY <1>1, <2>1, <2>2, <2>4
  <2> QED BY <2>3, <2>4
<1>5. e.archive <=> HeardLast(x, {"noarchive"}) = {}
  <2>1. d.archive <=> HeardLast(heard, {"noarchive"}) = {}
    BY DEF Says
  <2>2. HeardLast(x, {"noarchive"}) = IF word.is \in {"noarchive"} THEN {word} ELSE HeardLast(heard, {"noarchive"})
    BY <1>2
  <2>3. CASE word.is = "noarchive"
    BY <1>1, <2>2, <2>3
  <2>4. CASE word.is # "noarchive"
    BY <1>1, <2>1, <2>2, <2>4
  <2> QED BY <2>3, <2>4
<1>6. \A w \in HeardLast(x, {"nosnippet", "max-snippet"}) :
        e.limit = (IF w.is = "nosnippet" THEN 0 ELSE IF w.n < 0 THEN Unlimited ELSE w.n)
  <2> DEFINE kinds == {"nosnippet", "max-snippet"}
  <2>1. \A w \in HeardLast(heard, kinds) :
          d.limit = (IF w.is = "nosnippet" THEN 0 ELSE IF w.n < 0 THEN Unlimited ELSE w.n)
    BY DEF Says
  <2>2. HeardLast(x, kinds) = IF word.is \in kinds THEN {word} ELSE HeardLast(heard, kinds)
    BY <1>2
  <2>3. CASE word.is \in kinds
    BY <1>1, <2>2, <2>3
  <2>4. CASE word.is \notin kinds
    BY <1>1, <2>1, <2>2, <2>4
  <2> QED BY <2>3, <2>4
<1>7. e.snippet <=> e.limit # 0
  <2>1. d.snippet <=> d.limit # 0
    BY DEF Says
  <2> QED BY <1>1, <2>1
<1> QED BY <1>3, <1>4, <1>5, <1>6, <1>7 DEF Says, e, x

\* Words said one after the other (Directives::apply).
LEMMA WordsWalk ==
  ASSUME NEW d \in AllDirectives, NEW words \in Seq(AllWords)
  PROVE  \E v \in [0..Len(words) -> AllDirectives] :
           /\ v[0] = d /\ \A k \in 1..Len(words) : v[k] = (ApplyWord(v[k - 1], words[k]))
           /\ FoldLeft(ApplyWord, d, words) = v[Len(words)]
<1> DEFINE n == Len(words)
           base == d
           States == AllDirectives
           Value(x, i) == (ApplyWord(x, words[i]))
           step == [i \in 1..n |-> [x \in States |-> Value(x, i)]]
           Is(g) == g = [s \in SUBSET (DOMAIN words) |-> IF s = {} THEN base ELSE Value(g[s \ {Max(s)}], Max(s))]
           u == CHOOSE g : Is(g)
           f == [s \in SUBSET (1..n) |-> Value(u[s \ {Max(s)}], Max(s))]
<1>1. n \in Nat /\ base \in States /\ DOMAIN words = 1..n
  OBVIOUS
<1>2. FoldLeft(ApplyWord, d, words) = u[1..n]
  BY <1>1 DEF FoldLeft, MapThenFoldSet
<1>3. \A i \in 1..n, x \in States : Value(x, i) \in States
  <2> SUFFICES ASSUME NEW i \in 1..n, NEW x \in States PROVE ApplyWord(x, words[i]) \in AllDirectives
    OBVIOUS
  <2>1. words[i] \in AllWords
    OBVIOUS
  <2> QED BY <2>1, WordApplied
<1>4. step \in [1..n -> [States -> States]] /\ \A i \in 1..n, x \in States : step[i][x] = Value(x, i)
  BY <1>3
<1>5. base = d /\ \A x, i : Value(x, i) = (ApplyWord(x, words[i]))
  OBVIOUS
<1> HIDE DEF n, States, base, step, Value
<1>6. \A s \in SUBSET (1..n) : s # {} => Max(s) \in 1..n
  BY <1>1, TakesLast
<1>7. Is(u)
  <2>1. n \in Nat /\ base \in States
    BY <1>1
  <2>2. step \in [1..n -> [States -> States]]
    BY <1>4
  <2>3. PICK g \in [SUBSET (1..n) -> States] : IsLeftFold(g, n, base, step)
    BY <2>1, <2>2, LeftFoldExists
  <2>4. \A s \in SUBSET (1..n) : s # {} => g[s \ {Max(s)}] \in States
    OBVIOUS
  <2>5. Is(g)
    BY <1>1, <1>4, <1>6, <2>3, <2>4 DEF IsLeftFold
  <2> QED BY <2>5
<1>8. ComesTo(u, f, n, base)
  BY <1>1, <1>7 DEF ComesTo
<1>9. StepsOn(u, f, n, States, step)
  <2>1. \A s \in SUBSET (1..n) : f[s] = Value(u[s \ {Max(s)}], Max(s))
    OBVIOUS
  <2> HIDE DEF u, f
  <2>2. ASSUME NEW s \in SUBSET (1..n), s # {}, u[s \ {Max(s)}] \in States
        PROVE  f[s] = step[Max(s)][u[s \ {Max(s)}]]
    BY <1>4, <1>6, <2>1, <2>2
  <2> QED BY <2>2, Zenon DEF StepsOn
<1> HIDE DEF u, f, Is
<1>10. PICK v \in [0..n -> States] : IsWalk(v, n, base, step) /\ v[n] = u[1..n]
  <2>1. n \in Nat /\ base \in States
    BY <1>1
  <2>2. step \in [1..n -> [States -> States]]
    BY <1>4
  <2>3. ComesTo(u, f, n, base) /\ StepsOn(u, f, n, States, step)
    BY <1>8, <1>9
  <2> QED BY <2>1, <2>2, <2>3, LeftFoldWalks, SMTT(30)
<1>11. v[0] = base /\ \A k \in 1..n : v[k] = Value(v[k - 1], k)
  <2>1. \A k \in 1..n : k - 1 \in 0..n
    BY <1>1
  <2> QED BY <1>4, <1>10, <2>1 DEF IsWalk
<1>12. v[0] = d /\ \A k \in 1..n : v[k] = (ApplyWord(v[k - 1], words[k]))
  BY <1>5, <1>11
<1> QED BY <1>2, <1>10, <1>12 DEF n, States

\* Words that are said one after the other are heard one after the other.
LEMMA WordsSaid ==
  ASSUME NEW d \in AllDirectives, NEW heard \in Seq(AllWords), NEW words \in Seq(AllWords)
  PROVE  /\ FoldLeft(ApplyWord, d, words) \in AllDirectives
         /\ Says(d, heard) => Says(FoldLeft(ApplyWord, d, words), heard \o words)
<1> DEFINE n == Len(words)
           upto(k) == heard \o SubSeq(words, 1, k)
<1>1. PICK v \in [0..n -> AllDirectives] :
        /\ v[0] = d /\ \A k \in 1..n : v[k] = ApplyWord(v[k - 1], words[k])
        /\ FoldLeft(ApplyWord, d, words) = v[n]
  BY WordsWalk
<1>2. n \in Nat /\ n \in 0..n /\ \A k \in 1..n : words[k] \in AllWords
  OBVIOUS
<1>3. v[n] \in AllDirectives
  BY <1>2
<1>4. ASSUME Says(d, heard) PROVE Says(v[n], heard \o words)
  <2> DEFINE G == {k \in Nat : k <= n => Says(v[k], upto(k))}
  <2>1. 0 \in G
    <3>1. SubSeq(words, 1, 0) = <<>>
      OBVIOUS
    <3>2. heard \o <<>> = heard
      OBVIOUS
    <3> QED BY <1>1, <1>4, <3>1, <3>2
  <2>2. ASSUME NEW k \in Nat, k \in G PROVE k + 1 \in G
    <3> SUFFICES ASSUME k + 1 <= n PROVE Says(v[k + 1], upto(k + 1))
      OBVIOUS
    <3>1. k \in 0..n /\ k + 1 \in 1..n /\ (k + 1) - 1 = k /\ k <= n
      BY <1>2
    <3>2. v[k + 1] = ApplyWord(v[k], words[k + 1]) /\ Says(v[k], upto(k)) /\ words[k + 1] \in AllWords /\ v[k] \in AllDirectives
      BY <1>1, <1>2, <2>2, <3>1
    <3>3. upto(k) \in Seq(AllWords) /\ upto(k + 1) = Append(upto(k), words[k + 1])
      BY <3>1, PrefixGrows
    <3> HIDE DEF upto
    <3> QED BY <3>2, <3>3, OneWordSaid
  <2>3. n \in G
    <3> HIDE DEF G
    <3> QED BY <1>2, <2>1, <2>2, ByNumber
  <2>4. SubSeq(words, 1, n) = words
    <3>1. SubSeq(words, 1, n) \in Seq(AllWords) /\ Len(SubSeq(words, 1, n)) = n /\ \A i \in 1..n : SubSeq(words, 1, n)[i] = words[i]
      OBVIOUS
    <3> QED BY <3>1
  <2>5. Says(v[n], upto(n))
    BY <1>2, <2>3
  <2> HIDE DEF n
  <2> QED BY <2>4, <2>5
<1> QED BY <1>1, <1>3, <1>4

\* What the word of a meta element or header adds to what is said, and to what
\* is heard.
Met(d, meta) == IF meta.name \in {"robots", "uruk-crawl"} THEN FoldLeft(ApplyWord, d, meta.words) ELSE d
HeardMore(heard, i) ==
  IF parts[i].name \in {"robots", "uruk-crawl"} \/ (i = 1 /\ Headed) THEN heard \o parts[i].words ELSE heard
HeardIn(places) ==
  FoldLeft(LAMBDA heard, i :
             IF parts[i].name \in {"robots", "uruk-crawl"} \/ (i = 1 /\ Headed) THEN heard \o parts[i].words ELSE heard,
           <<>>, places)

\* The directives of the first meta elements (parse).
LEMMA MetasWalk ==
  ASSUME NEW M, NEW metas \in Seq(M), \A meta \in M : meta.words \in Seq(AllWords), NEW header \in Seq(AllWords)
  PROVE  \E v \in [0..Len(metas) -> AllDirectives] :
           /\ v[0] = FoldLeft(ApplyWord, NoDirectives, header) /\ \A k \in 1..Len(metas) : v[k] = (Met(v[k - 1], metas[k]))
           /\ DirectivesOf(header, metas) = v[Len(metas)]
<1> DEFINE n == Len(metas)
           base == FoldLeft(ApplyWord, NoDirectives, header)
           States == AllDirectives
           Value(x, i) == (Met(x, metas[i]))
           step == [i \in 1..n |-> [x \in States |-> Value(x, i)]]
           Is(g) == g = [s \in SUBSET (DOMAIN metas) |-> IF s = {} THEN base ELSE Value(g[s \ {Max(s)}], Max(s))]
           u == CHOOSE g : Is(g)
           f == [s \in SUBSET (1..n) |-> Value(u[s \ {Max(s)}], Max(s))]
<1>1. n \in Nat /\ base \in States /\ DOMAIN metas = 1..n
  <2>1. NoDirectives \in AllDirectives /\ <<>> \in Seq(AllWords)
    BY DEF NoDirectives, AllDirectives, Unlimited
  <2>2. base \in AllDirectives
    BY <2>1, WordsSaid
  <2> HIDE DEF base
  <2> QED BY <2>2
<1>2. DirectivesOf(header, metas) = u[1..n]
  BY <1>1 DEF DirectivesOf, Met, FoldLeft, MapThenFoldSet
<1>3. \A i \in 1..n, x \in States : Value(x, i) \in States
  <2> SUFFICES ASSUME NEW i \in 1..n, NEW x \in States PROVE Met(x, metas[i]) \in AllDirectives
    OBVIOUS
  <2>1. metas[i].words \in Seq(AllWords) /\ <<>> \in Seq(AllWords)
    OBVIOUS
  <2>2. FoldLeft(ApplyWord, x, metas[i].words) \in AllDirectives
    BY <2>1, WordsSaid
  <2> QED BY <2>2 DEF Met
<1>4. step \in [1..n -> [States -> States]] /\ \A i \in 1..n, x \in States : step[i][x] = Value(x, i)
  BY <1>3
<1>5. base = FoldLeft(ApplyWord, NoDirectives, header) /\ \A x, i : Value(x, i) = (Met(x, metas[i]))
  OBVIOUS
<1> HIDE DEF n, States, base, step, Value
<1>6. \A s \in SUBSET (1..n) : s # {} => Max(s) \in 1..n
  BY <1>1, TakesLast
<1>7. Is(u)
  <2>1. n \in Nat /\ base \in States
    BY <1>1
  <2>2. step \in [1..n -> [States -> States]]
    BY <1>4
  <2>3. PICK g \in [SUBSET (1..n) -> States] : IsLeftFold(g, n, base, step)
    BY <2>1, <2>2, LeftFoldExists
  <2>4. \A s \in SUBSET (1..n) : s # {} => g[s \ {Max(s)}] \in States
    OBVIOUS
  <2>5. Is(g)
    BY <1>1, <1>4, <1>6, <2>3, <2>4 DEF IsLeftFold
  <2> QED BY <2>5
<1>8. ComesTo(u, f, n, base)
  BY <1>1, <1>7 DEF ComesTo
<1>9. StepsOn(u, f, n, States, step)
  <2>1. \A s \in SUBSET (1..n) : f[s] = Value(u[s \ {Max(s)}], Max(s))
    OBVIOUS
  <2> HIDE DEF u, f
  <2>2. ASSUME NEW s \in SUBSET (1..n), s # {}, u[s \ {Max(s)}] \in States
        PROVE  f[s] = step[Max(s)][u[s \ {Max(s)}]]
    BY <1>4, <1>6, <2>1, <2>2
  <2> QED BY <2>2, Zenon DEF StepsOn
<1> HIDE DEF u, f, Is
<1>10. PICK v \in [0..n -> States] : IsWalk(v, n, base, step) /\ v[n] = u[1..n]
  <2>1. n \in Nat /\ base \in States
    BY <1>1
  <2>2. step \in [1..n -> [States -> States]]
    BY <1>4
  <2>3. ComesTo(u, f, n, base) /\ StepsOn(u, f, n, States, step)
    BY <1>8, <1>9
  <2> QED BY <2>1, <2>2, <2>3, LeftFoldWalks, SMTT(30)
<1>11. v[0] = base /\ \A k \in 1..n : v[k] = Value(v[k - 1], k)
  <2>1. \A k \in 1..n : k - 1 \in 0..n
    BY <1>1
  <2> QED BY <1>4, <1>10, <2>1 DEF IsWalk
<1>12. v[0] = FoldLeft(ApplyWord, NoDirectives, header) /\ \A k \in 1..n : v[k] = (Met(v[k - 1], metas[k]))
  BY <1>5, <1>11
<1> QED BY <1>2, <1>10, <1>12 DEF n, States

\* What is heard of the first parts.
LEMMA HeardWalk ==
  ASSUME NEW n0 \in Nat, DOMAIN parts = 1..n0, \A i \in 1..n0 : parts[i].words \in Seq(AllWords), NEW places \in Seq(1..n0)
  PROVE  \E v \in [0..Len(places) -> Seq(AllWords)] :
           /\ v[0] = <<>> /\ \A k \in 1..Len(places) : v[k] = (HeardMore(v[k - 1], places[k]))
           /\ HeardIn(places) = v[Len(places)]
<1> DEFINE n == Len(places)
           base == <<>>
           States == Seq(AllWords)
           Value(x, i) == (HeardMore(x, places[i]))
           step == [i \in 1..n |-> [x \in States |-> Value(x, i)]]
           Is(g) == g = [s \in SUBSET (DOMAIN places) |-> IF s = {} THEN base ELSE Value(g[s \ {Max(s)}], Max(s))]
           u == CHOOSE g : Is(g)
           f == [s \in SUBSET (1..n) |-> Value(u[s \ {Max(s)}], Max(s))]
<1>1. n \in Nat /\ base \in States /\ DOMAIN places = 1..n
  OBVIOUS
<1>2. HeardIn(places) = u[1..n]
  BY <1>1 DEF HeardIn, HeardMore, FoldLeft, MapThenFoldSet
<1>3. \A i \in 1..n, x \in States : Value(x, i) \in States
  <2> SUFFICES ASSUME NEW i \in 1..n, NEW x \in States PROVE HeardMore(x, places[i]) \in Seq(AllWords)
    OBVIOUS
  <2>1. parts[places[i]].words \in Seq(AllWords)
    OBVIOUS
  <2> QED BY <2>1 DEF HeardMore
<1>4. step \in [1..n -> [States -> States]] /\ \A i \in 1..n, x \in States : step[i][x] = Value(x, i)
  BY <1>3
<1>5. base = <<>> /\ \A x, i : Value(x, i) = (HeardMore(x, places[i]))
  OBVIOUS
<1> HIDE DEF n, States, base, step, Value
<1>6. \A s \in SUBSET (1..n) : s # {} => Max(s) \in 1..n
  BY <1>1, TakesLast
<1>7. Is(u)
  <2>1. n \in Nat /\ base \in States
    BY <1>1
  <2>2. step \in [1..n -> [States -> States]]
    BY <1>4
  <2>3. PICK g \in [SUBSET (1..n) -> States] : IsLeftFold(g, n, base, step)
    BY <2>1, <2>2, LeftFoldExists
  <2>4. \A s \in SUBSET (1..n) : s # {} => g[s \ {Max(s)}] \in States
    OBVIOUS
  <2>5. Is(g)
    BY <1>1, <1>4, <1>6, <2>3, <2>4 DEF IsLeftFold
  <2> QED BY <2>5
<1>8. ComesTo(u, f, n, base)
  BY <1>1, <1>7 DEF ComesTo
<1>9. StepsOn(u, f, n, States, step)
  <2>1. \A s \in SUBSET (1..n) : f[s] = Value(u[s \ {Max(s)}], Max(s))
    OBVIOUS
  <2> HIDE DEF u, f
  <2>2. ASSUME NEW s \in SUBSET (1..n), s # {}, u[s \ {Max(s)}] \in States
        PROVE  f[s] = step[Max(s)][u[s \ {Max(s)}]]
    BY <1>4, <1>6, <2>1, <2>2
  <2> QED BY <2>2, Zenon DEF StepsOn
<1> HIDE DEF u, f, Is
<1>10. PICK v \in [0..n -> States] : IsWalk(v, n, base, step) /\ v[n] = u[1..n]
  <2>1. n \in Nat /\ base \in States
    BY <1>1
  <2>2. step \in [1..n -> [States -> States]]
    BY <1>4
  <2>3. ComesTo(u, f, n, base) /\ StepsOn(u, f, n, States, step)
    BY <1>8, <1>9
  <2> QED BY <2>1, <2>2, <2>3, LeftFoldWalks, SMTT(30)
<1>11. v[0] = base /\ \A k \in 1..n : v[k] = Value(v[k - 1], k)
  <2>1. \A k \in 1..n : k - 1 \in 0..n
    BY <1>1
  <2> QED BY <1>4, <1>10, <2>1 DEF IsWalk
<1>12. v[0] = <<>> /\ \A k \in 1..n : v[k] = (HeardMore(v[k - 1], places[k]))
  BY <1>5, <1>11
<1> QED BY <1>2, <1>10, <1>12 DEF n, States

\* Nothing was said before anything is heard.
LEMMA NothingSaid ==
  NoDirectives \in AllDirectives /\ Says(NoDirectives, <<>>) /\ <<>> \in Seq(AllWords)
<1>1. \A kinds : HeardLast(<<>>, kinds) = {}
  BY DEF HeardLast
<1> QED BY <1>1 DEF Says, NoDirectives, AllDirectives, Unlimited

\* What a page says of itself is what its words say, one heard after the other.
LEMMA SaidIsHeard ==
  ASSUME NEW M, parts \in Seq(M), \A part \in M : part.words \in Seq(AllWords)
  PROVE  Said \in AllDirectives /\ Says(Said, Heard)
<1> DEFINE n == Len(parts)
           shift == IF Headed THEN 1 ELSE 0
           header == IF Headed THEN parts[1].words ELSE <<>>
           metas == IF Headed THEN Tail(parts) ELSE parts
           places == [i \in DOMAIN parts |-> i]
           told(meta) == meta.name \in {"robots", "uruk-crawl"}
<1>1. n \in Nat /\ DOMAIN parts = 1..n /\ \A i \in 1..n : parts[i] \in M /\ parts[i].words \in Seq(AllWords)
  OBVIOUS
<1>2. shift \in {0, 1} /\ shift \in 0..n /\ (Headed => shift = 1) /\ (shift = 1 => Headed)
  BY <1>1 DEF Headed
<1>3. metas \in Seq(M) /\ Len(metas) = n - shift /\ \A k \in 1..(n - shift) : metas[k] = parts[k + shift]
  <2>1. CASE Headed
    <3>1. parts # <<>>
      BY <2>1 DEF Headed
    <3> QED BY <1>1, <2>1, <3>1
  <2>2. CASE ~Headed
    BY <1>1, <2>2
  <2> QED BY <2>1, <2>2
<1>4. header \in Seq(AllWords)
  <2>1. CASE Headed
    BY <1>1, <2>1 DEF Headed
  <2>2. CASE ~Headed
    BY <2>2
  <2> QED BY <2>1, <2>2
<1>5. Said = DirectivesOf(header, metas)
  BY DEF Said
<1>6. places \in Seq(1..n) /\ Len(places) = n /\ \A k \in 1..n : places[k] = k
  BY <1>1
<1>7. Heard = HeardIn(places)
  BY DEF Heard, HeardIn
<1> HIDE DEF n, shift, header, metas, places
<1>8. PICK v \in [0..Len(metas) -> AllDirectives] :
        /\ v[0] = FoldLeft(ApplyWord, NoDirectives, header) /\ \A k \in 1..Len(metas) : v[k] = Met(v[k - 1], metas[k])
        /\ DirectivesOf(header, metas) = v[Len(metas)]
  BY <1>3, <1>4, MetasWalk
<1>9. PICK w \in [0..Len(places) -> Seq(AllWords)] :
        /\ w[0] = <<>> /\ \A k \in 1..Len(places) : w[k] = HeardMore(w[k - 1], places[k])
        /\ HeardIn(places) = w[Len(places)]
  BY <1>1, <1>6, HeardWalk
<1>10. v \in [0..(n - shift) -> AllDirectives] /\ \A k \in 1..(n - shift) : v[k] = Met(v[k - 1], parts[k + shift])
  BY <1>3, <1>8
<1>11. w \in [0..n -> Seq(AllWords)] /\ \A k \in 1..n : w[k] = HeardMore(w[k - 1], k)
  BY <1>6, <1>9
<1>12. v[0] \in AllDirectives /\ Says(v[0], w[shift])
  <2>1. v[0] \in AllDirectives /\ Says(v[0], <<>> \o header)
    BY <1>4, <1>8, NothingSaid, WordsSaid
  <2>2. CASE Headed
    <3>1. shift = 1 /\ header = parts[1].words /\ 1 \in 1..n /\ 1 - 1 = 0
      BY <1>1, <1>2, <2>2 DEF header
    <3>2. w[1] = <<>> \o parts[1].words
      BY <1>9, <1>11, <2>2, <3>1 DEF HeardMore
    <3> QED BY <2>1, <3>1, <3>2
  <2>3. CASE ~Headed
    <3>1. shift = 0 /\ header = <<>>
      BY <1>2, <2>3 DEF header
    <3>2. <<>> \o header = <<>>
      BY <3>1
    <3> QED BY <1>9, <2>1, <3>1, <3>2
  <2> QED BY <2>2, <2>3
<1> DEFINE G == {k \in Nat : k <= n - shift => Says(v[k], w[k + shift])}
<1>13. 0 \in G
  BY <1>2, <1>12
<1>14. ASSUME NEW k \in Nat, k \in G PROVE k + 1 \in G
  <2> SUFFICES ASSUME k + 1 <= n - shift PROVE Says(v[k + 1], w[k + 1 + shift])
    OBVIOUS
  <2>1. /\ k \in 0..(n - shift) /\ k + 1 \in 1..(n - shift) /\ (k + 1) - 1 = k /\ k <= n - shift
        /\ k + shift \in 0..n /\ k + 1 + shift \in 1..n /\ (k + 1 + shift) - 1 = k + shift
    BY <1>1, <1>2
  <2> DEFINE d == v[k]
             heard == w[k + shift]
             part == parts[k + 1 + shift]
  <2>2. d \in AllDirectives /\ heard \in Seq(AllWords) /\ Says(d, heard) /\ part.words \in Seq(AllWords)
    BY <1>1, <1>10, <1>11, <1>14, <2>1
  <2>3. v[k + 1] = Met(d, part)
    BY <1>10, <2>1
  <2>4. w[k + 1 + shift] = HeardMore(heard, k + 1 + shift)
    BY <1>11, <2>1
  <2>5. ~(k + 1 + shift = 1 /\ Headed)
    BY <1>2
  <2>6. w[k + 1 + shift] = IF told(part) THEN heard \o part.words ELSE heard
    BY <2>4, <2>5 DEF HeardMore
  <2> HIDE DEF d, heard, part
  <2>7. CASE told(part)
    <3>1. v[k + 1] = FoldLeft(ApplyWord, d, part.words)
      BY <2>3, <2>7 DEF Met
    <3> QED BY <2>2, <2>6, <2>7, <3>1, WordsSaid
  <2>8. CASE ~told(part)
    <3>1. v[k + 1] = d
      BY <2>3, <2>8 DEF Met
    <3> QED BY <2>2, <2>6, <2>8, <3>1
  <2> QED BY <2>7, <2>8
<1>15. n - shift \in G
  <2>1. n - shift \in Nat
    BY <1>1, <1>2
  <2> HIDE DEF G
  <2> QED BY <1>13, <1>14, <2>1, ByNumber
<1>16. (n - shift) + shift = n /\ n - shift <= n - shift /\ n - shift \in 0..(n - shift)
  BY <1>1, <1>2
<1>17. Said = v[n - shift] /\ Heard = w[n]
  BY <1>3, <1>5, <1>6, <1>7, <1>8, <1>9
<1> QED BY <1>10, <1>15, <1>16, <1>17

\* Of what header and meta elements say the last word on a matter holds.
LEMMA LastWordHolds ==
  ASSUME NEW M, parts \in Seq(M), \A part \in M : part.words \in Seq(AllWords)
  PROVE  DirectivesAreLast(Said)
<1> DEFINE indexed == \A word \in HeardLast(Heard, {"noindex", "none", "all"}) : word.is = "all"
           followed == \A word \in HeardLast(Heard, {"nofollow", "none", "all"}) : word.is = "all"
           archived == HeardLast(Heard, {"noarchive"}) = {}
<1>1. Said \in AllDirectives /\ Says(Said, Heard)
  BY SaidIsHeard
<1>2. \A kinds : LastOf(kinds) = HeardLast(Heard, kinds)
  BY DEF LastOf, HeardLast
<1>3. Said.index \in BOOLEAN /\ Said.follow \in BOOLEAN /\ Said.archive \in BOOLEAN
  BY <1>1 DEF AllDirectives
<1>4. (Said.index <=> indexed) /\ (Said.follow <=> followed) /\ (Said.archive <=> archived)
  BY <1>1 DEF Says
<1>5. indexed \in BOOLEAN /\ followed \in BOOLEAN /\ archived \in BOOLEAN
  OBVIOUS
<1> HIDE DEF indexed, followed, archived
<1>6. Said.index = indexed /\ Said.follow = followed /\ Said.archive = archived
  BY <1>3, <1>4, <1>5
<1>7. /\ Said.index  = (\A word \in LastOf({"noindex", "none", "all"}) : word.is = "all")
      /\ Said.follow = (\A word \in LastOf({"nofollow", "none", "all"}) : word.is = "all")
      /\ Said.archive = (LastOf({"noarchive"}) = {})
  BY <1>2, <1>6 DEF indexed, followed, archived
<1>8. /\ \A word \in LastOf({"nosnippet", "max-snippet"}) :
           Said.limit = (IF word.is = "nosnippet" THEN 0 ELSE IF word.n < 0 THEN Unlimited ELSE word.n)
      /\ Said.snippet <=> Said.limit # 0
  BY <1>1, <1>2 DEF Says
<1> QED BY <1>7, <1>8 DEF DirectivesAreLast

-----------------------------------------------------------------------------
(* A page: its article *)

Body == [parent |-> 0, kind |-> "other", marked |-> FALSE, words |-> 0]

DocumentNodes ==
  {Body} \cup {[parent |-> p, kind |-> node.kind, marked |-> node.marked, words |-> node.words] :
                 p \in Nat, node \in Parts["document"]}

\* A document begins with its body, and every node is below an earlier one.
IsDocument(dom) ==
  /\ dom \in Seq(DocumentNodes)
  /\ \A i \in 1..Len(dom) : dom[i].parent \in 0..(i - 1) /\ dom[i].words \in Nat
  /\ dom # <<>> => dom[1].kind = "other" /\ dom[1].marked = FALSE

\* Above a node is what it is below and what is above that; all of it is earlier.
LEMMA AboveIs ==
  ASSUME NEW dom, IsDocument(dom)
  PROVE  \A i \in 1..Len(dom) :
           /\ Above(dom, i) = IF dom[i].parent = 0 THEN {} ELSE {dom[i].parent} \cup Above(dom, dom[i].parent)
           /\ \A m \in Above(dom, i) : m \in 1..(i - 1)
<1> DEFINE n == Len(dom)
           up == [i \in 1..n |-> dom[i].parent]
           Is(g) == g = [i \in DOMAIN dom |-> IF dom[i].parent = 0 THEN {} ELSE {dom[i].parent} \cup g[dom[i].parent]]
           above == CHOOSE g : Is(g)
<1>1. n \in Nat /\ DOMAIN dom = 1..n
  BY DEF IsDocument
<1>2. \A i \in 1..n : up[i] \in 0..(i - 1) /\ up[i] = dom[i].parent /\ (up[i] # 0 => up[i] \in 1..n /\ up[i] < i)
  BY <1>1 DEF IsDocument
<1>3. \A i : Above(dom, i) = above[i]
  BY DEF Above
<1>4. Is(above)
  <2> HIDE DEF n, up
  <2>1. PICK g \in [1..n -> SUBSET Nat] : Rises(g, up, n)
    BY <1>1, <1>2, AboveExists
  <2>2. \A i \in 1..n : g[i] = IF dom[i].parent = 0 THEN {} ELSE {dom[i].parent} \cup g[dom[i].parent]
    BY <1>2, <2>1 DEF Rises
  <2>3. Is(g)
    BY <1>1, <2>2
  <2> QED BY <2>3
<1>5. \A i \in 1..n : above[i] = IF up[i] = 0 THEN {} ELSE {up[i]} \cup above[up[i]]
  <2> HIDE DEF above, n, up
  <2> QED BY <1>1, <1>2, <1>4
<1> HIDE DEF above, Is, up, n
<1> DEFINE G == {k \in Nat : \A i \in 1..n : i <= k => \A m \in above[i] : m \in 1..(i - 1)}
<1>6. 0 \in G
  BY <1>1
<1>7. ASSUME NEW k \in Nat, k \in G PROVE k + 1 \in G
  <2> SUFFICES ASSUME NEW i \in 1..n, i <= k + 1, NEW m \in above[i] PROVE m \in 1..(i - 1)
    OBVIOUS
  <2>1. up[i] # 0 /\ (m = up[i] \/ m \in above[up[i]])
    BY <1>5
  <2>2. up[i] \in 1..n /\ up[i] < i /\ up[i] <= k
    BY <1>1, <1>2, <2>1
  <2>3. m = up[i] \/ m \in 1..(up[i] - 1)
    BY <1>7, <2>1, <2>2
  <2> QED BY <1>1, <2>2, <2>3
<1>8. n \in G
  <2> HIDE DEF G
  <2> QED BY <1>1, <1>6, <1>7, ByNumber
<1>9. \A i \in 1..n : \A m \in above[i] : m \in 1..(i - 1)
  BY <1>1, <1>8
<1>10. \A i \in 1..n : Above(dom, i) = IF dom[i].parent = 0 THEN {} ELSE {dom[i].parent} \cup Above(dom, dom[i].parent)
  <2> SUFFICES ASSUME NEW i \in 1..n
               PROVE  Above(dom, i) = IF dom[i].parent = 0 THEN {} ELSE {dom[i].parent} \cup Above(dom, dom[i].parent)
    OBVIOUS
  <2>1. up[i] = dom[i].parent /\ above[i] = IF up[i] = 0 THEN {} ELSE {up[i]} \cup above[up[i]]
    BY <1>2, <1>5
  <2> QED BY <1>3, <2>1
<1>11. \A i \in 1..n : \A m \in Above(dom, i) : m \in 1..(i - 1)
  BY <1>3, <1>9
<1> QED BY <1>10, <1>11 DEF n

\* Of two nodes above one, one is above the other.
LEMMA AboveInLine ==
  ASSUME NEW dom, IsDocument(dom)
  PROVE  \A i \in 1..Len(dom) : \A m, r \in Above(dom, i) : m = r \/ m \in Above(dom, r) \/ r \in Above(dom, m)
<1> DEFINE n == Len(dom)
           Line(i) == \A m, r \in Above(dom, i) : m = r \/ m \in Above(dom, r) \/ r \in Above(dom, m)
           G == {k \in Nat : \A i \in 1..n : i <= k => Line(i)}
<1>1. n \in Nat
  BY DEF IsDocument
<1>2. \A i \in 1..n : /\ Above(dom, i) = IF dom[i].parent = 0 THEN {} ELSE {dom[i].parent} \cup Above(dom, dom[i].parent)
                      /\ dom[i].parent \in 0..(i - 1)
  BY AboveIs DEF IsDocument
<1> HIDE DEF n
<1>3. 0 \in G
  BY <1>1
<1>4. ASSUME NEW k \in Nat, k \in G PROVE k + 1 \in G
  <2> SUFFICES ASSUME NEW i \in 1..n, i <= k + 1, NEW m \in Above(dom, i), NEW r \in Above(dom, i)
               PROVE  m = r \/ m \in Above(dom, r) \/ r \in Above(dom, m)
    OBVIOUS
  <2> DEFINE p == dom[i].parent
  <2>1. p # 0 /\ (m = p \/ m \in Above(dom, p)) /\ (r = p \/ r \in Above(dom, p))
    BY <1>2
  <2>2. p \in 1..n /\ p <= k
    BY <1>1, <1>2, <2>1
  <2>3. Line(p)
    BY <1>4, <2>2
  <2> HIDE DEF p
  <2> QED BY <2>1, <2>3
<1>5. n \in G
  <2> HIDE DEF G
  <2> QED BY <1>1, <1>3, <1>4, ByNumber
<1>6. \A i \in 1..n : Line(i)
  BY <1>1, <1>5
<1> QED BY <1>6 DEF n

\* Texts have a number of words.
LEMMA WordsAreCounted ==
  ASSUME NEW dom, IsDocument(dom), NEW texts \in SUBSET (DOMAIN dom)
  PROVE  WordsOf(dom, texts) \in Nat
<1> DEFINE e == [i \in DOMAIN dom |-> dom[i].words]
           P(v) == v = [s \in SUBSET texts |-> IF s = {} THEN 0 ELSE dom[First(s)].words + v[s \ {First(s)}]]
           Q(v) == v = [s \in SUBSET texts |-> IF s = {} THEN 0 ELSE e[First(s)] + v[s \ {First(s)}]]
<1>1. WordsOf(dom, texts) = (CHOOSE v : P(v))[texts]
  BY DEF WordsOf, FoldSet, MapThenFoldSet, First
<1>2. SumOf(e, texts) = (CHOOSE v : Q(v))[texts]
  BY DEF SumOf, SumsOver
<1>3. \A i \in texts : dom[i].words = e[i] /\ e[i] \in Nat
  BY DEF IsDocument
<1>4. ASSUME NEW s \in SUBSET texts, s # {} PROVE First(s) \in texts
  BY <1>4 DEF First
<1>5. IsFiniteSet(texts)
  <2>1. Len(dom) \in Nat /\ DOMAIN dom = 1..Len(dom)
    BY DEF IsDocument
  <2>2. IsFiniteSet(1..Len(dom))
    BY <2>1, FS_Interval
  <2> QED BY <2>1, <2>2, FS_Subset
<1> HIDE DEF e
<1>6. ASSUME NEW v PROVE P(v) <=> Q(v)
  BY <1>3, <1>4
<1> HIDE DEF P, Q
<1>7. (CHOOSE v : P(v)) = (CHOOSE v : Q(v))
  BY <1>6
<1>8. SumOf(e, texts) \in Nat
  BY <1>3, <1>5, SumPositive
<1> QED BY <1>1, <1>2, <1>7, <1>8

\* Linked words are no more than words.
LEMMA LinkedIsPart ==
  ASSUME NEW dom, IsDocument(dom), NEW root
  PROVE  /\ WordsOf(dom, TextUnder(dom, root)) \in Nat /\ Linked(dom, root) \in Nat
         /\ Linked(dom, root) <= WordsOf(dom, TextUnder(dom, root))
<1>1. TextUnder(dom, root) \in SUBSET (DOMAIN dom)
  BY DEF TextUnder, Under
<1>2. LinkWords(dom, root) \in Nat
  <2> DEFINE texts == {n \in Under(dom, root) : dom[n].kind = "text" /\ \E m \in Between(dom, root, n) : dom[m].kind = "link"}
  <2>1. texts \in SUBSET (DOMAIN dom)
    BY DEF Under
  <2> HIDE DEF texts
  <2>2. WordsOf(dom, texts) \in Nat
    BY <2>1, WordsAreCounted
  <2> QED BY <2>2 DEF LinkWords, texts
<1>3. WordsOf(dom, TextUnder(dom, root)) \in Nat
  BY <1>1, WordsAreCounted
<1> QED BY <1>2, <1>3 DEF Linked, AtMost

\* The article is the body or a candidate.
LEMMA ArticleIs ==
  ASSUME NEW dom, IsDocument(dom), TagCost \in Nat
  PROVE  Article(dom) = 1 \/ Article(dom) \in Candidates(dom)
<1> DEFINE n == Len(dom)
           boxes == Candidates(dom)
           score == [i \in 1..n |-> Score(dom, i)]
           Ahead(i) == \A m \in boxes : Score(dom, i) > Score(dom, m) \/ (Score(dom, i) = Score(dom, m) /\ i <= m)
<1>1. n \in Nat /\ DOMAIN dom = 1..n
  BY DEF IsDocument
<1>2. boxes \in SUBSET (1..n)
  BY <1>1 DEF Candidates
<1>3. ASSUME NEW i \in 1..n PROVE Score(dom, i) \in Int
  <2> DEFINE inner == {m \in Under(dom, i) : dom[m].kind = "box"}
  <2>1. Cardinality(inner) \in Nat
    <3>1. inner \in SUBSET (1..n)
      BY <1>1 DEF Under
    <3>2. IsFiniteSet(1..n)
      BY <1>1, FS_Interval
    <3> HIDE DEF inner
    <3>3. IsFiniteSet(inner)
      BY <3>1, <3>2, FS_Subset
    <3> QED BY <3>3, FS_CardinalityType
  <2>2. WordsOf(dom, TextUnder(dom, i)) \in Nat /\ Linked(dom, i) \in Nat
    BY LinkedIsPart
  <2>3. Score(dom, i) = WordsOf(dom, TextUnder(dom, i)) - Linked(dom, i) - TagCost * Cardinality(inner)
    BY DEF Score
  <2> DEFINE a == WordsOf(dom, TextUnder(dom, i))
             b == Linked(dom, i)
             c == Cardinality(inner)
  <2> HIDE DEF inner, a, b, c
  <2>4. TagCost * c \in Int
    BY <2>1 DEF c
  <2>5. a - b \in Int
    BY <2>2 DEF a, b
  <2>6. Score(dom, i) = (a - b) - TagCost * c
    BY <2>3 DEF a, b, c
  <2> QED BY <2>4, <2>5, <2>6
<1>4. CASE boxes = {}
  BY <1>4 DEF Article
<1>5. CASE boxes # {}
  <2>1. boxes \in SUBSET (0..n) /\ \A i \in boxes : score[i] \in Int /\ score[i] = Score(dom, i)
    BY <1>2, <1>3
  <2> HIDE DEF score, n, boxes
  <2>2. \E i \in boxes : \A j \in boxes : score[i] > score[j] \/ (score[i] = score[j] /\ i <= j)
    BY <1>1, <1>5, <2>1, FirstGreatest
  <2>3. \E i \in boxes : Ahead(i)
    BY <2>1, <2>2
  <2>4. Article(dom) = CHOOSE i \in boxes : Ahead(i)
    BY <1>5 DEF Article, boxes
  <2> HIDE DEF Ahead
  <2>5. Article(dom) \in boxes
    BY <2>3, <2>4
  <2> QED BY <2>5 DEF boxes
<1> QED BY <1>4, <1>5

\* A document's text is without the furniture around it, and its links are a
\* share of its words.
LEMMA DocumentsAreRead ==
  ASSUME IsDocument(parts), TagCost \in Nat
  PROVE  CutStaysOut /\ DensityIsShare
<1> DEFINE n == Len(parts)
           root == Article(parts)
<1>1. n \in Nat /\ DOMAIN parts = 1..n
  BY DEF IsDocument
<1>2. DensityIsShare
  <2>1. Linked(parts, root) <= WordsOf(parts, TextUnder(parts, root))
    BY LinkedIsPart
  <2> HIDE DEF root
  <2>2. <<Linked(parts, root), WordsOf(parts, TextUnder(parts, root))>>[1]
          <= <<Linked(parts, root), WordsOf(parts, TextUnder(parts, root))>>[2]
    BY <2>1
  <2> QED BY <2>2 DEF DensityIsShare, Density, root
<1>3. CutStaysOut
  <2> SUFFICES ASSUME parts # <<>>,
                      \A i \in DOMAIN parts : parts[i].kind = "box" => \A m \in Above(parts, i) : ~Aside(parts[m]),
                      NEW i \in TextUnder(parts, root), NEW m \in Above(parts, i)
               PROVE  ~Aside(parts[m])
    BY DEF CutStaysOut
  <2>1. \A node : Furniture(node) <=> Aside(node)
    BY DEF Furniture, Aside
  <2>2. i \in DOMAIN parts /\ root \in Above(parts, i) /\ \A k \in Between(parts, root, i) : ~Aside(parts[k])
    BY <2>1 DEF TextUnder, Under
  <2>3. m \in 1..n
    BY <1>1, <2>2, AboveIs
  <2>4. m = root \/ m \in Above(parts, root) \/ root \in Above(parts, m)
    BY <1>1, <2>2, AboveInLine
  <2>5. CASE root \in Above(parts, m)
    <3>1. m \in Between(parts, root, i)
      BY <1>1, <2>3, <2>5 DEF Between, Under
    <3> QED BY <2>2, <3>1
  <2>6. CASE root = 1
    <3>1. n >= 1 /\ 1 \in 1..n
      BY <1>1, <2>3
    <3>2. \A k \in Above(parts, 1) : k \in 1..(1 - 1)
      BY <3>1, AboveIs
    <3>3. Above(parts, 1) = {}
      BY <3>2
    <3>4. parts[1].kind = "other" /\ parts[1].marked = FALSE
      BY DEF IsDocument
    <3>5. ~Aside(parts[1])
      BY <3>4 DEF Aside
    <3> QED BY <2>4, <2>5, <2>6, <3>3, <3>5
  <2>7. CASE root \in Candidates(parts)
    <3>1. root \in DOMAIN parts /\ parts[root].kind = "box" /\ ~Aside(parts[root])
      BY <2>1, <2>7 DEF Candidates
    <3> QED BY <2>4, <2>5, <3>1
  <2> QED BY <2>6, <2>7, ArticleIs
<1> QED BY <1>2, <1>3

-----------------------------------------------------------------------------
(* A URL: its parameters in order, and how often each is one *)

\* Names and values, in pairs.
WordPairs == (DOMAIN Spelling) \X (DOMAIN Spelling)

\* Pairs in their order.
Lesser == {pair \in WordPairs \X WordPairs : Less(pair[1], pair[2])}

LEMMA PairsAreOrdered ==
  ASSUME NEW P \in SUBSET WordPairs
  PROVE  IsTotal(Lesser, P) /\ \A p, q \in P : <<p, q>> \in Lesser <=> Less(p, q)
<1>1. \A p, q \in P : <<p, q>> \in Lesser <=> Less(p, q)
  BY DEF Lesser
<1>2. \A p, q \in P : /\ p = q \/ Less(p, q) \/ Less(q, p)
                      /\ ~(Less(p, q) /\ Less(q, p))
                      /\ \A r \in P : Less(r, p) /\ Less(p, q) => Less(r, q)
  BY SpellingAssumption DEF WordPairs
<1> QED BY <1>1, <1>2 DEF IsTotal

\* The pairs are put in their order and each stays as often as it was (dedupe_key).
LEMMA InOrderIs ==
  ASSUME NEW P \in SUBSET WordPairs, NEW s \in Seq(P)
  PROVE  /\ InOrder(s) \in Seq(P) /\ Len(InOrder(s)) = Len(s) /\ Ordered(InOrder(s), Lesser)
         /\ \A x : TimesIn(InOrder(s), x) = TimesIn(s, x)
<1> DEFINE n == Len(s)
           D == 1..n
           before == [i \in D |-> {j \in D : Less(s[j], s[i]) \/ (s[j] = s[i] /\ j < i)}]
           at == [k \in D |-> CHOOSE i \in D : Cardinality(before[i]) = k - 1]
           t == InOrder(s)
<1>1. n \in Nat /\ DOMAIN s = D /\ \A i \in D : s[i] \in P
  OBVIOUS
<1>2. WhatIsBefore(s, Lesser, before)
  <2>1. before \in [D -> SUBSET D]
    OBVIOUS
  <2>2. \A i, j \in D : j \in before[i] <=> Less(s[j], s[i]) \/ (s[j] = s[i] /\ j < i)
    OBVIOUS
  <2> HIDE DEF before
  <2>3. \A i, j \in D : j \in before[i] <=> <<s[j], s[i]>> \in Lesser \/ (s[j] = s[i] /\ j < i)
    BY <1>1, <2>2, PairsAreOrdered
  <2> QED BY <2>1, <2>3 DEF WhatIsBefore
<1>3. Chosen(at, n, before)
  <2> HIDE DEF before
  <2>1. \A k \in D : at[k] = CHOOSE i \in D : Cardinality(before[i]) = k - 1
    OBVIOUS
  <2> HIDE DEF at, n
  <2> QED BY <2>1 DEF Chosen
<1>4. t = [k \in D |-> s[at[k]]]
  <2>1. \A i \in D : before[i] = {j \in D : Less(s[j], s[i]) \/ (s[j] = s[i] /\ j < i)}
    OBVIOUS
  <2>2. t = [k \in D |-> s[CHOOSE i \in D : Cardinality({j \in D : Less(s[j], s[i]) \/ (s[j] = s[i] /\ j < i)}) = k - 1]]
    <3> HIDE DEF D
    <3> QED BY <1>1 DEF InOrder
  <2>3. \A k \in D : at[k] = CHOOSE i \in D : Cardinality({j \in D : Less(s[j], s[i]) \/ (s[j] = s[i] /\ j < i)}) = k - 1
    <3> SUFFICES ASSUME NEW k \in D
                 PROVE  at[k] = CHOOSE i \in D : Cardinality({j \in D : Less(s[j], s[i]) \/ (s[j] = s[i] /\ j < i)}) = k - 1
      OBVIOUS
    <3>1. at[k] = CHOOSE i \in D : Cardinality(before[i]) = k - 1
      OBVIOUS
    <3>2. \A i : i \in D /\ Cardinality(before[i]) = k - 1
                   <=> i \in D /\ Cardinality({j \in D : Less(s[j], s[i]) \/ (s[j] = s[i] /\ j < i)}) = k - 1
      <4> HIDE DEF before, D
      <4> QED BY <2>1
    <3> HIDE DEF before, at, D
    <3> QED BY <3>1, <3>2, Zenon
  <2> HIDE DEF at
  <2>4. \A k \in D : t[k] = s[at[k]]
    <3> SUFFICES ASSUME NEW k \in D PROVE t[k] = s[at[k]]
      OBVIOUS
    <3>1. t[k] = s[CHOOSE i \in D : Cardinality({j \in D : Less(s[j], s[i]) \/ (s[j] = s[i] /\ j < i)}) = k - 1]
      <4> HIDE DEF D, t
      <4> QED BY <2>2, Zenon
    <3> HIDE DEF D, t
    <3> QED BY <2>3, <3>1, Zenon
  <2>5. t = [k \in D |-> t[k]]
    <3> DEFINE F == [k \in D |-> s[CHOOSE i \in D : Cardinality({j \in D : Less(s[j], s[i]) \/ (s[j] = s[i] /\ j < i)}) = k - 1]]
    <3> HIDE DEF D, t
    <3>1. t = F
      BY <2>2
    <3>2. F = [k \in D |-> F[k]]
      OBVIOUS
    <3> HIDE DEF F
    <3> QED BY <3>1, <3>2
  <2> HIDE DEF D, t
  <2> QED BY <2>4, <2>5
<1> HIDE DEF t, at, before
<1>5. t \in Seq(P) /\ Len(t) = n /\ Ordered(t, Lesser) /\ \A x : TimesIn(t, x) = TimesIn(s, x)
  <2>1. IsTotal(Lesser, P)
    BY PairsAreOrdered
  <2> QED BY <1>2, <1>3, <1>4, <2>1, PutInOrder
<1> QED BY <1>5 DEF t

-----------------------------------------------------------------------------
(* A URL: how its parameters are spelt in the key (Spelt) *)

\* What names and values are spelt with, and what is between them.
SpellSigns == STRING \cup {"&", "="}

LEMMA SpelledIn == "&" \in SpellSigns /\ "=" \in SpellSigns /\ \A x \in DOMAIN Spelling : Spelling[x] \in Seq(SpellSigns)
<1>1. STRING \subseteq SpellSigns /\ "&" \in SpellSigns /\ "=" \in SpellSigns
  BY DEF SpellSigns
<1>2. ASSUME NEW A, A \subseteq SpellSigns, NEW s \in Seq(A) PROVE s \in Seq(SpellSigns)
  BY <1>2
<1>3. \A s \in Seq(STRING) : s \in Seq(SpellSigns)
  BY <1>1, <1>2, Zenon
<1> QED BY <1>1, <1>3, SpellingAssumption

\* A pair written out, and one more of them.
Spell(pair) == Spelling[pair[1]] \o <<"=">> \o Spelling[pair[2]]
Further(text, pair) == (IF text = <<>> THEN <<>> ELSE Append(text, "&")) \o Spelling[pair[1]] \o <<"=">> \o Spelling[pair[2]]

\* A pair that is spelt without the signs between pairs, and a value without
\* the one between the two.
Clear(pair) == Without(Spelling[pair[1]], "&") /\ Without(Spelling[pair[2]], "&") /\ Without(Spelling[pair[2]], "=")
ClearPairs == {pair \in WordPairs : Clear(pair)}

\* Such a pair is spelt as no other.
LEMMA SpellApart ==
  ASSUME NEW p \in ClearPairs, NEW q \in ClearPairs
  PROVE  /\ Spell(p) \in Seq(SpellSigns) /\ Spell(p) # <<>> /\ Without(Spell(p), "&")
         /\ Spell(p) = Spell(q) => p = q
<1> DEFINE a(pair) == Spelling[pair[1]]
           b(pair) == Spelling[pair[2]]
<1>1. ASSUME NEW pair \in ClearPairs
      PROVE  a(pair) \in Seq(SpellSigns) /\ b(pair) \in Seq(SpellSigns) /\ pair[1] \in DOMAIN Spelling /\ pair[2] \in DOMAIN Spelling
  BY SpelledIn DEF ClearPairs, WordPairs
<1>2. ASSUME NEW pair \in ClearPairs
      PROVE  Spell(pair) \in Seq(SpellSigns) /\ Around(Spell(pair), a(pair), "=", b(pair))
  <2> DEFINE s == a(pair)
             t == b(pair)
             sign == "="
  <2>1. Spell(pair) = (s \o <<sign>>) \o t /\ s \in Seq(SpellSigns) /\ t \in Seq(SpellSigns) /\ sign \in SpellSigns
    BY <1>1, SpelledIn DEF Spell
  <2> HIDE DEF s, t, sign
  <2>2. (s \o <<sign>>) \o t \in Seq(SpellSigns) /\ Around((s \o <<sign>>) \o t, s, sign, t)
    BY <2>1, JoinedAround
  <2> QED BY <2>1, <2>2 DEF s, t, sign
<1>3. Spell(p) # <<>> /\ Without(Spell(p), "&")
  <2> DEFINE w == Spell(p)
             s == a(p)
             t == b(p)
  <2>1. /\ Around(w, s, "=", t) /\ s \in Seq(SpellSigns) /\ t \in Seq(SpellSigns) /\ w \in Seq(SpellSigns)
        /\ Without(s, "&") /\ Without(t, "&")
    BY <1>1, <1>2 DEF ClearPairs, Clear
  <2> HIDE DEF w, s, t
  <2>2. Len(s) \in Nat /\ Len(t) \in Nat /\ Len(w) = Len(s) + 1 + Len(t)
    BY <2>1 DEF Around
  <2>3. Without(w, "&")
    <3> SUFFICES ASSUME NEW i \in 1..Len(w) PROVE w[i] # "&"
      BY DEF Without
    <3>1. CASE i \in 1..Len(s)
      BY <2>1, <3>1 DEF Around, Without
    <3>2. CASE i = Len(s) + 1
      BY <2>1, <3>2 DEF Around
    <3>3. CASE i > Len(s) + 1
      <4> DEFINE j == i - (Len(s) + 1)
      <4>1. j \in 1..Len(t) /\ i = Len(s) + 1 + j
        BY <2>2, <3>3
      <4> HIDE DEF j
      <4> QED BY <2>1, <4>1 DEF Around, Without
    <3> QED BY <2>2, <3>1, <3>2, <3>3
  <2>4. w # <<>>
    BY <2>2
  <2> QED BY <2>3, <2>4 DEF w
<1>4. ASSUME Spell(p) = Spell(q) PROVE p = q
  <2>1. Around(Spell(p), a(p), "=", b(p)) /\ Around(Spell(p), a(q), "=", b(q))
    BY <1>2, <1>4
  <2>2. Without(b(p), "=") /\ Without(b(q), "=")
    BY DEF ClearPairs, Clear
  <2>3. a(p) \in Seq(SpellSigns) /\ b(p) \in Seq(SpellSigns) /\ a(q) \in Seq(SpellSigns) /\ b(q) \in Seq(SpellSigns)
    BY <1>1
  <2>4. a(p) = a(q) /\ b(p) = b(q)
    <3> HIDE DEF a, b
    <3> QED BY <2>1, <2>2, <2>3, SplitAtLast
  <2>5. p[1] = q[1] /\ p[2] = q[2]
    BY <1>1, <2>4, SpellingAssumption
  <2> QED BY <2>5 DEF ClearPairs, WordPairs
<1> QED BY <1>2, <1>3, <1>4

\* A pair more, after a sign unless it is the first.
LEMMA FurtherIs ==
  ASSUME NEW text \in Seq(SpellSigns), NEW pair \in WordPairs
  PROVE  /\ Further(text, pair) \in Seq(SpellSigns)
         /\ Further(text, pair) = IF text = <<>> THEN Spell(pair) ELSE (text \o <<"&">>) \o Spell(pair)
<1> DEFINE a == Spelling[pair[1]]
           b == Spelling[pair[2]]
           e == <<"=">>
           f == <<"&">>
           Chained(h) == ((h \o a) \o e) \o b
           pairing == (a \o e) \o b
<1>1. a \in Seq(SpellSigns) /\ b \in Seq(SpellSigns) /\ e \in Seq(SpellSigns) /\ f \in Seq(SpellSigns)
  <2>1. pair[1] \in DOMAIN Spelling /\ pair[2] \in DOMAIN Spelling
    BY DEF WordPairs
  <2>2. \A x \in SpellSigns : <<x>> \in Seq(SpellSigns)
    OBVIOUS
  <2> QED BY <2>1, <2>2, SpelledIn
<1>2. Append(text, "&") = text \o f /\ text \o f \in Seq(SpellSigns)
  <2> DEFINE x == Append(text, "&")
             y == text \o f
             n == Len(text)
  <2>1. f \in Seq(SpellSigns) /\ Len(f) = 1 /\ f[1] = "&" /\ n \in Nat
    BY <1>1
  <2>2. x \in Seq(SpellSigns) /\ Len(x) = n + 1 /\ x[n + 1] = "&" /\ \A i \in 1..n : x[i] = text[i]
    BY SpelledIn, Appended
  <2> HIDE DEF f, x
  <2>3. y \in Seq(SpellSigns) /\ Len(y) = n + 1 /\ y[n + 1] = "&" /\ \A i \in 1..n : y[i] = text[i]
    <3>1. /\ y \in Seq(SpellSigns) /\ Len(y) = n + Len(f) /\ \A i \in 1..n : y[i] = text[i]
          /\ \A i \in 1..Len(f) : y[n + i] = f[i]
      <4>1. y \in Seq(SpellSigns) /\ AfterOther(y, text, f)
        BY <2>1, Concatenated
      <4> HIDE DEF y
      <4> QED BY <4>1 DEF AfterOther
    <3> HIDE DEF y
    <3> QED BY <2>1, <3>1
  <2> HIDE DEF y, n
  <2>4. \A i \in 1..(n + 1) : i \in 1..n \/ i = n + 1
    BY <2>1
  <2>5. \A i \in 1..Len(x) : x[i] = y[i]
    BY <2>1, <2>2, <2>3, <2>4
  <2>6. x = y
    BY <2>2, <2>3, <2>5
  <2> QED BY <2>3, <2>6 DEF x, y
<1>3. Further(text, pair) = Chained(IF text = <<>> THEN <<>> ELSE text \o f) /\ Spell(pair) = pairing
  BY <1>2 DEF Further, Spell
<1> HIDE DEF a, b, e
<1>4. ASSUME NEW h \in Seq(SpellSigns) PROVE Chained(h) = h \o pairing /\ Chained(h) \in Seq(SpellSigns)
  BY <1>1, Associates
<1>5. <<>> \in Seq(SpellSigns) /\ <<>> \o pairing = pairing
  <2>1. pairing \in Seq(SpellSigns)
    BY <1>1
  <2> HIDE DEF pairing
  <2> QED BY <2>1
<1> HIDE DEF Chained, pairing, f
<1>6. CASE text = <<>>
  BY <1>3, <1>4, <1>5, <1>6
<1>7. CASE text # <<>>
  <2>1. Further(text, pair) = Chained(text \o f)
    BY <1>3, <1>7
  <2> QED BY <1>2, <1>3, <1>4, <1>7, <2>1 DEF f
<1> QED BY <1>6, <1>7

\* The text and the pair can be told from what they make.
LEMMA FurtherApart ==
  ASSUME NEW text \in Seq(SpellSigns), NEW other \in Seq(SpellSigns), NEW p \in ClearPairs, NEW q \in ClearPairs
  PROVE  Further(text, p) # <<>> /\ (Further(text, p) = Further(other, q) => text = other /\ p = q)
<1>1. /\ Spell(p) \in Seq(SpellSigns) /\ Spell(p) # <<>> /\ Without(Spell(p), "&")
      /\ Spell(q) \in Seq(SpellSigns) /\ Spell(q) # <<>> /\ Without(Spell(q), "&")
      /\ Spell(p) = Spell(q) => p = q
  BY SpellApart
<1>2. p \in WordPairs /\ q \in WordPairs
  BY DEF ClearPairs
<1> DEFINE a == Spell(p)
           b == Spell(q)
           u == Further(text, p)
           v == Further(other, q)
<1>3. /\ text = <<>> => u = a
      /\ text # <<>> => Around(u, text, "&", a)
      /\ other = <<>> => v = b
      /\ other # <<>> => Around(v, other, "&", b)
  <2>1. /\ u = IF text = <<>> THEN a ELSE (text \o <<"&">>) \o a
        /\ v = IF other = <<>> THEN b ELSE (other \o <<"&">>) \o b
    BY <1>2, FurtherIs
  <2> HIDE DEF a, b, u, v
  <2>2. a \in Seq(SpellSigns) /\ b \in Seq(SpellSigns)
    BY <1>1 DEF a, b
  <2>3. Around((text \o <<"&">>) \o a, text, "&", a) /\ Around((other \o <<"&">>) \o b, other, "&", b)
    <3> DEFINE sign == "&"
    <3>1. sign \in SpellSigns
      BY SpelledIn
    <3> HIDE DEF sign
    <3>2. Around((text \o <<sign>>) \o a, text, sign, a) /\ Around((other \o <<sign>>) \o b, other, sign, b)
      BY <2>2, <3>1, JoinedAround
    <3> QED BY <3>2 DEF sign
  <2> QED BY <2>1, <2>3
<1> HIDE DEF u, v
<1>4. ASSUME NEW w, NEW s \in Seq(SpellSigns), NEW c \in Seq(SpellSigns), Around(w, s, "&", c) PROVE w # <<>> /\ ~Without(w, "&")
  <2>1. Len(w) = Len(s) + 1 + Len(c) /\ w[Len(s) + 1] = "&" /\ Len(s) \in Nat /\ Len(c) \in Nat
    BY <1>4 DEF Around
  <2>2. Len(s) + 1 \in 1..Len(w)
    BY <2>1
  <2> QED BY <2>1, <2>2 DEF Without
<1>5. u # <<>>
  BY <1>1, <1>3, <1>4
<1>6. ASSUME u = v PROVE text = other /\ p = q
  <2>1. CASE text = <<>> /\ other = <<>>
    BY <1>1, <1>3, <1>6, <2>1
  <2>2. CASE text = <<>> /\ other # <<>>
    BY <1>1, <1>3, <1>4, <1>6, <2>2
  <2>3. CASE text # <<>> /\ other = <<>>
    BY <1>1, <1>3, <1>4, <1>6, <2>3
  <2>4. CASE text # <<>> /\ other # <<>>
    <3>1. Around(u, text, "&", a) /\ Around(u, other, "&", b)
      BY <1>3, <1>6, <2>4
    <3>2. a \in Seq(SpellSigns) /\ b \in Seq(SpellSigns) /\ Without(a, "&") /\ Without(b, "&")
      BY <1>1
    <3>3. text = other /\ a = b
      <4> HIDE DEF a, b
      <4> QED BY <3>1, <3>2, SplitAtLast
    <3> QED BY <1>1, <3>3
  <2> QED BY <2>1, <2>2, <2>3, <2>4
<1> QED BY <1>5, <1>6 DEF u, v

\* The pairs of a query spelt out one after the other (dedupe_key).
LEMMA SpeltWalk ==
  ASSUME NEW some \in Seq(WordPairs)
  PROVE  \E v \in [0..Len(some) -> Seq(SpellSigns)] :
           /\ v[0] = <<>> /\ \A k \in 1..Len(some) : v[k] = (Further(v[k - 1], some[k]))
           /\ Spelt(some) = v[Len(some)]
<1> DEFINE n == Len(some)
           base == <<>>
           States == Seq(SpellSigns)
           Value(x, i) == (Further(x, some[i]))
           step == [i \in 1..n |-> [x \in States |-> Value(x, i)]]
           Is(g) == g = [s \in SUBSET (DOMAIN some) |-> IF s = {} THEN base ELSE Value(g[s \ {Max(s)}], Max(s))]
           u == CHOOSE g : Is(g)
           f == [s \in SUBSET (1..n) |-> Value(u[s \ {Max(s)}], Max(s))]
<1>1. n \in Nat /\ base \in States /\ DOMAIN some = 1..n
  OBVIOUS
<1>2. Spelt(some) = u[1..n]
  BY <1>1 DEF Spelt, Further, FoldLeft, MapThenFoldSet
<1>3. \A i \in 1..n, x \in States : Value(x, i) \in States
  <2> SUFFICES ASSUME NEW i \in 1..n, NEW x \in States PROVE Value(x, i) \in States
    OBVIOUS
  <2>1. some[i] \in WordPairs
    OBVIOUS
  <2> QED BY <2>1, FurtherIs
<1>4. step \in [1..n -> [States -> States]] /\ \A i \in 1..n, x \in States : step[i][x] = Value(x, i)
  BY <1>3
<1>5. base = <<>> /\ \A x, i : Value(x, i) = (Further(x, some[i]))
  OBVIOUS
<1> HIDE DEF n, States, base, step, Value
<1>6. \A s \in SUBSET (1..n) : s # {} => Max(s) \in 1..n
  BY <1>1, TakesLast
<1>7. Is(u)
  <2>1. n \in Nat /\ base \in States
    BY <1>1
  <2>2. step \in [1..n -> [States -> States]]
    BY <1>4
  <2>3. PICK g \in [SUBSET (1..n) -> States] : IsLeftFold(g, n, base, step)
    BY <2>1, <2>2, LeftFoldExists
  <2>4. \A s \in SUBSET (1..n) : s # {} => g[s \ {Max(s)}] \in States
    OBVIOUS
  <2>5. Is(g)
    BY <1>1, <1>4, <1>6, <2>3, <2>4 DEF IsLeftFold
  <2> QED BY <2>5
<1>8. ComesTo(u, f, n, base)
  BY <1>1, <1>7 DEF ComesTo
<1>9. StepsOn(u, f, n, States, step)
  <2>1. \A s \in SUBSET (1..n) : f[s] = Value(u[s \ {Max(s)}], Max(s))
    OBVIOUS
  <2> HIDE DEF u, f
  <2>2. ASSUME NEW s \in SUBSET (1..n), s # {}, u[s \ {Max(s)}] \in States
        PROVE  f[s] = step[Max(s)][u[s \ {Max(s)}]]
    BY <1>4, <1>6, <2>1, <2>2
  <2> QED BY <2>2, Zenon DEF StepsOn
<1> HIDE DEF u, f, Is
<1>10. PICK v \in [0..n -> States] : IsWalk(v, n, base, step) /\ v[n] = u[1..n]
  <2>1. n \in Nat /\ base \in States
    BY <1>1
  <2>2. step \in [1..n -> [States -> States]]
    BY <1>4
  <2>3. ComesTo(u, f, n, base) /\ StepsOn(u, f, n, States, step)
    BY <1>8, <1>9
  <2> QED BY <2>1, <2>2, <2>3, LeftFoldWalks, SMTT(30)
<1>11. v[0] = base /\ \A k \in 1..n : v[k] = Value(v[k - 1], k)
  <2>1. \A k \in 1..n : k - 1 \in 0..n
    BY <1>1
  <2> QED BY <1>4, <1>10, <2>1 DEF IsWalk
<1>12. v[0] = <<>> /\ \A k \in 1..n : v[k] = (Further(v[k - 1], some[k]))
  BY <1>5, <1>11
<1> QED BY <1>2, <1>10, <1>12 DEF n, States

\* Pairs that are clear can be told from how they are spelt (dedupe_key).
LEMMA SpeltApart ==
  ASSUME NEW s \in Seq(ClearPairs), NEW t \in Seq(ClearPairs), Spelt(s) = Spelt(t)
  PROVE  s = t
<1>0. s \in Seq(WordPairs) /\ t \in Seq(WordPairs) /\ Len(s) \in Nat /\ Len(t) \in Nat
  <2>1. ClearPairs \subseteq WordPairs
    BY DEF ClearPairs
  <2> QED BY <2>1
<1>1. PICK v \in [0..Len(s) -> Seq(SpellSigns)] :
        v[0] = <<>> /\ (\A k \in 1..Len(s) : v[k] = Further(v[k - 1], s[k])) /\ Spelt(s) = v[Len(s)]
  BY <1>0, SpeltWalk
<1>2. PICK w \in [0..Len(t) -> Seq(SpellSigns)] :
        w[0] = <<>> /\ (\A k \in 1..Len(t) : w[k] = Further(w[k - 1], t[k])) /\ Spelt(t) = w[Len(t)]
  BY <1>0, SpeltWalk
<1>3. ASSUME NEW k \in 1..Len(s) PROVE v[k] # <<>> /\ v[k] = Further(v[k - 1], s[k]) /\ v[k - 1] \in Seq(SpellSigns) /\ s[k] \in ClearPairs
  <2>1. v[k] = Further(v[k - 1], s[k]) /\ k - 1 \in 0..Len(s) /\ s[k] \in ClearPairs
    BY <1>0, <1>1
  <2> QED BY <2>1, FurtherApart
<1>4. ASSUME NEW k \in 1..Len(t) PROVE w[k] # <<>> /\ w[k] = Further(w[k - 1], t[k]) /\ w[k - 1] \in Seq(SpellSigns) /\ t[k] \in ClearPairs
  <2>1. w[k] = Further(w[k - 1], t[k]) /\ k - 1 \in 0..Len(t) /\ t[k] \in ClearPairs
    BY <1>0, <1>2
  <2> QED BY <2>1, FurtherApart
<1> DEFINE Same(k, l) == l = k /\ \A i \in 1..k : s[i] = t[i]
           G == {k \in Nat : k <= Len(s) => \A l \in 0..Len(t) : v[k] = w[l] => Same(k, l)}
<1>5. 0 \in G
  <2> SUFFICES ASSUME NEW l \in 0..Len(t), v[0] = w[l] PROVE Same(0, l)
    OBVIOUS
  <2>1. l = 0 \/ l \in 1..Len(t)
    BY <1>0
  <2>2. l = 0
    BY <1>1, <1>4, <2>1
  <2> QED BY <2>2
<1>6. ASSUME NEW k \in Nat, k \in G PROVE k + 1 \in G
  <2> SUFFICES ASSUME k + 1 <= Len(s), NEW l \in 0..Len(t), v[k + 1] = w[l] PROVE Same(k + 1, l)
    OBVIOUS
  <2>1. k + 1 \in 1..Len(s) /\ k + 1 - 1 = k /\ k <= Len(s)
    BY <1>0
  <2>2. l \in 1..Len(t) /\ l - 1 \in 0..Len(t)
    <3>1. l = 0 \/ (l \in 1..Len(t) /\ l - 1 \in 0..Len(t))
      BY <1>0
    <3>2. v[k + 1] # <<>>
      BY <1>3, <2>1
    <3> QED BY <1>2, <3>1, <3>2
  <2>3. /\ v[k + 1] = Further(v[k], s[k + 1]) /\ v[k] \in Seq(SpellSigns) /\ s[k + 1] \in ClearPairs
        /\ w[l] = Further(w[l - 1], t[l]) /\ w[l - 1] \in Seq(SpellSigns) /\ t[l] \in ClearPairs
    BY <1>3, <1>4, <2>1, <2>2
  <2>4. v[k] = w[l - 1] /\ s[k + 1] = t[l]
    <3> DEFINE x == v[k]
               y == w[l - 1]
               p == s[k + 1]
               q == t[l]
    <3>1. x \in Seq(SpellSigns) /\ y \in Seq(SpellSigns) /\ p \in ClearPairs /\ q \in ClearPairs /\ Further(x, p) = Further(y, q)
      BY <2>3
    <3> HIDE DEF x, y, p, q
    <3>2. x = y /\ p = q
      BY <3>1, FurtherApart
    <3> QED BY <3>2 DEF x, y, p, q
  <2>5. Same(k, l - 1)
    <3> HIDE DEF Same
    <3> QED BY <1>6, <2>1, <2>2, <2>4
  <2>6. l = k + 1 /\ \A i \in 1..(k + 1) : i \in 1..k \/ i = k + 1
    BY <2>5
  <2> QED BY <2>4, <2>5, <2>6
<1>7. \A k \in Nat : k \in G
  <2> HIDE DEF G
  <2> QED BY <1>5, <1>6, ByNumber
<1>8. Same(Len(s), Len(t))
  <2>1. v[Len(s)] = w[Len(t)] /\ Len(t) \in 0..Len(t) /\ Len(s) \in G
    <3>1. v[Len(s)] = w[Len(t)]
      BY <1>1, <1>2
    <3>2. Len(t) \in 0..Len(t)
      BY <1>0
    <3> HIDE DEF G
    <3> QED BY <1>0, <1>7, <3>1, <3>2
  <2> HIDE DEF Same
  <2> QED BY <1>0, <2>1
<1> QED BY <1>0, <1>8

-----------------------------------------------------------------------------
(* A URL: the parameters that remain, and the paths that are refused *)

\* The places where a query has a parameter that is kept.
KeptIn(query) == {i \in 1..Len(query) : query[i][1] \notin Droppable}

\* What remains of a query, as it is written back: each parameter at its place,
\* and as often as it was.
LEMMA RemainsIs ==
  ASSUME NEW P, NEW q \in Seq(P)
  PROVE  /\ Len(Written(Kept(q))) = Cardinality(KeptIn(q))
         /\ \A i \in KeptIn(q) : /\ Written(Kept(q))[PlaceIn(KeptIn(q), i)] = Written(q)[i]
                                 /\ PlaceIn(KeptIn(q), i) \in 1..Cardinality(KeptIn(q))
         /\ \A m \in 1..Len(Written(Kept(q))) : \E i \in KeptIn(q) : Written(Kept(q))[m] = Written(q)[i]
         /\ \A x : TimesIn(Written(Kept(q)), x) = TimesAt(Written(q), KeptIn(q), x)
<1> DEFINE n == Len(q)
           S == KeptIn(q)
           R == Remaining(P)
           k == Kept(q)
           w == Written(k)
           e == Written(q)
<1>1. PICK v \in [0..n -> Seq(R)] :
        /\ v[0] = <<>>
        /\ \A j \in 1..n : v[j] = (IF q[j][1] \in Droppable THEN v[j - 1] ELSE Append(v[j - 1], q[j]))
        /\ k = v[n]
  BY KeptWalk
<1>2. n \in Nat /\ S \in SUBSET (1..n) /\ (\A i \in 1..n : i \in S <=> q[i][1] \notin Droppable) /\ n \in 0..n
  BY DEF KeptIn
<1>3. KeepsSome(v, n, S, R, q)
  <2>1. \A i \in S : q[i] \in R
    <3>1. \A i \in 1..n : q[i] \in P
      OBVIOUS
    <3> QED BY <1>2, <3>1 DEF Remaining
  <2>2. \A j \in 1..n : v[j] = IF j \in S THEN Append(v[j - 1], q[j]) ELSE v[j - 1]
    BY <1>1, <1>2
  <2> HIDE DEF S, R, n
  <2> QED BY <1>1, <1>2, <2>1, <2>2 DEF KeepsSome
<1> HIDE DEF S, R, n
<1>4. k \in Seq(R) /\ Len(k) = Cardinality(S) /\ \A i \in S : k[PlaceIn(S, i)] = q[i]
  <2>1. Len(v[n]) = Cardinality(S) /\ \A i \in S : v[n][PlaceIn(S, i)] = q[i]
    <3>1. AtPlaces(v[n], n, S, q)
      BY <1>3, KeptPlaces
    <3> QED BY <3>1 DEF AtPlaces
  <2> HIDE DEF k
  <2> QED BY <1>1, <1>2, <2>1
<1>5. IsFiniteSet(S) /\ S \in SUBSET Nat /\ Cardinality(S) \in Nat
  <2>1. IsFiniteSet(1..n) /\ S \in SUBSET Nat
    BY <1>2, FS_Interval
  <2>2. IsFiniteSet(S)
    BY <1>2, <2>1, FS_Subset
  <2> QED BY <2>1, <2>2, FS_CardinalityType
<1>6. /\ \A i \in S : PlaceIn(S, i) \in 1..Cardinality(S)
      /\ \A m \in 1..Cardinality(S) : \E i \in S : PlaceIn(S, i) = m
  BY <1>5, NumberedPlaces
<1> HIDE DEF k
<1>7. /\ Len(w) = Len(k) /\ \A m \in 1..Len(k) : w[m] = <<k[m][1], IF k[m][2] = NoValue THEN Empty ELSE k[m][2]>>
      /\ \A i \in S : e[i] = <<q[i][1], IF q[i][2] = NoValue THEN Empty ELSE q[i][2]>>
  <2>1. Len(k) \in Nat /\ DOMAIN k = 1..Len(k) /\ DOMAIN q = 1..n
    BY <1>4 DEF n
  <2>2. w = [m \in 1..Len(k) |-> <<k[m][1], IF k[m][2] = NoValue THEN Empty ELSE k[m][2]>>]
    BY <2>1 DEF Written
  <2>3. e = [i \in 1..n |-> <<q[i][1], IF q[i][2] = NoValue THEN Empty ELSE q[i][2]>>]
    BY <2>1 DEF Written
  <2>4. Len(w) = Len(k)
    BY <2>1, <2>2
  <2> HIDE DEF w, e
  <2>5. \A m \in 1..Len(k) : w[m] = <<k[m][1], IF k[m][2] = NoValue THEN Empty ELSE k[m][2]>>
    BY <2>2
  <2>6. \A i \in S : e[i] = <<q[i][1], IF q[i][2] = NoValue THEN Empty ELSE q[i][2]>>
    BY <1>2, <2>3
  <2> QED BY <2>4, <2>5, <2>6
<1> HIDE DEF w, e
<1>8. Len(w) = Cardinality(S) /\ \A i \in S : w[PlaceIn(S, i)] = e[i]
  <2> SUFFICES ASSUME NEW i \in S PROVE w[PlaceIn(S, i)] = e[i]
    BY <1>4, <1>7
  <2> DEFINE m == PlaceIn(S, i)
  <2>1. m \in 1..Len(k) /\ k[m] = q[i]
    BY <1>4, <1>6
  <2> HIDE DEF m
  <2> QED BY <1>7, <2>1 DEF m
<1>9. \A m \in 1..Len(w) : \E i \in S : w[m] = e[i]
  <2> SUFFICES ASSUME NEW m \in 1..Len(w) PROVE \E i \in S : w[m] = e[i]
    OBVIOUS
  <2>1. PICK i \in S : PlaceIn(S, i) = m
    BY <1>6, <1>8
  <2> QED BY <1>8, <2>1
<1>10. \A x : TimesIn(w, x) = TimesAt(e, S, x)
  <2>1. AtPlaces(w, n, S, e)
    BY <1>2, <1>8 DEF AtPlaces
  <2> QED BY <2>1, PlacedCounts
<1> QED BY <1>6, <1>8, <1>9, <1>10 DEF S, w, e, k

\* The segments of a path that are not empty (check of traps.rs).
LEMMA SegmentsWalk ==
  ASSUME NEW P, NEW url, url.path \in Seq(P)
  PROVE  \E v \in [0..Len(url.path) -> Seq(P)] :
           /\ v[0] = <<>> /\ \A k \in 1..Len(url.path) : v[k] = (IF url.path[k] = Empty THEN v[k - 1] ELSE Append(v[k - 1], url.path[k]))
           /\ Segments(url) = v[Len(url.path)]
<1> DEFINE n == Len(url.path)
           base == <<>>
           States == Seq(P)
           Value(x, i) == (IF url.path[i] = Empty THEN x ELSE Append(x, url.path[i]))
           step == [i \in 1..n |-> [x \in States |-> Value(x, i)]]
           Is(g) == g = [s \in SUBSET (DOMAIN url.path) |-> IF s = {} THEN base ELSE Value(g[s \ {Max(s)}], Max(s))]
           u == CHOOSE g : Is(g)
           f == [s \in SUBSET (1..n) |-> Value(u[s \ {Max(s)}], Max(s))]
<1>1. n \in Nat /\ base \in States /\ DOMAIN url.path = 1..n
  OBVIOUS
<1>2. Segments(url) = u[1..n]
  BY <1>1 DEF Segments, FoldLeft, MapThenFoldSet
<1>3. \A i \in 1..n, x \in States : Value(x, i) \in States
  OBVIOUS
<1>4. step \in [1..n -> [States -> States]] /\ \A i \in 1..n, x \in States : step[i][x] = Value(x, i)
  BY <1>3
<1>5. base = <<>> /\ \A x, i : Value(x, i) = (IF url.path[i] = Empty THEN x ELSE Append(x, url.path[i]))
  OBVIOUS
<1> HIDE DEF n, States, base, step, Value
<1>6. \A s \in SUBSET (1..n) : s # {} => Max(s) \in 1..n
  BY <1>1, TakesLast
<1>7. Is(u)
  <2>1. n \in Nat /\ base \in States
    BY <1>1
  <2>2. step \in [1..n -> [States -> States]]
    BY <1>4
  <2>3. PICK g \in [SUBSET (1..n) -> States] : IsLeftFold(g, n, base, step)
    BY <2>1, <2>2, LeftFoldExists
  <2>4. \A s \in SUBSET (1..n) : s # {} => g[s \ {Max(s)}] \in States
    OBVIOUS
  <2>5. Is(g)
    BY <1>1, <1>4, <1>6, <2>3, <2>4 DEF IsLeftFold
  <2> QED BY <2>5
<1>8. ComesTo(u, f, n, base)
  BY <1>1, <1>7 DEF ComesTo
<1>9. StepsOn(u, f, n, States, step)
  <2>1. \A s \in SUBSET (1..n) : f[s] = Value(u[s \ {Max(s)}], Max(s))
    OBVIOUS
  <2> HIDE DEF u, f
  <2>2. ASSUME NEW s \in SUBSET (1..n), s # {}, u[s \ {Max(s)}] \in States
        PROVE  f[s] = step[Max(s)][u[s \ {Max(s)}]]
    BY <1>4, <1>6, <2>1, <2>2
  <2> QED BY <2>2, Zenon DEF StepsOn
<1> HIDE DEF u, f, Is
<1>10. PICK v \in [0..n -> States] : IsWalk(v, n, base, step) /\ v[n] = u[1..n]
  <2>1. n \in Nat /\ base \in States
    BY <1>1
  <2>2. step \in [1..n -> [States -> States]]
    BY <1>4
  <2>3. ComesTo(u, f, n, base) /\ StepsOn(u, f, n, States, step)
    BY <1>8, <1>9
  <2> QED BY <2>1, <2>2, <2>3, LeftFoldWalks, SMTT(30)
<1>11. v[0] = base /\ \A k \in 1..n : v[k] = Value(v[k - 1], k)
  <2>1. \A k \in 1..n : k - 1 \in 0..n
    BY <1>1
  <2> QED BY <1>4, <1>10, <2>1 DEF IsWalk
<1>12. v[0] = <<>> /\ \A k \in 1..n : v[k] = (IF url.path[k] = Empty THEN v[k - 1] ELSE Append(v[k - 1], url.path[k]))
  BY <1>5, <1>11
<1> QED BY <1>2, <1>10, <1>12 DEF n, States

\* A segment that a path has too often is met again among its segments
\* (has_repeating_segments).
LEMMA LoopsRepeat ==
  ASSUME NEW P, NEW url, url.path \in Seq(P), NEW i0 \in DOMAIN url.path, url.path[i0] \notin OneLetter \cup {Empty},
         Cardinality({j \in DOMAIN url.path : url.path[j] = url.path[i0]}) > MaxSegmentRepeats
  PROVE  Repeating(Segments(url))
<1> DEFINE path == url.path
           n == Len(path)
           S == {i \in 1..n : path[i] # Empty}
           x == path[i0]
           w == Segments(url)
<1>1. PICK v \in [0..n -> Seq(P)] :
        /\ v[0] = <<>> /\ \A k \in 1..n : v[k] = (IF path[k] = Empty THEN v[k - 1] ELSE Append(v[k - 1], path[k]))
        /\ w = v[n]
  BY SegmentsWalk
<1>2. path \in Seq(P) /\ n \in Nat /\ DOMAIN path = 1..n /\ S \in SUBSET (1..n) /\ i0 \in S /\ n \in 0..n
  OBVIOUS
<1>3. KeepsSome(v, n, S, P, path)
  <2>1. \A i \in S : path[i] \in P
    OBVIOUS
  <2>2. \A k \in 1..n : v[k] = IF k \in S THEN Append(v[k - 1], path[k]) ELSE v[k - 1]
    BY <1>1
  <2> HIDE DEF S, n, path
  <2> QED BY <1>1, <1>2, <2>1, <2>2 DEF KeepsSome
<1>4. {i \in S : path[i] = x} = {j \in DOMAIN path : path[j] = x}
  OBVIOUS
<1>5. x \notin OneLetter /\ Cardinality({i \in S : path[i] = x}) > MaxSegmentRepeats
  BY <1>4
<1> HIDE DEF S, n, path, x
<1>6. Len(v[n]) = Cardinality(S) /\ \A i \in S : v[n][PlaceIn(S, i)] = path[i]
  <2>1. AtPlaces(v[n], n, S, path)
    BY <1>3, KeptPlaces
  <2> QED BY <2>1 DEF AtPlaces
<1>7. IsFiniteSet(S) /\ S \in SUBSET Nat
  <2>1. IsFiniteSet(1..n) /\ S \in SUBSET Nat
    BY <1>2, FS_Interval
  <2>2. IsFiniteSet(S)
    BY <1>2, <2>1, FS_Subset
  <2> QED BY <2>1, <2>2
<1>8. PlaceIn(S, i0) \in 1..Cardinality(S)
  BY <1>2, <1>7, NumberedPlaces
<1> HIDE DEF w
<1>9. w \in Seq(P) /\ Len(w) = Cardinality(S) /\ \A i \in S : w[PlaceIn(S, i)] = path[i]
  BY <1>1, <1>2, <1>6
<1>10. Cardinality({m \in 1..Len(w) : w[m] = x}) > MaxSegmentRepeats
  <2>1. TimesIn(w, x) = TimesAt(path, S, x)
    <3>1. AtPlaces(w, n, S, path)
      BY <1>2, <1>9 DEF AtPlaces
    <3> QED BY <3>1, PlacedCounts
  <2> QED BY <1>5, <2>1 DEF TimesIn, TimesAt
<1> DEFINE M == {m \in 1..Len(w) : w[m] = x}
           m0 == Min(M)
<1>11. m0 \in M /\ \A m \in M : m0 <= m
  <2>1. M \in SUBSET Nat /\ PlaceIn(S, i0) \in M
    BY <1>2, <1>8, <1>9 DEF x
  <2> HIDE DEF M
  <2> QED BY <2>1, LeastNat
<1> HIDE DEF m0
<1>12. {j \in m0..Len(w) : w[j] = w[m0]} = M
  <2>1. Len(w) \in Nat /\ m0 \in 1..Len(w) /\ w[m0] = x
    BY <1>9, <1>11
  <2>2. \A j : j \in m0..Len(w) /\ w[j] = x <=> j \in 1..Len(w) /\ w[j] = x
    BY <1>11, <2>1
  <2> QED BY <2>1, <2>2
<1>13. m0 \in DOMAIN w /\ w[m0] \notin OneLetter /\ Cardinality({j \in m0..Len(w) : w[j] = w[m0]}) > MaxSegmentRepeats
  <2>1. m0 \in DOMAIN w /\ w[m0] = x
    BY <1>9, <1>11
  <2> QED BY <1>5, <1>10, <1>12, <2>1
<1> QED BY <1>13 DEF Repeating, w

\* Such a path is refused (check).
LEMMA RepeatingIsTrapped ==
  ASSUME NEW url, Repeating(Segments(url))
  PROVE  Trap(url) # "ok"
BY DEF Trap

-----------------------------------------------------------------------------
(* A URL: what is fetched, and its key *)

\* A URL that is written out, as it is fetched.
LEMMA NormalizedUrl ==
  ASSUME NEW url, IsUrl(url)
  PROVE  Normalize(url) = [scheme |-> url.scheme, host |-> url.host, port |-> url.port, fragment |-> FALSE,
                           path |-> url.path, query |-> Written(Kept(url.query))]
<1> DEFINE parted == [scheme |-> url.scheme, host |-> url.host, port |-> url.port, fragment |-> url.fragment,
                      path |-> url.path, query |-> url.query]
           fetched == [scheme |-> url.scheme, host |-> url.host, port |-> url.port, fragment |-> FALSE,
                       path |-> url.path, query |-> Written(Kept(url.query))]
<1>1. url = parted
  BY DEF IsUrl
<1>2. Normalize(parted) = fetched
  BY NormalizedParts
<1> HIDE DEF parted, fetched
<1> QED BY <1>1, <1>2 DEF fetched

\* Parameters as they are written, with and without a value.
NamedPairs == {pair \in STRING \X STRING : pair[1] \in DOMAIN Spelling /\ pair[2] \in (DOMAIN Spelling) \cup {NoValue}}

PathNames == {part.name : part \in Parts["url"]} \cup {Empty}

\* What URLs are made of.
LEMMA UrlIs ==
  ASSUME NEW some \in Seq(Parts["url"]), NEW rest
  PROVE  /\ IsUrl(UrlOf(some, rest)) /\ UrlOf(some, rest).query \in Seq(NamedPairs)
         /\ UrlOf(some, rest).path \in Seq(PathNames) /\ Len(UrlOf(some, rest).path) > 0
         /\ UrlOf(some, rest).host = rest.host /\ UrlOf(some, rest).fragment = rest.fragment
<1> DEFINE P == Parts["url"]
           places == OfSort(some, "segment")
           pairs == OfSort(some, "pair")
           path == IF places = <<>> THEN <<Empty>> ELSE [i \in DOMAIN places |-> places[i].name]
           query == [i \in DOMAIN pairs |-> <<pairs[i].name, pairs[i].value>>]
           url == UrlOf(some, rest)
<1>1. ASSUME NEW is PROVE OfSort(some, is) \in Seq(PartsOf(P, is))
  <2>1. PICK v \in [0..Len(some) -> Seq(PartsOf(P, is))] : OfSort(some, is) = v[Len(some)]
    BY SiftWalk
  <2>2. Len(some) \in 0..Len(some)
    OBVIOUS
  <2> QED BY <2>1, <2>2
<1>2. url = [scheme |-> rest.scheme, host |-> rest.host, port |-> rest.port, fragment |-> rest.fragment,
             path |-> path, query |-> query]
  BY DEF UrlOf
<1>3. path \in Seq(PathNames) /\ Len(path) > 0
  <2> DEFINE s == places
             Q == PartsOf(P, "segment")
  <2>1. s \in Seq(Q)
    BY <1>1
  <2>2. \A part \in Q : part.name \in PathNames
    BY DEF PartsOf, PathNames
  <2>3. Empty \in PathNames
    BY DEF PathNames
  <2> HIDE DEF s, Q
  <2>4. CASE s = <<>>
    BY <2>3, <2>4 DEF s
  <2>5. CASE s # <<>>
    <3>1. Len(s) \in Nat /\ Len(s) > 0 /\ DOMAIN s = 1..Len(s)
      BY <2>1, <2>5
    <3>2. [i \in 1..Len(s) |-> s[i].name] \in Seq(PathNames) /\ Len([i \in 1..Len(s) |-> s[i].name]) = Len(s)
      BY <2>1, <2>2, <3>1
    <3> QED BY <2>5, <3>1, <3>2 DEF s
  <2> QED BY <2>4, <2>5
<1>4. query \in Seq(NamedPairs)
  <2> DEFINE s == pairs
             Q == PartsOf(P, "pair")
  <2>1. s \in Seq(Q)
    BY <1>1
  <2>2. \A part \in Q : <<part.name, part.value>> \in NamedPairs
    <3> SUFFICES ASSUME NEW part \in Q PROVE <<part.name, part.value>> \in NamedPairs
      OBVIOUS
    <3> DEFINE a == part.name
               b == part.value
    <3>1. a \in DOMAIN Spelling /\ b \in STRING /\ b \in (DOMAIN Spelling) \cup {NoValue}
      BY ContentAssumption DEF PartsOf
    <3>2. a \in STRING
      BY <3>1, SpellingAssumption
    <3> HIDE DEF a, b
    <3>3. <<a, b>>[1] = a /\ <<a, b>>[2] = b /\ <<a, b>> \in STRING \X STRING
      BY <3>1, <3>2
    <3>4. <<a, b>> \in NamedPairs
      BY <3>1, <3>3 DEF NamedPairs
    <3> QED BY <3>4 DEF a, b
  <2> HIDE DEF s, Q
  <2>3. [i \in DOMAIN s |-> <<s[i].name, s[i].value>>] \in Seq(NamedPairs)
    <3>1. Len(s) \in Nat /\ DOMAIN s = 1..Len(s) /\ \A i \in 1..Len(s) : s[i] \in Q
      BY <2>1
    <3>2. [i \in 1..Len(s) |-> <<s[i].name, s[i].value>>] \in [1..Len(s) -> NamedPairs]
      BY <2>2, <3>1
    <3> QED BY <3>1, <3>2
  <2> QED BY <2>3 DEF s
<1> HIDE DEF path, query, url
<1>5. query \in Seq(STRING \X STRING)
  <2> DEFINE Q == STRING \X STRING
  <2>1. NamedPairs \subseteq Q
    BY DEF NamedPairs
  <2> HIDE DEF Q
  <2>2. query \in Seq(Q)
    BY <1>4, <2>1
  <2> QED BY <2>2 DEF Q
<1>6. IsUrl(url)
  BY <1>2, <1>5 DEF IsUrl
<1>7. url.path = path /\ url.query = query /\ url.host = rest.host /\ url.fragment = rest.fragment
  BY <1>2
<1> QED BY <1>3, <1>4, <1>6, <1>7 DEF url

\* What remains of a query is clear if all of it is, and is written so.
LEMMA RemainsClear ==
  ASSUME NEW q \in Seq(NamedPairs)
  PROVE  /\ \A i \in 1..Len(q) : Written(q)[i] \in WordPairs /\ Written(q)[i][1] = q[i][1]
         /\ Written(Written(Kept(q))) = Written(Kept(q))
         /\ (\A i \in 1..Len(q) : Clear(Written(q)[i])) => Written(Kept(q)) \in Seq(ClearPairs)
<1> DEFINE w == Written(Kept(q))
           e == Written(q)
<1>1. ASSUME NEW i \in 1..Len(q) PROVE e[i] \in WordPairs /\ e[i][1] = q[i][1]
  <2>1. e[i] = <<q[i][1], IF q[i][2] = NoValue THEN Empty ELSE q[i][2]>>
    BY DEF Written
  <2> DEFINE a == q[i][1]
             b == IF q[i][2] = NoValue THEN Empty ELSE q[i][2]
  <2>2. a \in DOMAIN Spelling /\ b \in DOMAIN Spelling
    <3>1. q[i] \in NamedPairs
      OBVIOUS
    <3> QED BY <3>1, SpellingAssumption DEF NamedPairs
  <2> HIDE DEF a, b, e
  <2>3. e[i] = <<a, b>> /\ <<a, b>>[1] = a
    BY <2>1 DEF a, b
  <2>4. <<a, b>> \in WordPairs
    BY <2>2 DEF WordPairs
  <2> QED BY <2>3, <2>4 DEF a
<1>2. q \in Seq(Pairs)
  <2>1. NamedPairs \subseteq Pairs
    BY DEF NamedPairs, Pairs
  <2> QED BY <2>1
<1>3. w \in Seq(Pairs) /\ Written(w) = w
  <2> DEFINE k == Kept(q)
  <2>1. k \in Seq(Pairs)
    <3>1. k \in Seq(Remaining(Pairs))
      BY <1>2, KeptIs
    <3>2. Remaining(Pairs) \subseteq Pairs
      BY DEF Remaining
    <3> HIDE DEF k
    <3> QED BY <3>1, <3>2
  <2> HIDE DEF k
  <2>2. w \in Seq(Pairs) /\ \A i \in 1..Len(k) : w[i][2] # NoValue
    BY <2>1, WrittenIs DEF k
  <2>3. Len(w) = Len(k)
    BY <2>1, WrittenIs DEF k
  <2> HIDE DEF w
  <2> QED BY <2>2, <2>3, WrittenIs
<1>4. ASSUME \A i \in 1..Len(q) : Clear(e[i]) PROVE w \in Seq(ClearPairs)
  <2>1. \A m \in 1..Len(w) : \E i \in KeptIn(q) : w[m] = e[i]
    BY RemainsIs
  <2>2. KeptIn(q) \subseteq 1..Len(q)
    BY DEF KeptIn
  <2> HIDE DEF w, e
  <2>3. \A i \in 1..Len(q) : e[i] \in ClearPairs
    BY <1>1, <1>4 DEF ClearPairs
  <2>4. \A m \in 1..Len(w) : w[m] \in ClearPairs
    BY <2>1, <2>2, <2>3
  <2> QED BY <1>3, <2>4
<1> QED BY <1>1, <1>3, <1>4

\* Two queries are spelt alike just when they have each pair as often.
LEMMA QueryKeys ==
  ASSUME NEW w \in Seq(ClearPairs), NEW u \in Seq(ClearPairs)
  PROVE  Spelt(InOrder(w)) = Spelt(InOrder(u)) <=> \A x \in WordPairs : TimesIn(w, x) = TimesIn(u, x)
<1> DEFINE s == InOrder(w)
           t == InOrder(u)
<1>1. ClearPairs \in SUBSET WordPairs
  BY DEF ClearPairs
<1>2. /\ s \in Seq(ClearPairs) /\ Ordered(s, Lesser) /\ \A x : TimesIn(s, x) = TimesIn(w, x)
      /\ t \in Seq(ClearPairs) /\ Ordered(t, Lesser) /\ \A x : TimesIn(t, x) = TimesIn(u, x)
  BY <1>1, InOrderIs
<1> HIDE DEF s, t
<1>3. s \in Seq(WordPairs) /\ t \in Seq(WordPairs)
  BY <1>1, <1>2
<1>4. ASSUME Spelt(s) = Spelt(t), NEW x \in WordPairs PROVE TimesIn(w, x) = TimesIn(u, x)
  <2>1. s = t
    BY <1>2, <1>4, SpeltApart
  <2> QED BY <1>2, <2>1
<1>5. ASSUME \A x \in WordPairs : TimesIn(w, x) = TimesIn(u, x) PROVE Spelt(s) = Spelt(t)
  <2>1. \A x \in WordPairs : TimesIn(s, x) = TimesIn(t, x)
    BY <1>2, <1>5
  <2>2. s = t
    <3>1. IsTotal(Lesser, WordPairs)
      BY PairsAreOrdered
    <3> QED BY <1>2, <1>3, <2>1, <3>1, OneOrder
  <2> QED BY <2>2
<1> QED BY <1>4, <1>5 DEF s, t

\* A path but for a final slash.
SamePath(p, q) ==
  \/ p = q
  \/ \E longer, shorter \in {p, q} : longer = Append(shorter, Empty) /\ (Len(shorter) = 1 \/ Last(shorter) # Empty)

LEMMA BarePaths ==
  ASSUME NEW A, Empty \in A, NEW p \in Seq(A), NEW q \in Seq(A), Len(p) > 0, Len(q) > 0
  PROVE  BarePath(p) = BarePath(q) <=> SamePath(p, q)
<1> DEFINE Slashed(x) == Len(x) > 1 /\ Last(x) = Empty
<1>1. ASSUME NEW x \in Seq(A), Slashed(x)
      PROVE  BarePath(x) \in Seq(A) /\ x = Append(BarePath(x), Empty) /\ Len(BarePath(x)) > 0
  <2> DEFINE f == Front(x)
  <2>1. Len(x) \in Nat /\ Len(x) > 1 /\ x # <<>> /\ x[Len(x)] = Empty
    BY <1>1 DEF Last
  <2>2. f \in Seq(A) /\ Len(f) = Len(x) - 1 /\ \A i \in 1..(Len(x) - 1) : f[i] = x[i]
    BY <2>1, FrontIs
  <2> HIDE DEF f
  <2> DEFINE y == Append(f, Empty)
  <2>3. y \in Seq(A) /\ Len(y) = Len(f) + 1 /\ y[Len(f) + 1] = Empty /\ \A i \in 1..Len(f) : y[i] = f[i]
    BY <2>2, Appended
  <2> HIDE DEF y
  <2>4. x = y
    <3>1. \A i \in 1..Len(x) : i \in 1..(Len(x) - 1) \/ i = Len(x)
      BY <2>1
    <3>2. Len(x) = Len(y) /\ \A i \in 1..Len(x) : x[i] = y[i]
      BY <2>1, <2>2, <2>3, <3>1
    <3> QED BY <2>3, <3>2
  <2>5. BarePath(x) = f
    BY <1>1 DEF BarePath, f
  <2> QED BY <2>1, <2>2, <2>4, <2>5 DEF y
<1>2. ASSUME NEW x \in Seq(A), ~Slashed(x) PROVE BarePath(x) = x
  BY <1>2 DEF BarePath
<1>3. ASSUME NEW x \in Seq(A), NEW y \in Seq(A), x = Append(y, Empty), Len(y) > 0 PROVE Slashed(x) /\ BarePath(x) = y
  <2>1. /\ Len(x) = Len(y) + 1 /\ x[Len(y) + 1] = Empty /\ (\A i \in 1..Len(y) : x[i] = y[i]) /\ Len(y) \in Nat
    BY <1>3, Appended
  <2>2. Slashed(x)
    BY <1>3, <2>1 DEF Last
  <2>3. x # <<>>
    BY <2>1
  <2>4. Front(x) \in Seq(A) /\ Len(Front(x)) = Len(x) - 1 /\ \A i \in 1..(Len(x) - 1) : Front(x)[i] = x[i]
    BY <2>3, FrontIs
  <2>5. BarePath(x) = Front(x)
    BY <2>2 DEF BarePath
  <2> DEFINE f == Front(x)
  <2> HIDE DEF f
  <2>6. f = y
    <3>1. f \in Seq(A) /\ Len(f) = Len(y) /\ \A i \in 1..Len(y) : f[i] = y[i]
      BY <2>1, <2>4 DEF f
    <3> QED BY <3>1
  <2> QED BY <2>2, <2>5, <2>6 DEF f
<1>4. \A x \in Seq(A) : Len(x) > 0 => (~Slashed(x) <=> Len(x) = 1 \/ Last(x) # Empty)
  <2> SUFFICES ASSUME NEW x \in Seq(A), Len(x) > 0 PROVE ~Slashed(x) <=> Len(x) = 1 \/ Last(x) # Empty
    OBVIOUS
  <2> DEFINE n == Len(x)
  <2>1. n \in Nat /\ n > 0
    OBVIOUS
  <2> HIDE DEF n
  <2>2. n > 1 <=> n # 1
    BY <2>1
  <2> QED BY <2>2 DEF n
<1> HIDE DEF Slashed
<1>5. ASSUME BarePath(p) = BarePath(q) PROVE SamePath(p, q)
  <2>1. CASE Slashed(p) /\ Slashed(q)
    BY <1>1, <1>5, <2>1 DEF SamePath
  <2>2. CASE ~Slashed(p) /\ ~Slashed(q)
    BY <1>2, <1>5, <2>2 DEF SamePath
  <2>3. CASE Slashed(p) /\ ~Slashed(q)
    BY <1>1, <1>2, <1>4, <1>5, <2>3 DEF SamePath
  <2>4. CASE ~Slashed(p) /\ Slashed(q)
    BY <1>1, <1>2, <1>4, <1>5, <2>4 DEF SamePath
  <2> QED BY <2>1, <2>2, <2>3, <2>4
<1>6. ASSUME SamePath(p, q) PROVE BarePath(p) = BarePath(q)
  <2>1. ASSUME NEW x \in Seq(A), NEW y \in Seq(A), Len(x) > 0, Len(y) > 0,
               x = Append(y, Empty), Len(y) = 1 \/ Last(y) # Empty
        PROVE  BarePath(x) = BarePath(y)
    BY <1>2, <1>3, <1>4, <2>1
  <2>2. ASSUME NEW y \in Seq(A) PROVE y # Append(y, Empty)
    <3>1. Len(Append(y, Empty)) = Len(y) + 1 /\ Len(y) \in Nat
      BY Appended
    <3>2. Len(Append(y, Empty)) # Len(y)
      BY <3>1
    <3> QED BY <3>2
  <2>3. CASE p = q
    BY <2>3
  <2>4. CASE p # q
    <3>1. PICK longer \in {p, q}, shorter \in {p, q} : longer = Append(shorter, Empty) /\ (Len(shorter) = 1 \/ Last(shorter) # Empty)
      BY <1>6, <2>4 DEF SamePath
    <3>2. longer \in Seq(A) /\ shorter \in Seq(A) /\ Len(longer) > 0 /\ Len(shorter) > 0
      BY <3>1
    <3>3. BarePath(longer) = BarePath(shorter)
      BY <2>1, <3>1, <3>2
    <3>4. longer # shorter
      <4>1. shorter # Append(shorter, Empty)
        BY <2>2, <3>2
      <4> QED BY <3>1, <4>1
    <3>5. (longer = p /\ shorter = q) \/ (longer = q /\ shorter = p)
      <4> HIDE DEF SamePath
      <4> QED BY <3>4
    <3> QED BY <3>3, <3>5
  <2> QED BY <2>3, <2>4
<1> QED BY <1>5, <1>6

\* How often a URL has a parameter that matters.
LEMMA TimesIs ==
  ASSUME NEW url, url.query \in Seq(NamedPairs)
  PROVE  \A x : Times(url, x) = TimesIn(Written(Kept(url.query)), x)
<1> DEFINE q == url.query
           e == Written(q)
<1>1. q \in Seq(NamedPairs) /\ DOMAIN q = 1..Len(q) /\ \A i \in 1..Len(q) : e[i][1] = q[i][1]
  BY RemainsClear
<1> SUFFICES ASSUME NEW x PROVE Times(url, x) = TimesIn(Written(Kept(q)), x)
  OBVIOUS
<1>2. TimesIn(Written(Kept(q)), x) = TimesAt(e, KeptIn(q), x)
  BY <1>1, RemainsIs
<1>3. Times(url, x) = Cardinality({i \in DOMAIN q : e[i] = x /\ x[1] \notin Droppable})
  BY DEF Times
<1>4. TimesAt(e, KeptIn(q), x) = Cardinality({i \in KeptIn(q) : e[i] = x})
  BY DEF TimesAt
<1> HIDE DEF q, e
<1>5. \A i : i \in KeptIn(q) /\ e[i] = x <=> i \in DOMAIN q /\ e[i] = x /\ x[1] \notin Droppable
  BY <1>1 DEF KeptIn
<1>6. {i \in KeptIn(q) : e[i] = x} = {i \in DOMAIN q : e[i] = x /\ x[1] \notin Droppable}
  BY <1>5
<1> QED BY <1>2, <1>3, <1>4, <1>6

\* Two URLs have one key exactly when they are one page (dedupe_key).
LEMMA KeysAreExact ==
  ASSUME NEW A, Empty \in A, NEW url, NEW other, IsUrl(url), IsUrl(other),
         url.query \in Seq(NamedPairs), other.query \in Seq(NamedPairs),
         url.path \in Seq(A), other.path \in Seq(A), Len(url.path) > 0, Len(other.path) > 0,
         \A i \in 1..Len(url.query) : Clear(Written(url.query)[i]),
         \A i \in 1..Len(other.query) : Clear(Written(other.query)[i])
  PROVE  DedupeKey(Normalize(url)) = DedupeKey(Normalize(other)) <=> SamePage(url, other)
<1> DEFINE q == url.query
           r == other.query
           w == Written(Kept(q))
           u == Written(Kept(r))
<1>1. ASSUME NEW x, IsUrl(x), x.query \in Seq(NamedPairs)
      PROVE  DedupeKey(Normalize(x))
               = [host |-> x.host, path |-> BarePath(x.path), query |-> Spelt(InOrder(Written(Kept(x.query))))]
  <2> DEFINE k == Written(Kept(x.query))
  <2>1. Normalize(x) = [scheme |-> x.scheme, host |-> x.host, port |-> x.port, fragment |-> FALSE, path |-> x.path, query |-> k]
    BY <1>1, NormalizedUrl
  <2>2. Written(k) = k
    BY <1>1, RemainsClear
  <2> HIDE DEF k
  <2>3. Normalize(x).host = x.host /\ Normalize(x).path = x.path /\ Normalize(x).query = k
    BY <2>1
  <2>4. DedupeKey(Normalize(x)) = [host |-> x.host, path |-> BarePath(x.path), query |-> Spelt(InOrder(k))]
    BY <2>2, <2>3 DEF DedupeKey
  <2> QED BY <2>4 DEF k
<1>2. DedupeKey(Normalize(url)) = DedupeKey(Normalize(other))
        <=> url.host = other.host /\ BarePath(url.path) = BarePath(other.path) /\ Spelt(InOrder(w)) = Spelt(InOrder(u))
  <2> DEFINE a == Spelt(InOrder(w))
             b == Spelt(InOrder(u))
  <2>1. /\ DedupeKey(Normalize(url)) = [host |-> url.host, path |-> BarePath(url.path), query |-> a]
        /\ DedupeKey(Normalize(other)) = [host |-> other.host, path |-> BarePath(other.path), query |-> b]
    BY <1>1
  <2> HIDE DEF a, b
  <2>2. ASSUME NEW h, NEW p, NEW s, NEW i, NEW o, NEW t
        PROVE  [host |-> h, path |-> p, query |-> s] = [host |-> i, path |-> o, query |-> t] <=> h = i /\ p = o /\ s = t
    OBVIOUS
  <2>3. DedupeKey(Normalize(url)) = DedupeKey(Normalize(other))
          <=> url.host = other.host /\ BarePath(url.path) = BarePath(other.path) /\ a = b
    BY <2>1, <2>2
  <2> QED BY <2>3 DEF a, b
<1>3. BarePath(url.path) = BarePath(other.path) <=> SamePath(url.path, other.path)
  BY BarePaths
<1>4. w \in Seq(ClearPairs) /\ u \in Seq(ClearPairs)
  BY RemainsClear
<1>5. \A x : Times(url, x) = TimesIn(w, x) /\ Times(other, x) = TimesIn(u, x)
  BY TimesIs
<1> DEFINE Q == ToSet(Written(q)) \cup ToSet(Written(r))
<1>6. Spelt(InOrder(w)) = Spelt(InOrder(u)) <=> \A x \in WordPairs : Times(url, x) = Times(other, x)
  <2> HIDE DEF w, u
  <2>1. Spelt(InOrder(w)) = Spelt(InOrder(u)) <=> \A x \in WordPairs : TimesIn(w, x) = TimesIn(u, x)
    BY <1>4, QueryKeys
  <2> QED BY <1>5, <2>1
<1>7. Q \subseteq WordPairs
  <2>1. ASSUME NEW s \in Seq(NamedPairs), NEW x \in ToSet(Written(s)) PROVE x \in WordPairs
    <3>1. DOMAIN Written(s) = 1..Len(s)
      BY DEF Written
    <3>2. PICK i \in 1..Len(s) : x = Written(s)[i]
      BY <3>1 DEF ToSet
    <3> QED BY <3>2, RemainsClear
  <2>2. (\A x \in ToSet(Written(q)) : x \in WordPairs) /\ (\A x \in ToSet(Written(r)) : x \in WordPairs)
    BY <2>1
  <2> QED BY <2>2
<1>8. ASSUME NEW x \in WordPairs, x \notin Q PROVE Times(url, x) = Times(other, x)
  <2>1. ASSUME NEW v, v.query \in Seq(NamedPairs), x \notin ToSet(Written(v.query)) PROVE Times(v, x) = 0
    <3>1. DOMAIN Written(v.query) = DOMAIN v.query
      BY DEF Written
    <3>2. {i \in DOMAIN v.query : Written(v.query)[i] = x /\ x[1] \notin Droppable} = {}
      BY <2>1, <3>1 DEF ToSet
    <3> QED BY <3>2, FS_EmptySet DEF Times
  <2>2. x \notin ToSet(Written(url.query)) /\ x \notin ToSet(Written(other.query))
    BY <1>8
  <2>3. Times(url, x) = 0 /\ Times(other, x) = 0
    BY <2>1, <2>2
  <2> QED BY <2>3
<1>9. SamePage(url, other)
        <=> url.host = other.host /\ SamePath(url.path, other.path) /\ \A x \in Q : Times(url, x) = Times(other, x)
  BY DEF SamePage, SamePath
<1> HIDE DEF w, u, Q
<1>10. (\A x \in WordPairs : Times(url, x) = Times(other, x)) <=> (\A x \in Q : Times(url, x) = Times(other, x))
  BY <1>7, <1>8
<1> QED BY <1>2, <1>3, <1>6, <1>9, <1>10

\* A URL that is written out settles.
LEMMA UrlSettles ==
  ASSUME NEW url, IsUrl(url), url.query \in Seq(NamedPairs), NEW page
  PROVE  LET kept == {i \in DOMAIN url.query : url.query[i][1] \notin Droppable}
         IN  /\ Normalize(Normalize(url)) = Normalize(url)
             /\ Resolve(page, [kind |-> "url", url |-> Normalize(url)]) = Normalize(url)
             /\ Normalize(url).path = url.path /\ ~Normalize(url).fragment
             /\ Len(Normalize(url).query) = Cardinality(kept)
             /\ \A i \in kept : Normalize(url).query[Cardinality({j \in kept : j <= i})] = Written(url.query)[i]
<1> DEFINE q == url.query
           w == Written(Kept(q))
           fetched == Normalize(url)
           kept == {i \in DOMAIN q : q[i][1] \notin Droppable}
<1>1. kept = KeptIn(q)
  BY DEF KeptIn
<1>2. Normalize(fetched) = fetched
  BY NormalizedStays
<1>3. fetched = [scheme |-> url.scheme, host |-> url.host, port |-> url.port, fragment |-> FALSE,
                 path |-> url.path, query |-> w]
  BY NormalizedUrl
<1>4. Len(w) = Cardinality(KeptIn(q)) /\ \A i \in KeptIn(q) : w[PlaceIn(KeptIn(q), i)] = Written(q)[i]
  BY RemainsIs
<1> HIDE DEF fetched, w, kept, q
<1>5. Resolve(page, [kind |-> "url", url |-> fetched]) = fetched
  BY <1>2 DEF Resolve, Join
<1>6. fetched.path = url.path /\ ~fetched.fragment /\ fetched.query = w
  BY <1>3
<1>7. \A i \in kept : w[Cardinality({j \in kept : j <= i})] = Written(q)[i]
  BY <1>1, <1>4 DEF PlaceIn
<1> QED BY <1>1, <1>2, <1>4, <1>5, <1>6, <1>7 DEF fetched, kept, q

\* Parameters of either of two queries that are clear.
LEMMA BothClear ==
  ASSUME NEW q \in Seq(NamedPairs), NEW r \in Seq(NamedPairs),
         \A pair \in ToSet(Written(q \o r)) : "&" \notin ToSet(Spelling[pair[1]]) /\ {"&", "="} \cap ToSet(Spelling[pair[2]]) = {}
  PROVE  /\ \A i \in 1..Len(q) : Clear(Written(q)[i])
         /\ \A i \in 1..Len(r) : Clear(Written(r)[i])
<1> DEFINE s == q \o r
           out(pair) == <<pair[1], IF pair[2] = NoValue THEN Empty ELSE pair[2]>>
<1>1. /\ Len(s) = Len(q) + Len(r) /\ Len(q) \in Nat /\ Len(r) \in Nat /\ DOMAIN s = 1..(Len(q) + Len(r))
      /\ (\A i \in 1..Len(q) : s[i] = q[i]) /\ \A i \in 1..Len(r) : s[Len(q) + i] = r[i]
      /\ DOMAIN q = 1..Len(q) /\ DOMAIN r = 1..Len(r)
  OBVIOUS
<1>2. /\ DOMAIN Written(s) = DOMAIN s /\ \A i \in DOMAIN s : Written(s)[i] = out(s[i])
      /\ \A i \in DOMAIN q : Written(q)[i] = out(q[i])
      /\ \A i \in DOMAIN r : Written(r)[i] = out(r[i])
  BY DEF Written
<1>3. ASSUME NEW pair \in ToSet(Written(s)) PROVE Clear(pair)
  <2>1. pair \in WordPairs
    <3>1. PICK i \in DOMAIN s : pair = Written(s)[i]
      BY <1>2 DEF ToSet
    <3>2. s \in Seq(NamedPairs)
      OBVIOUS
    <3>3. \A k \in 1..Len(s) : Written(s)[k] \in WordPairs
      BY <3>2, RemainsClear
    <3> QED BY <1>1, <3>1, <3>3
  <2> DEFINE name == Spelling[pair[1]]
             value == Spelling[pair[2]]
  <2>2. name \in Seq(STRING) /\ value \in Seq(STRING)
    BY <2>1, SpellingAssumption DEF WordPairs
  <2>3. "&" \notin ToSet(name) /\ {"&", "="} \cap ToSet(value) = {}
    OBVIOUS
  <2> HIDE DEF name, value
  <2>4. DOMAIN name = 1..Len(name) /\ DOMAIN value = 1..Len(value)
    BY <2>2
  <2>5. /\ \A i \in 1..Len(name) : name[i] \in ToSet(name)
        /\ \A i \in 1..Len(value) : value[i] \in ToSet(value)
    BY <2>4 DEF ToSet
  <2>6. /\ \A i \in 1..Len(name) : name[i] # "&"
        /\ \A i \in 1..Len(value) : value[i] # "&" /\ value[i] # "="
    BY <2>3, <2>5
  <2> QED BY <2>6 DEF Clear, Without, name, value
<1> HIDE DEF s, out
<1>4. ASSUME NEW i \in DOMAIN s PROVE Clear(out(s[i]))
  <2>1. Written(s)[i] \in ToSet(Written(s))
    BY <1>2 DEF ToSet
  <2> QED BY <1>2, <1>3, <2>1
<1>5. ASSUME NEW i \in 1..Len(q) PROVE Clear(Written(q)[i])
  <2>1. i \in DOMAIN s /\ s[i] = q[i]
    BY <1>1
  <2> QED BY <1>1, <1>2, <1>4, <2>1
<1>6. ASSUME NEW i \in 1..Len(r) PROVE Clear(Written(r)[i])
  <2>1. Len(q) + i \in DOMAIN s /\ s[Len(q) + i] = r[i]
    BY <1>1
  <2>2. Clear(out(s[Len(q) + i]))
    BY <1>4, <2>1
  <2> QED BY <1>1, <1>2, <2>1, <2>2
<1> QED BY <1>5, <1>6

-----------------------------------------------------------------------------
(* The theorems *)

\* A thing is made of the parts of its kind, a document of nodes that are each
\* below an earlier one.
ContentTypeOK ==
  /\ thing = [kind |-> thing.kind, parts |-> thing.parts] /\ thing.kind \in Kinds
  /\ thing.kind # "document" => thing.parts \in Seq(Parts[thing.kind])
  /\ thing.kind = "document" => IsDocument(thing.parts)

\* A node below an earlier one, or a body to begin with, leaves it a document.
LEMMA NodeIsAdded ==
  ASSUME NEW dom, IsDocument(dom), NEW node \in DocumentNodes,
         node.parent \in 0..Len(dom), node.words \in Nat,
         dom = <<>> => node = Body
  PROVE  IsDocument(Append(dom, node))
<1> DEFINE n == Len(dom)
           x == Append(dom, node)
<1>1. n \in Nat /\ dom \in Seq(DocumentNodes)
  BY DEF IsDocument
<1>2. x \in Seq(DocumentNodes) /\ Len(x) = n + 1 /\ x[n + 1] = node /\ \A i \in 1..n : x[i] = dom[i]
  BY <1>1, Appended
<1>3. ASSUME NEW i \in 1..(n + 1) PROVE x[i].parent \in 0..(i - 1) /\ x[i].words \in Nat
  <2>1. CASE i \in 1..n
    BY <1>2, <2>1 DEF IsDocument
  <2>2. CASE i = n + 1
    BY <1>1, <1>2, <2>2
  <2> QED BY <1>1, <2>1, <2>2
<1>4. x[1].kind = "other" /\ x[1].marked = FALSE
  <2>1. CASE dom = <<>>
    BY <1>2, <2>1 DEF Body
  <2>2. CASE dom # <<>>
    <3>1. 1 \in 1..n
      BY <1>1, <2>2
    <3> QED BY <1>2, <2>2, <3>1 DEF IsDocument
  <2> QED BY <2>1, <2>2
<1> HIDE DEF x
<1> QED BY <1>2, <1>3, <1>4 DEF IsDocument, x

\* Nothing has parts of no sort.
LEMMA NothingSifted ==
  ASSUME NEW some \in Seq({}), NEW is
  PROVE  OfSort(some, is) = <<>>
<1>1. Len(some) = 0 /\ 0 \in 0..0
  OBVIOUS
<1>2. PICK v \in [0..Len(some) -> Seq(PartsOf({}, is))] : v[0] = <<>> /\ OfSort(some, is) = v[Len(some)]
  BY SiftWalk
<1> QED BY <1>1, <1>2

\* A node has a number of words.
LEMMA NodesHaveWords == \A node \in Parts["document"] : node.words \in Nat
BY ContentAssumption

\* Building adds such parts only.
THEOREM ContentTypes == Spec => []ContentTypeOK
<1>1. ASSUME Init PROVE ContentTypeOK
  <2>1. thing.kind \in Kinds /\ thing.parts = <<>> /\ thing = [kind |-> thing.kind, parts |-> thing.parts]
    BY <1>1 DEF Init
  <2>2. IsDocument(<<>>)
    BY DEF IsDocument
  <2> QED BY <2>1, <2>2 DEF ContentTypeOK
<1>2. ASSUME ContentTypeOK, [Next]_thing PROVE ContentTypeOK'
  <2>1. CASE AddPart
    <3>1. PICK part \in Parts[thing.kind] : thing' = [thing EXCEPT !.parts = Append(@, part)]
      BY <2>1 DEF AddPart, Extend
    <3>2. thing.kind # "document"
      BY <2>1 DEF AddPart
    <3>3. thing' = [kind |-> thing.kind, parts |-> Append(thing.parts, part)]
      BY <1>2, <3>1 DEF ContentTypeOK
    <3>4. thing.parts \in Seq(Parts[thing.kind])
      BY <1>2, <3>2 DEF ContentTypeOK
    <3>5. Append(thing.parts, part) \in Seq(Parts[thing.kind])
      <4> DEFINE P == Parts[thing.kind]
      <4>1. part \in P /\ thing.parts \in Seq(P)
        BY <3>4
      <4> HIDE DEF P
      <4>2. Append(thing.parts, part) \in Seq(P)
        BY <4>1
      <4> QED BY <4>2 DEF P
    <3> QED BY <1>2, <3>2, <3>3, <3>5 DEF ContentTypeOK
  <2>2. CASE AddNode
    <3> DEFINE dom == thing.parts
               Below(p, node) == [parent |-> p, kind |-> node.kind, marked |-> node.marked, words |-> node.words]
    <3>1. thing.kind = "document" /\ IsDocument(dom)
      BY <1>2, <2>2 DEF AddNode, ContentTypeOK
    <3>2. ASSUME NEW node, thing' = [thing EXCEPT !.parts = Append(@, node)], IsDocument(Append(dom, node))
          PROVE  ContentTypeOK'
      <4>1. thing' = [kind |-> thing.kind, parts |-> Append(dom, node)]
        BY <1>2, <3>2 DEF ContentTypeOK
      <4> QED BY <1>2, <3>1, <3>2, <4>1 DEF ContentTypeOK
    <3>3. CASE dom = <<>> /\ Extend(Body)
      <4>1. Body \in DocumentNodes /\ Body.parent = 0 /\ Body.words = 0
        BY DEF DocumentNodes, Body
      <4>2. IsDocument(Append(dom, Body))
        <5>1. 0 \in 0..Len(dom)
          BY <3>3
        <5> HIDE DEF dom
        <5> QED BY <3>1, <4>1, <5>1, NodeIsAdded
      <4> QED BY <3>2, <3>3, <4>2 DEF Extend
    <3>4. CASE \E node \in Parts["document"],
                  p \in {Len(dom)} \cup (IF dom = <<>> THEN {} ELSE Above(dom, Len(dom))) :
                 p # 0 /\ Extend(Below(p, node))
      <4>1. PICK node \in Parts["document"], p \in {Len(dom)} \cup (IF dom = <<>> THEN {} ELSE Above(dom, Len(dom))) :
              p # 0 /\ Extend(Below(p, node))
        BY <3>4
      <4>2. Len(dom) \in Nat /\ (dom # <<>> => Len(dom) \in 1..Len(dom)) /\ (dom = <<>> => Len(dom) = 0)
        BY <3>1 DEF IsDocument
      <4>3. \A m \in Above(dom, Len(dom)) : dom # <<>> => m \in 1..(Len(dom) - 1)
        BY <3>1, <4>2, AboveIs
      <4>4. p \in 0..Len(dom) /\ dom # <<>>
        BY <4>1, <4>2, <4>3
      <4>5. node.words \in Nat
        BY NodesHaveWords
      <4>6. Below(p, node) \in DocumentNodes
        BY <4>4 DEF DocumentNodes
      <4>7. Below(p, node).parent = p /\ Below(p, node).words = node.words
        OBVIOUS
      <4>8. thing' = [thing EXCEPT !.parts = Append(@, Below(p, node))]
        BY <4>1 DEF Extend
      <4> HIDE DEF Below, dom
      <4>9. IsDocument(Append(dom, Below(p, node)))
        BY <3>1, <4>4, <4>5, <4>6, <4>7, NodeIsAdded
      <4> QED BY <3>2, <4>8, <4>9
    <3> QED BY <2>2, <3>3, <3>4 DEF AddNode, Body
  <2>3. CASE UNCHANGED thing
    BY <1>2, <2>3 DEF ContentTypeOK
  <2> QED BY <1>2, <2>1, <2>2, <2>3 DEF Next
<1> QED BY <1>1, <1>2, PTL DEF Spec

\* Signs are what paths and patterns are made of.
LEMMA SignsHold ==
  /\ \A s \in Seq(STRING) : s \in Seq(Signs)
  /\ \A S \in SUBSET STRING : \A s \in Seq(S) : s \in Seq(Signs)
  /\ <<"/">> \in Seq(Signs) /\ <<"/", "a">> \in Seq(Signs) /\ <<"/", "b">> \in Seq(Signs)
<1>1. \A s \in Seq(STRING) : s \in Seq(Signs)
  BY DEF Signs
<1>2. ASSUME NEW S \in SUBSET STRING, NEW s \in Seq(S) PROVE s \in Seq(Signs)
  <2>1. S \subseteq Signs
    BY DEF Signs
  <2> QED BY <2>1, SeqOfMore
<1>3. "/" \in Signs /\ "a" \in Signs /\ "b" \in Signs
  BY DEF Signs
<1>4. <<"/">> \in Seq(Signs) /\ <<"/", "a">> \in Seq(Signs) /\ <<"/", "b">> \in Seq(Signs)
  BY <1>3
<1> QED BY <1>1, <1>2, <1>4

\* The lines of a file, as the invariants and as the lemmas call them.
LEMMA LinesAre ==
  ASSUME NEW L, parts \in Seq(L)
  PROVE  /\ AgentLines = Naming(parts) /\ RuleLines = Ruling(parts) /\ EndingLines = Ruling(parts) \cup Delaying(parts)
         /\ Ours = OursOf(parts)
         /\ \A i, j : Heads(i, j) <=> Leads(parts, i, j)
<1>1. DOMAIN parts = 1..Len(parts)
  OBVIOUS
<1>2. AgentLines = Naming(parts) /\ RuleLines = Ruling(parts) /\ EndingLines = Ruling(parts) \cup Delaying(parts)
  BY <1>1 DEF AgentLines, RuleLines, EndingLines, Naming, Ruling, Delaying, IsRule
<1>3. Named = Speakers(parts)
  BY <1>2 DEF Named, Speakers
<1>4. \A i : Weight(i) = Rank(parts, i)
  BY DEF Weight, Rank
<1>5. Ours = OursOf(parts)
  BY <1>3, <1>4 DEF Ours, OursOf
<1>6. ASSUME NEW i, NEW j PROVE Heads(i, j) <=> Leads(parts, i, j)
  BY <1>2 DEF Heads, Leads
<1> QED BY <1>2, <1>5, <1>6

\* A file of lines is obeyed as it is written, rules and delay.
LEMMA FilesAreObeyed ==
  ASSUME NEW L, \A line \in L : IsLine(line), parts \in Seq(L), MaxDelay \in Nat
  PROVE  RobotsAsWritten /\ DelayIsOurs
<1>1. /\ RuleLines = Ruling(parts) /\ Ours = OursOf(parts)
      /\ \A i, j : Heads(i, j) <=> Leads(parts, i, j)
  BY LinesAre
<1>2. ASSUME NEW path PROVE Longest(path) = LongestOf(parts, Applying(parts, path))
  <2>1. ASSUME NEW j PROVE j \in Matching(path) <=> j \in Applying(parts, path)
    BY <1>1 DEF Matching, Applying
  <2>2. Matching(path) = Applying(parts, path)
    BY <2>1 DEF Matching, Applying
  <2> QED BY <2>2 DEF Longest, LongestOf
<1>3. ASSUME NEW path \in {<<"/">>, <<"/", "a">>, <<"/", "b">>}
      PROVE  Permits([kind |-> "page"], parts, path) <=> Longest(path) = {} \/ \E j \in Longest(path) : parts[j].field = "allow"
  <2>1. path \in Seq(Signs)
    BY SignsHold
  <2>2. Permits([kind |-> "page"], parts, path) <=> Allows(Parse(parts), path)
    BY DEF Permits, Classify
  <2>3. Allows(Parse(parts), path)
           <=> \/ LongestOf(parts, Applying(parts, path)) = {}
               \/ \E j \in LongestOf(parts, Applying(parts, path)) : parts[j].field = "allow"
    BY <2>1, LongestDecides
  <2> QED BY <1>2, <2>2, <2>3
<1>4. RobotsAsWritten
  BY <1>3 DEF RobotsAsWritten
<1>5. DelayIsOurs
  <2>1. DOMAIN parts = 1..Len(parts)
    OBVIOUS
  <2>2. DelayLines = Asked(parts)
    BY <1>1, <2>1 DEF DelayLines, Asked, Pausing, Delaying
  <2>3. CrawlDelay(Parse(parts)) = {AtMost(parts[j].seconds, MaxDelay) : j \in {j \in Asked(parts) : \A k \in Asked(parts) : k <= j}}
    BY LastDelayHolds
  <2> QED BY <2>2, <2>3 DEF DelayIsOurs
<1> QED BY <1>4, <1>5

\* A pattern matches the paths it can stand for, whatever its signs.
LEMMA PatternsMatch ==
  ASSUME parts \in Seq(Signs)
  PROVE  GlobIsMatch
<1> SUFFICES ASSUME NEW path \in UpTo({"/", "a"}, 4) PROVE GlobMatch(parts, path) <=> Stands(parts, path)
  BY DEF GlobIsMatch
<1>1. PICK k \in 0..4 : path \in [1..k -> {"/", "a"}]
  BY DEF UpTo
<1>2. {"/", "a"} \subseteq Signs
  BY DEF Signs
<1>3. path \in Seq(Signs)
  <2>1. k \in Nat /\ path \in [1..k -> Signs]
    BY <1>1, <1>2
  <2> QED BY <2>1
<1> QED BY <1>3, GlobMatchIs

\* What is made of an answer: a page is the whole of it, and permission is
\* given by the whole of a file or by a server that has none.
LEMMA AnswersAreRead ==
  ASSUME NEW P, parts \in Seq(P), MaxBytes \in Nat, MaxDelay \in Nat,
         \A part \in P : part.is = "chunk" =>
           IsChunk(part) /\ part.line.field = "disallow" /\ IsLine(part.line),
         NEW answer \in Answers
  PROVE  BodyIsWhole(answer, Get(answer)) /\ PermissionIsGiven(answer, Get(answer))
<1> DEFINE outcome == Get(answer)
           Q == PartsOf(P, "chunk")
           read == FoldLeft(Arrive, NothingRead, answer.chunks)
<1>1. /\ answer.chunks = Those("chunk") /\ answer.headers = Those("header")
      /\ answer.sent \in {"timeout", "yes"} /\ answer.status \in Int
  BY DEF Answers, AnswerOf
<1>2. Those("chunk") = OfSort(parts, "chunk") /\ Those("header") = OfSort(parts, "header")
  BY DEF Those
<1>3. answer.chunks \in Seq(Q) /\ answer.headers \in Seq(PartsOf(P, "header"))
  BY <1>1, <1>2, OfSortAre
<1>4. \A part \in Q : IsChunk(part) /\ part.line.field = "disallow" /\ IsLine(part.line)
  BY DEF PartsOf
<1> HIDE DEF Q
<1>5. /\ read \in Received(Q)
      /\ read.failed = "no" => read.body = answer.chunks /\ Weighs(answer.chunks) <= MaxBytes
      /\ read.failed = "too_large" => Weighs(answer.chunks) > MaxBytes
  BY <1>3, <1>4, WholeIsRead
<1>6. ReadCapped(answer) = read
  BY DEF ReadCapped
<1> HIDE DEF read, outcome
<1>7. read.failed \in {"no", "timeout", "transport", "too_large"}
  BY <1>5 DEF Received
<1>8. /\ outcome.kind = "page" => answer.sent = "yes" /\ answer.status \in 200..299 /\ read.failed = "no" /\ outcome.body = read.body
      /\ outcome.kind = "too_large" =>
           \/ read.failed = "too_large"
           \/ \E header \in FirstHeader(answer, "content-length") : header.number > MaxBytes
      /\ outcome.kind = "status" => answer.sent = "yes" /\ outcome.status = answer.status
  <2>1. CASE answer.sent # "yes"
    BY <1>1, <2>1 DEF Get, outcome
  <2>2. CASE answer.sent = "yes" /\ answer.status \in 300..399
    <3>0. answer.status \in 200..399 /\ answer.status \notin 200..299
      <4> DEFINE c == answer.status
      <4>1. c \in 300..399
        BY <2>2
      <4> HIDE DEF c
      <4>2. c \in 200..399 /\ c \notin 200..299
        BY <4>1
      <4> QED BY <4>2 DEF c
    <3>1. outcome = IF \E header \in FirstHeader(answer, "location") : header.value \notin Malformed
                    THEN [kind |-> "redirect", to |-> FirstHeader(answer, "location")]
                    ELSE [kind |-> "bad_redirect"]
      BY <2>2, <3>0 DEF Get, outcome
    <3> QED BY <3>1
  <2>3. CASE answer.sent = "yes" /\ answer.status \notin 200..399
    <3>0. answer.status \notin 300..399 /\ answer.status \notin 200..299
      BY <1>1, <2>3
    <3>1. outcome = [kind |-> "status", status |-> answer.status]
      BY <2>3, <3>0 DEF Get, outcome
    <3> QED BY <2>3, <3>1
  <2>4. CASE answer.sent = "yes" /\ answer.status \in 200..299
    <3>1. outcome = IF ~IsParseable(answer) THEN [kind |-> "not_parseable"]
                    ELSE IF \E header \in FirstHeader(answer, "content-length") : header.number > MaxBytes THEN [kind |-> "too_large"]
                    ELSE IF read.failed # "no" THEN [kind |-> read.failed]
                    ELSE [kind |-> "page", body |-> read.body]
      BY <1>6, <2>4 DEF Get, outcome
    <3> QED BY <1>7, <2>4, <3>1
  <2>5. answer.status \in 200..399 => answer.status \in 200..299 \/ answer.status \in 300..399
    BY <1>1
  <2> QED BY <2>1, <2>2, <2>3, <2>4, <2>5
<1>9. BodyIsWhole(answer, outcome)
  <2>1. FirstHeader(answer, "content-length") \subseteq {header \in ToSet(answer.headers) : header.name = "content-length"}
    BY DEF FirstHeader, ToSet
  <2> QED BY <1>5, <1>8, <2>1 DEF BodyIsWhole
<1>10. ASSUME NEW path \in {<<"/">>, <<"/", "a">>},
              Permits(outcome, FileOf(IF outcome.kind = "page" THEN outcome.body ELSE <<>>), path)
       PROVE  \/ /\ answer.sent = "yes" /\ answer.status \in 200..299
                 /\ ~\E chunk \in ToSet(answer.chunks) : chunk.line.value # <<>> /\ Stands(chunk.line.value, path)
              \/ answer.sent = "yes" /\ answer.status \in 400..499 \ {401, 403}
  <2>1. CASE outcome.kind = "page"
    <3>1. answer.sent = "yes" /\ answer.status \in 200..299 /\ outcome.body = answer.chunks
      BY <1>5, <1>8, <2>1
    <3>2. Allows(Parse(FileOf(answer.chunks)), path)
      BY <1>10, <2>1, <3>1 DEF Permits, Classify
    <3>3. path \in Seq(Signs)
      BY SignsHold
    <3>4. \A chunk \in ToSet(answer.chunks) : chunk.line.value # <<>> => ~Stands(chunk.line.value, path)
      BY <1>3, <1>4, <3>2, <3>3, AskedIsKept
    <3> QED BY <3>1, <3>4
  <2>2. CASE outcome.kind = "status"
    <3>1. answer.sent = "yes" /\ outcome.status = answer.status
      BY <1>8, <2>2
    <3>2. Classify(outcome) = "missing"
      BY <1>10, <2>2 DEF Permits, Classify
    <3>3. outcome.status \in 400..499 /\ outcome.status \notin {401, 403}
      BY <2>2, <3>2 DEF Classify
    <3> QED BY <3>1, <3>3
  <2>3. CASE outcome.kind # "page" /\ outcome.kind # "status"
    <3>1. Classify(outcome) = "unavailable"
      BY <2>3 DEF Classify
    <3> QED BY <1>10, <3>1 DEF Permits
  <2> QED BY <2>1, <2>2, <2>3
<1>11. PermissionIsGiven(answer, outcome)
  BY <1>10 DEF PermissionIsGiven
<1> QED BY <1>9, <1>11 DEF outcome

\* A crawler goes only where a robots.txt that arrived whole, read as it is
\* written, lets it go, and as slowly as it asks: for files, patterns and
\* answers of any length, of any signs and any agents.
THEOREM RobotsHonoured == Spec => []RobotsAreHonoured
<1>1. ASSUME ContentTypeOK PROVE RobotsAreHonoured
  <2>1. thing.kind \in Kinds /\ (thing.kind # "document" => parts \in Seq(Parts[thing.kind]))
    BY <1>1 DEF ContentTypeOK, parts
  <2>2. /\ MaxBytes \in Nat /\ MaxDelay \in Nat /\ Parts["pattern"] \subseteq STRING
        /\ \A line \in Parts["robots"] : line.value \in Seq(STRING) /\ line.seconds \in Int
        /\ \A part \in Parts["answer"] : part.is = "chunk" =>
             /\ part.bytes \in Nat /\ part.failed \in {"no", "timeout", "transport"}
             /\ part.line.field = "disallow" /\ part.line.value \in Seq(STRING) /\ part.line.seconds \in Int
    BY ContentAssumption
  <2>3. Made("answer") => \A answer \in Answers :
          LET outcome == Get(answer) IN BodyIsWhole(answer, outcome) /\ PermissionIsGiven(answer, outcome)
    <3> SUFFICES ASSUME thing.kind = "answer", NEW answer \in Answers
                 PROVE  BodyIsWhole(answer, Get(answer)) /\ PermissionIsGiven(answer, Get(answer))
      BY DEF Made
    <3>1. parts \in Seq(Parts["answer"])
      BY <2>1
    <3>2. \A part \in Parts["answer"] : part.is = "chunk" =>
            IsChunk(part) /\ part.line.field = "disallow" /\ IsLine(part.line)
      BY <2>2, SignsHold DEF IsChunk, IsLine
    <3> QED BY <2>2, <3>1, <3>2, AnswersAreRead
  <2>4. RobotsAsWritten /\ DelayIsOurs
    <3>1. CASE thing.kind = "robots"
      <4>1. parts \in Seq(Parts["robots"])
        BY <2>1, <3>1
      <4>2. \A line \in Parts["robots"] : IsLine(line)
        BY <2>2, SignsHold DEF IsLine
      <4> QED BY <2>2, <4>1, <4>2, FilesAreObeyed
    <3>2. CASE thing.kind # "robots"
      BY <3>2 DEF RobotsAsWritten, DelayIsOurs, Made
    <3> QED BY <3>1, <3>2
  <2>5. GlobIsMatch
    <3>1. CASE thing.kind = "pattern"
      <4>1. parts \in Seq(Parts["pattern"])
        BY <2>1, <3>1
      <4>2. parts \in Seq(Signs)
        BY <2>2, <4>1, SignsHold
      <4> QED BY <4>2, PatternsMatch
    <3>2. CASE thing.kind # "pattern"
      BY <3>2 DEF GlobIsMatch, Made
    <3> QED BY <3>1, <3>2
  <2> QED BY <2>3, <2>4, <2>5 DEF RobotsAreHonoured
<1> QED BY <1>1, ContentTypes, PTL

\* A score rises with what matches and falls with what does not, stays below
\* what the rarity of its term is worth, and is the same in the phase that
\* ranks every candidate as in the one that explains the few that are left:
\* for documents of any length, any weights and any number of fields.
THEOREM ScoresSound == Spec => []ScoresAreSound
<1>1. ASSUME ContentTypeOK PROVE ScoresAreSound
  <2>1. thing.kind # "document" => parts \in Seq(Parts[thing.kind])
    BY <1>1 DEF ContentTypeOK, parts
  <2>2. Made("tokens") => parts \in Seq(Parts["tokens"])
    BY <2>1 DEF Made
  <2> QED BY <2>2, ScoresSoundFor
<1> QED BY <1>1, ContentTypes, PTL

\* What the evaluation harness reports is fair: a file of judgments is read as it
\* is written or refused, a page's gain is at most that of the best page there
\* could be and reaches it only by the grades of that page, a page counts as
\* judged under either of its URLs, and a comparison does not care which of the
\* two is the baseline: for files, pages and comparisons of any length.
THEOREM MeasuresFair == Spec => []MeasuresAreFair
<1>1. ASSUME ContentTypeOK PROVE MeasuresAreFair
  <2>1. thing.kind # "document" => parts \in Seq(Parts[thing.kind])
    BY <1>1 DEF ContentTypeOK, parts
  <2>2. \A kind \in {"judgments", "hits", "pairs"} : Made(kind) => parts \in Seq(Parts[kind])
    BY <2>1 DEF Made
  <2> QED BY <2>2, MeasuresFairFor
<1> QED BY <1>1, ContentTypes, PTL

\* A page is read as its author wrote it: each link once, as it will be fetched
\* and with its first anchor's word on it, of the directives the last on each
\* matter, the text without the furniture around it, and a link density that
\* is a share: for any anchors, any directives and documents of any size.
THEOREM PagesRead == Spec => []PagesReadAsWritten
<1>1. ASSUME ContentTypeOK PROVE PagesReadAsWritten
  <2>1. thing.kind # "document" => parts \in Seq(Parts[thing.kind])
    BY <1>1 DEF ContentTypeOK, parts
  <2>2. CASE thing.kind = "links"
    <3> DEFINE page == UrlOf(<<>>, Plainly)
    <3>1. parts \in Seq(Parts["links"]) /\ \A a \in Parts["links"] : a.href.kind = "url" => IsUrl(a.href.url)
      BY <2>1, <2>2, ContentAssumption
    <3>2. IsUrl(page)
      <4>1. <<>> \in Seq({})
        OBVIOUS
      <4>2. OfSort(<<>>, "segment") = <<>> /\ OfSort(<<>>, "pair") = <<>>
        BY <4>1, NothingSifted
      <4>3. \A s \in Seq({}) : s = <<>> => [i \in DOMAIN s |-> <<s[i].name, s[i].value>>] = <<>>
        OBVIOUS
      <4>4. page = [scheme |-> "http", host |-> "h", port |-> NoPort, fragment |-> FALSE, path |-> <<Empty>>, query |-> <<>>]
        BY <4>1, <4>2, <4>3 DEF UrlOf, Plainly
      <4> HIDE DEF page
      <4> QED BY <4>4 DEF IsUrl
    <3> HIDE DEF page
    <3>3. LinksOnce(LinksOf(page, parts), page)
      BY <3>1, <3>2, LinksAreOnce
    <3> QED BY <2>2, <3>3 DEF PagesReadAsWritten, Made, CutStaysOut, DensityIsShare, page
  <2>3. CASE thing.kind = "directives"
    <3>1. parts \in Seq(Parts["directives"]) /\ \A part \in Parts["directives"] : part.words \in Seq(AllWords)
      BY <2>1, <2>3, ContentAssumption DEF AllWords
    <3>2. DirectivesAreLast(Said)
      BY <3>1, LastWordHolds
    <3> QED BY <2>3, <3>2 DEF PagesReadAsWritten, Made, CutStaysOut, DensityIsShare
  <2>4. CASE thing.kind = "document"
    <3>1. IsDocument(parts) /\ TagCost \in Nat
      BY <1>1, <2>4, ContentAssumption DEF ContentTypeOK, parts
    <3>2. CutStaysOut /\ DensityIsShare
      BY <3>1, DocumentsAreRead
    <3> QED BY <2>4, <3>2 DEF PagesReadAsWritten, Made
  <2>5. CASE thing.kind \notin {"links", "directives", "document"}
    BY <2>5 DEF PagesReadAsWritten, Made, CutStaysOut, DensityIsShare
  <2> QED BY <2>2, <2>3, <2>4, <2>5
<1> QED BY <1>1, ContentTypes, PTL

\* A page has one key: what is fetched settles, differs from what was written
\* by nothing that matters and is fetched once more as it stands; two URLs have
\* the same key just when they are one page, unless a name has an "&" or a
\* value an "&" or a "=" of its own; and a path with a segment too often is
\* refused: for any parts, any number of them and any spelling.
THEOREM PagesKeyed == Spec => []PagesHaveOneKey
<1>1. ASSUME ContentTypeOK PROVE PagesHaveOneKey
  <2>1. CASE thing.kind = "url"
    <3>1. parts \in Seq(Parts["url"])
      BY <1>1, <2>1 DEF ContentTypeOK, parts
    <3>2. NormalizeSettles
      <4> DEFINE url == UrlOf(parts, [Plainly EXCEPT !.fragment = TRUE])
                 page == UrlOf(<<>>, Plainly)
      <4>1. IsUrl(url) /\ url.query \in Seq(NamedPairs)
        BY <3>1, UrlIs
      <4> HIDE DEF url, page
      <4> DEFINE kept == {i \in DOMAIN url.query : url.query[i][1] \notin Droppable}
      <4>2. /\ Normalize(Normalize(url)) = Normalize(url)
            /\ Resolve(page, [kind |-> "url", url |-> Normalize(url)]) = Normalize(url)
            /\ Normalize(url).path = url.path /\ ~Normalize(url).fragment
            /\ Len(Normalize(url).query) = Cardinality(kept)
            /\ \A i \in kept : Normalize(url).query[Cardinality({j \in kept : j <= i})] = Written(url.query)[i]
        BY <4>1, UrlSettles
      <4> QED BY <4>2 DEF NormalizeSettles, url, page
    <3>3. KeyExact
      <4> DEFINE url == UrlOf(parts, Plainly)
      <4>1. IsUrl(url) /\ url.query \in Seq(NamedPairs) /\ url.path \in Seq(PathNames) /\ Len(url.path) > 0
        BY <3>1, UrlIs
      <4>2. Empty \in PathNames
        BY DEF PathNames
      <4> HIDE DEF url
      <4>3. ASSUME NEW some \in UpTo(Parts["url"], 2), NEW rest \in Otherwise,
                   \A pair \in ToSet(Written(url.query \o UrlOf(some, rest).query)) :
                     "&" \notin ToSet(Spelling[pair[1]]) /\ {"&", "="} \cap ToSet(Spelling[pair[2]]) = {}
            PROVE  DedupeKey(Normalize(url)) = DedupeKey(Normalize(UrlOf(some, rest))) <=> SamePage(url, UrlOf(some, rest))
        <5> DEFINE other == UrlOf(some, rest)
        <5>1. some \in Seq(Parts["url"])
          <6> DEFINE P == Parts["url"]
          <6>1. PICK n \in 0..2 : some \in [1..n -> P]
            BY DEF UpTo
          <6> HIDE DEF P
          <6>2. some \in Seq(P)
            BY <6>1
          <6> QED BY <6>2 DEF P
        <5>2. IsUrl(other) /\ other.query \in Seq(NamedPairs) /\ other.path \in Seq(PathNames) /\ Len(other.path) > 0
          BY <5>1, UrlIs
        <5>3. \A pair \in ToSet(Written(url.query \o other.query)) :
                "&" \notin ToSet(Spelling[pair[1]]) /\ {"&", "="} \cap ToSet(Spelling[pair[2]]) = {}
          BY <4>3
        <5> HIDE DEF other
        <5>4. /\ \A i \in 1..Len(url.query) : Clear(Written(url.query)[i])
              /\ \A i \in 1..Len(other.query) : Clear(Written(other.query)[i])
          BY <4>1, <5>2, <5>3, BothClear
        <5>5. DedupeKey(Normalize(url)) = DedupeKey(Normalize(other)) <=> SamePage(url, other)
          BY <4>1, <4>2, <5>2, <5>4, KeysAreExact
        <5> QED BY <5>5 DEF other
      <4> QED BY <4>3 DEF KeyExact, url
    <3>4. LoopsAreCaught
      <4> DEFINE url == UrlOf(parts, Plainly)
      <4>1. url.path \in Seq(PathNames)
        BY <3>1, UrlIs
      <4> HIDE DEF url
      <4>2. ASSUME NEW i \in DOMAIN url.path, url.path[i] \notin OneLetter \cup {Empty},
                   Cardinality({j \in DOMAIN url.path : url.path[j] = url.path[i]}) > MaxSegmentRepeats
            PROVE  Trap(url) # "ok"
        <5>1. Repeating(Segments(url))
          BY <4>1, <4>2, LoopsRepeat
        <5> QED BY <5>1, RepeatingIsTrapped
      <4> QED BY <4>2 DEF LoopsAreCaught, url
    <3> QED BY <3>2, <3>3, <3>4 DEF PagesHaveOneKey
  <2>2. CASE thing.kind # "url"
    BY <2>2 DEF PagesHaveOneKey, NormalizeSettles, KeyExact, LoopsAreCaught, Made
  <2> QED BY <2>1, <2>2
<1> QED BY <1>1, ContentTypes, PTL

=============================================================================
