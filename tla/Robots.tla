------------------------------- MODULE Robots -------------------------------
(***************************************************************************)
(* robots.txt: what a file says to a crawler (robots.rs), and what a fetch *)
(* of the file amounts to (crawler.rs, fetch_robots).  A file is a         *)
(* sequence of lines [field, value, seconds]; comments, blank lines and    *)
(* lines without a colon are left out.  Agents and paths are sequences of  *)
(* letters; in a pattern, Star matches anything and End, in the last       *)
(* place, the end of the path.                                             *)
(***************************************************************************)
EXTENDS Integers, SequencesExt

CONSTANTS Token,      \* the product token of this crawler
          MaxDelay    \* seconds a Crawl-delay is cut to (3600)

Star == "*"
End  == "$"
NoDelay == -1

Group(agents) == [agents |-> agents, rules |-> <<>>, delay |-> NoDelay]

------------------------------------------------------------------------------
(***************************************************************************)
(* Reading the file.                                                       *)
(***************************************************************************)
Unread == [groups |-> <<>>, collecting |-> FALSE]

ToLast(groups, Change(_)) ==
  IF groups = <<>> THEN groups ELSE [groups EXCEPT ![Len(groups)] = Change(@)]

ReadAgent(file, agent) ==
  LET opened == IF file.collecting /\ file.groups # <<>> THEN file.groups
                ELSE Append(file.groups, Group(<<>>))
  IN  [groups |-> ToLast(opened, LAMBDA g : [g EXCEPT !.agents = Append(@, agent)]),
       collecting |-> TRUE]

\* A rule before any agent is for everyone; an empty Disallow is no rule, but
\* it ends a run of agents like any other.
ReadRule(file, allow, pattern) ==
  LET opened == IF file.groups = <<>> THEN <<Group(<< <<Star>> >>)>> ELSE file.groups
      rule   == [allow |-> allow, pattern |-> pattern]
  IN  [groups |-> IF ~allow /\ pattern = <<>> THEN opened
                  ELSE ToLast(opened, LAMBDA g : [g EXCEPT !.rules = Append(@, rule)]),
       collecting |-> FALSE]

\* A value that is not a number of seconds is ignored.
ReadDelay(file, seconds) ==
  [groups |-> IF seconds < 0 THEN file.groups
              ELSE ToLast(file.groups, LAMBDA g : [g EXCEPT !.delay = IF seconds > MaxDelay THEN MaxDelay ELSE seconds]),
   collecting |-> FALSE]

ReadLine(file, line) ==
  CASE line.field = "user-agent"  -> ReadAgent(file, line.value)
    [] line.field = "allow"       -> ReadRule(file, TRUE, line.value)
    [] line.field = "disallow"    -> ReadRule(file, FALSE, line.value)
    [] line.field = "crawl-delay" -> ReadDelay(file, line.seconds)
    [] OTHER                      -> file

Parse(lines) == FoldLeft(ReadLine, Unread, lines).groups

------------------------------------------------------------------------------
(***************************************************************************)
(* Matching a path.                                                        *)
(***************************************************************************)
Pieces(pattern) ==
  FoldLeft(LAMBDA pieces, c : IF c = Star THEN Append(pieces, <<>>)
                              ELSE [pieces EXCEPT ![Len(pieces)] = Append(@, c)],
           << <<>> >>, pattern)

OccursAt(piece, path, at) ==
  at + Len(piece) <= Len(path) /\ SubSeq(path, at + 1, at + Len(piece)) = piece

Places(piece, path, from) == {at \in from..Len(path) : OccursAt(piece, path, at)}

Least(S) == CHOOSE n \in S : \A m \in S : n <= m

(***************************************************************************)
(* Each piece is taken where it first occurs after the one before; the     *)
(* first must begin the path, and the last, when the end is anchored, must *)
(* end it.  The position is -1 once a piece has no place.                  *)
(***************************************************************************)
\* A bug: the last piece of an anchored pattern is taken where it first occurs.
PlaceFirst(pieces, i, anchored, path, pos) ==
  LET at == IF i = 1 THEN Places(pieces[i], path, 0) \cap {0} ELSE Places(pieces[i], path, pos)
  IN  IF pieces[i] = <<>> \/ pos < 0 THEN pos
      ELSE IF at = {} THEN -1
      ELSE LET past == Least(at) + Len(pieces[i])
           IN  IF anchored /\ i = Len(pieces) /\ past # Len(path) THEN -1 ELSE past

Place(pieces, i, anchored, path, pos) ==
  LET at == CASE i = 1                           -> Places(pieces[i], path, 0) \cap {0}
              [] i > 1 /\ i = Len(pieces) /\ anchored -> Places(pieces[i], path, pos) \cap {Len(path) - Len(pieces[i])}
              [] OTHER                           -> Places(pieces[i], path, pos)
  IN  IF pieces[i] = <<>> \/ pos < 0 THEN pos
      ELSE IF at = {} THEN -1 ELSE Least(at) + Len(pieces[i])

GlobMatch(pattern, path) ==
  LET anchored == pattern # <<>> /\ Last(pattern) = End
      pieces   == Pieces(IF anchored THEN Front(pattern) ELSE pattern)
  IN  IF Len(pieces) = 1
      THEN IF anchored THEN path = pieces[1] ELSE IsPrefix(pieces[1], path)
      ELSE FoldLeft(LAMBDA pos, i : Place(pieces, i, anchored, path, pos), 0, [i \in DOMAIN pieces |-> i]) >= 0

------------------------------------------------------------------------------
(***************************************************************************)
(* The answer.  Of the groups, the first among those with the longest      *)
(* agent that begins the token; of its rules, the longest that matches,    *)
(* Allow before Disallow.                                                  *)
(***************************************************************************)
Specificity(agent) == IF agent = <<Star>> THEN 0 ELSE IF IsPrefix(agent, Token) THEN Len(agent) ELSE -1

\* The best agent of a group.
Claim(group) ==
  LET claims == {Specificity(group.agents[i]) : i \in DOMAIN group.agents}
  IN  CHOOSE n \in claims : \A m \in claims : m <= n

GroupFor(groups) ==
  LET claiming == {g \in DOMAIN groups : Claim(groups[g]) >= 0}
  IN  {g \in claiming : \A h \in claiming :
         Claim(groups[h]) < Claim(groups[g]) \/ (Claim(groups[h]) = Claim(groups[g]) /\ g <= h)}

\* Whether a rule decides against another that matches as well.
Outranks(rule, other) ==
  \/ Len(rule.pattern) > Len(other.pattern)
  \/ Len(rule.pattern) = Len(other.pattern) /\ (rule.allow \/ ~other.allow)

Allows(groups, path) ==
  LET rules    == UNION {ToSet(groups[g].rules) : g \in GroupFor(groups)}
      matching == {rule \in rules : GlobMatch(rule.pattern, path)}
  IN  matching = {} \/ \E rule \in matching : rule.allow /\ \A other \in matching : Outranks(rule, other)

CrawlDelay(groups) == {groups[g].delay : g \in GroupFor(groups)} \ {NoDelay}

------------------------------------------------------------------------------
(***************************************************************************)
(* What came of asking for the file, and what it permits: a file that is   *)
(* not there permits everything, one that is kept from us nothing.         *)
(***************************************************************************)

Classify(answer) ==
  CASE answer.kind = "page"   -> "body"
    [] answer.kind = "status" -> IF answer.status \in {401, 403} THEN "denied"
                                 ELSE IF answer.status \in 400..499 THEN "missing" ELSE "unavailable"
    [] OTHER                  -> "unavailable"

Permits(answer, lines, path) ==
  CASE Classify(answer) = "body"    -> Allows(Parse(lines), path)
    [] Classify(answer) = "missing" -> TRUE
    [] OTHER                        -> FALSE
=============================================================================
