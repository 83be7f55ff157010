-------------------------------- MODULE Urls --------------------------------
(***************************************************************************)
(* URLs: the one that is fetched, the key that tells pages apart (url.rs), *)
(* and the rules that keep a generated one out (traps.rs).  A URL is a     *)
(* record; parsing it, with the case of its host and the dots of its path, *)
(* is the url crate's.  A path is its segments: the empty one at the end   *)
(* of <<"a", Empty>> is a final slash, and <<Empty>> is the root.  A query *)
(* is a sequence of pairs <<name, value>>, without values where the text   *)
(* has no "=".                                                             *)
(***************************************************************************)
EXTENDS Integers, SequencesExt

CONSTANTS Droppable,          \* names of tracking and session parameters
          Skipped,            \* segments whose extension is of no use
          OneLetter,          \* segments of one character
          BadYears,           \* segments of four digits that are no likely year
          MaxUrlLen,          \* parts of a URL, in place of bytes (2048)
          MaxPathSegments, MaxQueryParams, MaxSegmentRepeats,
          Less(_, _),         \* the order of pairs
          Spelling            \* the signs of each name and value

Empty    == "empty"
NoValue  == "none"
NoPort   == "default"
NoHost   == "nohost"

\* Pairs have an order, and no two names or values are written alike.
ASSUME SpellingAssumption ==
  /\ Empty \in DOMAIN Spelling /\ DOMAIN Spelling \subseteq STRING
  /\ \A x \in DOMAIN Spelling : Spelling[x] \in Seq(STRING)
  /\ \A x, y \in DOMAIN Spelling : Spelling[x] = Spelling[y] => x = y
  /\ \A s, t \in (DOMAIN Spelling) \X (DOMAIN Spelling) :
       /\ s = t \/ Less(s, t) \/ Less(t, s)
       /\ ~(Less(s, t) /\ Less(t, s))
       /\ \A r \in (DOMAIN Spelling) \X (DOMAIN Spelling) : Less(r, s) /\ Less(s, t) => Less(r, t)

Kept(query) == FoldLeft(LAMBDA kept, pair : IF pair[1] \in Droppable THEN kept ELSE Append(kept, pair), <<>>, query)

\* A parameter without "=" is written back with one.
Written(query) ==
  [i \in DOMAIN query |-> <<query[i][1], IF query[i][2] = NoValue THEN Empty ELSE query[i][2]>>]

Rejected(url) ==
  \/ url.scheme \notin {"http", "https"}
  \/ url.host = NoHost
  \/ Len(url.path) + Len(Kept(url.query)) > MaxUrlLen

\* A bug: the parameters are put in order, as the key has them.
NormalizeSorted(url) ==
  [url EXCEPT !.fragment = FALSE, !.query = SetToSortSeq(ToSet(Written(Kept(@))), Less)]

Normalize(url) == [url EXCEPT !.fragment = FALSE, !.query = Written(Kept(@))]

(***************************************************************************)
(* A link: blank, a place on the page itself, a URL, or a path taken       *)
(* relative to the page.                                                   *)
(***************************************************************************)
Join(base, href) ==
  CASE href.kind = "url"  -> href.url
    [] href.kind = "path" -> [base EXCEPT !.path = Front(@) \o href.path, !.query = <<>>, !.fragment = FALSE]

Resolves(base, href) == href.kind \in {"url", "path"} /\ ~Rejected(Join(base, href))

Resolve(base, href) == Normalize(Join(base, href))

(***************************************************************************)
(* The key leaves out scheme and port, the slash a path ends in and the    *)
(* order of the parameters, and writes them out without escapes: an "&" or *)
(* "=" of a value reads like one between parameters.                       *)
(***************************************************************************)

BarePath(path) == IF Len(path) > 1 /\ Last(path) = Empty THEN Front(path) ELSE path

\* Pairs in their order, equal ones as they stand.
InOrder(pairs) ==
  LET before(i) == {j \in DOMAIN pairs : Less(pairs[j], pairs[i]) \/ (pairs[j] = pairs[i] /\ j < i)}
  IN  [k \in DOMAIN pairs |-> pairs[CHOOSE i \in DOMAIN pairs : Cardinality(before(i)) = k - 1]]

Spelt(pairs) ==
  FoldLeft(LAMBDA text, pair : (IF text = <<>> THEN <<>> ELSE Append(text, "&")) \o Spelling[pair[1]] \o <<"=">> \o Spelling[pair[2]],
           <<>>, pairs)

DedupeKey(url) ==
  [host |-> url.host, path |-> BarePath(url.path), query |-> Spelt(InOrder(Written(url.query)))]

------------------------------------------------------------------------------
(***************************************************************************)
(* The rules on the shape of a URL; depth and quota are the frontier's.    *)
(***************************************************************************)
Segments(url) == FoldLeft(LAMBDA kept, s : IF s = Empty THEN kept ELSE Append(kept, s), <<>>, url.path)

Repeating(segments) ==
  \E i \in DOMAIN segments :
    /\ segments[i] \notin OneLetter
    /\ Cardinality({j \in i..Len(segments) : segments[j] = segments[i]}) > MaxSegmentRepeats

\* The first rule a URL breaks, or "ok".
Trap(url) ==
  LET segments == Segments(url)
  IN  CASE Len(segments) > MaxPathSegments                        -> "path_too_deep"
        [] Len(url.query) > MaxQueryParams                        -> "too_many_parameters"
        [] segments # <<>> /\ Last(segments) \in Skipped          -> "uninteresting_type"
        [] Repeating(segments)                                    -> "repeating_path"
        [] \E i \in DOMAIN segments : segments[i] \in BadYears    -> "implausible_date"
        [] OTHER                                                  -> "ok"
=============================================================================
