---------------------------- MODULE Intersection ----------------------------
(***************************************************************************)
(* The n-way walk over posting lists (intersect and intersect_indices in   *)
(* crates/uruk-query/src/search.rs, the same walk twice): the documents    *)
(* present in every list, each with its place in every list.  The places   *)
(* matter as much as the documents: counts and positions are read through  *)
(* them.                                                                   *)
(*                                                                         *)
(* One round of the loop aims at the largest document under any cursor,    *)
(* advances every cursor to it and then has a match or not.  The code      *)
(* advances the lists one after another; here in any order, which makes no *)
(* difference to what is found.                                            *)
(***************************************************************************)
EXTENDS Integers, Sequences

VARIABLES
  lists,    \* the lists, as ascending document ids
  cursors,  \* where each list is read next
  target,   \* the document the round aims at
  found,    \* out
  stage     \* where the loop is: "aim", "advance" or "done"

walkVars == <<lists, cursors, target, found, stage>>

Ascending(s) == \A i, j \in DOMAIN s : i < j => s[i] < s[j]

WalkTypeOK ==
  /\ lists \in Seq(Seq(Nat))
  /\ \A l \in DOMAIN lists : Ascending(lists[l])
  /\ cursors \in [DOMAIN lists -> Nat]
  /\ \A l \in DOMAIN lists : cursors[l] \in 1..Len(lists[l]) + 1
  /\ target \in Nat
  /\ found \in Seq([doc : Nat, at : [DOMAIN lists -> Nat]])
  /\ stage \in {"aim", "advance", "done"}

AtEnd(l) == cursors[l] > Len(lists[l])
At(l) == lists[l][cursors[l]]

\* With no lists, or an empty one, there is nothing to walk.
WalkOver(ls) ==
  /\ lists' = ls
  /\ cursors' = [l \in DOMAIN ls |-> 1]
  /\ target' = 0
  /\ found' = <<>>
  /\ stage' = IF ls = <<>> \/ \E l \in DOMAIN ls : ls[l] = <<>> THEN "done" ELSE "aim"

\* Everything below the largest document under a cursor can be skipped.
Aim ==
  /\ stage = "aim"
  /\ \A l \in DOMAIN lists : ~AtEnd(l)
  /\ \E m \in DOMAIN lists :
       /\ \A l \in DOMAIN lists : At(l) <= At(m)
       /\ target' = At(m)
  /\ stage' = "advance"
  /\ UNCHANGED <<lists, cursors, found>>

\* Mutant: the target itself is skipped as well.
SkipTarget(l) ==
  /\ stage = "advance"
  /\ ~AtEnd(l)
  /\ At(l) <= target
  /\ cursors' = [cursors EXCEPT ![l] = @ + 1]
  /\ UNCHANGED <<lists, target, found, stage>>

Skip(l) ==
  /\ stage = "advance"
  /\ ~AtEnd(l)
  /\ At(l) < target
  /\ cursors' = [cursors EXCEPT ![l] = @ + 1]
  /\ UNCHANGED <<lists, target, found, stage>>

\* Mutant: the match is recorded and the cursors stay where they are.
MatchStanding ==
  /\ stage = "advance"
  /\ \A l \in DOMAIN lists : ~AtEnd(l) /\ At(l) = target
  /\ found' = <<[doc |-> target, at |-> cursors]>>
  /\ stage' = "aim"
  /\ UNCHANGED <<lists, cursors, target>>

\* Every list is at the target.
Match ==
  /\ stage = "advance"
  /\ \A l \in DOMAIN lists : ~AtEnd(l) /\ At(l) = target
  /\ found' = Append(found, [doc |-> target, at |-> cursors])
  /\ cursors' = [l \in DOMAIN lists |-> cursors[l] + 1]
  /\ stage' = "aim"
  /\ UNCHANGED <<lists, target>>

\* Some list has gone past the target.
Miss ==
  /\ stage = "advance"
  /\ \A l \in DOMAIN lists : ~AtEnd(l) /\ At(l) >= target
  /\ \E l \in DOMAIN lists : At(l) > target
  /\ stage' = "aim"
  /\ UNCHANGED <<lists, cursors, target, found>>

\* A list has run out.
RunOut ==
  /\ stage # "done"
  /\ \E l \in DOMAIN lists : AtEnd(l)
  /\ stage' = "done"
  /\ UNCHANGED <<lists, cursors, target, found>>

WalkNext ==
  \/ Aim
  \/ \E l \in DOMAIN lists : Skip(l)
  \/ Match
  \/ Miss
  \/ RunOut

-----------------------------------------------------------------------------
(* What the walk finds *)

InList(d, l) == \E i \in DOMAIN lists[l] : lists[l][i] = d
Listed == UNION {{lists[l][i] : i \in DOMAIN lists[l]} : l \in DOMAIN lists}
Common == {d \in Listed : \A l \in DOMAIN lists : InList(d, l)}
Found == {found[i].doc : i \in DOMAIN found}

\* A common document is never passed over: until it is found it lies ahead of
\* every cursor, and not before the target of the round.
NonePassed ==
  \A d \in Common \ Found :
    /\ \A l \in DOMAIN lists : \E i \in cursors[l]..Len(lists[l]) : lists[l][i] = d
    /\ stage = "advance" => target <= d

\* What has been found lies behind every cursor.
FoundIsBehind ==
  \A i \in DOMAIN found :
    \A l \in DOMAIN lists :
      \A j \in cursors[l]..Len(lists[l]) : found[i].doc < lists[l][j]

\* A document is found once, in ascending order, with its place in every list:
\* the counts and the positions read through the place are that document's.
PlacesAreRight ==
  /\ \A i, j \in DOMAIN found : i < j => found[i].doc < found[j].doc
  /\ \A i \in DOMAIN found :
       \A l \in DOMAIN lists :
         /\ found[i].at[l] \in DOMAIN lists[l]
         /\ lists[l][found[i].at[l]] = found[i].doc

\* The walk ends with the documents that are in every list, all of them and no
\* others, however the lists interleave and whichever runs out first.
WalkIsExact == stage = "done" => Found = Common

\* Inductive.
WalkInv ==
  /\ WalkTypeOK
  /\ NonePassed
  /\ FoundIsBehind
  /\ PlacesAreRight
  /\ stage = "done" => lists = <<>> \/ \E l \in DOMAIN lists : AtEnd(l)
  /\ lists = <<>> => stage = "done" /\ found = <<>>
=============================================================================
