---------------------------- MODULE SearchProofs ----------------------------
(***************************************************************************)
(* What a search returns, for any index, query, limit and depth:           *)
(*                                                                         *)
(*   - the walk over posting lists finds exactly the documents in every    *)
(*     list, each with its place in every list (WalksAreExact);            *)
(*   - every match is counted and the page is as full as it can be, cut or *)
(*     not (EveryMatchCounts);                                             *)
(*   - the page is the best of all matches, unless the cut has left one of *)
(*     its documents out (ThePageIsExact).                                 *)
(*                                                                         *)
(* The last two rest on PageInv: between segments the heap is the best of  *)
(* what the segments behind have offered, and what is pending comes after  *)
(* it in the index, so that ties go to what is kept.  The closest span is  *)
(* a fold; the fold is measured by induction over the stream, in the form  *)
(* of a smallest counterexample.                                           *)
(***************************************************************************)
EXTENDS Search, FiniteSetTheorems, FunctionTheorems, WellFoundedInduction, TLAPS

\* Steps of the walk leave the lists, and so what is common to them, alone.
LEMMA SameLists ==
  ASSUME WalkNext \/ UNCHANGED walkVars
  PROVE  /\ lists' = lists
         /\ Common' = Common
<1>1. lists' = lists
  BY DEF WalkNext, Aim, Skip, Match, Miss, RunOut, walkVars
<1>2. Listed' = Listed
  BY <1>1 DEF Listed
<1>3. \A d, l : InList(d, l)' = InList(d, l)
  BY <1>1 DEF InList
<1> QED
  BY <1>1, <1>2, <1>3 DEF Common

\* Aiming is safe: the list whose document is the largest has nothing common
\* before it.
LEMMA AimKeeps ==
  ASSUME WalkInv, Aim
  PROVE  WalkInv'
<1>1. lists' = lists /\ cursors' = cursors /\ found' = found /\ stage' = "advance"
  BY DEF Aim
<1>2. Common' = Common /\ Found' = Found
  BY <1>1, SameLists DEF WalkNext, Found
<1>3. PICK m \in DOMAIN lists : (\A l \in DOMAIN lists : At(l) <= At(m)) /\ target' = At(m)
  BY DEF Aim
<1>4. WalkTypeOK /\ ~AtEnd(m)
  BY <1>3 DEF Aim, WalkInv
<1>5. cursors[m] \in DOMAIN lists[m] /\ lists[m] \in Seq(Nat) /\ Ascending(lists[m])
  BY <1>3, <1>4 DEF WalkTypeOK, AtEnd
<1>6. target' \in Nat
  BY <1>3, <1>5 DEF At
<1>7. WalkTypeOK'
  BY <1>1, <1>4, <1>6 DEF WalkTypeOK
<1>8. NonePassed'
  <2> SUFFICES ASSUME NEW d \in Common \ Found
               PROVE  /\ \A l \in DOMAIN lists :
                           \E i \in cursors[l]..Len(lists[l]) : lists[l][i] = d
                      /\ target' <= d
    BY <1>1, <1>2 DEF NonePassed
  <2>1. \A l \in DOMAIN lists : \E i \in cursors[l]..Len(lists[l]) : lists[l][i] = d
    BY DEF WalkInv, NonePassed
  <2>2. PICK i \in cursors[m]..Len(lists[m]) : lists[m][i] = d
    BY <2>1, <1>3
  <2>3. At(m) <= lists[m][i]
    BY <1>5, <2>2 DEF Ascending, At
  <2> QED
    BY <1>3, <2>1, <2>2, <2>3
<1>9. FoundIsBehind' /\ PlacesAreRight'
  BY <1>1 DEF WalkInv, FoundIsBehind, PlacesAreRight
<1> QED
  BY <1>1, <1>7, <1>8, <1>9 DEF WalkInv

\* A document below the target is not common, or was found: passing it is safe.
LEMMA SkipKeeps ==
  ASSUME WalkInv, NEW m \in DOMAIN lists, Skip(m)
  PROVE  WalkInv'
<1>1. /\ lists' = lists /\ found' = found /\ target' = target /\ stage' = stage
      /\ cursors' = [cursors EXCEPT ![m] = @ + 1]
      /\ stage = "advance" /\ cursors[m] <= Len(lists[m]) /\ At(m) < target
  BY DEF Skip, AtEnd, WalkInv, WalkTypeOK
<1>2. Common' = Common /\ Found' = Found
  BY <1>1, SameLists DEF WalkNext, Found
<1>3. WalkTypeOK /\ lists[m] \in Seq(Nat) /\ Ascending(lists[m]) /\ cursors[m] \in Nat
  BY DEF WalkInv, WalkTypeOK
<1>4. /\ cursors' \in [DOMAIN lists -> Nat]
      /\ cursors'[m] = cursors[m] + 1
      /\ \A l \in DOMAIN lists : l # m => cursors'[l] = cursors[l]
  BY <1>1, <1>3 DEF WalkTypeOK
<1>5. \A l \in DOMAIN lists : cursors'[l] \in 1..Len(lists[l]) + 1
  BY <1>1, <1>3, <1>4, SMTT(30) DEF WalkTypeOK
<1>6. WalkTypeOK'
  BY <1>1, <1>3, <1>4, <1>5 DEF WalkTypeOK
<1>7. NonePassed'
  <2> SUFFICES ASSUME NEW d \in Common \ Found, NEW l \in DOMAIN lists
               PROVE  /\ \E i \in cursors'[l]..Len(lists[l]) : lists[l][i] = d
                      /\ target <= d
    BY <1>1, <1>2 DEF NonePassed
  <2>1. PICK i \in cursors[l]..Len(lists[l]) : lists[l][i] = d
    BY DEF WalkInv, NonePassed
  <2>2. target <= d
    BY <1>1 DEF WalkInv, NonePassed
  <2>3. l = m => i # cursors[m]
    <3> SUFFICES ASSUME l = m, i = cursors[m] PROVE FALSE
      OBVIOUS
    <3>1. At(m) = d
      BY <2>1 DEF At
    <3>2. At(m) \in Nat /\ target \in Nat
      BY <1>1, <1>3 DEF At, WalkTypeOK
    <3> QED
      BY <3>1, <3>2, <2>2, <1>1
  <2>4. i \in cursors'[l]..Len(lists[l])
    BY <2>1, <2>3, <1>3, <1>4, SMTT(30) DEF WalkTypeOK
  <2> QED
    BY <2>1, <2>2, <2>4
<1>8. FoundIsBehind'
  <2>1. \A l \in DOMAIN lists : \A j \in cursors'[l]..Len(lists[l]) :
          j \in cursors[l]..Len(lists[l])
    <3> SUFFICES ASSUME NEW l \in DOMAIN lists, NEW j \in cursors'[l]..Len(lists[l])
                 PROVE  j \in cursors[l]..Len(lists[l])
      OBVIOUS
    <3>1. cursors[l] \in Nat /\ cursors'[l] \in Nat /\ cursors[l] <= cursors'[l]
      <4>1. cursors[l] \in Nat
        BY <1>3 DEF WalkTypeOK
      <4>2. cursors'[l] = cursors[l] \/ cursors'[l] = cursors[l] + 1
        BY <1>4
      <4> QED
        BY <4>1, <4>2
    <3>2. Len(lists[l]) \in Nat
      BY <1>3 DEF WalkTypeOK
    <3> QED
      BY <3>1, <3>2
  <2> QED
    BY <2>1, <1>1 DEF WalkInv, FoundIsBehind
<1>9. PlacesAreRight'
  BY <1>1 DEF WalkInv, PlacesAreRight
<1> QED
  BY <1>1, <1>6, <1>7, <1>8, <1>9 DEF WalkInv

\* A match is the next common document, found where every cursor is.
LEMMA MatchKeeps ==
  ASSUME WalkInv, Match
  PROVE  WalkInv'
<1> DEFINE new == [doc |-> target, at |-> cursors]
<1>1. /\ lists' = lists /\ target' = target /\ stage' = "aim"
      /\ stage = "advance"
      /\ found' = Append(found, new)
      /\ cursors' = [l \in DOMAIN lists |-> cursors[l] + 1]
  BY DEF Match
<1>2. WalkTypeOK /\ lists # <<>> /\ target \in Nat
      /\ found \in Seq([doc : Nat, at : [DOMAIN lists -> Nat]])
  BY <1>1 DEF WalkInv, WalkTypeOK
<1>3. \A l \in DOMAIN lists :
        /\ cursors[l] \in DOMAIN lists[l] /\ lists[l] \in Seq(Nat)
        /\ Ascending(lists[l]) /\ lists[l][cursors[l]] = target
        /\ cursors'[l] = cursors[l] + 1 /\ cursors[l] \in Nat
  BY <1>1, <1>2 DEF Match, AtEnd, At, WalkTypeOK
<1>4. new \in [doc : Nat, at : [DOMAIN lists -> Nat]]
  BY <1>2 DEF WalkTypeOK
<1>5. /\ Len(found') = Len(found) + 1
      /\ found' \in Seq([doc : Nat, at : [DOMAIN lists -> Nat]])
      /\ \A i \in DOMAIN found : found'[i] = found[i]
      /\ found'[Len(found) + 1] = new
      /\ DOMAIN found' = 1..Len(found) + 1 /\ DOMAIN found = 1..Len(found)
      /\ Len(found) \in Nat
  BY <1>1, <1>2, <1>4
<1> HIDE DEF new
<1>6. cursors' \in [DOMAIN lists -> Nat]
      /\ \A l \in DOMAIN lists : cursors'[l] \in 1..Len(lists[l]) + 1
  BY <1>1, <1>3
<1>7. WalkTypeOK'
  BY <1>1, <1>2, <1>5, <1>6 DEF WalkTypeOK
<1>8. Common' = Common
  BY SameLists DEF WalkNext
<1>9. Found \subseteq Found' /\ target \in Found'
  <2>1. new.doc = target
    BY DEF new
  <2> QED
    BY <1>5, <2>1 DEF Found
<1>10. NonePassed'
  <2> SUFFICES ASSUME NEW d \in Common \ Found', NEW l \in DOMAIN lists
               PROVE  \E i \in cursors'[l]..Len(lists[l]) : lists[l][i] = d
    BY <1>1, <1>8 DEF NonePassed
  <2>1. PICK i \in cursors[l]..Len(lists[l]) : lists[l][i] = d
    BY <1>9 DEF WalkInv, NonePassed
  <2>2. i # cursors[l]
    BY <1>3, <1>9, <2>1
  <2> QED
    BY <2>1, <2>2, <1>3
<1>11. \A i \in DOMAIN found : \A l \in DOMAIN lists : found[i].doc < target
  <2> SUFFICES ASSUME NEW i \in DOMAIN found, NEW l \in DOMAIN lists
               PROVE  found[i].doc < target
    OBVIOUS
  <2>1. cursors[l] \in cursors[l]..Len(lists[l])
    BY <1>3
  <2> QED
    BY <2>1, <1>3 DEF WalkInv, FoundIsBehind
<1>12. FoundIsBehind'
  <2> SUFFICES ASSUME NEW i \in DOMAIN found', NEW l \in DOMAIN lists,
                      NEW j \in cursors'[l]..Len(lists[l])
               PROVE  found'[i].doc < lists[l][j]
    BY <1>1 DEF FoundIsBehind
  <2>1. j \in DOMAIN lists[l] /\ cursors[l] < j /\ j \in cursors[l]..Len(lists[l])
    BY <1>3
  <2>2. CASE i \in DOMAIN found
    BY <2>1, <2>2, <1>5 DEF WalkInv, FoundIsBehind
  <2>3. CASE i = Len(found) + 1
    BY <2>1, <2>3, <1>3, <1>5 DEF Ascending, new
  <2> QED
    BY <2>2, <2>3, <1>5
<1>13. PICK l \in DOMAIN lists : TRUE
  <2>1. lists \in Seq(Seq(Nat)) /\ lists # <<>>
    BY <1>2 DEF WalkTypeOK
  <2>2. 1 \in DOMAIN lists
    BY <2>1
  <2> QED
    BY <2>2
<1>14. \A i, j \in DOMAIN found' : i < j => found'[i].doc < found'[j].doc
  <2> SUFFICES ASSUME NEW i \in DOMAIN found', NEW j \in DOMAIN found', i < j
               PROVE  found'[i].doc < found'[j].doc
    OBVIOUS
  <2>1. i \in DOMAIN found
    BY <1>5
  <2>2. CASE j \in DOMAIN found
    BY <2>1, <2>2, <1>5 DEF WalkInv, PlacesAreRight
  <2>3. CASE j = Len(found) + 1
    BY <2>1, <2>3, <1>5, <1>11, <1>13 DEF new
  <2> QED
    BY <2>2, <2>3, <1>5
<1>15. \A i \in DOMAIN found' : \A k \in DOMAIN lists :
         /\ found'[i].at[k] \in DOMAIN lists[k]
         /\ lists[k][found'[i].at[k]] = found'[i].doc
  <2> SUFFICES ASSUME NEW i \in DOMAIN found', NEW k \in DOMAIN lists
               PROVE  /\ found'[i].at[k] \in DOMAIN lists[k]
                      /\ lists[k][found'[i].at[k]] = found'[i].doc
    OBVIOUS
  <2>1. CASE i \in DOMAIN found
    BY <2>1, <1>5 DEF WalkInv, PlacesAreRight
  <2>2. CASE i = Len(found) + 1
    BY <2>2, <1>3, <1>5 DEF new
  <2> QED
    BY <2>1, <2>2, <1>5
<1>16. PlacesAreRight'
  BY <1>1, <1>14, <1>15 DEF PlacesAreRight
<1> QED
  BY <1>1, <1>2, <1>7, <1>10, <1>12, <1>16 DEF WalkInv

\* Rounds that find nothing, and the end of a list, change nothing else.
LEMMA RestKeeps ==
  ASSUME WalkInv, Miss \/ RunOut
  PROVE  WalkInv'
<1>1. /\ lists' = lists /\ cursors' = cursors /\ found' = found /\ target' = target
      /\ stage' \in {"aim", "done"}
      /\ stage # "done"
      /\ stage' = "done" => \E l \in DOMAIN lists : AtEnd(l)
  BY DEF Miss, RunOut
<1>2. Common' = Common /\ Found' = Found
  BY <1>1, SameLists DEF WalkNext, Found
<1>3. WalkTypeOK'
  BY <1>1 DEF WalkInv, WalkTypeOK
<1>4. NonePassed'
  BY <1>1, <1>2 DEF WalkInv, NonePassed
<1>5. FoundIsBehind' /\ PlacesAreRight'
  BY <1>1 DEF WalkInv, FoundIsBehind, PlacesAreRight
<1>6. \A l : AtEnd(l)' = AtEnd(l)
  BY <1>1 DEF AtEnd
<1> QED
  BY <1>1, <1>3, <1>4, <1>5, <1>6 DEF WalkInv

LEMMA WalkKeeps ==
  ASSUME WalkInv, WalkNext \/ UNCHANGED walkVars
  PROVE  WalkInv'
<1>1. CASE WalkNext
  BY <1>1, AimKeeps, SkipKeeps, MatchKeeps, RestKeeps DEF WalkNext
<1>2. CASE UNCHANGED walkVars
  BY <1>2, SameLists DEF walkVars, WalkInv, WalkTypeOK, NonePassed, FoundIsBehind,
     PlacesAreRight, AtEnd, Found
<1> QED
  BY <1>1, <1>2

\* At the end, nothing common is left ahead of the list that ran out.
LEMMA WalkInvExact ==
  ASSUME WalkInv
  PROVE  WalkIsExact
<1> SUFFICES ASSUME stage = "done" PROVE Found = Common
  BY DEF WalkIsExact
<1>1. CASE lists = <<>>
  <2>1. found = <<>>
    BY <1>1 DEF WalkInv
  <2>2. Listed = {}
    BY <1>1 DEF Listed
  <2>3. Found = {}
    BY <2>1 DEF Found
  <2> QED
    BY <2>2, <2>3 DEF Common
<1>2. CASE lists # <<>>
  <2>1. PICK m \in DOMAIN lists : AtEnd(m)
    BY <1>2 DEF WalkInv
  <2>2. lists[m] \in Seq(Nat) /\ cursors[m] \in Nat /\ cursors[m] > Len(lists[m])
    BY <2>1 DEF WalkInv, WalkTypeOK, AtEnd
  <2>3. Common \subseteq Found
    <3> SUFFICES ASSUME NEW d \in Common \ Found PROVE FALSE
      OBVIOUS
    <3>1. PICK i \in cursors[m]..Len(lists[m]) : lists[m][i] = d
      BY DEF WalkInv, NonePassed
    <3> QED
      BY <3>1, <2>2
  <2>4. Found \subseteq Common
    <3> SUFFICES ASSUME NEW i \in DOMAIN found PROVE found[i].doc \in Common
      BY DEF Found
    <3>1. \A l \in DOMAIN lists : /\ found[i].at[l] \in DOMAIN lists[l]
                                /\ lists[l][found[i].at[l]] = found[i].doc
      BY DEF WalkInv, PlacesAreRight
    <3>2. found[i].doc \in Listed
      BY <3>1, <2>1 DEF Listed
    <3>3. \A l \in DOMAIN lists : InList(found[i].doc, l)
      BY <3>1 DEF InList
    <3> QED
      BY <3>2, <3>3 DEF Common
  <2> QED
    BY <2>3, <2>4
<1> QED
  BY <1>1, <1>2

\* A walk over ascending lists starts with everything ahead of the cursors.
LEMMA WalkStarts ==
  ASSUME NEW ls \in Seq(Seq(Nat)),
         \A l \in DOMAIN ls : Ascending(ls[l]),
         WalkOver(ls)
  PROVE  WalkInv'
<1>1. /\ lists' = ls /\ found' = <<>> /\ target' = 0
      /\ cursors' = [l \in DOMAIN ls |-> 1]
      /\ stage' \in {"aim", "done"}
      /\ stage' = "done" => ls = <<>> \/ \E l \in DOMAIN ls : ls[l] = <<>>
      /\ ls = <<>> => stage' = "done"
  BY DEF WalkOver
<1>2. \A l \in DOMAIN ls : /\ ls[l] \in Seq(Nat) /\ Len(ls[l]) \in Nat
                          /\ DOMAIN ls[l] = 1..Len(ls[l])
                          /\ ls[l] = <<>> => Len(ls[l]) = 0
                          /\ cursors'[l] = 1
  BY <1>1
<1>3. WalkTypeOK'
  <2>1. cursors' \in [DOMAIN ls -> Nat]
    BY <1>1
  <2>2. \A l \in DOMAIN ls : cursors'[l] \in 1..Len(ls[l]) + 1
    <3> SUFFICES ASSUME NEW l \in DOMAIN ls PROVE cursors'[l] \in 1..Len(ls[l]) + 1
      OBVIOUS
    <3>1. cursors'[l] = 1
      BY <1>1
    <3>a. Len(ls[l]) \in Nat
      <4>1. ls[l] \in Seq(Nat)
        OBVIOUS
      <4> QED
        BY <4>1
    <3>2. 1 \in 1..Len(ls[l]) + 1
      BY <3>a
    <3> QED
      BY <3>1, <3>2
  <2>3. found' \in Seq([doc : Nat, at : [DOMAIN ls -> Nat]])
    BY <1>1
  <2> QED
    BY <1>1, <2>1, <2>2, <2>3 DEF WalkTypeOK
<1>4. NonePassed'
  <2> SUFFICES ASSUME NEW d \in Common', NEW l \in DOMAIN ls
               PROVE  \E i \in 1..Len(ls[l]) : ls[l][i] = d
    BY <1>1, <1>2 DEF NonePassed
  <2>1. InList(d, l)'
    BY <1>1 DEF Common
  <2> QED
    BY <2>1, <1>1, <1>2 DEF InList
<1>5. FoundIsBehind' /\ PlacesAreRight'
  BY <1>1 DEF FoundIsBehind, PlacesAreRight
<1>6. ASSUME stage' = "done", ls # <<>> PROVE \E l \in DOMAIN ls : AtEnd(l)'
  <2>1. PICK l \in DOMAIN ls : ls[l] = <<>>
    BY <1>1, <1>6
  <2>2. Len(ls[l]) = 0 /\ cursors'[l] = 1
    BY <1>2, <2>1
  <2> QED
    BY <1>1, <2>2 DEF AtEnd
<1> QED
  BY <1>1, <1>3, <1>4, <1>5, <1>6 DEF WalkInv

-----------------------------------------------------------------------------

\* Inductive: the search walks posting lists of well-formed segments only.
SearchInv ==
  /\ index \in Indexes /\ query \in Queries
  /\ segment \in Nat \ {0}
  /\ WalkInv

LEMMA InitInv ==
  ASSUME SearchInit
  PROVE  SearchInv
<1>1. index \in Indexes /\ query \in Queries /\ segment = 1 /\ lists = <<>>
      /\ cursors = <<>> /\ target = 0 /\ found = <<>> /\ stage = "done"
  BY DEF SearchInit
<1>2. WalkTypeOK
  <2>1. lists \in Seq(Seq(Nat)) /\ DOMAIN lists = {}
    BY <1>1
  <2>2. cursors \in [DOMAIN lists -> Nat]
    BY <1>1
  <2>3. found \in Seq([doc : Nat, at : [DOMAIN lists -> Nat]])
    BY <1>1
  <2> QED
    BY <1>1, <2>1, <2>2, <2>3 DEF WalkTypeOK
<1>3. NonePassed
  BY <1>1 DEF NonePassed, Common, Listed
<1>4. FoundIsBehind /\ PlacesAreRight
  BY <1>1 DEF FoundIsBehind, PlacesAreRight
<1> QED
  BY <1>1, <1>2, <1>3, <1>4 DEF SearchInv, WalkInv

\* The lists of a query's terms in a segment are what WalkOver expects.
LEMMA ListsAreWellFormed ==
  ASSUME NEW ix \in Indexes, NEW s \in DOMAIN ix, NEW q \in Queries
  PROVE  LET ls == [i \in DOMAIN q.terms |-> Docs(ix[s].postings[q.terms[i]])]
         IN  ls \in Seq(Seq(Nat)) /\ \A l \in DOMAIN ls : Ascending(ls[l])
<1> DEFINE ls == [i \in DOMAIN q.terms |-> Docs(ix[s].postings[q.terms[i]])]
<1>1. ix \in Seq(Segment) /\ WellFormed(ix[s]) /\ q \in Query
  BY SearchAssumption
<1>2. ix[s] \in Segment
  BY <1>1
<1>3. ASSUME NEW t \in Terms
      PROVE  Docs(ix[s].postings[t]) \in Seq(Nat) /\ Ascending(Docs(ix[s].postings[t]))
  <2>1. ix[s].postings[t] \in Seq([doc : Nat, positions : SUBSET Nat])
    BY <1>2 DEF Segment
  <2>2. Docs(ix[s].postings[t]) \in Seq(Nat)
    <3> DEFINE list == ix[s].postings[t]
    <3>a. list \in Seq([doc : Nat, positions : SUBSET Nat])
      BY <2>1
    <3> HIDE DEF list, ls
    <3>1. Len(list) \in Nat /\ DOMAIN list = 1..Len(list)
          /\ \A i \in DOMAIN list : list[i].doc \in Nat
      <4>1. Len(list) \in Nat /\ DOMAIN list = 1..Len(list)
        BY <3>a
      <4>2. ASSUME NEW i \in DOMAIN list PROVE list[i].doc \in Nat
        <5> DEFINE Entry == [doc : Nat, positions : SUBSET Nat]
        <5>0. list \in Seq(Entry)
          BY <3>a
        <5> HIDE DEF Entry
        <5>a. list[i] \in Entry
          BY <5>0
        <5>1. list[i] \in [doc : Nat, positions : SUBSET Nat]
          BY <5>a DEF Entry
        <5> QED
          BY <5>1
      <4> QED
        BY <4>1, <4>2
    <3>2. [i \in DOMAIN list |-> list[i].doc] \in Seq(Nat)
      BY <3>1
    <3> QED
      BY <3>2 DEF Docs, list
  <2> QED
    BY <2>2, <1>1 DEF WellFormed
<1>4. q.terms \in Seq(Terms)
  BY <1>1 DEF Query
<1>5. \A i \in DOMAIN q.terms : q.terms[i] \in Terms
  BY <1>4
<1>6. DOMAIN ls = DOMAIN q.terms /\ \A i \in DOMAIN ls : ls[i] \in Seq(Nat) /\ Ascending(ls[i])
  BY <1>3, <1>5
<1>7. ls \in Seq(Seq(Nat))
  <2>1. Len(q.terms) \in Nat /\ DOMAIN q.terms = 1..Len(q.terms)
    BY <1>4
  <2> HIDE DEF ls
  <2>2. ls \in [1..Len(q.terms) -> Seq(Nat)]
    <3>1. ls = [i \in DOMAIN q.terms |-> ls[i]]
      BY DEF ls
    <3> QED
      BY <3>1, <2>1, <1>6
  <2> QED
    BY <2>1, <2>2
<1> QED
  BY <1>6, <1>7

LEMMA NextInv ==
  ASSUME SearchInv, [SearchNext]_searchVars
  PROVE  SearchInv'
<1>1. CASE ReadLists
  <2>1. UNCHANGED <<inputs, segment>> /\ segment \in DOMAIN index
    <3>1. index \in Seq(Segment)
      BY SearchAssumption DEF SearchInv
    <3> QED
      BY <1>1, <3>1 DEF ReadLists, SearchInv
  <2>2. WalkInv'
    BY <1>1, <2>1, WalkStarts, ListsAreWellFormed DEF ReadLists, SearchInv
  <2> QED
    BY <2>1, <2>2 DEF SearchInv, inputs
<1>2. CASE Walk
  BY <1>2, WalkKeeps DEF Walk, SearchInv, inputs
<1>3. ASSUME UNCHANGED <<walkVars, inputs>>, segment' \in {segment, segment + 1}
      PROVE  SearchInv'
  BY <1>3, WalkKeeps DEF SearchInv, inputs
<1>4. CASE SkipSegment \/ NextSegment
  BY <1>3, <1>4 DEF SkipSegment, NextSegment
<1>5. CASE Plan \/ Score \/ OfferHit \/ Return \/ Returned \/ UNCHANGED searchVars
  BY <1>3, <1>5 DEF Plan, Score, OfferHit, Return, Returned, searchVars
<1> QED
  BY <1>1, <1>2, <1>4, <1>5 DEF SearchNext

-----------------------------------------------------------------------------

\* intersect and intersect_indices keep their place, whatever the index, the
\* query and the lists: nothing common is passed over, and every match has its
\* place in every list.
THEOREM WalksStayRight == SearchSpec => []WalkInv
<1>1. SearchInit => SearchInv
  BY InitInv
<1>2. SearchInv /\ [SearchNext]_searchVars => SearchInv'
  BY NextInv
<1>3. SearchInv => WalkInv
  BY DEF SearchInv
<1> QED
  BY <1>1, <1>2, <1>3, PTL DEF SearchSpec

\* A finished walk has found the documents that are in every list, all of them
\* and no others.
THEOREM WalksAreExact == SearchSpec => []WalkIsExact
<1>1. WalkInv => WalkIsExact
  BY WalkInvExact
<1> QED
  BY <1>1, WalksStayRight, PTL

-----------------------------------------------------------------------------
(* Orders on finite sets *)

\* R orders S totally.
IsOrder(R, S) ==
  /\ \A a \in S : <<a, a>> \notin R
  /\ \A a, b \in S : a # b => <<a, b>> \in R \/ <<b, a>> \in R
  /\ \A a, b, c \in S : <<a, b>> \in R /\ <<b, c>> \in R => <<a, c>> \in R

Preceding(R, S, a) == {b \in S : <<b, a>> \in R}

Rank(R, S, a) == Cardinality(Preceding(R, S, a))

\* What comes later has more before it.
LEMMA RankGrows ==
  ASSUME NEW S, IsFiniteSet(S), NEW R, IsOrder(R, S)
  PROVE  /\ \A a \in S : Rank(R, S, a) \in Nat /\ Rank(R, S, a) < Cardinality(S)
         /\ \A a, b \in S : <<a, b>> \in R => Rank(R, S, a) < Rank(R, S, b)
<1>1. ASSUME NEW a \in S
      PROVE  /\ Rank(R, S, a) \in Nat /\ Rank(R, S, a) < Cardinality(S)
             /\ Preceding(R, S, a) \subseteq S /\ IsFiniteSet(Preceding(R, S, a))
  <2>1. Preceding(R, S, a) \in SUBSET S /\ a \notin Preceding(R, S, a)
    BY DEF Preceding, IsOrder
  <2>2. IsFiniteSet(Preceding(R, S, a)) /\ Rank(R, S, a) \in Nat /\ Cardinality(S) \in Nat
    BY <2>1, FS_Subset, FS_CardinalityType DEF Rank
  <2>3. Rank(R, S, a) <= Cardinality(S) /\ Rank(R, S, a) # Cardinality(S)
    BY <2>1, FS_Subset DEF Rank
  <2> QED BY <2>1, <2>2, <2>3
<1>2. ASSUME NEW a \in S, NEW b \in S, <<a, b>> \in R
      PROVE  Rank(R, S, a) < Rank(R, S, b)
  <2>1. Preceding(R, S, a) \subseteq Preceding(R, S, b)
    BY <1>2 DEF Preceding, IsOrder
  <2>2. a \in Preceding(R, S, b) /\ a \notin Preceding(R, S, a)
    BY <1>2 DEF Preceding, IsOrder
  <2>3. /\ Rank(R, S, a) <= Rank(R, S, b) /\ Rank(R, S, a) # Rank(R, S, b)
        /\ Rank(R, S, a) \in Nat /\ Rank(R, S, b) \in Nat
    BY <1>1, <2>1, <2>2, FS_Subset DEF Rank
  <2> QED BY <2>3
<1> QED BY <1>1, <1>2

\* Different things have different ranks.
LEMMA RankDiffers ==
  ASSUME NEW S, IsFiniteSet(S), NEW R, IsOrder(R, S), NEW a \in S, NEW b \in S,
         Rank(R, S, a) = Rank(R, S, b)
  PROVE  a = b
<1> SUFFICES ASSUME a # b PROVE FALSE
  OBVIOUS
<1>1. <<a, b>> \in R \/ <<b, a>> \in R
  BY DEF IsOrder
<1>2. Rank(R, S, a) < Rank(R, S, b) \/ Rank(R, S, b) < Rank(R, S, a)
  BY <1>1, RankGrows
<1>3. Rank(R, S, a) \in Nat
  BY RankGrows
<1> QED BY <1>2, <1>3

\* Every place has something in it.
LEMMA RanksAreAll ==
  ASSUME NEW S, IsFiniteSet(S), NEW R, IsOrder(R, S), NEW k \in Nat, k < Cardinality(S)
  PROVE  \E a \in S : Rank(R, S, a) = k
<1> DEFINE N == Cardinality(S)
           T == 0..(N - 1)
           f == [a \in S |-> Rank(R, S, a)]
<1>1. N \in Nat
  BY FS_CardinalityType
<1>2. IsFiniteSet(T) /\ Cardinality(T) = N
  <2>1. 0 \in Int /\ N - 1 \in Int
    BY <1>1
  <2> QED BY <1>1, <2>1, FS_Interval
<1>3. f \in [S -> T]
  <2>1. \A a \in S : Rank(R, S, a) \in T
    BY <1>1, RankGrows
  <2> QED BY <2>1
<1>4. f \in Injection(S, T)
  <2>1. \A a, b \in S : f[a] = f[b] => a = b
    BY RankDiffers
  <2> QED BY <1>3, <2>1, Fun_IsInj
<1>5. f \in Surjection(S, T)
  <2>1. Cardinality(S) = Cardinality(T)
    BY <1>2
  <2> HIDE DEF N, T, f
  <2> QED BY <1>2, <1>4, <2>1, FS_Injection
<1>6. k \in T
  BY <1>1
<1>7. \E a \in S : f[a] = k
  <2> HIDE DEF T, f
  <2> QED BY <1>5, <1>6, Fun_SurjectionProperties
<1> QED BY <1>7

\* The first n are as many as there are, or n.
LEMMA FirstOfOrder ==
  ASSUME NEW S, IsFiniteSet(S), NEW R, IsOrder(R, S), NEW n \in Nat
  PROVE  LET T == {a \in S : Rank(R, S, a) < n}
         IN  /\ Cardinality(S) <= n => T = S
             /\ n <= Cardinality(S) => Cardinality(T) = n
             /\ IsFiniteSet(T)
<1> DEFINE T == {a \in S : Rank(R, S, a) < n}
           N == 0..(n - 1)
           f == [a \in T |-> Rank(R, S, a)]
<1>1. Cardinality(S) \in Nat /\ IsFiniteSet(T)
  BY FS_CardinalityType, FS_Subset
<1>2. ASSUME Cardinality(S) <= n PROVE T = S
  BY <1>1, <1>2, RankGrows
<1>3. ASSUME n <= Cardinality(S) PROVE Cardinality(T) = n
  <2>1. Cardinality(N) = n
    <3>1. 0 \in Int /\ n - 1 \in Int
      OBVIOUS
    <3> QED BY <3>1, FS_Interval
  <2>2. \A a \in T : Rank(R, S, a) \in N
    BY RankGrows
  <2>3. f \in [T -> N]
    BY <2>2
  <2>4. \A k \in N : \E a \in T : f[a] = k
    <3> SUFFICES ASSUME NEW k \in N PROVE \E a \in T : f[a] = k
      OBVIOUS
    <3>1. k \in Nat /\ k < n /\ k < Cardinality(S)
      BY <1>1, <1>3
    <3>2. PICK a \in S : Rank(R, S, a) = k
      BY <3>1, RanksAreAll
    <3> QED BY <3>1, <3>2
  <2>5. f \in Surjection(T, N)
    BY <2>3, <2>4, Fun_IsSurj
  <2>6. \A a, b \in T : f[a] = f[b] => a = b
    BY RankDiffers
  <2>7. f \in Injection(T, N)
    BY <2>3, <2>6, Fun_IsInj
  <2> QED BY <1>1, <2>1, <2>5, <2>7, FS_Surjection
<1> QED BY <1>1, <1>2, <1>3

\* There is a last.
LEMMA LastOfOrder ==
  ASSUME NEW S, IsFiniteSet(S), S # {}, NEW R, IsOrder(R, S)
  PROVE  \E a \in S : Rank(R, S, a) = Cardinality(S) - 1 /\ \A b \in S \ {a} : <<b, a>> \in R
<1>1. Cardinality(S) \in Nat /\ Cardinality(S) # 0
  BY FS_CardinalityType, FS_EmptySet
<1>2. PICK a \in S : Rank(R, S, a) = Cardinality(S) - 1
  <2>1. Cardinality(S) - 1 \in Nat /\ Cardinality(S) - 1 < Cardinality(S)
    BY <1>1
  <2> QED BY <2>1, RanksAreAll
<1>3. Preceding(R, S, a) = S \ {a}
  <2>1. Preceding(R, S, a) \in SUBSET (S \ {a})
    BY DEF Preceding, IsOrder
  <2>2. IsFiniteSet(S \ {a}) /\ Cardinality(S \ {a}) = Cardinality(S) - 1
    BY FS_RemoveElement
  <2> QED BY <1>2, <2>1, <2>2, FS_Subset DEF Rank
<1> QED BY <1>2, <1>3 DEF Preceding

-----------------------------------------------------------------------------
(* Orders of documents, and the best of a set *)

\* Documents are ordered by segment, then by place in it.
LEMMA RefsAreOrdered ==
  /\ \A a \in Ref : ~RefBefore(a, a)
  /\ \A a, b \in Ref : a # b => RefBefore(a, b) \/ RefBefore(b, a)
  /\ \A a, b, c \in Ref : RefBefore(a, b) /\ RefBefore(b, c) => RefBefore(a, c)
BY DEF Ref, RefBefore

\* Results are ordered by score, then by document.
LEMMA RanksAreOrdered ==
  /\ \A a \in Hit : ~RanksBefore(a, a)
  /\ \A a, b \in Hit : a # b => RanksBefore(a, b) \/ RanksBefore(b, a)
  /\ \A a, b, c \in Hit : RanksBefore(a, b) /\ RanksBefore(b, c) => RanksBefore(a, c)
<1>1. \A a \in Hit : a.ref \in Ref /\ a.score \in Nat /\ a = [ref |-> a.ref, score |-> a.score]
  BY DEF Hit
<1>2. \A a, b \in Hit : a.ref = b.ref /\ a.score = b.score => a = b
  BY <1>1
<1>3. ASSUME NEW a \in Hit PROVE ~RanksBefore(a, a)
  BY <1>1, RefsAreOrdered DEF RanksBefore
<1>4. ASSUME NEW a \in Hit, NEW b \in Hit, a # b PROVE RanksBefore(a, b) \/ RanksBefore(b, a)
  BY <1>1, <1>2, <1>4, RefsAreOrdered DEF RanksBefore
<1>5. ASSUME NEW a \in Hit, NEW b \in Hit, NEW c \in Hit, RanksBefore(a, b), RanksBefore(b, c)
      PROVE  RanksBefore(a, c)
  BY <1>1, <1>5, RefsAreOrdered DEF RanksBefore
<1> QED BY <1>3, <1>4, <1>5

Ranking(S) == {p \in S \X S : RanksBefore(p[1], p[2])}

\* The order of results as a relation on a set of them.
LEMMA RankingIsOrder ==
  ASSUME NEW S \in SUBSET Hit
  PROVE  /\ IsOrder(Ranking(S), S)
         /\ \A a \in S : Rank(Ranking(S), S, a) = Cardinality({b \in S : RanksBefore(b, a)})
<1>1. \A a, b \in S : <<a, b>> \in Ranking(S) <=> RanksBefore(a, b)
  BY DEF Ranking
<1>2. IsOrder(Ranking(S), S)
  BY <1>1, RanksAreOrdered DEF IsOrder
<1>3. ASSUME NEW a \in S PROVE Preceding(Ranking(S), S, a) = {b \in S : RanksBefore(b, a)}
  BY <1>1 DEF Preceding
<1> QED BY <1>2, <1>3 DEF Rank

\* The n best are n, or all there are.
LEMMA TopSize ==
  ASSUME NEW S \in SUBSET Hit, IsFiniteSet(S), NEW n \in Nat
  PROVE  /\ Top(S, n) \subseteq S /\ IsFiniteSet(Top(S, n))
         /\ Cardinality(S) <= n => Top(S, n) = S
         /\ n <= Cardinality(S) => Cardinality(Top(S, n)) = n
<1>1. Top(S, n) = {a \in S : Rank(Ranking(S), S, a) < n}
  BY RankingIsOrder DEF Top
<1> QED BY <1>1, RankingIsOrder, FirstOfOrder

\* What ranks before one of the n best is one of them.
LEMMA TopIsFirst ==
  ASSUME NEW S \in SUBSET Hit, IsFiniteSet(S), NEW n \in Nat,
         NEW b \in Top(S, n), NEW a \in S, RanksBefore(a, b)
  PROVE  a \in Top(S, n)
<1> DEFINE R == Ranking(S)
<1>1. b \in S /\ Rank(R, S, b) < n /\ IsOrder(R, S) /\ Rank(R, S, a) = Cardinality({c \in S : RanksBefore(c, a)})
  BY RankingIsOrder DEF Top
<1>2. <<a, b>> \in R
  BY <1>1 DEF Ranking
<1>3. Rank(R, S, a) < Rank(R, S, b) /\ Rank(R, S, a) \in Nat /\ Rank(R, S, b) \in Nat
  BY <1>1, <1>2, RankGrows
<1>4. Rank(R, S, a) < n
  BY <1>1, <1>3
<1> QED BY <1>1, <1>4 DEF Top

\* Leaving out others than the n best leaves the n best.
LEMMA TopOfSome ==
  ASSUME NEW S \in SUBSET Hit, IsFiniteSet(S), NEW n \in Nat,
         NEW T \in SUBSET S, Top(S, n) \subseteq T
  PROVE  Top(T, n) = Top(S, n)
<1>1. T \in SUBSET Hit /\ IsFiniteSet(T) /\ Cardinality(T) <= Cardinality(S)
      /\ Cardinality(T) \in Nat /\ Cardinality(S) \in Nat
  BY FS_Subset, FS_CardinalityType
<1>2. Top(S, n) \subseteq Top(T, n)
  <2> SUFFICES ASSUME NEW a \in Top(S, n) PROVE Cardinality({b \in T : RanksBefore(b, a)}) < n
    BY DEF Top
  <2> DEFINE Less == {b \in T : RanksBefore(b, a)}
             More == {b \in S : RanksBefore(b, a)}
  <2>1. Less \in SUBSET More /\ More \in SUBSET S /\ Cardinality(More) < n
    BY DEF Top
  <2>2. IsFiniteSet(More) /\ Cardinality(More) \in Nat /\ IsFiniteSet(Less) /\ Cardinality(Less) \in Nat
    BY <2>1, FS_Subset, FS_CardinalityType
  <2>3. Cardinality(Less) <= Cardinality(More)
    BY <2>1, <2>2, FS_Subset
  <2> QED BY <2>1, <2>2, <2>3
<1>3. /\ IsFiniteSet(Top(T, n)) /\ Top(T, n) \subseteq T
      /\ Cardinality(T) <= n => Top(T, n) = T
      /\ n <= Cardinality(T) => Cardinality(Top(T, n)) = n
  BY <1>1, TopSize
<1>4. /\ Cardinality(S) <= n => Top(S, n) = S
      /\ n <= Cardinality(S) => Cardinality(Top(S, n)) = n
  BY TopSize
<1>5. CASE Cardinality(T) <= n
  <2>1. CASE Cardinality(S) <= n
    BY <1>1, <1>3, <1>4, <1>2, <2>1
  <2>2. CASE n <= Cardinality(S)
    <3>1. Cardinality(Top(S, n)) <= Cardinality(T)
      BY <1>1, FS_Subset
    <3>2. Cardinality(Top(S, n)) = Cardinality(T)
      BY <1>1, <1>4, <1>5, <2>2, <3>1
    <3>3. Top(S, n) = T
      BY <1>1, <3>2, FS_Subset
    <3> QED BY <1>3, <1>5, <3>3
  <2> QED BY <1>1, <2>1, <2>2
<1>6. CASE n <= Cardinality(T)
  <2>1. Cardinality(Top(S, n)) = Cardinality(Top(T, n))
    BY <1>1, <1>3, <1>4, <1>6
  <2> QED BY <1>2, <1>3, <2>1, FS_Subset
<1> QED BY <1>1, <1>5, <1>6

\* The heap keeps the best: a document offered after those before it in the
\* index displaces the worst of them when it scores more, and none otherwise.
LEMMA OfferedIsTop ==
  ASSUME NEW S \in SUBSET Hit, IsFiniteSet(S), limit \in Nat, best = Top(S, limit),
         NEW h \in Hit, \A a \in S : RefBefore(a.ref, h.ref)
  PROVE  Offered(h) = Top(S \cup {h}, limit)
<1> DEFINE all == S \cup {h}
           Hindmost(w) == \A b \in best \ {w} : RanksBefore(b, w)
<1>1. h \notin S
  <2>1. h.ref \in Ref
    BY DEF Hit
  <2> QED BY <2>1, RefsAreOrdered
<1>2. /\ all \in SUBSET Hit /\ IsFiniteSet(all) /\ Cardinality(all) = Cardinality(S) + 1
      /\ Cardinality(S) \in Nat
  BY <1>1, FS_AddElement, FS_CardinalityType
<1>3. \A a \in S : /\ RanksBefore(h, a) <=> h.score > a.score
                   /\ h.score \in Nat /\ a.score \in Nat
  <2> SUFFICES ASSUME NEW a \in S PROVE /\ RanksBefore(h, a) <=> h.score > a.score
                                        /\ h.score \in Nat /\ a.score \in Nat
    OBVIOUS
  <2>1. a.ref \in Ref /\ h.ref \in Ref /\ h.score \in Nat /\ a.score \in Nat
    BY DEF Hit
  <2>2. ~RefBefore(h.ref, a.ref)
    BY <2>1, RefsAreOrdered
  <2> QED BY <2>1, <2>2 DEF RanksBefore
<1>4. /\ best \subseteq S /\ IsFiniteSet(best) /\ Cardinality(best) \in Nat
      /\ Cardinality(S) <= limit => best = S
      /\ limit <= Cardinality(S) => Cardinality(best) = limit
  BY TopSize, FS_CardinalityType
<1>5. /\ Top(all, limit) \subseteq all /\ IsFiniteSet(Top(all, limit))
      /\ Cardinality(all) <= limit => Top(all, limit) = all
      /\ limit <= Cardinality(all) => Cardinality(Top(all, limit)) = limit
  BY <1>2, TopSize
<1>6. CASE Cardinality(best) < limit
  <2>1. best = S /\ Cardinality(S) < limit
    BY <1>2, <1>4, <1>6
  <2>2. Top(all, limit) = all
    <3>1. Cardinality(all) <= limit
      BY <1>2, <2>1
    <3> QED BY <1>5, <3>1
  <2> QED BY <1>6, <2>1, <2>2 DEF Offered
<1>7. CASE limit = 0
  <2>1. best = {} /\ Top(all, limit) = {}
    <3>1. Cardinality(best) = 0 /\ Cardinality(Top(all, limit)) = 0
      BY <1>2, <1>4, <1>5, <1>7
    <3> QED BY <1>4, <1>5, <3>1, FS_EmptySet
  <2> QED BY <1>4, <1>7, <2>1, FS_EmptySet, SMTT(30) DEF Offered
<1>8. CASE Cardinality(best) = limit /\ limit # 0
  <2>1. limit <= Cardinality(S)
    BY <1>2, <1>4, <1>8
  <2>2. best # {}
    BY <1>4, <1>8, FS_EmptySet
  <2>3. \E w \in best : Hindmost(w)
    <3>1. best \in SUBSET Hit
      BY <1>4
    <3>2. PICK w \in best : \A b \in best \ {w} : <<b, w>> \in Ranking(best)
      BY <1>4, <2>2, <3>1, RankingIsOrder, LastOfOrder
    <3> QED BY <3>2 DEF Ranking
  <2>4. PICK w : w = CHOOSE a \in best : Hindmost(a)
    OBVIOUS
  <2>5. w \in best /\ \A b \in best \ {w} : RanksBefore(b, w)
    BY <2>3, <2>4
  <2>6. Offered(h) = IF h.score > w.score THEN (best \ {w}) \cup {h} ELSE best
    BY <1>4, <1>8, <2>2, <2>4 DEF Offered
  <2>7. Cardinality(Top(all, limit)) = limit
    BY <1>2, <1>5, <2>1
  <2>8. CASE h.score > w.score
    <3> DEFINE now == (best \ {w}) \cup {h}
               rest == best \ {w}
    <3>1. RanksBefore(h, w) /\ w \in S
      BY <1>3, <1>4, <2>5, <2>8
    <3>2. /\ IsFiniteSet(rest) /\ Cardinality(rest) = limit - 1 /\ h \notin rest
          /\ IsFiniteSet(now) /\ Cardinality(now) = limit
      <4>1. IsFiniteSet(rest) /\ Cardinality(rest) = limit - 1 /\ h \notin rest
        BY <1>1, <1>4, <1>8, <2>5, FS_RemoveElement
      <4> HIDE DEF rest
      <4>2. IsFiniteSet(rest \cup {h}) /\ Cardinality(rest \cup {h}) = limit - 1 + 1
        BY <4>1, FS_AddElement
      <4> QED BY <4>1, <4>2 DEF rest
    <3>3. ASSUME NEW a \in now PROVE a \in Top(all, limit)
      <4> DEFINE Less == {b \in all : RanksBefore(b, a)}
      <4>1. Less \subseteq now /\ a \notin Less
        <5>1. a \in Hit /\ a \notin Less
          BY <1>2, <1>4, <3>3, RanksAreOrdered
        <5>2. RanksBefore(a, w)
          BY <2>5, <3>1
        <5>3. ASSUME NEW b \in S, RanksBefore(b, a) PROVE b \in rest
          <6>1. RanksBefore(b, w) /\ b # w
            BY <3>1, <5>1, <5>2, <5>3, RanksAreOrdered
          <6> QED BY <2>5, <6>1, TopIsFirst
        <5> QED BY <5>1, <5>3
      <4>2. Less \in SUBSET (now \ {a}) /\ IsFiniteSet(now \ {a}) /\ Cardinality(now \ {a}) = limit - 1
        BY <3>2, <3>3, <4>1, FS_RemoveElement
      <4>3. Cardinality(Less) <= limit - 1 /\ Cardinality(Less) \in Nat
        BY <4>2, FS_Subset, FS_CardinalityType
      <4>4. Cardinality(Less) < limit
        BY <4>3
      <4>5. a \in all
        BY <1>4
      <4> QED BY <4>4, <4>5 DEF Top
    <3> HIDE DEF now
    <3>4. now \in SUBSET Top(all, limit)
      BY <3>3
    <3>5. now = Top(all, limit)
      BY <1>5, <2>7, <3>2, <3>4, FS_Subset
    <3> QED BY <2>6, <2>8, <3>5 DEF now
  <2>9. CASE ~(h.score > w.score)
    <3>1. ~RanksBefore(h, w) /\ w \in S
      BY <1>3, <1>4, <2>5, <2>9
    <3>2. ASSUME NEW a \in best PROVE a \in Top(all, limit)
      <4>1. a \in S /\ (a = w \/ RanksBefore(a, w))
        BY <1>4, <2>5
      <4>2. ~RanksBefore(h, a)
        BY <3>1, <4>1, RanksAreOrdered
      <4>3. {b \in all : RanksBefore(b, a)} = {b \in S : RanksBefore(b, a)}
        BY <4>2
      <4> QED BY <3>2, <4>1, <4>3 DEF Top
    <3>3. best = Top(all, limit)
      <4>1. best \in SUBSET Top(all, limit)
        BY <3>2
      <4> QED BY <1>5, <1>8, <2>7, <4>1, FS_Subset
    <3> QED BY <2>6, <2>9, <3>3
  <2> QED BY <2>8, <2>9
<1>9. Cardinality(best) <= limit
  BY <1>2, <1>4
<1> QED BY <1>4, <1>6, <1>7, <1>8, <1>9

-----------------------------------------------------------------------------
(* Sets in order *)

\* A set as a sequence, in its order.
InRankOrder(s, R, S) ==
  /\ s \in Seq(S) /\ Len(s) = Cardinality(S)
  /\ ToSet(s) = S
  /\ \A i, j \in DOMAIN s : i < j => <<s[i], s[j]>> \in R

\* What InOrder makes of a set: at every place the element of that rank.
IsRanked(s, R, S) ==
  /\ s = [i \in 1..Cardinality(S) |-> s[i]]
  /\ \A i \in 1..Cardinality(S) : s[i] = CHOOSE a \in S : Rank(R, S, a) = i - 1

\* Put by their ranks, all are there and in order.
LEMMA RankedIsInOrder ==
  ASSUME NEW S, IsFiniteSet(S), NEW R, IsOrder(R, S), NEW s, IsRanked(s, R, S)
  PROVE  InRankOrder(s, R, S)
<1>1. Cardinality(S) \in Nat
  BY FS_CardinalityType
<1>2. \A i \in 1..Cardinality(S) : s[i] \in S /\ Rank(R, S, s[i]) = i - 1
  <2> SUFFICES ASSUME NEW i \in 1..Cardinality(S) PROVE s[i] \in S /\ Rank(R, S, s[i]) = i - 1
    OBVIOUS
  <2>1. i - 1 \in Nat /\ i - 1 < Cardinality(S)
    BY <1>1
  <2>2. \E a \in S : Rank(R, S, a) = i - 1
    BY <2>1, RanksAreAll
  <2> QED BY <2>2 DEF IsRanked
<1>3. s \in Seq(S) /\ Len(s) = Cardinality(S) /\ DOMAIN s = 1..Cardinality(S)
  <2>1. s \in [1..Cardinality(S) -> S]
    BY <1>2 DEF IsRanked
  <2>2. ASSUME NEW n \in Nat, NEW f \in [1..n -> S] PROVE f \in Seq(S) /\ Len(f) = n /\ DOMAIN f = 1..n
    OBVIOUS
  <2> QED BY <1>1, <2>1, <2>2
<1>4. ASSUME NEW a \in S PROVE \E i \in DOMAIN s : s[i] = a
  <2>1. Rank(R, S, a) \in Nat /\ Rank(R, S, a) < Cardinality(S)
    BY RankGrows
  <2>2. Rank(R, S, a) + 1 \in DOMAIN s
    BY <1>1, <1>3, <2>1
  <2>3. s[Rank(R, S, a) + 1] \in S /\ Rank(R, S, s[Rank(R, S, a) + 1]) = Rank(R, S, a)
    BY <1>2, <1>3, <2>1, <2>2
  <2>4. s[Rank(R, S, a) + 1] = a
    BY <2>3, RankDiffers
  <2> QED BY <2>2, <2>4
<1>5. ToSet(s) = S
  BY <1>2, <1>3, <1>4 DEF ToSet
<1>6. ASSUME NEW i \in DOMAIN s, NEW j \in DOMAIN s, i < j PROVE <<s[i], s[j]>> \in R
  <2>1. /\ s[i] \in S /\ s[j] \in S /\ i \in Nat /\ j \in Nat
        /\ Rank(R, S, s[i]) = i - 1 /\ Rank(R, S, s[j]) = j - 1
    BY <1>1, <1>2, <1>3
  <2>2. s[i] # s[j]
    BY <1>6, <2>1
  <2>3. ~(<<s[j], s[i]>> \in R)
    BY <1>6, <2>1, RankGrows
  <2> QED BY <2>1, <2>2, <2>3 DEF IsOrder
<1> QED BY <1>3, <1>5, <1>6 DEF InRankOrder

\* The results are the hits that are kept, best first.
LEMMA ResultsAreListed ==
  ASSUME NEW S \in SUBSET Hit, IsFiniteSet(S)
  PROVE  /\ InOrder(S, RanksBefore) \in Seq(S) /\ Len(InOrder(S, RanksBefore)) = Cardinality(S)
         /\ ToSet(InOrder(S, RanksBefore)) = S
<1> DEFINE R == Ranking(S)
           s == InOrder(S, RanksBefore)
           nth(i) == CHOOSE a \in S : Cardinality({b \in S : RanksBefore(b, a)}) = i - 1
<1>1. IsOrder(R, S) /\ \A a \in S : Rank(R, S, a) = Cardinality({b \in S : RanksBefore(b, a)})
  BY RankingIsOrder
<1>2. s = [i \in 1..Cardinality(S) |-> s[i]] /\ \A i \in 1..Cardinality(S) : s[i] = nth(i)
  <2>1. s = [i \in 1..Cardinality(S) |-> nth(i)]
    BY DEF InOrder
  <2> HIDE DEF s, nth
  <2> QED BY <2>1
<1>3. ASSUME NEW i \in 1..Cardinality(S) PROVE s[i] = CHOOSE a \in S : Rank(R, S, a) = i - 1
  <2> HIDE DEF R, s
  <2> QED BY <1>1, <1>2
<1> HIDE DEF R, s, nth
<1>4. InRankOrder(s, R, S)
  BY <1>1, <1>2, <1>3, RankedIsInOrder DEF IsRanked
<1> QED BY <1>4 DEF s, InRankOrder

DocOrder(S) == {p \in S \X S : RefBefore(p[1].ref, p[2].ref)}

\* The hits of one segment, in document order.
LEMMA HitsAreListed ==
  ASSUME NEW S \in SUBSET Hit, IsFiniteSet(S), \A a, b \in S : a.ref = b.ref => a = b
  PROVE  LET s == InDocOrder(S)
         IN  /\ s \in Seq(S) /\ ToSet(s) = S
             /\ \A i, j \in DOMAIN s : i < j => RefBefore(s[i].ref, s[j].ref)
<1> DEFINE R == DocOrder(S)
           s == InDocOrder(S)
           nth(i) == CHOOSE a \in S : Cardinality({b \in S : RefBefore(b.ref, a.ref)}) = i - 1
<1>1. \A a, b \in S : <<a, b>> \in R <=> RefBefore(a.ref, b.ref)
  BY DEF DocOrder
<1>2. IsOrder(R, S)
  <2>1. \A a \in S : a.ref \in Ref
    BY DEF Hit
  <2> HIDE DEF R
  <2> QED BY <1>1, <2>1, RefsAreOrdered DEF IsOrder
<1>3. \A a \in S : Rank(R, S, a) = Cardinality({b \in S : RefBefore(b.ref, a.ref)})
  <2> SUFFICES ASSUME NEW a \in S PROVE Preceding(R, S, a) = {b \in S : RefBefore(b.ref, a.ref)}
    BY DEF Rank
  <2> HIDE DEF R
  <2> QED BY <1>1 DEF Preceding
<1>4. s = [i \in 1..Cardinality(S) |-> s[i]] /\ \A i \in 1..Cardinality(S) : s[i] = nth(i)
  <2>1. s = [i \in 1..Cardinality(S) |-> nth(i)]
    BY DEF InDocOrder, InOrder
  <2> HIDE DEF s, nth
  <2> QED BY <2>1
<1>5. ASSUME NEW i \in 1..Cardinality(S) PROVE s[i] = CHOOSE a \in S : Rank(R, S, a) = i - 1
  <2> HIDE DEF R, s
  <2> QED BY <1>3, <1>4
<1> HIDE DEF R, s, nth
<1>6. InRankOrder(s, R, S)
  BY <1>2, <1>4, <1>5, RankedIsInOrder DEF IsRanked
<1>7. \A i \in DOMAIN s : s[i] \in S
  BY <1>6 DEF InRankOrder
<1> QED BY <1>1, <1>6, <1>7 DEF s, InRankOrder

-----------------------------------------------------------------------------
(* What matches *)

\* The types that SearchAssumption gives an index, taken apart.
LEMMA IndexTyped ==
  ASSUME index \in Indexes
  PROVE  /\ index \in Seq(Segment) /\ Len(index) \in Nat /\ DOMAIN index = 1..Len(index)
         /\ \A s \in DOMAIN index :
              /\ WellFormed(index[s])
              /\ index[s].entries \in Seq([host : HostNames, score : Nat])
              /\ \A t \in Terms : index[s].postings[t] \in Seq([doc : Nat, positions : SUBSET Nat])
<1>1. index \in Seq(Segment) /\ \A s \in DOMAIN index : WellFormed(index[s])
  BY SearchAssumption
<1>2. Len(index) \in Nat /\ DOMAIN index = 1..Len(index)
  BY <1>1
<1>3. \A s \in DOMAIN index : index[s] \in Segment
  BY <1>1
<1> QED BY <1>1, <1>2, <1>3 DEF Segment

\* The entries of a segment.
LEMMA EntryTyped ==
  ASSUME index \in Indexes, NEW s \in DOMAIN index
  PROVE  /\ IsFiniteSet(DOMAIN index[s].entries) /\ DOMAIN index[s].entries \subseteq Nat
         /\ \A doc \in DOMAIN index[s].entries : index[s].entries[doc].score \in Nat
<1> DEFINE Entry == [host : HostNames, score : Nat]
<1>1. PICK es : es = index[s].entries
  OBVIOUS
<1>2. es \in Seq(Entry)
  BY <1>1, IndexTyped
<1>3. \A e \in Entry : e.score \in Nat
  OBVIOUS
<1> HIDE DEF Entry
<1>4. DOMAIN es = 1..Len(es) /\ Len(es) \in Nat /\ \A doc \in DOMAIN es : es[doc] \in Entry
  BY <1>2
<1>5. IsFiniteSet(1..Len(es)) /\ 1..Len(es) \subseteq Nat
  BY <1>4, FS_Interval
<1> QED BY <1>1, <1>3, <1>4, <1>5

\* A document has one posting in a list: what is read at its place is what the
\* list says of it.
LEMMA PostingTyped ==
  ASSUME index \in Indexes, NEW s \in DOMAIN index, NEW t \in Terms
  PROVE  LET list == index[s].postings[t]
         IN  /\ DOMAIN Docs(list) = DOMAIN list /\ DOMAIN list = 1..Len(list) /\ Len(list) \in Nat
             /\ \A i \in DOMAIN list :
                  /\ Docs(list)[i] = list[i].doc
                  /\ list[i].doc \in DOMAIN index[s].entries
                  /\ list[i].positions \in SUBSET Nat /\ list[i].positions # {}
                  /\ IsFiniteSet(list[i].positions)
                  /\ PositionsIn(s, t, list[i].doc) = list[i].positions
<1> DEFINE Posting == [doc : Nat, positions : SUBSET Nat]
<1>1. PICK list : list = index[s].postings[t]
  OBVIOUS
<1>2. list \in Seq(Posting)
  BY <1>1, IndexTyped
<1>3. \A p \in Posting : p.doc \in Nat /\ p.positions \in SUBSET Nat
  OBVIOUS
<1> HIDE DEF Posting
<1>4. DOMAIN list = 1..Len(list) /\ Len(list) \in Nat /\ \A i \in DOMAIN list : list[i] \in Posting
  BY <1>2
<1>5. DOMAIN Docs(list) = DOMAIN list /\ \A i \in DOMAIN list : Docs(list)[i] = list[i].doc
  BY DEF Docs
<1>6. /\ Ascending(Docs(list))
      /\ \A i \in DOMAIN list : /\ list[i].doc \in DOMAIN index[s].entries
                                /\ list[i].positions # {} /\ IsFiniteSet(list[i].positions)
  BY <1>1, IndexTyped DEF WellFormed
<1>7. ASSUME NEW i \in DOMAIN list PROVE PositionsIn(s, t, list[i].doc) = list[i].positions
  <2>1. ASSUME NEW j \in DOMAIN list, list[j].doc = list[i].doc PROVE j = i
    <3>1. list[i].doc \in Nat /\ list[j].doc \in Nat /\ i \in Nat /\ j \in Nat
      BY <1>3, <1>4
    <3>2. i < j => list[i].doc < list[j].doc
      BY <1>5, <1>6 DEF Ascending
    <3>3. j < i => list[j].doc < list[i].doc
      BY <1>5, <1>6 DEF Ascending
    <3> QED BY <2>1, <3>1, <3>2, <3>3
  <2>2. {q \in ToSet(list) : q.doc = list[i].doc} = {list[i]}
    BY <2>1 DEF ToSet
  <2>3. PositionsIn(s, t, list[i].doc) = UNION {p.positions : p \in {list[i]}}
    BY <1>1, <2>2 DEF PositionsIn
  <2> QED BY <2>3
<1> QED BY <1>1, <1>3, <1>4, <1>5, <1>6, <1>7

\* The types that SearchAssumption gives a query.
LEMMA QueryTyped ==
  ASSUME query \in Queries
  PROVE  /\ WellPut(query) /\ DOMAIN query.terms = 1..Len(query.terms) /\ Len(query.terms) \in Nat
         /\ \A l \in DOMAIN query.terms : query.terms[l] \in Terms
         /\ query.terms = <<>> <=> Len(query.terms) = 0
<1>1. query \in Query /\ WellPut(query)
  BY SearchAssumption
<1>2. query.terms \in Seq(Terms)
  BY <1>1 DEF Query
<1> QED BY <1>1, <1>2

\* There are as many matches as can be counted.
LEMMA MatchingTyped ==
  ASSUME index \in Indexes
  PROVE  /\ IsFiniteSet(Matching)
         /\ \A r \in Matching : /\ r \in Ref /\ r = [segment |-> r.segment, doc |-> r.doc]
                                /\ r.segment \in DOMAIN index /\ r.doc \in DOMAIN index[r.segment].entries
<1> DEFINE A == DOMAIN index
           Ds == {DOMAIN index[s].entries : s \in A}
           D == UNION Ds
           P == A \X D
           f == [p \in P |-> [segment |-> p[1], doc |-> p[2]]]
           Refs == [segment : A, doc : D]
<1>1. IsFiniteSet(A) /\ A \subseteq Nat
  BY IndexTyped, FS_Interval
<1>2. IsFiniteSet(Ds)
  <2> DEFINE g == [s \in A |-> DOMAIN index[s].entries]
  <2>1. g \in [A -> Ds] /\ \A e \in Ds : \E s \in A : g[s] = e
    OBVIOUS
  <2> HIDE DEF A, Ds, g
  <2> QED BY <1>1, <2>1, Fun_IsSurj, FS_Surjection
<1>3. IsFiniteSet(D) /\ D \subseteq Nat
  <2>1. \A e \in Ds : IsFiniteSet(e) /\ e \subseteq Nat
    BY EntryTyped
  <2> HIDE DEF Ds
  <2> QED BY <1>2, <2>1, FS_UNION
<1>4. IsFiniteSet(Refs)
  <2> HIDE DEF A, D
  <2>1. IsFiniteSet(P)
    BY <1>1, <1>3, FS_Product
  <2>2. f \in [P -> Refs]
    OBVIOUS
  <2>3. \A r \in Refs : \E p \in P : f[p] = r
    <3> SUFFICES ASSUME NEW r \in Refs PROVE \E p \in P : f[p] = r
      OBVIOUS
    <3>1. <<r.segment, r.doc>> \in P /\ f[<<r.segment, r.doc>>] = r
      OBVIOUS
    <3> QED BY <3>1
  <2> HIDE DEF P, Refs, f
  <2> QED BY <2>1, <2>2, <2>3, Fun_IsSurj, FS_Surjection
<1>5. Matching \in SUBSET Refs
  BY DEF Matching
<1>6. \A r \in Refs : r \in Ref /\ r = [segment |-> r.segment, doc |-> r.doc] /\ r.segment \in A
  <2> HIDE DEF A, D
  <2> SUFFICES ASSUME NEW r \in Refs
               PROVE  r \in Ref /\ r = [segment |-> r.segment, doc |-> r.doc] /\ r.segment \in A
    OBVIOUS
  <2>1. r = [segment |-> r.segment, doc |-> r.doc]
    OBVIOUS
  <2>2. r.segment \in A /\ r.doc \in D
    OBVIOUS
  <2>3. [segment |-> r.segment, doc |-> r.doc] \in Ref
    BY <1>1, <1>3, <2>2 DEF Ref
  <2> QED BY <2>1, <2>2, <2>3
<1>7. \A r \in Matching : r.doc \in DOMAIN index[r.segment].entries
  BY DEF Matching
<1>8. IsFiniteSet(Matching)
  BY <1>4, <1>5, FS_Subset
<1> QED BY <1>5, <1>6, <1>7, <1>8

\* Closeness adds a natural number.
LEMMA ProximityTyped ==
  ASSUME NEW span, NEW n
  PROVE  Proximity(span, n) \in Nat
BY SearchAssumption DEF Proximity

\* A document that matches with its score, for the search and for the promise.
PositionsOf(r) == [i \in DOMAIN query.terms |-> PositionsIn(r.segment, query.terms[i], r.doc)]

Scored(r) ==
  [Base(r) EXCEPT !.score = @ + Proximity(ClosestSpan(PositionsOf(r)), Len(query.terms))]

\* The hits of a match are hits of that document.
LEMMA ScoresTyped ==
  ASSUME index \in Indexes, NEW r \in Matching
  PROVE  /\ Base(r) \in Hit /\ Base(r).ref = r
         /\ Scored(r) \in Hit /\ Scored(r).ref = r
         /\ Exact(r) \in Hit /\ Exact(r).ref = r
<1>1. r \in Ref /\ index[r.segment].entries[r.doc].score \in Nat
  BY MatchingTyped, EntryTyped
<1>2. PICK score \in Nat : score = index[r.segment].entries[r.doc].score
  BY <1>1
<1>3. Base(r) = [ref |-> r, score |-> score]
  BY <1>2 DEF Base
<1>4. PICK p \in Nat : p = Proximity(ClosestSpan(PositionsOf(r)), Len(query.terms))
  BY ProximityTyped
<1>5. PICK q \in Nat : q = Proximity(Narrowest(r), Len(query.terms))
  BY ProximityTyped
<1>6. Scored(r) = [ref |-> r, score |-> score + p]
  BY <1>3, <1>4 DEF Scored
<1>7. Exact(r) = [ref |-> r, score |-> score + q]
  BY <1>3, <1>5 DEF Exact
<1> QED BY <1>1, <1>3, <1>6, <1>7 DEF Hit

-----------------------------------------------------------------------------
(* A finished walk and what matches *)

TermLists == [l \in DOMAIN query.terms |-> Docs(index[segment].postings[query.terms[l]])]

\* The walk over the lists of a segment has come to its end.
Walked ==
  /\ index \in Indexes /\ query \in Queries /\ segment \in DOMAIN index
  /\ query.terms # <<>> /\ lists = TermLists /\ WalkInv /\ stage = "done"

\* What is read through the recorded places is what the lists say of the document.
LEMMA PlacesReadRight ==
  ASSUME Walked, NEW m \in ToSet(found)
  PROVE  /\ m.doc \in DOMAIN index[segment].entries
         /\ \A t \in ToSet(query.terms) : Has(segment, t, m.doc)
         /\ DOMAIN PositionsAt(m) = DOMAIN query.terms
         /\ \A l \in DOMAIN query.terms : PositionsAt(m)[l] = PositionsIn(segment, query.terms[l], m.doc)
<1>1. PICK k \in DOMAIN found : m = found[k]
  BY DEF ToSet
<1>2. DOMAIN lists = DOMAIN query.terms
  BY DEF Walked, TermLists
<1>3. ASSUME NEW l \in DOMAIN query.terms
      PROVE  LET list == index[segment].postings[query.terms[l]]
             IN  /\ m.at[l] \in DOMAIN list /\ list[m.at[l]].doc = m.doc
                 /\ Has(segment, query.terms[l], m.doc)
                 /\ m.doc \in DOMAIN index[segment].entries
                 /\ PositionsIn(segment, query.terms[l], m.doc) = list[m.at[l]].positions
  <2>1. PICK list : list = index[segment].postings[query.terms[l]]
    OBVIOUS
  <2>2. lists[l] = Docs(list)
    BY <2>1 DEF Walked, TermLists
  <2>3. m.at[l] \in DOMAIN lists[l] /\ lists[l][m.at[l]] = m.doc
    BY <1>1, <1>2 DEF Walked, WalkInv, PlacesAreRight
  <2>4. query.terms[l] \in Terms
    BY QueryTyped DEF Walked
  <2>5. /\ DOMAIN Docs(list) = DOMAIN list
        /\ \A i \in DOMAIN list :
             /\ Docs(list)[i] = list[i].doc
             /\ list[i].doc \in DOMAIN index[segment].entries
             /\ PositionsIn(segment, query.terms[l], list[i].doc) = list[i].positions
    BY <2>1, <2>4, PostingTyped DEF Walked
  <2>6. m.doc \in ToSet(Docs(list))
    BY <2>2, <2>3 DEF ToSet
  <2>7. Has(segment, query.terms[l], m.doc)
    BY <2>1, <2>6 DEF Has
  <2>8. m.at[l] \in DOMAIN list /\ list[m.at[l]].doc = m.doc
    BY <2>2, <2>3, <2>5
  <2>9. /\ m.doc \in DOMAIN index[segment].entries
        /\ PositionsIn(segment, query.terms[l], m.doc) = list[m.at[l]].positions
    BY <2>5, <2>8
  <2> QED BY <2>1, <2>7, <2>8, <2>9
<1>4. PICK l \in DOMAIN query.terms : TRUE
  <2>1. DOMAIN query.terms = 1..Len(query.terms) /\ Len(query.terms) \in Nat /\ Len(query.terms) # 0
    BY QueryTyped DEF Walked
  <2>2. 1 \in DOMAIN query.terms
    BY <2>1
  <2> QED BY <2>2
<1>5. \A t \in ToSet(query.terms) : Has(segment, t, m.doc)
  BY <1>3 DEF ToSet
<1>6. /\ DOMAIN PositionsAt(m) = DOMAIN query.terms
      /\ \A i \in DOMAIN query.terms : PositionsAt(m)[i] = PositionsIn(segment, query.terms[i], m.doc)
  BY <1>3 DEF PositionsAt
<1> QED BY <1>3, <1>4, <1>5, <1>6

\* What the walk found and the filters keep is what matches.
LEMMA KeptAreMatches ==
  ASSUME Walked, NEW m \in ToSet(found)
  PROVE  /\ Keep(m) <=> RefOf(m) \in Matching
         /\ Keep(m) => BaseHit(m) = Base(RefOf(m)) /\ FullHit(m) = Scored(RefOf(m))
<1>1. /\ m.doc \in DOMAIN index[segment].entries
      /\ \A t \in ToSet(query.terms) : Has(segment, t, m.doc)
      /\ DOMAIN PositionsAt(m) = DOMAIN query.terms
      /\ \A l \in DOMAIN query.terms : PositionsAt(m)[l] = PositionsIn(segment, query.terms[l], m.doc)
  BY PlacesReadRight
<1>2. RefOf(m).segment = segment /\ RefOf(m).doc = m.doc
  BY DEF RefOf
<1>3. ASSUME NEW phrase \in query.phrases
      PROVE  [i \in DOMAIN phrase |-> PositionsAt(m)[CHOOSE l \in DOMAIN query.terms : query.terms[l] = phrase[i]]]
               = [i \in DOMAIN phrase |-> PositionsIn(segment, phrase[i], m.doc)]
  <2> SUFFICES ASSUME NEW i \in DOMAIN phrase
               PROVE  PositionsAt(m)[CHOOSE l \in DOMAIN query.terms : query.terms[l] = phrase[i]]
                        = PositionsIn(segment, phrase[i], m.doc)
    OBVIOUS
  <2>1. phrase[i] \in ToSet(query.terms)
    BY QueryTyped DEF Walked, WellPut, ToSet
  <2>2. \E l \in DOMAIN query.terms : query.terms[l] = phrase[i]
    BY <2>1 DEF ToSet
  <2>3. PICK at : at = CHOOSE l \in DOMAIN query.terms : query.terms[l] = phrase[i]
    OBVIOUS
  <2>4. at \in DOMAIN query.terms /\ query.terms[at] = phrase[i]
    BY <2>2, <2>3
  <2> QED BY <1>1, <2>3, <2>4
<1>4. SatisfiesPhrases(PositionsAt(m)) <=>
        \A phrase \in query.phrases : PhraseMatches([i \in DOMAIN phrase |-> PositionsIn(segment, phrase[i], m.doc)])
  BY <1>3 DEF SatisfiesPhrases
<1>5. RefOf(m) \in [segment : DOMAIN index, doc : UNION {DOMAIN index[s].entries : s \in DOMAIN index}]
  BY <1>1 DEF RefOf, Walked
<1>6. Keep(m) <=> RefOf(m) \in Matching
  BY <1>1, <1>2, <1>4, <1>5 DEF Keep, Matching, Walked
<1>7. BaseHit(m) = Base(RefOf(m))
  BY <1>2 DEF BaseHit, Base
<1>8. PositionsAt(m) = PositionsOf(RefOf(m))
  BY <1>1, <1>2 DEF PositionsAt, PositionsOf
<1>9. FullHit(m) = Scored(RefOf(m))
  BY <1>7, <1>8 DEF FullHit, Scored
<1> QED BY <1>6, <1>7, <1>9

\* Every match of the segment is among what was found, once.
LEMMA MatchesAreFound ==
  ASSUME Walked
  PROVE  /\ \A r \in Matching : r.segment = segment => \E m \in ToSet(found) : RefOf(m) = r
         /\ \A m, n \in ToSet(found) : RefOf(m) = RefOf(n) => m = n
<1>1. ASSUME NEW r \in Matching, r.segment = segment
      PROVE  \E m \in ToSet(found) : RefOf(m) = r
  <2>1. ASSUME NEW l \in DOMAIN lists PROVE InList(r.doc, l)
    <3>1. l \in DOMAIN query.terms /\ lists[l] = Docs(index[segment].postings[query.terms[l]])
      BY <2>1 DEF Walked, TermLists
    <3>2. Has(segment, query.terms[l], r.doc)
      BY <1>1, <3>1 DEF Matching, ToSet
    <3> QED BY <3>1, <3>2 DEF Has, ToSet, InList
  <2>2. PICK l \in DOMAIN lists : TRUE
    <3>1. DOMAIN lists = 1..Len(query.terms) /\ Len(query.terms) \in Nat /\ Len(query.terms) # 0
      BY QueryTyped DEF Walked, TermLists
    <3>2. 1 \in DOMAIN lists
      BY <3>1
    <3> QED BY <3>2
  <2>3. r.doc \in Common
    BY <2>1, <2>2 DEF InList, Common, Listed
  <2>4. r.doc \in Found
    BY <2>3, WalkInvExact DEF Walked, WalkIsExact
  <2>5. PICK k \in DOMAIN found : found[k].doc = r.doc
    BY <2>4 DEF Found
  <2>6. found[k] \in ToSet(found) /\ RefOf(found[k]) = [segment |-> r.segment, doc |-> r.doc]
    BY <1>1, <2>5 DEF ToSet, RefOf
  <2> QED BY <2>6, MatchingTyped DEF Walked
<1>2. ASSUME NEW m \in ToSet(found), NEW n \in ToSet(found), RefOf(m) = RefOf(n)
      PROVE  m = n
  <2>1. PICK i \in DOMAIN found : m = found[i]
    BY DEF ToSet
  <2>2. PICK j \in DOMAIN found : n = found[j]
    BY DEF ToSet
  <2>3. m.doc = n.doc
    BY <1>2 DEF RefOf
  <2> DEFINE Match_ == [doc : Nat, at : [DOMAIN lists -> Nat]]
  <2>4. found \in Seq(Match_) /\ \A e \in Match_ : e.doc \in Nat
    BY DEF Walked, WalkInv, WalkTypeOK
  <2> HIDE DEF Match_
  <2>5. i \in Nat /\ j \in Nat /\ m.doc \in Nat
    BY <2>1, <2>4
  <2>6. ~(i < j) /\ ~(j < i)
    BY <2>1, <2>2, <2>3, <2>5 DEF Walked, WalkInv, PlacesAreRight
  <2> QED BY <2>1, <2>2, <2>5, <2>6
<1> QED BY <1>1, <1>2

-----------------------------------------------------------------------------
(* Counting and offering *)

MatchesIn(s) == {r \in Matching : r.segment = s}

MatchesBefore(n) == {r \in Matching : r.segment < n}

\* The documents that the cuts of the segments before n leave, with their scores.
Survivors(n) == {r \in Matching : r.segment < n /\ Base(r) \in WithinCut(r.segment)}

Offers(n) == {Scored(r) : r \in Survivors(n)}

\* The cut is never shorter than the page.
LEMMA DepthTyped ==
  ASSUME limit \in Limits, depth \in Depths
  PROVE  limit \in Nat /\ (Depth = NoValue \/ (Depth \in Nat /\ limit <= Depth))
<1>1. limit \in Nat /\ depth \in Nat \cup {NoValue}
  BY SearchAssumption
<1>2. CASE depth = NoValue
  <2> DEFINE most == CHOOSE n \in {depth, limit, 1} : \A m \in {depth, limit, 1} : m <= n
  <2>1. Depth = IF depth = NoValue THEN NoValue ELSE most
    BY DEF Depth
  <2> HIDE DEF most
  <2> QED BY <1>1, <1>2, <2>1
<1>3. CASE depth # NoValue
  <2>1. \E n \in {depth, limit, 1} : \A m \in {depth, limit, 1} : m <= n
    <3>1. depth \in Nat
      BY <1>1, <1>3
    <3>2. CASE depth >= limit /\ depth >= 1
      BY <3>1, <3>2, <1>1
    <3>3. CASE limit >= depth /\ limit >= 1
      BY <3>1, <3>3, <1>1
    <3>4. CASE 1 >= depth /\ 1 >= limit
      BY <3>1, <3>4, <1>1
    <3> QED BY <3>1, <3>2, <3>3, <3>4, <1>1
  <2>2. PICK n : n = CHOOSE k \in {depth, limit, 1} : \A m \in {depth, limit, 1} : m <= k
    OBVIOUS
  <2>3. n \in {depth, limit, 1} /\ limit <= n
    BY <2>1, <2>2
  <2>4. Depth = n
    BY <1>3, <2>2 DEF Depth
  <2> QED BY <1>1, <1>3, <2>3, <2>4
<1> QED BY <1>2, <1>3

\* A segment is scored: what is kept of it is counted, and what its cut leaves
\* goes to the heap.
LEMMA KeptAreCounted ==
  ASSUME Walked, NEW kept, kept = {m \in ToSet(found) : Keep(m)}
  PROVE  /\ IsFiniteSet(kept) /\ Cardinality(kept) = Cardinality(MatchesIn(segment))
         /\ {FullHit(m) : m \in Cut(kept)}
              = {Scored(r) : r \in {q \in MatchesIn(segment) : Base(q) \in WithinCut(segment)}}
<1> DEFINE here == MatchesIn(segment)
           f == [m \in kept |-> RefOf(m)]
<1>1. IsFiniteSet(here)
  BY MatchingTyped, FS_Subset DEF Walked, MatchesIn
<1>2. \A m \in kept : /\ m \in ToSet(found) /\ RefOf(m) \in here
                      /\ BaseHit(m) = Base(RefOf(m)) /\ FullHit(m) = Scored(RefOf(m))
  BY KeptAreMatches DEF MatchesIn, RefOf
<1>3. \A r \in here : \E m \in kept : RefOf(m) = r
  BY MatchesAreFound, KeptAreMatches DEF MatchesIn
<1>4. \A m, n \in kept : RefOf(m) = RefOf(n) => m = n
  BY MatchesAreFound
<1>5. IsFiniteSet(kept) /\ Cardinality(kept) = Cardinality(here)
  <2>1. f \in [kept -> here]
    BY <1>2
  <2>2. f \in Injection(kept, here) /\ f \in Surjection(kept, here)
    <3>1. \A m, n \in kept : f[m] = f[n] => m = n
      BY <1>4
    <3>2. \A r \in here : \E m \in kept : f[m] = r
      BY <1>3
    <3> HIDE DEF f, here
    <3> QED BY <2>1, <3>1, <3>2, Fun_IsInj, Fun_IsSurj
  <2> HIDE DEF f, here
  <2> QED BY <1>1, <2>2, FS_Injection
<1>6. {BaseHit(m) : m \in kept} = {Base(r) : r \in here}
  BY <1>2, <1>3
<1>7. Cut(kept) = {m \in kept : Base(RefOf(m)) \in WithinCut(segment)}
  <2>1. WithinCut(segment) = IF Depth = NoValue THEN {Base(r) : r \in here} ELSE Top({Base(r) : r \in here}, Depth)
    BY DEF WithinCut, MatchesIn
  <2>2. CASE Depth = NoValue
    BY <1>2, <2>1, <2>2 DEF Cut
  <2>3. CASE Depth # NoValue
    BY <1>2, <1>6, <2>1, <2>3 DEF Cut
  <2> QED BY <2>2, <2>3
<1>8. {FullHit(m) : m \in Cut(kept)} = {Scored(r) : r \in {q \in here : Base(q) \in WithinCut(segment)}}
  <2> HIDE DEF here
  <2> QED BY <1>2, <1>3, <1>7
<1> QED BY <1>5, <1>8

\* What is offered: one hit of every document that the cuts leave.
LEMMA OffersTyped ==
  ASSUME index \in Indexes, NEW n
  PROVE  /\ Offers(n) \in SUBSET Hit /\ IsFiniteSet(Offers(n))
         /\ \A a \in Offers(n) : a.ref \in Survivors(n) /\ a = Scored(a.ref)
         /\ \A a, b \in Offers(n) : a.ref = b.ref => a = b
         /\ Cardinality(Offers(n)) = Cardinality(Survivors(n))
         /\ IsFiniteSet(Survivors(n)) /\ Survivors(n) \subseteq Matching
<1>1. Survivors(n) \in SUBSET Matching /\ IsFiniteSet(Survivors(n))
  <2>1. Survivors(n) \in SUBSET Matching
    BY DEF Survivors
  <2> QED BY <2>1, MatchingTyped, FS_Subset
<1>2. \A r \in Survivors(n) : Scored(r) \in Hit /\ Scored(r).ref = r
  BY <1>1, ScoresTyped
<1>3. \A a \in Offers(n) : a \in Hit /\ a.ref \in Survivors(n) /\ a = Scored(a.ref)
  BY <1>2 DEF Offers
<1>4. IsFiniteSet(Offers(n)) /\ Cardinality(Offers(n)) = Cardinality(Survivors(n))
  <2> DEFINE f == [r \in Survivors(n) |-> Scored(r)]
  <2>1. f \in [Survivors(n) -> Offers(n)]
    BY DEF Offers
  <2>2. \A q, r \in Survivors(n) : f[q] = f[r] => q = r
    BY <1>2
  <2>3. \A a \in Offers(n) : \E r \in Survivors(n) : f[r] = a
    BY DEF Offers
  <2> HIDE DEF f
  <2>4. f \in Injection(Survivors(n), Offers(n)) /\ f \in Surjection(Survivors(n), Offers(n))
    BY <2>1, <2>2, <2>3, Fun_IsInj, Fun_IsSurj
  <2> QED BY <1>1, <2>4, FS_Surjection
<1> QED BY <1>1, <1>3, <1>4

\* Before the first segment nothing has been offered.
LEMMA NothingBefore ==
  ASSUME index \in Indexes
  PROVE  MatchesBefore(1) = {} /\ Offers(1) = {} /\ \A n : Top({}, n) = {}
<1>1. \A r \in Matching : ~(r.segment < 1)
  BY MatchingTyped, IndexTyped
<1> QED BY <1>1 DEF MatchesBefore, Offers, Survivors, Top

\* What is before the next segment is what was before this one and what is in it.
LEMMA NextBefore ==
  ASSUME index \in Indexes, NEW n \in Nat
  PROVE  LET new == {Scored(r) : r \in {q \in MatchesIn(n) : Base(q) \in WithinCut(n)}}
         IN  /\ Cardinality(MatchesBefore(n + 1)) = Cardinality(MatchesBefore(n)) + Cardinality(MatchesIn(n))
             /\ Offers(n + 1) \ new = Offers(n)
             /\ new \subseteq Offers(n + 1)
             /\ \A a \in Offers(n), b \in new : RefBefore(a.ref, b.ref)
<1> DEFINE some == {q \in MatchesIn(n) : Base(q) \in WithinCut(n)}
           new == {Scored(r) : r \in some}
<1>1. \A r \in Matching : r.segment \in Nat
  BY MatchingTyped DEF Ref
<1>2. /\ MatchesBefore(n + 1) = MatchesBefore(n) \cup MatchesIn(n)
      /\ MatchesBefore(n) \cap MatchesIn(n) = {}
  BY <1>1 DEF MatchesBefore, MatchesIn
<1>3. IsFiniteSet(MatchesBefore(n)) /\ IsFiniteSet(MatchesIn(n))
  BY MatchingTyped, FS_Subset DEF MatchesBefore, MatchesIn
<1>4. Cardinality(MatchesBefore(n + 1)) = Cardinality(MatchesBefore(n)) + Cardinality(MatchesIn(n))
  <2> DEFINE A == MatchesBefore(n)
             B == MatchesIn(n)
  <2> HIDE DEF A, B
  <2>1. Cardinality(A) \in Nat /\ Cardinality(B) \in Nat /\ Cardinality({}) = 0
    BY <1>3, FS_CardinalityType, FS_EmptySet DEF A, B
  <2>2. Cardinality(A \cup B) = Cardinality(A) + Cardinality(B) - Cardinality(A \cap B)
    BY <1>3, FS_Union DEF A, B
  <2> QED BY <1>2, <2>1, <2>2 DEF A, B
<1>5. Survivors(n + 1) = Survivors(n) \cup some /\ Survivors(n) \cap some = {}
  BY <1>1 DEF Survivors, MatchesIn
<1>6. \A r \in Survivors(n + 1) : Scored(r).ref = r
  BY ScoresTyped DEF Survivors
<1>7. Offers(n + 1) = Offers(n) \cup new /\ Offers(n) \cap new = {}
  <2> HIDE DEF some
  <2> QED BY <1>5, <1>6 DEF Offers
<1>8. ASSUME NEW a \in Offers(n), NEW b \in new PROVE RefBefore(a.ref, b.ref)
  <2>1. a.ref.segment < n
    BY OffersTyped DEF Survivors
  <2>2. b.ref.segment = n
    <3>1. PICK r \in some : b = Scored(r)
      OBVIOUS
    <3>2. b.ref = r
      BY <1>5, <1>6, <3>1
    <3> QED BY <3>2 DEF MatchesIn
  <2> QED BY <2>1, <2>2 DEF RefBefore
<1> QED BY <1>4, <1>7, <1>8

-----------------------------------------------------------------------------
(* The invariant of a search *)

\* How far a search has come: what it has counted and offered of the segments
\* behind it.
Progress ==
  /\ segment \in 1..Len(index) + 1
  /\ progress \in {"plan", "segment", "walk", "offer", "done"}
  /\ progress = "plan" => segment = 1 /\ matched = 0 /\ best = {} /\ hits = <<>>
  /\ progress \in {"segment", "walk", "offer"} => ~Hopeless
  /\ progress \in {"walk", "offer"} => segment <= Len(index)
  /\ progress = "walk" => lists = TermLists
  /\ progress \in {"segment", "walk"} =>
       /\ matched = Cardinality(MatchesBefore(segment))
       /\ best = Top(Offers(segment), limit)
  /\ progress = "offer" =>
       /\ matched = Cardinality(MatchesBefore(segment + 1))
       /\ ToSet(pending) \subseteq Offers(segment + 1)
       /\ pending \in Seq(ToSet(pending))
       /\ \A i, j \in DOMAIN pending : i < j => RefBefore(pending[i].ref, pending[j].ref)
       /\ \A a \in Offers(segment + 1) \ ToSet(pending), b \in ToSet(pending) : RefBefore(a.ref, b.ref)
       /\ best = Top(Offers(segment + 1) \ ToSet(pending), limit)
  /\ progress = "done" =>
       IF Hopeless THEN matched = 0 /\ hits = <<>>
       ELSE /\ matched = Cardinality(MatchesBefore(Len(index) + 1))
            /\ best = Top(Offers(Len(index) + 1), limit)
            /\ hits = InOrder(best, RanksBefore)

PageInv == SearchInv /\ limit \in Limits /\ depth \in Depths /\ Progress

\* What matches, and what it scores, depends on nothing but what was asked.
LEMMA SameInputs ==
  ASSUME UNCHANGED inputs
  PROVE  /\ Matching' = Matching /\ Hopeless' = Hopeless
         /\ \A r : Scored(r)' = Scored(r) /\ Base(r)' = Base(r)
         /\ \A s : WithinCut(s)' = WithinCut(s)
<1>1. index' = index /\ query' = query /\ limit' = limit /\ depth' = depth
  BY DEF inputs
<1>2. \A s, t, doc : PositionsIn(s, t, doc)' = PositionsIn(s, t, doc) /\ Has(s, t, doc)' = Has(s, t, doc)
  BY <1>1 DEF PositionsIn, Has
<1>3. \A s, doc : (Excluded(s, doc)' <=> Excluded(s, doc)) /\ (OnSite(s, doc)' <=> OnSite(s, doc))
  BY <1>1 DEF Excluded, OnSite, PositionsIn, PhraseMatches
<1>4. Matching' = Matching
  <2> DEFINE Reads(r, phrase) == PhraseMatches([i \in DOMAIN phrase |-> PositionsIn(r.segment, phrase[i], r.doc)])
             Refs == [segment : DOMAIN index, doc : UNION {DOMAIN index[s].entries : s \in DOMAIN index}]
  <2>1. Refs' = Refs
    BY <1>1
  <2>2. \A r, phrase : Reads(r, phrase)' <=> Reads(r, phrase)
    BY <1>1 DEF PhraseMatches, PositionsIn
  <2> HIDE DEF Refs, Reads
  <2>3. Matching = {r \in Refs :
          /\ query.terms # <<>> /\ r.doc \in DOMAIN index[r.segment].entries
          /\ \A t \in ToSet(query.terms) : Has(r.segment, t, r.doc)
          /\ \A phrase \in query.phrases : Reads(r, phrase)
          /\ ~Excluded(r.segment, r.doc) /\ OnSite(r.segment, r.doc)}
    BY DEF Matching, Refs, Reads
  <2>4. Matching' = {r \in Refs' :
          /\ query'.terms # <<>> /\ r.doc \in DOMAIN index'[r.segment].entries
          /\ \A t \in ToSet(query'.terms) : Has(r.segment, t, r.doc)'
          /\ \A phrase \in query'.phrases : Reads(r, phrase)'
          /\ ~Excluded(r.segment, r.doc)' /\ OnSite(r.segment, r.doc)'}
    BY DEF Matching, Refs, Reads
  <2> QED BY <1>1, <1>2, <1>3, <2>1, <2>2, <2>3, <2>4
<1>5. Hopeless' = Hopeless
  BY <1>1 DEF Hopeless, Frequency
<1>6. \A r : Base(r)' = Base(r) /\ PositionsOf(r)' = PositionsOf(r)
  BY <1>1 DEF Base, PositionsOf, PositionsIn
<1>7. \A r : Scored(r)' = Scored(r)
  BY <1>1 DEF Scored, Base, PositionsOf, PositionsIn
<1>8. Depth' = Depth
  BY <1>1 DEF Depth
<1>9. \A s : WithinCut(s)' = WithinCut(s)
  BY <1>4, <1>6, <1>8 DEF WithinCut, Top
<1> QED BY <1>4, <1>5, <1>6, <1>7, <1>9

-----------------------------------------------------------------------------
(* Every step keeps it *)

\* What is behind a segment changes with the segment only.
LEMMA SameAtNext ==
  ASSUME UNCHANGED inputs
  PROVE  /\ Offers(segment)' = Offers(segment') /\ Offers(segment + 1)' = Offers(segment' + 1)
         /\ Offers(Len(index) + 1)' = Offers(Len(index) + 1)
         /\ MatchesBefore(segment)' = MatchesBefore(segment')
         /\ MatchesBefore(segment + 1)' = MatchesBefore(segment' + 1)
         /\ MatchesBefore(Len(index) + 1)' = MatchesBefore(Len(index) + 1)
<1>1. index' = index
  BY DEF inputs
<1>2. /\ Survivors(segment)' = Survivors(segment') /\ Survivors(segment + 1)' = Survivors(segment' + 1)
      /\ Survivors(Len(index) + 1)' = Survivors(Len(index) + 1)
  BY <1>1, SameInputs DEF Survivors
<1>3. /\ Offers(segment)' = Offers(segment') /\ Offers(segment + 1)' = Offers(segment' + 1)
      /\ Offers(Len(index) + 1)' = Offers(Len(index) + 1)
  BY <1>2, SameInputs DEF Offers
<1>4. /\ MatchesBefore(segment)' = MatchesBefore(segment')
      /\ MatchesBefore(segment + 1)' = MatchesBefore(segment' + 1)
      /\ MatchesBefore(Len(index) + 1)' = MatchesBefore(Len(index) + 1)
  BY <1>1, SameInputs DEF MatchesBefore
<1> QED BY <1>3, <1>4

\* Nothing a search does changes what it was asked.
LEMMA InputsStay == [SearchNext]_searchVars => UNCHANGED inputs
BY DEF SearchNext, Plan, SkipSegment, ReadLists, Walk, Score, OfferHit, NextSegment, Return, Returned,
       searchVars

\* A search starts with nothing counted and nothing offered.
LEMMA PlanProgress ==
  ASSUME PageInv, Plan
  PROVE  Progress'
<1>1. /\ progress' = IF Hopeless THEN "done" ELSE "segment"
      /\ UNCHANGED inputs /\ segment' = segment /\ best' = best /\ matched' = matched /\ hits' = hits
      /\ progress = "plan"
  BY DEF Plan
<1>2. index' = index /\ limit' = limit
  BY <1>1 DEF inputs
<1>3. /\ segment' = 1 /\ matched' = 0 /\ best' = {} /\ hits' = <<>> /\ segment \in 1..Len(index) + 1
  BY <1>1 DEF PageInv, Progress
<1>4. MatchesBefore(segment)' = {} /\ Offers(segment)' = {} /\ Top({}, limit) = {} /\ Cardinality({}) = 0
  BY <1>1, <1>3, SameAtNext, NothingBefore, FS_EmptySet DEF PageInv, SearchInv
<1>5. Hopeless' = Hopeless
  BY <1>1, SameInputs
<1> QED BY <1>1, <1>2, <1>3, <1>4, <1>5 DEF Progress, Top

\* A segment that is skipped has no match.
LEMMA SkipProgress ==
  ASSUME PageInv, SkipSegment
  PROVE  Progress'
<1>1. /\ progress = "segment" /\ progress' = "segment" /\ UNCHANGED inputs /\ segment' = segment + 1
      /\ best' = best /\ matched' = matched /\ segment <= Len(index)
      /\ \A doc \in DOMAIN index[segment].entries : ~OnSite(segment, doc)
  BY DEF SkipSegment
<1>2. index' = index /\ limit' = limit /\ Hopeless' = Hopeless
  BY <1>1, SameInputs DEF inputs
<1>3. segment \in Nat /\ segment' \in 1..Len(index) + 1 /\ index \in Indexes
  BY <1>1, IndexTyped DEF PageInv, SearchInv, Progress
<1>4. MatchesIn(segment) = {}
  BY <1>1, MatchingTyped DEF MatchesIn, Matching
<1>5. /\ Cardinality(MatchesBefore(segment')) = Cardinality(MatchesBefore(segment))
      /\ Offers(segment') = Offers(segment)
  <2>1. /\ Cardinality(MatchesBefore(segment + 1)) = Cardinality(MatchesBefore(segment)) + Cardinality(MatchesIn(segment))
        /\ Offers(segment + 1) \ {Scored(r) : r \in {q \in MatchesIn(segment) : Base(q) \in WithinCut(segment)}}
             = Offers(segment)
    BY <1>3, NextBefore
  <2>2. Cardinality(MatchesIn(segment)) = 0 /\ Cardinality(MatchesBefore(segment)) \in Nat
    <3>1. IsFiniteSet(MatchesBefore(segment))
      BY <1>3, FS_Subset, MatchingTyped DEF MatchesBefore
    <3>2. Cardinality(MatchesBefore(segment)) \in Nat
      BY <3>1, FS_CardinalityType
    <3> QED BY <1>4, <3>2, FS_EmptySet
  <2>3. {Scored(r) : r \in {q \in MatchesIn(segment) : Base(q) \in WithinCut(segment)}} = {}
    BY <1>4
  <2>4. Offers(segment + 1) = Offers(segment)
    BY <2>1, <2>3
  <2>5. Cardinality(MatchesBefore(segment + 1)) = Cardinality(MatchesBefore(segment))
    BY <2>1, <2>2
  <2> QED BY <1>1, <2>4, <2>5
<1>6. ~Hopeless /\ matched = Cardinality(MatchesBefore(segment)) /\ best = Top(Offers(segment), limit)
  BY <1>1 DEF PageInv, Progress
<1>7. /\ matched' = Cardinality(MatchesBefore(segment)') /\ best' = Top(Offers(segment)', limit')
  BY <1>1, <1>2, <1>5, <1>6, SameAtNext
<1> QED BY <1>1, <1>2, <1>3, <1>6, <1>7 DEF Progress, Top

\* The lists that are read are those of the segment.
LEMMA ReadProgress ==
  ASSUME PageInv, ReadLists
  PROVE  Progress'
<1>1. /\ progress = "segment" /\ progress' = "walk" /\ UNCHANGED inputs /\ segment' = segment
      /\ best' = best /\ matched' = matched /\ segment <= Len(index)
      /\ lists' = TermLists
  BY DEF ReadLists, WalkOver, TermLists
<1>2. index' = index /\ limit' = limit /\ Hopeless' = Hopeless /\ query' = query
  BY <1>1, SameInputs DEF inputs
<1>3. TermLists' = TermLists
  BY <1>1, <1>2 DEF TermLists
<1>4. /\ ~Hopeless /\ matched = Cardinality(MatchesBefore(segment)) /\ best = Top(Offers(segment), limit)
      /\ segment \in 1..Len(index) + 1
  BY <1>1 DEF PageInv, Progress
<1>5. /\ matched' = Cardinality(MatchesBefore(segment)') /\ best' = Top(Offers(segment)', limit')
  BY <1>1, <1>2, <1>4, SameAtNext
<1> QED BY <1>1, <1>2, <1>3, <1>4, <1>5 DEF Progress, Top

\* Walking counts and offers nothing.
LEMMA WalkProgress ==
  ASSUME PageInv, Walk
  PROVE  Progress'
<1>1. /\ progress = "walk" /\ progress' = "walk" /\ UNCHANGED inputs /\ segment' = segment
      /\ best' = best /\ matched' = matched /\ lists' = lists
  BY SameLists DEF Walk
<1>2. index' = index /\ limit' = limit /\ Hopeless' = Hopeless /\ query' = query
  BY <1>1, SameInputs DEF inputs
<1>3. TermLists' = TermLists
  BY <1>1, <1>2 DEF TermLists
<1>4. /\ ~Hopeless /\ matched = Cardinality(MatchesBefore(segment)) /\ best = Top(Offers(segment), limit)
      /\ segment \in 1..Len(index) + 1 /\ segment <= Len(index) /\ lists = TermLists
  BY <1>1 DEF PageInv, Progress
<1>5. /\ matched' = Cardinality(MatchesBefore(segment)') /\ best' = Top(Offers(segment)', limit')
  BY <1>1, <1>2, <1>4, SameAtNext
<1> QED BY <1>1, <1>2, <1>3, <1>4, <1>5 DEF Progress, Top

\* A scored segment is counted, and its hits are pending in document order.
LEMMA ScoreProgress ==
  ASSUME PageInv, Score
  PROVE  Progress'
<1>1. /\ progress = "walk" /\ stage = "done" /\ progress' = "offer" /\ UNCHANGED inputs /\ segment' = segment
      /\ best' = best
  BY DEF Score
<1>2. index' = index /\ limit' = limit /\ Hopeless' = Hopeless /\ query' = query
  BY <1>1, SameInputs DEF inputs
<1>3. /\ ~Hopeless /\ matched = Cardinality(MatchesBefore(segment)) /\ best = Top(Offers(segment), limit)
      /\ segment \in 1..Len(index) + 1 /\ segment <= Len(index) /\ lists = TermLists
  BY <1>1 DEF PageInv, Progress
<1>4. segment \in Nat /\ segment \in DOMAIN index /\ index \in Indexes
  BY <1>3, IndexTyped DEF PageInv, SearchInv
<1>5. Walked
  BY <1>1, <1>3, <1>4 DEF Walked, PageInv, SearchInv, Hopeless
<1>6. PICK kept : kept = {m \in ToSet(found) : Keep(m)}
  OBVIOUS
<1>7. PICK new : new = {Scored(r) : r \in {q \in MatchesIn(segment) : Base(q) \in WithinCut(segment)}}
  OBVIOUS
<1>8. matched' = matched + Cardinality(kept) /\ pending' = InDocOrder({FullHit(m) : m \in Cut(kept)})
  BY <1>6 DEF Score
<1>9. Cardinality(kept) = Cardinality(MatchesIn(segment)) /\ pending' = InDocOrder(new)
  BY <1>5, <1>6, <1>7, <1>8, KeptAreCounted
<1>10. /\ Cardinality(MatchesBefore(segment + 1)) = matched + Cardinality(MatchesIn(segment))
       /\ Offers(segment + 1) \ new = Offers(segment) /\ new \subseteq Offers(segment + 1)
       /\ \A a \in Offers(segment), b \in new : RefBefore(a.ref, b.ref)
  BY <1>3, <1>4, <1>7, NextBefore
<1>11. new \in SUBSET Hit /\ IsFiniteSet(new) /\ \A a, b \in new : a.ref = b.ref => a = b
  BY <1>4, <1>10, OffersTyped, FS_Subset
<1>12. /\ pending' \in Seq(new) /\ ToSet(pending') = new
       /\ \A i, j \in DOMAIN pending' : i < j => RefBefore(pending'[i].ref, pending'[j].ref)
  BY <1>9, <1>11, HitsAreListed
<1>13. Offers(segment + 1)' = Offers(segment + 1) /\ MatchesBefore(segment + 1)' = MatchesBefore(segment + 1)
  BY <1>1, SameAtNext
<1>14. /\ matched' = Cardinality(MatchesBefore(segment + 1)')
       /\ ToSet(pending)' = new
       /\ best' = Top(Offers(segment + 1)' \ ToSet(pending)', limit')
  BY <1>1, <1>2, <1>3, <1>8, <1>9, <1>10, <1>12, <1>13 DEF ToSet
<1>15. /\ pending' \in Seq(ToSet(pending)') /\ ToSet(pending)' \subseteq Offers(segment + 1)'
       /\ \A a \in Offers(segment + 1)' \ ToSet(pending)', b \in ToSet(pending)' : RefBefore(a.ref, b.ref)
  BY <1>10, <1>12, <1>13, <1>14
<1> QED BY <1>1, <1>2, <1>3, <1>12, <1>14, <1>15 DEF Progress, Top, RefBefore

\* The first pending hit comes after all that were offered before it.
LEMMA OfferProgress ==
  ASSUME PageInv, OfferHit
  PROVE  Progress'
<1>1. /\ progress = "offer" /\ progress' = "offer" /\ UNCHANGED inputs /\ segment' = segment
      /\ best' = Offered(Head(pending)) /\ matched' = matched /\ pending' = Tail(pending) /\ pending # <<>>
  BY DEF OfferHit
<1>2. index' = index /\ limit' = limit /\ Hopeless' = Hopeless /\ query' = query
  BY <1>1, SameInputs DEF inputs
<1>3. /\ ~Hopeless /\ matched = Cardinality(MatchesBefore(segment + 1))
      /\ segment \in 1..Len(index) + 1 /\ segment <= Len(index)
      /\ ToSet(pending) \subseteq Offers(segment + 1)
      /\ pending \in Seq(ToSet(pending))
      /\ \A i, j \in DOMAIN pending : i < j => RefBefore(pending[i].ref, pending[j].ref)
      /\ \A a \in Offers(segment + 1) \ ToSet(pending), b \in ToSet(pending) : RefBefore(a.ref, b.ref)
      /\ best = Top(Offers(segment + 1) \ ToSet(pending), limit)
  BY <1>1 DEF PageInv, Progress
<1>4. PICK all : all = Offers(segment + 1)
  OBVIOUS
<1>5. PICK h : h = Head(pending)
  OBVIOUS
<1>6. /\ all \in SUBSET Hit /\ IsFiniteSet(all)
  BY <1>4, OffersTyped DEF PageInv, SearchInv
<1>7. PICK P : P = ToSet(pending)
  OBVIOUS
<1>8. /\ pending \in Seq(P) /\ pending # <<>> /\ DOMAIN pending = 1..Len(pending) /\ Len(pending) \in Nat
      /\ P \subseteq all /\ P = {pending[i] : i \in DOMAIN pending}
  BY <1>1, <1>3, <1>4, <1>7 DEF ToSet
<1>9. /\ h = pending[1] /\ 1 \in DOMAIN pending /\ h \in P
      /\ pending' \in Seq(P) /\ Len(pending') = Len(pending) - 1 /\ DOMAIN pending' = 1..(Len(pending) - 1)
      /\ \A i \in DOMAIN pending' : pending'[i] = pending[i + 1] /\ i + 1 \in DOMAIN pending
  <2>1. Len(pending) # 0
    BY <1>8
  <2> QED BY <1>1, <1>5, <1>8, <2>1
<1>10. PICK T : T = ToSet(pending')
  OBVIOUS
<1>11. P = T \cup {h}
  <2>1. \A i \in DOMAIN pending : i = 1 \/ (i - 1 \in DOMAIN pending' /\ pending'[i - 1] = pending[i])
    BY <1>8, <1>9
  <2> QED BY <1>8, <1>9, <1>10, <2>1 DEF ToSet
<1>12. \A b \in T : RefBefore(h.ref, b.ref)
  <2> SUFFICES ASSUME NEW i \in DOMAIN pending' PROVE RefBefore(h.ref, pending'[i].ref)
    BY <1>10 DEF ToSet
  <2>1. 1 < i + 1 /\ i + 1 \in DOMAIN pending
    BY <1>9
  <2> QED BY <1>3, <1>9, <2>1
<1>13. h.ref \in Ref /\ h \in Hit /\ h \notin T
  <2>1. h \in Hit /\ h.ref \in Ref
    BY <1>6, <1>8, <1>9 DEF Hit
  <2> QED BY <1>12, <2>1, RefsAreOrdered
<1>14. all \ T = (all \ P) \cup {h}
  BY <1>8, <1>9, <1>11, <1>13
<1>15. best' = Top(all \ T, limit)
  <2>1. /\ all \ P \in SUBSET Hit /\ IsFiniteSet(all \ P) /\ limit \in Nat
        /\ best = Top(all \ P, limit)
        /\ \A a \in all \ P : RefBefore(a.ref, h.ref)
    BY <1>3, <1>4, <1>6, <1>7, <1>9, FS_Subset, DepthTyped DEF PageInv
  <2>2. Offered(h) = Top((all \ P) \cup {h}, limit)
    BY <1>13, <2>1, OfferedIsTop
  <2> QED BY <1>1, <1>5, <1>14, <2>2
<1>16. \A i, j \in DOMAIN pending' : i < j => RefBefore(pending'[i].ref, pending'[j].ref)
  <2> SUFFICES ASSUME NEW i \in DOMAIN pending', NEW j \in DOMAIN pending', i < j
               PROVE  RefBefore(pending'[i].ref, pending'[j].ref)
    OBVIOUS
  <2>1. i + 1 < j + 1 /\ i + 1 \in DOMAIN pending /\ j + 1 \in DOMAIN pending
    BY <1>9
  <2> QED BY <1>3, <1>9, <2>1
<1>17. \A a \in all \ T, b \in T : RefBefore(a.ref, b.ref)
  BY <1>3, <1>4, <1>7, <1>11, <1>12, <1>14
<1>18. Offers(segment + 1)' = all /\ MatchesBefore(segment + 1)' = MatchesBefore(segment + 1) /\ ToSet(pending)' = T
  BY <1>1, <1>4, <1>10, SameAtNext DEF ToSet
<1>19. pending' \in Seq(T)
  <2>1. \A i \in DOMAIN pending' : pending'[i] \in T
    BY <1>10 DEF ToSet
  <2>2. pending' \in [1..(Len(pending) - 1) -> P] /\ Len(pending) - 1 \in Nat
    <3>1. Len(pending) # 0
      BY <1>8
    <3> QED BY <1>8, <1>9, <3>1
  <2>3. ASSUME NEW n \in Nat, NEW f \in [1..n -> P], \A i \in 1..n : f[i] \in T
        PROVE  f \in Seq(T)
    BY <2>3
  <2> QED BY <1>9, <2>1, <2>2, <2>3
<1>20. T \subseteq all
  BY <1>8, <1>11
<1>21. /\ matched' = Cardinality(MatchesBefore(segment + 1)')
       /\ best' = Top(Offers(segment + 1)' \ ToSet(pending)', limit')
       /\ pending' \in Seq(ToSet(pending)') /\ ToSet(pending)' \subseteq Offers(segment + 1)'
       /\ \A a \in Offers(segment + 1)' \ ToSet(pending)', b \in ToSet(pending)' : RefBefore(a.ref, b.ref)
  BY <1>1, <1>2, <1>3, <1>15, <1>17, <1>18, <1>19, <1>20
<1> QED BY <1>1, <1>2, <1>3, <1>16, <1>21 DEF Progress, Top, RefBefore

\* With nothing pending, the segment is behind.
LEMMA TurnProgress ==
  ASSUME PageInv, NextSegment
  PROVE  Progress'
<1>1. /\ progress = "offer" /\ progress' = "segment" /\ UNCHANGED inputs /\ segment' = segment + 1
      /\ best' = best /\ matched' = matched /\ pending = <<>>
  BY DEF NextSegment
<1>2. index' = index /\ limit' = limit /\ Hopeless' = Hopeless
  BY <1>1, SameInputs DEF inputs
<1>3. /\ ~Hopeless /\ matched = Cardinality(MatchesBefore(segment + 1))
      /\ segment \in 1..Len(index) + 1 /\ segment <= Len(index)
      /\ best = Top(Offers(segment + 1) \ ToSet(pending), limit)
  BY <1>1 DEF PageInv, Progress
<1>4. ToSet(pending) = {}
  BY <1>1 DEF ToSet
<1>5. matched' = Cardinality(MatchesBefore(segment)') /\ best' = Top(Offers(segment)', limit')
  <2>1. Offers(segment)' = Offers(segment + 1) /\ MatchesBefore(segment)' = MatchesBefore(segment + 1)
    BY <1>1, SameAtNext
  <2>2. Offers(segment + 1) \ ToSet(pending) = Offers(segment + 1)
    BY <1>4
  <2> QED BY <1>1, <1>2, <1>3, <2>1, <2>2
<1>6. segment' \in 1..Len(index) + 1
  BY <1>1, <1>3, IndexTyped DEF PageInv, SearchInv
<1> QED BY <1>1, <1>2, <1>3, <1>5, <1>6 DEF Progress, Top

\* At the end every segment is behind.
LEMMA ReturnProgress ==
  ASSUME PageInv, Return
  PROVE  Progress'
<1>1. /\ progress = "segment" /\ progress' = "done" /\ UNCHANGED inputs /\ segment' = segment
      /\ best' = best /\ matched' = matched /\ segment > Len(index) /\ hits' = InOrder(best, RanksBefore)
  BY DEF Return
<1>2. index' = index /\ limit' = limit /\ Hopeless' = Hopeless
  BY <1>1, SameInputs DEF inputs
<1>3. /\ ~Hopeless /\ matched = Cardinality(MatchesBefore(segment)) /\ best = Top(Offers(segment), limit)
      /\ segment \in 1..Len(index) + 1
  BY <1>1 DEF PageInv, Progress
<1>4. segment = Len(index) + 1
  BY <1>1, <1>3, IndexTyped DEF PageInv, SearchInv
<1>5. /\ matched' = Cardinality(MatchesBefore(Len(index) + 1)')
      /\ best' = Top(Offers(Len(index) + 1)', limit') /\ hits' = InOrder(best', RanksBefore)
  BY <1>1, <1>2, <1>3, <1>4, SameAtNext
<1> QED BY <1>1, <1>2, <1>3, <1>5 DEF Progress, Top, InOrder, RanksBefore, RefBefore

\* A step that changes nothing.
LEMMA IdleProgress ==
  ASSUME PageInv, UNCHANGED searchVars
  PROVE  Progress'
<1>1. UNCHANGED <<inputs, progress, segment, pending, best, matched, hits, lists>>
  BY DEF searchVars, walkVars
<1>2. index' = index /\ limit' = limit /\ query' = query /\ Hopeless' = Hopeless
  BY <1>1, SameInputs DEF inputs
<1>3. TermLists' = TermLists
  BY <1>1, <1>2 DEF TermLists
<1>4. /\ Offers(segment)' = Offers(segment) /\ Offers(segment + 1)' = Offers(segment + 1)
      /\ Offers(Len(index) + 1)' = Offers(Len(index) + 1)
      /\ MatchesBefore(segment)' = MatchesBefore(segment)
      /\ MatchesBefore(segment + 1)' = MatchesBefore(segment + 1)
      /\ MatchesBefore(Len(index) + 1)' = MatchesBefore(Len(index) + 1)
  <2>1. segment' = segment /\ UNCHANGED inputs
    BY <1>1
  <2> QED BY <2>1, SameAtNext
<1>5. /\ segment' = segment /\ progress' = progress /\ pending' = pending /\ best' = best
      /\ matched' = matched /\ hits' = hits /\ lists' = lists
  BY <1>1 DEF walkVars
<1>6. /\ ToSet(pending)' = ToSet(pending)
      /\ Top(Offers(segment), limit)' = Top(Offers(segment), limit)
      /\ Top(Offers(segment + 1) \ ToSet(pending), limit)' = Top(Offers(segment + 1) \ ToSet(pending), limit)
      /\ Top(Offers(Len(index) + 1), limit)' = Top(Offers(Len(index) + 1), limit)
      /\ InOrder(best, RanksBefore)' = InOrder(best, RanksBefore)
  <2>1. ToSet(pending)' = ToSet(pending)
    BY <1>5 DEF ToSet
  <2>2. InOrder(best, RanksBefore)' = InOrder(best, RanksBefore)
    BY <1>5 DEF InOrder, RanksBefore, RefBefore
  <2>3. Top(Offers(segment), limit)' = Top(Offers(segment), limit)
    BY <1>2, <1>4 DEF Top
  <2>4. Top(Offers(segment + 1) \ ToSet(pending), limit)' = Top(Offers(segment + 1) \ ToSet(pending), limit)
    BY <1>2, <1>4, <2>1 DEF Top
  <2>5. Top(Offers(Len(index) + 1), limit)' = Top(Offers(Len(index) + 1), limit)
    BY <1>2, <1>4 DEF Top
  <2> QED BY <2>1, <2>2, <2>3, <2>4, <2>5
<1>7. (\A a \in Offers(segment + 1) \ ToSet(pending), b \in ToSet(pending) : RefBefore(a.ref, b.ref))'
      <=> \A a \in Offers(segment + 1) \ ToSet(pending), b \in ToSet(pending) : RefBefore(a.ref, b.ref)
  BY <1>4, <1>6 DEF RefBefore
<1>8. Progress
  BY DEF PageInv
<1> QED BY <1>2, <1>3, <1>4, <1>5, <1>6, <1>7, <1>8 DEF Progress, RefBefore

\* PageInv holds when a search begins.
LEMMA PageInit == SearchInit => PageInv
<1> SUFFICES ASSUME SearchInit PROVE PageInv
  OBVIOUS
<1>1. SearchInv
  BY InitInv
<1>2. /\ progress = "plan" /\ segment = 1 /\ matched = 0 /\ best = {} /\ hits = <<>>
      /\ limit \in Limits /\ depth \in Depths
  BY DEF SearchInit
<1>3. segment \in 1..Len(index) + 1
  BY <1>1, <1>2, IndexTyped DEF SearchInv
<1> QED BY <1>1, <1>2, <1>3 DEF PageInv, Progress

\* Every step keeps PageInv.
LEMMA PageNext == PageInv /\ [SearchNext]_searchVars => PageInv'
<1> SUFFICES ASSUME PageInv, [SearchNext]_searchVars PROVE PageInv'
  OBVIOUS
<1>1. SearchInv'
  BY NextInv DEF PageInv
<1>2. limit' \in Limits /\ depth' \in Depths
  BY InputsStay DEF PageInv, inputs
<1>3. Progress'
  BY PlanProgress, SkipProgress, ReadProgress, WalkProgress, ScoreProgress, OfferProgress,
     TurnProgress, ReturnProgress, IdleProgress DEF SearchNext, Returned
<1> QED BY <1>1, <1>2, <1>3 DEF PageInv

-----------------------------------------------------------------------------
(* What is counted *)

\* A search that gives up before the first segment gives up nothing.
LEMMA NothingIsHopeless ==
  ASSUME index \in Indexes, Hopeless
  PROVE  Matching = {}
<1> SUFFICES ASSUME NEW r \in Matching PROVE FALSE
  OBVIOUS
<1>1. /\ query.terms # <<>> /\ r.segment \in DOMAIN index
      /\ r.doc \in DOMAIN index[r.segment].entries
      /\ \A t \in ToSet(query.terms) : Has(r.segment, t, r.doc)
  BY MatchingTyped DEF Matching
<1>2. CASE \A s \in DOMAIN index : index[s].entries = <<>>
  <2>1. index[r.segment].entries = <<>>
    BY <1>1, <1>2
  <2>2. DOMAIN <<>> = {}
    OBVIOUS
  <2> QED BY <1>1, <2>1, <2>2
<1>3. ASSUME NEW t \in ToSet(query.terms), ~Frequency(t) PROVE FALSE
  <2>1. index[r.segment].postings[t] = <<>>
    BY <1>1, <1>3 DEF Frequency
  <2>2. Docs(<<>>) = <<>> /\ ToSet(<<>>) = {}
    BY DEF Docs, ToSet
  <2> QED BY <1>1, <2>1, <2>2 DEF Has
<1> QED BY <1>1, <1>2, <1>3 DEF Hopeless

\* What a segment's cut leaves is all of it, or at least as much as is asked for.
LEMMA CutLeavesEnough ==
  ASSUME index \in Indexes, limit \in Limits, depth \in Depths, NEW r \in Matching,
         Base(r) \notin WithinCut(r.segment)
  PROVE  \E T \in SUBSET MatchesIn(r.segment) :
           /\ IsFiniteSet(T) /\ limit <= Cardinality(T)
           /\ \A q \in T : Base(q) \in WithinCut(q.segment)
<1> DEFINE M == {Base(q) : q \in MatchesIn(r.segment)}
           left == Top(M, Depth)
           T == {q \in MatchesIn(r.segment) : Base(q) \in left}
           f == [q \in MatchesIn(r.segment) |-> Base(q)]
<1>1. limit \in Nat /\ (Depth = NoValue \/ (Depth \in Nat /\ limit <= Depth))
  BY DepthTyped
<1>2. WithinCut(r.segment) = IF Depth = NoValue THEN M ELSE left
  BY DEF WithinCut, MatchesIn
<1>3. Base(r) \in M
  BY DEF MatchesIn
<1>4. Depth # NoValue /\ Depth \in Nat /\ Base(r) \notin left /\ WithinCut(r.segment) = left
  BY <1>1, <1>2, <1>3
<1>5. \A q \in MatchesIn(r.segment) : q \in Matching /\ q.segment = r.segment /\ Base(q) \in Hit /\ Base(q).ref = q
  BY ScoresTyped DEF MatchesIn
<1>6. IsFiniteSet(MatchesIn(r.segment))
  BY MatchingTyped, FS_Subset DEF MatchesIn
<1>7. M \in SUBSET Hit /\ IsFiniteSet(M)
  <2>1. M \in SUBSET Hit
    BY <1>5
  <2>2. f \in [MatchesIn(r.segment) -> M] /\ \A h \in M : \E q \in MatchesIn(r.segment) : f[q] = h
    OBVIOUS
  <2> HIDE DEF M, f
  <2> QED BY <1>6, <2>1, <2>2, Fun_IsSurj, FS_Surjection
<1>8. Cardinality(left) = Depth /\ left \subseteq M /\ IsFiniteSet(left)
  <2> HIDE DEF M
  <2>1. Cardinality(M) \in Nat /\ left # M
    BY <1>3, <1>4, <1>7, FS_CardinalityType
  <2> QED BY <1>4, <1>7, <2>1, TopSize
<1>9. IsFiniteSet(T) /\ Cardinality(T) = Cardinality(left)
  <2> DEFINE g == [q \in T |-> Base(q)]
  <2>1. IsFiniteSet(T)
    BY <1>6, FS_Subset
  <2>2. g \in [T -> left]
    OBVIOUS
  <2>3. \A h \in left : \E q \in T : g[q] = h
    BY <1>8
  <2>4. \A p, q \in T : g[p] = g[q] => p = q
    <3>1. \A q \in T : g[q].ref = q
      BY <1>5
    <3> QED BY <3>1
  <2> HIDE DEF T, left, g
  <2>5. g \in Bijection(T, left)
    BY <2>2, <2>3, <2>4, Fun_IsBij
  <2> QED BY <1>8, <2>1, <2>5, FS_Bijection DEF ExistsBijection
<1>10. limit <= Cardinality(T)
  BY <1>1, <1>4, <1>8, <1>9
<1>11. \A q \in T : Base(q) \in WithinCut(q.segment)
  BY <1>4, <1>5
<1>12. T \in SUBSET MatchesIn(r.segment)
  OBVIOUS
<1> HIDE DEF T
<1> QED BY <1>9, <1>10, <1>11, <1>12

\* However the segments are cut, the page has as many as match or as fit.
LEMMA PageIsFull ==
  ASSUME index \in Indexes, limit \in Limits, depth \in Depths
  PROVE  LET page == Top(Offers(Len(index) + 1), limit)
         IN  /\ IsFiniteSet(page) /\ page \subseteq Offers(Len(index) + 1)
             /\ Cardinality(page) = IF Cardinality(Matching) <= limit THEN Cardinality(Matching) ELSE limit
<1> DEFINE all == Offers(Len(index) + 1)
           left == Survivors(Len(index) + 1)
<1>1. all \in SUBSET Hit /\ IsFiniteSet(all) /\ Cardinality(all) = Cardinality(left)
      /\ IsFiniteSet(left) /\ left \in SUBSET Matching
  BY OffersTyped
<1>2. IsFiniteSet(Matching) /\ Cardinality(Matching) \in Nat /\ Cardinality(left) \in Nat
      /\ Cardinality(left) <= Cardinality(Matching)
  <2> HIDE DEF left
  <2> QED BY <1>1, MatchingTyped, FS_CardinalityType, FS_Subset
<1>3. limit \in Nat
  BY DepthTyped
<1>4. left = Matching \/ limit <= Cardinality(left)
  <2>1. SUFFICES ASSUME left # Matching PROVE limit <= Cardinality(left)
    OBVIOUS
  <2>2. PICK r \in Matching : r \notin left
    BY <1>1, <2>1
  <2>3. \A q \in Matching : q.segment < Len(index) + 1
    BY MatchingTyped, IndexTyped
  <2>4. Base(r) \notin WithinCut(r.segment)
    BY <2>2, <2>3 DEF Survivors
  <2>5. PICK T \in SUBSET MatchesIn(r.segment) :
           /\ IsFiniteSet(T) /\ limit <= Cardinality(T)
           /\ \A q \in T : Base(q) \in WithinCut(q.segment)
    BY <2>4, CutLeavesEnough
  <2>6. T \in SUBSET left
    BY <2>3, <2>5 DEF Survivors, MatchesIn
  <2> HIDE DEF left
  <2>7. Cardinality(T) <= Cardinality(left) /\ Cardinality(T) \in Nat
    BY <1>1, <2>5, <2>6, FS_Subset, FS_CardinalityType
  <2> QED BY <1>2, <1>3, <2>5, <2>7
<1> HIDE DEF all, left
<1>5. /\ Top(all, limit) \subseteq all /\ IsFiniteSet(Top(all, limit))
      /\ Cardinality(all) <= limit => Top(all, limit) = all
      /\ limit <= Cardinality(all) => Cardinality(Top(all, limit)) = limit
  BY <1>1, <1>3, TopSize
<1>6. Cardinality(Top(all, limit)) = IF Cardinality(Matching) <= limit THEN Cardinality(Matching) ELSE limit
  <2>1. CASE limit <= Cardinality(left)
    BY <1>1, <1>2, <1>3, <1>5, <2>1
  <2>2. CASE left = Matching /\ Cardinality(left) <= limit
    BY <1>1, <1>2, <1>3, <1>5, <2>2
  <2> QED BY <1>2, <1>3, <1>4, <2>1, <2>2
<1> QED BY <1>5, <1>6 DEF all

\* AllMatchesCount of every page that a search in good order returns.
LEMMA ReturnedCounts == PageInv => AllMatchesCount
<1> SUFFICES ASSUME PageInv, progress = "done" PROVE AllMatchesCount
  BY DEF AllMatchesCount
<1>1. index \in Indexes /\ limit \in Limits /\ depth \in Depths /\ Progress
  BY DEF PageInv, SearchInv
<1>2. limit \in Nat /\ IsFiniteSet(Matching) /\ Cardinality(Matching) \in Nat
  BY <1>1, DepthTyped, MatchingTyped, FS_CardinalityType
<1>3. /\ matched = Cardinality(Matching)
      /\ {hits[i].ref : i \in DOMAIN hits} \subseteq Matching
      /\ Len(hits) = IF Cardinality(Matching) <= limit THEN Cardinality(Matching) ELSE limit
  <2>1. CASE Hopeless
    <3>1. matched = 0 /\ hits = <<>> /\ Matching = {}
      BY <1>1, <2>1, NothingIsHopeless DEF Progress
    <3>2. Cardinality(Matching) = 0 /\ DOMAIN hits = {} /\ Len(hits) = 0
      BY <3>1, FS_EmptySet
    <3> QED BY <1>2, <3>1, <3>2
  <2>2. CASE ~Hopeless
    <3>1. /\ matched = Cardinality(MatchesBefore(Len(index) + 1))
          /\ best = Top(Offers(Len(index) + 1), limit) /\ hits = InOrder(best, RanksBefore)
      BY <1>1, <2>2 DEF Progress
    <3>2. MatchesBefore(Len(index) + 1) = Matching
      BY <1>1, MatchingTyped, IndexTyped DEF MatchesBefore
    <3>3. /\ IsFiniteSet(best) /\ best \subseteq Offers(Len(index) + 1)
          /\ Cardinality(best) = IF Cardinality(Matching) <= limit THEN Cardinality(Matching) ELSE limit
      BY <1>1, <3>1, PageIsFull
    <3>4. /\ best \in SUBSET Hit /\ \A h \in best : h.ref \in Matching
      BY <1>1, <3>3, OffersTyped
    <3>5. hits \in Seq(best) /\ Len(hits) = Cardinality(best) /\ ToSet(hits) = best
      BY <3>1, <3>3, <3>4, ResultsAreListed
    <3>6. \A i \in DOMAIN hits : hits[i] \in best
      BY <3>5
    <3> QED BY <3>1, <3>2, <3>3, <3>4, <3>5, <3>6
  <2> QED BY <2>1, <2>2
<1>4. Min({limit, matched}) = IF matched <= limit THEN matched ELSE limit
  BY <1>2, <1>3 DEF Min
<1> QED BY <1>3, <1>4 DEF AllMatchesCount

\* At every moment of a search, what has been counted and kept is what the
\* segments behind it hold: the heap never loses a document it should keep.
THEOREM PageInvariant == SearchSpec => []PageInv
BY PageInit, PageNext, PTL DEF SearchSpec

\* AllMatchesCount: matched counts every match of every segment, cut or not, and
\* the page is full or shows all there are.
THEOREM EveryMatchCounts == SearchSpec => []AllMatchesCount
BY PageInvariant, ReturnedCounts, PTL

-----------------------------------------------------------------------------
(* Least and greatest of numbers *)

\* A set of naturals has a least.
LEMMA LeastNat ==
  ASSUME NEW S \in SUBSET Nat, S # {}
  PROVE  /\ Min(S) \in S /\ \A a \in S : Min(S) <= a
<1>1. PICK x \in S : \A y \in S : <<y, x>> \notin OpToRel(<, Nat)
  BY WFMin, NatLessThanWellFounded, Zenon
<1>2. \A y \in S : ~(y < x)
  BY <1>1, Zenon DEF OpToRel
<1>3. \E z \in S : \A y \in S : z =< y
  <2>1. \A y \in S : x \in Nat /\ y \in Nat
    OBVIOUS
  <2> QED BY <1>2, <2>1
<1> QED BY <1>3 DEF Min

\* A bounded set of naturals has a greatest.
LEMMA GreatestNat ==
  ASSUME NEW n \in Nat, NEW S \in SUBSET (0..n), S # {}
  PROVE  /\ Max(S) \in S /\ \A a \in S : a <= Max(S)
<1> DEFINE T == {n - a : a \in S}
<1>1. PICK t \in T : \A u \in T : t <= u
  <2>1. T \in SUBSET Nat /\ T # {}
    <3>1. \A a \in S : n - a \in Nat
      OBVIOUS
    <3>2. PICK a \in S : TRUE
      OBVIOUS
    <3> QED BY <3>1, <3>2
  <2> HIDE DEF T
  <2> QED BY <2>1, LeastNat
<1>2. PICK m \in S : t = n - m
  OBVIOUS
<1>3. \A a \in S : m >= a
  <2> SUFFICES ASSUME NEW a \in S PROVE m >= a
    OBVIOUS
  <2>1. t <= n - a
    BY <1>1
  <2> QED BY <1>2, <2>1
<1>4. \E z \in S : \A y \in S : z >= y
  BY <1>3
<1>5. Max(S) \in S /\ \A y \in S : Max(S) >= y
  BY <1>4 DEF Max
<1> QED BY <1>5

\* Among sets of subsets of a finite set there is a smallest one.
LEMMA SmallestSet ==
  ASSUME NEW S, IsFiniteSet(S), NEW T \in SUBSET (SUBSET S), T # {}
  PROVE  \E x \in T : \A y \in T : y \subseteq x => y = x
<1>1. T \subseteq FiniteSubsetsOf(S)
  BY FS_FiniteSubsetsOfFinite
<1>2. PICK x \in T : \A y \in T : ~(<<y, x>> \in StrictSubsetOrdering(S))
  BY <1>1, WFMin, FS_StrictSubsetOrderingWellFounded
<1> QED BY <1>2 DEF StrictSubsetOrdering

-----------------------------------------------------------------------------
(* The window over the stream, occurrence by occurrence *)

Start == [start |-> 1, spans |-> {}]

\* Of any of these places there is a last.
HasLast(S) == IsFiniteSet(S) /\ \A s \in SUBSET S : s # {} => Max(s) \in s

\* The function behind the fold of ClosestSpan: from every set of places in the
\* stream the window after them.
IsSlid(g, P, st, S) ==
  g = [s \in SUBSET S |->
         IF s = {} THEN Start
         ELSE Slide(P, st, g[s \ {Max(s)}], [k \in DOMAIN st |-> k][Max(s)])]

Slid(P, st, S) == CHOOSE g : IsSlid(g, P, st, S)

\* The fold of ClosestSpan is the value of that function at all places.
LEMMA SpanIsSlid ==
  ASSUME NEW P, \A i \in DOMAIN P : P[i] # {}
  PROVE  LET all == DOMAIN [k \in DOMAIN Merged(P) |-> k]
         IN  ClosestSpan(P) = Min(Slid(P, Merged(P), all)[all].spans)
BY DEF ClosestSpan, FoldLeft, MapThenFoldSet, Slid, IsSlid, Start

\* Two such functions agree where both are defined.
LEMMA SlidsAgree ==
  ASSUME NEW P, NEW st, NEW S, HasLast(S), NEW R \in SUBSET S,
         NEW g, IsSlid(g, P, st, S), NEW f, IsSlid(f, P, st, R)
  PROVE  \A s \in SUBSET R : f[s] = g[s]
<1> DEFINE Bad == {s \in SUBSET R : f[s] # g[s]}
<1> SUFFICES ASSUME Bad # {} PROVE FALSE
  OBVIOUS
<1>1. PICK s \in Bad : \A r \in Bad : r \subseteq s => r = s
  <2>1. Bad \in SUBSET (SUBSET S) /\ IsFiniteSet(S)
    BY DEF HasLast
  <2> HIDE DEF Bad
  <2> QED BY <2>1, SmallestSet
<1>2. s \in SUBSET R /\ s \in SUBSET S /\ f[s] # g[s]
  OBVIOUS
<1>3. /\ f[s] = IF s = {} THEN Start ELSE Slide(P, st, f[s \ {Max(s)}], [k \in DOMAIN st |-> k][Max(s)])
      /\ g[s] = IF s = {} THEN Start ELSE Slide(P, st, g[s \ {Max(s)}], [k \in DOMAIN st |-> k][Max(s)])
  BY <1>2 DEF IsSlid
<1>4. s # {} /\ f[s \ {Max(s)}] # g[s \ {Max(s)}]
  BY <1>2, <1>3
<1>5. Max(s) \in s
  BY <1>2, <1>4 DEF HasLast
<1> QED BY <1>1, <1>2, <1>4, <1>5

\* There is such a function: its value at a set comes from those of the subsets.
LEMMA SlidExists ==
  ASSUME NEW P, NEW st, NEW S, HasLast(S)
  PROVE  IsSlid(Slid(P, st, S), P, st, S)
<1> DEFINE Bad == {s \in SUBSET S : ~\E g : IsSlid(g, P, st, s)}
<1>1. Bad = {}
  <2> SUFFICES ASSUME Bad # {} PROVE FALSE
    OBVIOUS
  <2>1. PICK s \in Bad : \A r \in Bad : r \subseteq s => r = s
    <3>1. Bad \in SUBSET (SUBSET S) /\ IsFiniteSet(S)
      BY DEF HasLast
    <3> HIDE DEF Bad
    <3> QED BY <3>1, SmallestSet
  <2>2. s \in SUBSET S /\ ~\E g : IsSlid(g, P, st, s)
    OBVIOUS
  <2> DEFINE Place(r) == [k \in DOMAIN st |-> k][Max(r)]
             Part(r) == IF r = {} THEN Start
                        ELSE Slide(P, st, Slid(P, st, r \ {Max(r)})[r \ {Max(r)}], Place(r))
             g == [r \in SUBSET s |-> Part(r)]
  <2>3. ASSUME NEW r \in SUBSET s, r # s PROVE IsSlid(Slid(P, st, r), P, st, r)
    BY <2>1, <2>2, <2>3 DEF Slid
  <2>4. ASSUME NEW r \in SUBSET s, r # {} PROVE Max(r) \in r
    BY <2>2, <2>4 DEF HasLast
  <2>5. ASSUME NEW r \in SUBSET s, r # {}
        PROVE  g[r \ {Max(r)}] = Slid(P, st, r \ {Max(r)})[r \ {Max(r)}]
    <3> DEFINE q == r \ {Max(r)}
               p == q \ {Max(q)}
    <3>1. q \in SUBSET s /\ q # s /\ IsSlid(Slid(P, st, q), P, st, q)
      BY <2>3, <2>4, <2>5
    <3>2. g[q] = Part(q)
      BY <3>1
    <3>3. Slid(P, st, q)[q] = IF q = {} THEN Start ELSE Slide(P, st, Slid(P, st, q)[p], Place(q))
      <4> HIDE DEF g, Part
      <4>1. q \in SUBSET q
        OBVIOUS
      <4> QED BY <3>1, <4>1 DEF IsSlid
    <3>4. ASSUME q # {} PROVE Slid(P, st, q)[p] = Slid(P, st, p)[p]
      <4>1. p \in SUBSET q /\ p \in SUBSET s /\ p # s /\ HasLast(q)
        <5>1. IsFiniteSet(q)
          BY <2>2, <3>1, FS_Subset DEF HasLast
        <5> QED BY <2>2, <2>4, <3>1, <3>4, <5>1 DEF HasLast
      <4>2. IsSlid(Slid(P, st, p), P, st, p)
        BY <4>1, <2>3
      <4>3. IsSlid(Slid(P, st, q), P, st, q) /\ p \in SUBSET p
        BY <3>1
      <4> HIDE DEF p, q, g, Part
      <4> QED BY <4>1, <4>2, <4>3, SlidsAgree
    <3> HIDE DEF g, Place
    <3> QED BY <3>2, <3>3, <3>4
  <2>6. IsSlid(g, P, st, s)
    <3> DEFINE next(r) == IF r = {} THEN Start ELSE Slide(P, st, g[r \ {Max(r)}], Place(r))
    <3>1. ASSUME NEW r \in SUBSET s PROVE Part(r) = next(r)
      <4> HIDE DEF g, Place
      <4> QED BY <2>5
    <3>2. g = [r \in SUBSET s |-> Part(r)]
      OBVIOUS
    <3> HIDE DEF g, Part, next
    <3>3. g = [r \in SUBSET s |-> next(r)]
      BY <3>1, <3>2
    <3> QED BY <3>3 DEF IsSlid, next
  <2> QED BY <2>2, <2>6
<1> QED BY <1>1 DEF Slid

\* The window after the first k occurrences.
Window(P, st, k) == Slid(P, st, 1..Len(st))[1..k]

\* The window moves occurrence by occurrence.
LEMMA WindowStep ==
  ASSUME NEW P, NEW st, Len(st) \in Nat, DOMAIN st = 1..Len(st)
  PROVE  /\ Window(P, st, 0) = Start
         /\ \A k \in 1..Len(st) : Window(P, st, k) = Slide(P, st, Window(P, st, k - 1), k)
<1> DEFINE S == 1..Len(st)
           g == Slid(P, st, S)
<1>1. IsSlid(g, P, st, S)
  <2>1. HasLast(S)
    <3>1. \A s \in SUBSET S : s \in SUBSET (0..Len(st))
      OBVIOUS
    <3>2. IsFiniteSet(S)
      BY FS_Interval
    <3> HIDE DEF S
    <3> QED BY <3>1, <3>2, GreatestNat DEF HasLast
  <2> HIDE DEF S
  <2> QED BY <2>1, SlidExists
<1> HIDE DEF g
<1>2. \A s \in SUBSET S : g[s] = IF s = {} THEN Start
                                 ELSE Slide(P, st, g[s \ {Max(s)}], [k \in DOMAIN st |-> k][Max(s)])
  <2> HIDE DEF S
  <2> QED BY <1>1 DEF IsSlid
<1>3. g[1..0] = Start
  <2>1. 1..0 = {}
    OBVIOUS
  <2> QED BY <1>2, <2>1
<1>4. ASSUME NEW k \in 1..Len(st) PROVE g[1..k] = Slide(P, st, g[1..(k - 1)], k)
  <2>1. Max(1..k) \in 1..k /\ \A a \in 1..k : a <= Max(1..k)
    <3>1. 1..k \in SUBSET (0..k) /\ 1..k # {} /\ k \in Nat
      OBVIOUS
    <3> QED BY <3>1, GreatestNat
  <2>2. Max(1..k) = k
    BY <2>1
  <2>3. (1..k) \ {k} = 1..(k - 1) /\ 1..k # {} /\ 1..k \in SUBSET S /\ k \in DOMAIN st
    OBVIOUS
  <2>4. [j \in DOMAIN st |-> j][k] = k
    BY <2>3
  <2> HIDE DEF S
  <2> QED BY <1>2, <2>2, <2>3, <2>4
<1> QED BY <1>3, <1>4 DEF Window, g

-----------------------------------------------------------------------------
(* The spans measured *)

\* A stream of the occurrences of every term, none missing, by position.
IsStream(st, P) ==
  /\ Len(st) \in Nat /\ DOMAIN st = 1..Len(st)
  /\ \A k \in DOMAIN st : /\ st[k][2] \in DOMAIN P /\ st[k][1] \in P[st[k][2]]
                          /\ st[k][1] \in Nat
  /\ \A i \in DOMAIN P : \A p \in P[i] : \E k \in DOMAIN st : st[k][1] = p /\ st[k][2] = i
  /\ \A j, k \in DOMAIN st : j <= k => st[j][1] <= st[k][1]

\* A longer stretch covers no less.
LEMMA CoversMore ==
  ASSUME NEW P, NEW st, NEW a \in Nat, NEW b \in Nat, NEW c \in Nat, NEW d \in Nat,
         c <= a, b <= d, Covers(P, st, a, b)
  PROVE  Covers(P, st, c, d)
<1>1. a..b \subseteq c..d
  OBVIOUS
<1> QED BY <1>1 DEF Covers

\* What the window has seen by the k-th occurrence: it has been moved as far as
\* it could, from every start that was left the shortest stretch that covers
\* has been measured, and nothing else has.
Measured(P, st, w, k) ==
  /\ w.start \in 1..k + 1
  /\ ~Covers(P, st, w.start, k)
  /\ \A j \in 1..w.start - 1 : \E e \in 1..k :
       /\ Covers(P, st, j, e) /\ st[e][1] - st[j][1] \in w.spans
       /\ \A d \in 0..e - 1 : ~Covers(P, st, j, d)
  /\ \A x \in w.spans : \E j, e \in 1..k : x = st[e][1] - st[j][1] /\ Covers(P, st, j, e) /\ j <= e

\* Before the first occurrence.
LEMMA MeasuredAtStart ==
  ASSUME NEW P, NEW st, DOMAIN P # {}
  PROVE  Measured(P, st, Start, 0)
<1>1. ~Covers(P, st, 1, 0)
  BY DEF Covers
<1> QED BY <1>1 DEF Measured, Start

\* From one occurrence to the next.
LEMMA MeasuredAtEnd ==
  ASSUME NEW P, NEW st, DOMAIN P # {}, NEW k \in Nat, k # 0, NEW w, Measured(P, st, w, k - 1)
  PROVE  Measured(P, st, Slide(P, st, w, k), k)
<1> DEFINE Fit(s) == /\ ~Covers(P, st, s, k)
                     /\ \A j \in w.start..s - 1 : Covers(P, st, j, k)
           Left == {s \in w.start..k + 1 : ~Covers(P, st, s, k)}
<1>1. w.start \in 1..k /\ ~Covers(P, st, w.start, k - 1)
  BY DEF Measured
<1>2. \E s \in w.start..k + 1 : Fit(s)
  <2>1. ~Covers(P, st, k + 1, k)
    BY DEF Covers
  <2>2. k + 1 \in Left /\ Left \in SUBSET Nat
    BY <1>1, <2>1
  <2>3. PICK s \in Left : \A t \in Left : s <= t
    <3> HIDE DEF Left
    <3> QED BY <2>2, LeastNat
  <2>4. ASSUME NEW j \in w.start..s - 1 PROVE Covers(P, st, j, k)
    <3>1. j \in w.start..k + 1 /\ ~(s <= j)
      BY <1>1, <2>3
    <3> QED BY <2>3, <3>1
  <2> QED BY <2>3, <2>4
<1>3. PICK s : s = CHOOSE t \in w.start..k + 1 : Fit(t)
  OBVIOUS
<1>4. s \in w.start..k + 1 /\ Fit(s)
  BY <1>2, <1>3
<1>5. PICK now : now = w.spans \cup {st[k][1] - st[j][1] : j \in w.start..s - 1}
  OBVIOUS
<1>6. Slide(P, st, w, k) = [start |-> s, spans |-> now]
  BY <1>3, <1>5 DEF Slide
<1>7. s \in 1..k + 1 /\ ~Covers(P, st, s, k)
  BY <1>1, <1>4
<1>8. ASSUME NEW j \in 1..s - 1
      PROVE  \E e \in 1..k : /\ Covers(P, st, j, e) /\ st[e][1] - st[j][1] \in now
                             /\ \A d \in 0..e - 1 : ~Covers(P, st, j, d)
  <2>1. CASE j < w.start
    <3>1. j \in 1..w.start - 1
      BY <1>1, <1>7, <2>1
    <3>2. PICK e \in 1..k - 1 : /\ Covers(P, st, j, e) /\ st[e][1] - st[j][1] \in w.spans
                                /\ \A d \in 0..e - 1 : ~Covers(P, st, j, d)
      BY <3>1 DEF Measured
    <3> QED BY <1>5, <3>2
  <2>2. CASE ~(j < w.start)
    <3>1. j \in w.start..s - 1
      BY <1>1, <1>7, <2>2
    <3>2. Covers(P, st, j, k) /\ st[k][1] - st[j][1] \in now
      BY <1>4, <1>5, <3>1
    <3>3. ASSUME NEW d \in 0..k - 1, Covers(P, st, j, d) PROVE FALSE
      <4>1. j \in Nat /\ d \in Nat /\ w.start \in Nat /\ k - 1 \in Nat /\ w.start <= j /\ d <= k - 1
        BY <1>1, <3>1
      <4>2. Covers(P, st, w.start, k - 1)
        BY <3>3, <4>1, CoversMore
      <4> QED BY <1>1, <4>2
    <3> QED BY <3>2, <3>3
  <2> QED BY <2>1, <2>2
<1>9. ASSUME NEW x \in now
      PROVE  \E j, e \in 1..k : x = st[e][1] - st[j][1] /\ Covers(P, st, j, e) /\ j <= e
  <2>1. CASE x \in w.spans
    <3>1. PICK j \in 1..k - 1, e \in 1..k - 1 :
             x = st[e][1] - st[j][1] /\ Covers(P, st, j, e) /\ j <= e
      BY <2>1 DEF Measured
    <3> QED BY <3>1
  <2>2. ASSUME NEW j \in w.start..s - 1, x = st[k][1] - st[j][1] PROVE \E i, e \in 1..k : x = st[e][1] - st[i][1] /\ Covers(P, st, i, e) /\ i <= e
    <3>1. Covers(P, st, j, k)
      BY <1>4
    <3>2. j \in 1..k /\ k \in 1..k /\ j <= k
      BY <1>1, <1>7
    <3> QED BY <2>2, <3>1, <3>2
  <2> QED BY <1>5, <2>1, <2>2
<1> HIDE DEF Fit
<1> QED BY <1>6, <1>7, <1>8, <1>9 DEF Measured

\* After the last occurrence.
LEMMA StreamMeasured ==
  ASSUME NEW P, NEW st, DOMAIN P # {}, IsStream(st, P)
  PROVE  Measured(P, st, Window(P, st, Len(st)), Len(st))
<1>1. Len(st) \in Nat /\ DOMAIN st = 1..Len(st)
  BY DEF IsStream
<1> DEFINE Bad == {k \in 0..Len(st) : ~Measured(P, st, Window(P, st, k), k)}
<1>2. Bad = {}
  <2> SUFFICES ASSUME Bad # {} PROVE FALSE
    OBVIOUS
  <2>1. PICK k \in Bad : \A j \in Bad : k <= j
    <3>1. Bad \in SUBSET Nat
      BY <1>1
    <3> HIDE DEF Bad
    <3> QED BY <3>1, LeastNat
  <2>2. k \in 0..Len(st) /\ ~Measured(P, st, Window(P, st, k), k)
    OBVIOUS
  <2>3. k # 0
    BY <1>1, <2>2, WindowStep, MeasuredAtStart
  <2>4. k - 1 \in 0..Len(st) /\ ~(k <= k - 1) /\ k \in 1..Len(st) /\ k \in Nat
    BY <1>1, <2>2, <2>3
  <2>5. Measured(P, st, Window(P, st, k - 1), k - 1)
    BY <2>1, <2>4
  <2>6. Window(P, st, k) = Slide(P, st, Window(P, st, k - 1), k)
    BY <1>1, <2>4, WindowStep
  <2> QED BY <2>2, <2>3, <2>4, <2>5, <2>6, MeasuredAtEnd
<1>3. Len(st) \in 0..Len(st)
  BY <1>1
<1> QED BY <1>2, <1>3

-----------------------------------------------------------------------------
(* Occurrences in one stream *)

\* Positions of at least one term, none without.
IsPlaced(P, n) ==
  /\ n \in Nat \ {0} /\ DOMAIN P = 1..n
  /\ \A i \in DOMAIN P : P[i] \in SUBSET Nat /\ P[i] # {} /\ IsFiniteSet(P[i])

Occurrences(P) == UNION {{<<p, i>> : p \in P[i]} : i \in DOMAIN P}

InStream(a, b) == a[1] < b[1] \/ (a[1] = b[1] /\ a[2] < b[2])

StreamOrder(S) == {p \in S \X S : InStream(p[1], p[2])}

\* There are finitely many occurrences, each at its position.
LEMMA OccurrencesTyped ==
  ASSUME NEW P, NEW n, IsPlaced(P, n)
  PROVE  /\ IsFiniteSet(Occurrences(P))
         /\ \A a \in Occurrences(P) : /\ a[1] \in Nat /\ a[2] \in DOMAIN P /\ a[1] \in P[a[2]]
                                      /\ a[2] \in Nat /\ a = <<a[1], a[2]>>
         /\ \A i \in DOMAIN P : \A p \in P[i] : <<p, i>> \in Occurrences(P)
<1> DEFINE Ps == {P[i] : i \in 1..n}
           D == UNION Ps
           f == [i \in 1..n |-> P[i]]
<1>1. n \in Nat /\ DOMAIN P = 1..n
  BY DEF IsPlaced
<1>2. IsFiniteSet(1..n)
  BY <1>1, FS_Interval
<1>3. IsFiniteSet(Ps)
  <2>1. f \in [1..n -> Ps] /\ \A e \in Ps : \E i \in 1..n : f[i] = e
    OBVIOUS
  <2> HIDE DEF Ps, f
  <2> QED BY <1>2, <2>1, Fun_IsSurj, FS_Surjection
<1>4. IsFiniteSet(D)
  <2>1. \A e \in Ps : IsFiniteSet(e)
    BY <1>1 DEF IsPlaced
  <2> HIDE DEF Ps
  <2> QED BY <1>3, <2>1, FS_UNION
<1>5. Occurrences(P) \in SUBSET (D \X (1..n))
  BY <1>1 DEF Occurrences
<1>6. IsFiniteSet(Occurrences(P))
  <2> HIDE DEF D
  <2> QED BY <1>2, <1>4, <1>5, FS_Product, FS_Subset
<1>7. ASSUME NEW a \in Occurrences(P)
      PROVE  /\ a[1] \in Nat /\ a[2] \in DOMAIN P /\ a[1] \in P[a[2]]
             /\ a[2] \in Nat /\ a = <<a[1], a[2]>>
  <2>1. PICK i \in DOMAIN P : \E p \in P[i] : a = <<p, i>>
    BY DEF Occurrences
  <2> QED BY <1>1, <2>1 DEF IsPlaced
<1>8. \A i \in DOMAIN P : \A p \in P[i] : <<p, i>> \in Occurrences(P)
  BY DEF Occurrences
<1> QED BY <1>6, <1>7, <1>8

\* Merged puts every occurrence into the stream, by position.
LEMMA MergedIsStream ==
  ASSUME NEW P, NEW n, IsPlaced(P, n)
  PROVE  IsStream(Merged(P), P)
<1> DEFINE S == Occurrences(P)
           R == StreamOrder(S)
           s == Merged(P)
           nth(i) == CHOOSE a \in S : Cardinality({b \in S : InStream(b, a)}) = i - 1
<1>1. /\ IsFiniteSet(S)
      /\ \A a \in S : /\ a[1] \in Nat /\ a[2] \in DOMAIN P /\ a[1] \in P[a[2]]
                      /\ a[2] \in Nat /\ a = <<a[1], a[2]>>
      /\ \A i \in DOMAIN P : \A p \in P[i] : <<p, i>> \in S
  BY OccurrencesTyped
<1>2. s = [i \in 1..Cardinality(S) |-> nth(i)]
  BY DEF Merged, InOrder, Occurrences, InStream
<1> HIDE DEF S
<1>3. \A a, b \in S : <<a, b>> \in R <=> InStream(a, b)
  BY DEF StreamOrder
<1>4. IsOrder(R, S)
  <2> HIDE DEF R
  <2>1. \A a \in S : ~InStream(a, a)
    BY <1>1 DEF InStream
  <2>2. ASSUME NEW a \in S, NEW b \in S, a # b PROVE InStream(a, b) \/ InStream(b, a)
    <3>1. a[1] # b[1] \/ a[2] # b[2]
      BY <1>1, <2>2
    <3> QED BY <1>1, <3>1 DEF InStream
  <2>3. \A a, b, c \in S : InStream(a, b) /\ InStream(b, c) => InStream(a, c)
    BY <1>1 DEF InStream
  <2> QED BY <1>3, <2>1, <2>2, <2>3 DEF IsOrder
<1>5. \A a \in S : Rank(R, S, a) = Cardinality({b \in S : InStream(b, a)})
  <2> SUFFICES ASSUME NEW a \in S PROVE Preceding(R, S, a) = {b \in S : InStream(b, a)}
    BY DEF Rank
  <2> HIDE DEF R
  <2> QED BY <1>3 DEF Preceding
<1>6. s = [i \in 1..Cardinality(S) |-> s[i]] /\ \A i \in 1..Cardinality(S) : s[i] = nth(i)
  <2> HIDE DEF s, nth
  <2> QED BY <1>2
<1>7. ASSUME NEW i \in 1..Cardinality(S) PROVE s[i] = CHOOSE a \in S : Rank(R, S, a) = i - 1
  <2> HIDE DEF R, s
  <2> QED BY <1>5, <1>6
<1> HIDE DEF R, s, nth
<1>8. InRankOrder(s, R, S)
  BY <1>1, <1>4, <1>6, <1>7, RankedIsInOrder DEF IsRanked
<1>9. /\ Len(s) \in Nat /\ DOMAIN s = 1..Len(s) /\ \A k \in DOMAIN s : s[k] \in S
      /\ \A a \in S : \E k \in DOMAIN s : s[k] = a
  BY <1>8 DEF InRankOrder, ToSet
<1>10. ASSUME NEW j \in DOMAIN s, NEW k \in DOMAIN s, j <= k PROVE s[j][1] <= s[k][1]
  <2>1. CASE j = k
    BY <1>1, <1>9, <2>1
  <2>2. CASE j < k
    <3>1. InStream(s[j], s[k])
      BY <1>3, <1>8, <1>9, <2>2 DEF InRankOrder
    <3> QED BY <1>1, <1>9, <3>1 DEF InStream
  <2> QED BY <1>9, <1>10, <2>1, <2>2
<1>11. ASSUME NEW i \in DOMAIN P, NEW p \in P[i]
       PROVE  \E k \in DOMAIN s : s[k][1] = p /\ s[k][2] = i
  <2>1. PICK k \in DOMAIN s : s[k] = <<p, i>>
    BY <1>1, <1>9
  <2> QED BY <2>1
<1>12. \A k \in DOMAIN s : s[k][2] \in DOMAIN P /\ s[k][1] \in P[s[k][2]] /\ s[k][1] \in Nat
  BY <1>1, <1>9
<1>13. IsStream(s, P)
  BY <1>9, <1>10, <1>11, <1>12 DEF IsStream
<1> QED BY <1>13 DEF s

-----------------------------------------------------------------------------
(* The closest span *)

Picks(P) ==
  {c \in [DOMAIN P -> UNION ToSet(P)] : \A i \in DOMAIN P : c[i] \in P[i]}

Width(c) == Max(ToSet(c)) - Min(ToSet(c))

\* A choice lies between two occurrences that it takes, and is covered by them.
LEMMA ChoiceIsCovered ==
  ASSUME NEW P, NEW n, IsPlaced(P, n), NEW st, IsStream(st, P), NEW c \in Picks(P)
  PROVE  \E j, e \in DOMAIN st : Covers(P, st, j, e) /\ Width(c) = st[e][1] - st[j][1]
<1> DEFINE Taken == {k \in DOMAIN st : c[st[k][2]] = st[k][1]}
<1>1. /\ n \in Nat \ {0} /\ DOMAIN P = 1..n /\ DOMAIN c = DOMAIN P
      /\ \A i \in DOMAIN P : c[i] \in P[i] /\ c[i] \in Nat
  BY DEF IsPlaced, Picks
<1>2. /\ Len(st) \in Nat /\ DOMAIN st = 1..Len(st)
      /\ \A k \in DOMAIN st : st[k][2] \in DOMAIN P /\ st[k][1] \in Nat
      /\ \A j, k \in DOMAIN st : j <= k => st[j][1] <= st[k][1]
  BY DEF IsStream
<1>3. \A i \in DOMAIN P : \E k \in Taken : st[k][2] = i /\ st[k][1] = c[i]
  BY <1>1 DEF IsStream
<1>4. Taken \in SUBSET (0..Len(st)) /\ Taken \in SUBSET Nat /\ Taken # {} /\ Taken \subseteq DOMAIN st
  <2>1. 1 \in DOMAIN P
    BY <1>1
  <2> QED BY <1>2, <1>3, <2>1
<1>5. ToSet(c) = {st[k][1] : k \in Taken}
  <2>1. ToSet(c) = {c[i] : i \in DOMAIN P}
    BY <1>1 DEF ToSet
  <2>2. \A k \in Taken : st[k][1] = c[st[k][2]] /\ st[k][2] \in DOMAIN P
    BY <1>2
  <2> HIDE DEF Taken
  <2> QED BY <1>3, <2>1, <2>2
<1> HIDE DEF Taken
<1>6. PICK j \in Taken : \A k \in Taken : j <= k
  BY <1>4, LeastNat
<1>7. PICK e \in Taken : \A k \in Taken : k <= e
  BY <1>2, <1>4, GreatestNat
<1>8. j \in DOMAIN st /\ e \in DOMAIN st /\ st[j][1] \in Nat /\ st[e][1] \in Nat
  BY <1>2, <1>4, <1>6, <1>7
<1>9. \A p \in ToSet(c) : st[j][1] <= p /\ p <= st[e][1] /\ p \in Nat
  BY <1>2, <1>4, <1>5, <1>6, <1>7
<1>10. st[j][1] \in ToSet(c) /\ st[e][1] \in ToSet(c)
  BY <1>5, <1>6, <1>7
<1>11. Min(ToSet(c)) = st[j][1]
  <2>1. ToSet(c) \in SUBSET Nat /\ ToSet(c) # {}
    BY <1>9, <1>10
  <2>2. Min(ToSet(c)) \in ToSet(c) /\ Min(ToSet(c)) <= st[j][1]
    BY <1>10, <2>1, LeastNat
  <2> QED BY <1>8, <1>9, <2>2
<1>12. Max(ToSet(c)) = st[e][1]
  <2>1. ToSet(c) \in SUBSET (0..st[e][1]) /\ ToSet(c) # {}
    BY <1>8, <1>9, <1>10
  <2>2. Max(ToSet(c)) \in ToSet(c) /\ st[e][1] <= Max(ToSet(c))
    BY <1>8, <1>10, <2>1, GreatestNat
  <2> QED BY <1>8, <1>9, <2>2
<1>13. Covers(P, st, j, e)
  <2> SUFFICES ASSUME NEW i \in DOMAIN P PROVE \E k \in j..e : st[k][2] = i
    BY DEF Covers
  <2>1. PICK k \in Taken : st[k][2] = i
    BY <1>3
  <2>2. k \in j..e
    BY <1>2, <1>4, <1>6, <1>7, <2>1
  <2> QED BY <2>1, <2>2
<1> QED BY <1>8, <1>11, <1>12, <1>13 DEF Width

\* A stretch that covers holds a choice no wider.
LEMMA CoveredHoldsChoice ==
  ASSUME NEW P, NEW n, IsPlaced(P, n), NEW st, IsStream(st, P),
         NEW j \in DOMAIN st, NEW e \in DOMAIN st, Covers(P, st, j, e)
  PROVE  \E c \in Picks(P) : Width(c) \in Nat /\ Width(c) <= st[e][1] - st[j][1]
<1> DEFINE at(i) == CHOOSE k \in j..e : st[k][2] = i
           c == [i \in DOMAIN P |-> st[at(i)][1]]
<1>1. n \in Nat \ {0} /\ DOMAIN P = 1..n
  BY DEF IsPlaced
<1>2. /\ Len(st) \in Nat /\ DOMAIN st = 1..Len(st)
      /\ \A k \in DOMAIN st : /\ st[k][2] \in DOMAIN P /\ st[k][1] \in P[st[k][2]] /\ st[k][1] \in Nat
      /\ \A i, k \in DOMAIN st : i <= k => st[i][1] <= st[k][1]
  BY DEF IsStream
<1>3. \A i \in DOMAIN P : at(i) \in j..e /\ st[at(i)][2] = i
  BY DEF Covers
<1> HIDE DEF at
<1>4. \A i \in DOMAIN P : c[i] \in P[i] /\ c[i] \in st[j][1]..st[e][1] /\ c[i] \in Nat
  <2> SUFFICES ASSUME NEW i \in DOMAIN P
               PROVE  c[i] \in P[i] /\ c[i] \in st[j][1]..st[e][1] /\ c[i] \in Nat
    OBVIOUS
  <2>1. at(i) \in DOMAIN st /\ j <= at(i) /\ at(i) <= e /\ st[at(i)][2] = i
    BY <1>2, <1>3
  <2>2. c[i] = st[at(i)][1]
    OBVIOUS
  <2> HIDE DEF c
  <2> QED BY <1>2, <2>1, <2>2
<1>5. c \in Picks(P)
  <2>1. \A i \in DOMAIN P : c[i] \in UNION ToSet(P)
    BY <1>4 DEF ToSet
  <2>2. c \in [DOMAIN P -> UNION ToSet(P)]
    BY <2>1
  <2> HIDE DEF c
  <2> QED BY <1>4, <2>2 DEF Picks
<1>6. ToSet(c) = {c[i] : i \in DOMAIN P}
  BY DEF ToSet
<1> HIDE DEF c
<1>7. 1 \in DOMAIN P /\ st[j][1] \in Nat /\ st[e][1] \in Nat
  BY <1>1, <1>2
<1>8. ToSet(c) # {} /\ ToSet(c) \in SUBSET Nat /\ ToSet(c) \in SUBSET (0..st[e][1])
      /\ \A p \in ToSet(c) : p \in st[j][1]..st[e][1]
  BY <1>4, <1>6, <1>7
<1>9. Min(ToSet(c)) \in ToSet(c) /\ \A p \in ToSet(c) : Min(ToSet(c)) <= p
  BY <1>8, LeastNat
<1>10. Max(ToSet(c)) \in ToSet(c)
  BY <1>7, <1>8, GreatestNat
<1>11. Width(c) \in Nat /\ Width(c) <= st[e][1] - st[j][1]
  BY <1>7, <1>8, <1>9, <1>10 DEF Width
<1> QED BY <1>5, <1>11

\* What the window measures is the width of the narrowest choice.
LEMMA SpanIsNarrowest ==
  ASSUME NEW P, NEW n, IsPlaced(P, n)
  PROVE  Picks(P) # {} /\ ClosestSpan(P) = Min({Width(c) : c \in Picks(P)})
<1>1. PICK st : st = Merged(P)
  OBVIOUS
<1>2. IsStream(st, P)
  BY <1>1, MergedIsStream
<1>3. /\ Len(st) \in Nat /\ DOMAIN st = 1..Len(st)
      /\ \A k \in DOMAIN st : st[k][1] \in Nat
      /\ \A i, k \in DOMAIN st : i <= k => st[i][1] <= st[k][1]
  BY <1>2 DEF IsStream
<1>4. n \in Nat \ {0} /\ DOMAIN P = 1..n /\ DOMAIN P # {} /\ \A i \in DOMAIN P : P[i] # {}
  BY DEF IsPlaced
<1>5. PICK w : w = Window(P, st, Len(st))
  OBVIOUS
<1>6. ClosestSpan(P) = Min(w.spans)
  <2>1. DOMAIN [k \in DOMAIN st |-> k] = 1..Len(st)
    BY <1>3
  <2> QED BY <1>1, <1>4, <1>5, <2>1, SpanIsSlid DEF Window
<1>7. Measured(P, st, w, Len(st))
  BY <1>2, <1>4, <1>5, StreamMeasured
<1>8. ASSUME NEW c \in Picks(P) PROVE \E x \in w.spans : x <= Width(c) /\ Width(c) \in Int
  <2>1. PICK j \in DOMAIN st, e \in DOMAIN st : Covers(P, st, j, e) /\ Width(c) = st[e][1] - st[j][1]
    BY <1>2, ChoiceIsCovered
  <2>2. w.start \in 1..Len(st) + 1 /\ ~Covers(P, st, w.start, Len(st))
    BY <1>7 DEF Measured
  <2>3. j \in 1..w.start - 1
    <3>1. SUFFICES ASSUME w.start <= j PROVE FALSE
      BY <1>3, <2>2
    <3>2. w.start \in Nat /\ j \in Nat /\ e \in Nat /\ e <= Len(st)
      BY <1>3, <2>2
    <3> QED BY <1>3, <2>1, <2>2, <3>1, <3>2, CoversMore
  <2>4. PICK d \in 1..Len(st) : /\ Covers(P, st, j, d) /\ st[d][1] - st[j][1] \in w.spans
                                /\ \A k \in 0..d - 1 : ~Covers(P, st, j, k)
    BY <1>7, <2>3 DEF Measured
  <2>5. d <= e
    <3>1. SUFFICES ASSUME e <= d - 1 PROVE FALSE
      BY <1>3
    <3> QED BY <1>3, <2>1, <2>4, <3>1
  <2>6. st[d][1] <= st[e][1] /\ st[d][1] \in Nat /\ st[e][1] \in Nat /\ st[j][1] \in Nat
    BY <1>3, <2>5
  <2> QED BY <2>1, <2>4, <2>6
<1>9. ASSUME NEW x \in w.spans
      PROVE  x \in Nat /\ \E c \in Picks(P) : Width(c) \in Nat /\ Width(c) <= x
  <2>1. PICK j \in 1..Len(st), e \in 1..Len(st) : x = st[e][1] - st[j][1] /\ Covers(P, st, j, e) /\ j <= e
    BY <1>7 DEF Measured
  <2>2. st[j][1] <= st[e][1] /\ st[j][1] \in Nat /\ st[e][1] \in Nat
    BY <1>3, <2>1
  <2>3. \E c \in Picks(P) : Width(c) \in Nat /\ Width(c) <= st[e][1] - st[j][1]
    BY <1>2, <1>3, <2>1, CoveredHoldsChoice
  <2> QED BY <2>1, <2>2, <2>3
<1>10. PICK some : some \in Picks(P)
  <2>1. \E c : c \in Picks(P)
    <3> DEFINE c == [i \in DOMAIN P |-> CHOOSE p \in P[i] : TRUE]
    <3>1. \A i \in DOMAIN P : c[i] \in P[i]
      BY <1>4
    <3>2. \A i \in DOMAIN P : c[i] \in UNION ToSet(P)
      BY <3>1 DEF ToSet
    <3>3. c \in [DOMAIN P -> UNION ToSet(P)]
      BY <3>2
    <3> HIDE DEF c
    <3> QED BY <3>1, <3>3 DEF Picks
  <2> QED BY <2>1
<1>11. PICK W : W = {Width(c) : c \in Picks(P)}
  OBVIOUS
<1>12. w.spans \in SUBSET Nat /\ w.spans # {}
  BY <1>8, <1>9, <1>10
<1>13. PICK m : m = Min(w.spans)
  OBVIOUS
<1>14. m \in w.spans /\ m \in Nat /\ \A x \in w.spans : m <= x
  BY <1>12, <1>13, LeastNat
<1>15. PICK c \in Picks(P) : Width(c) \in Nat /\ Width(c) <= m
  BY <1>9, <1>14
<1>16. \A x \in W : m <= x /\ x \in Int
  BY <1>8, <1>11, <1>14, <1>12
<1>17. Width(c) = m /\ m \in W
  BY <1>11, <1>14, <1>15, <1>16
<1>18. Min(W) = m
  <2>1. \E x \in W : \A y \in W : x =< y
    BY <1>16, <1>17
  <2>2. Min(W) \in W /\ \A y \in W : Min(W) =< y
    BY <2>1 DEF Min
  <2> QED BY <1>14, <1>16, <1>17, <2>2
<1> QED BY <1>6, <1>10, <1>11, <1>13, <1>18

-----------------------------------------------------------------------------
(* The page *)

\* A document that matches scores what is promised of it.
LEMMA ScoredExactly ==
  ASSUME index \in Indexes, query \in Queries, NEW r \in Matching
  PROVE  Scored(r) = Exact(r)
<1> DEFINE P == PositionsOf(r)
<1>1. /\ DOMAIN query.terms = 1..Len(query.terms) /\ Len(query.terms) \in Nat
      /\ \A l \in DOMAIN query.terms : query.terms[l] \in Terms
      /\ query.terms = <<>> <=> Len(query.terms) = 0
  BY QueryTyped
<1>2. /\ query.terms # <<>> /\ r.segment \in DOMAIN index
      /\ \A t \in ToSet(query.terms) : Has(r.segment, t, r.doc)
  BY MatchingTyped DEF Matching
<1>3. ASSUME NEW l \in DOMAIN query.terms
      PROVE  /\ PositionsIn(r.segment, query.terms[l], r.doc) \in SUBSET Nat
             /\ PositionsIn(r.segment, query.terms[l], r.doc) # {}
             /\ IsFiniteSet(PositionsIn(r.segment, query.terms[l], r.doc))
  <2>1. PICK t \in Terms : t = query.terms[l]
    BY <1>1
  <2>2. PICK list : list = index[r.segment].postings[t]
    OBVIOUS
  <2>3. /\ DOMAIN Docs(list) = DOMAIN list
        /\ \A i \in DOMAIN list :
             /\ Docs(list)[i] = list[i].doc
             /\ list[i].positions \in SUBSET Nat /\ list[i].positions # {}
             /\ IsFiniteSet(list[i].positions)
             /\ PositionsIn(r.segment, t, list[i].doc) = list[i].positions
    BY <1>2, <2>1, <2>2, PostingTyped
  <2>4. t \in ToSet(query.terms)
    BY <2>1 DEF ToSet
  <2>5. r.doc \in ToSet(Docs(list))
    BY <1>2, <2>2, <2>4 DEF Has
  <2>6. PICK i \in DOMAIN list : list[i].doc = r.doc
    BY <2>3, <2>5 DEF ToSet
  <2> QED BY <2>1, <2>3, <2>6
<1>4. IsPlaced(P, Len(query.terms))
  <2>1. DOMAIN P = DOMAIN query.terms
        /\ \A l \in DOMAIN query.terms : P[l] = PositionsIn(r.segment, query.terms[l], r.doc)
    BY DEF PositionsOf
  <2> HIDE DEF P
  <2> QED BY <1>1, <1>2, <1>3, <2>1 DEF IsPlaced
<1>5. Picks(P) # {} /\ ClosestSpan(P) = Min({Width(c) : c \in Picks(P)})
  <2> HIDE DEF P
  <2> QED BY <1>4, SpanIsNarrowest
<1>6. Narrowest(r) = IF Picks(P) = {} THEN NoSpan ELSE Min({Width(c) : c \in Picks(P)})
  <2>1. DOMAIN P = DOMAIN query.terms
    BY DEF PositionsOf
  <2>2. Picks(P) = {c \in [DOMAIN query.terms -> UNION ToSet(P)] : \A i \in DOMAIN P : c[i] \in P[i]}
    BY <2>1 DEF Picks
  <2> QED BY <2>2 DEF Narrowest, Width, PositionsOf
<1>7. Narrowest(r) = ClosestSpan(PositionsOf(r))
  BY <1>5, <1>6
<1> QED BY <1>7 DEF Scored, Exact

\* With one term there is no closeness to add.
LEMMA ScoredPlainly ==
  ASSUME index \in Indexes, NEW r \in Matching, Len(query.terms) < 2
  PROVE  Scored(r) = Base(r)
<1>1. index[r.segment].entries[r.doc].score \in Nat
  BY MatchingTyped, EntryTyped
<1>2. \A span : Proximity(span, Len(query.terms)) = 0
  BY DEF Proximity
<1>3. Proximity(ClosestSpan(PositionsOf(r)), Len(query.terms)) = 0
  BY <1>2
<1> QED BY <1>1, <1>3 DEF Scored, Base

\* For a single term the cut is exact: it leaves whatever the page shows.
LEMMA CutIsExact ==
  ASSUME index \in Indexes, query \in Queries, limit \in Limits, depth \in Depths,
         Len(query.terms) < 2, NEW r \in Matching, Scored(r) \in ExactPage
  PROVE  Base(r) \in WithinCut(r.segment)
<1> DEFINE all == {Exact(q) : q \in Matching}
           here == {Base(q) : q \in {p \in Matching : p.segment = r.segment}}
           before == {b \in here : RanksBefore(b, Base(r))}
           ahead == {b \in all : RanksBefore(b, Base(r))}
<1>1. \A q \in Matching : Exact(q) = Base(q) /\ Scored(q) = Base(q)
  BY ScoredExactly, ScoredPlainly
<1>2. limit \in Nat /\ (Depth = NoValue \/ (Depth \in Nat /\ limit <= Depth))
  BY DepthTyped
<1>3. here \in SUBSET all /\ Base(r) \in here
  BY <1>1
<1>4. IsFiniteSet(all)
  <2> DEFINE f == [q \in Matching |-> Exact(q)]
  <2>1. f \in [Matching -> all] /\ \A h \in all : \E q \in Matching : f[q] = h
    OBVIOUS
  <2> HIDE DEF all, f
  <2> QED BY <2>1, MatchingTyped, Fun_IsSurj, FS_Surjection
<1>5. Cardinality(ahead) < limit
  <2>1. Base(r) \in Top(all, limit)
    BY <1>1 DEF ExactPage
  <2> QED BY <2>1 DEF Top
<1>6. before \in SUBSET ahead /\ IsFiniteSet(ahead)
  <2>1. ahead \in SUBSET all
    OBVIOUS
  <2> HIDE DEF all, ahead
  <2>2. IsFiniteSet(ahead)
    BY <1>4, <2>1, FS_Subset
  <2> QED BY <1>3, <2>2 DEF ahead
<1>7. Cardinality(before) <= Cardinality(ahead) /\ Cardinality(before) \in Nat /\ Cardinality(ahead) \in Nat
  <2> HIDE DEF before, ahead
  <2> QED BY <1>6, FS_Subset, FS_CardinalityType
<1>8. WithinCut(r.segment) = IF Depth = NoValue THEN here ELSE Top(here, Depth)
  BY DEF WithinCut
<1>9. CASE Depth = NoValue
  BY <1>3, <1>8, <1>9
<1>10. CASE Depth # NoValue
  <2>1. Cardinality(before) < Depth
    BY <1>2, <1>5, <1>7, <1>10
  <2>2. Base(r) \in Top(here, Depth)
    BY <1>3, <2>1 DEF Top
  <2> QED BY <1>8, <1>10, <2>2
<1> QED BY <1>9, <1>10

\* PageIsExact of every page that a search in good order returns.
LEMMA ReturnedExactly == PageInv => PageIsExact
<1> SUFFICES ASSUME PageInv, progress = "done" PROVE PageIsExact
  BY DEF PageIsExact
<1>1. index \in Indexes /\ query \in Queries /\ limit \in Limits /\ depth \in Depths /\ Progress
  BY DEF PageInv, SearchInv
<1> DEFINE all == {Exact(q) : q \in Matching}
           offered == Offers(Len(index) + 1)
<1>2. ExactPage = Top(all, limit)
  BY DEF ExactPage
<1>3. CASE Hopeless
  <2>1. hits = <<>> /\ Matching = {}
    BY <1>1, <1>3, NothingIsHopeless DEF Progress
  <2>2. ExactPage = {}
    BY <1>2, <2>1 DEF Top
  <2>3. ToSet(<<>>) = {}
    BY DEF ToSet
  <2>4. InOrder({}, RanksBefore) = <<>>
    <3>1. Cardinality({}) = 0 /\ 1..0 = {}
      BY FS_EmptySet
    <3> QED BY <3>1 DEF InOrder
  <2> QED BY <2>1, <2>2, <2>3, <2>4 DEF PageIsExact
<1>4. CASE ~Hopeless
  <2>1. best = Top(offered, limit) /\ hits = InOrder(best, RanksBefore)
    BY <1>1, <1>4 DEF Progress
  <2>2. \A q \in Matching : /\ Exact(q) = Scored(q) /\ Exact(q).ref = q /\ Exact(q) \in Hit
                            /\ Base(q).ref = q
    BY <1>1, ScoredExactly, ScoresTyped
  <2>3. all \in SUBSET Hit /\ IsFiniteSet(all)
    <3> DEFINE f == [q \in Matching |-> Exact(q)]
    <3>1. f \in [Matching -> all] /\ (\A h \in all : \E q \in Matching : f[q] = h) /\ all \in SUBSET Hit
      BY <2>2
    <3> HIDE DEF all, f
    <3> QED BY <1>1, <3>1, MatchingTyped, Fun_IsSurj, FS_Surjection
  <2>4. offered \in SUBSET all
    <3>1. Survivors(Len(index) + 1) \in SUBSET Matching
      BY DEF Survivors
    <3> QED BY <2>2, <3>1 DEF Offers
  <2>5. limit \in Nat
    BY <1>1, DepthTyped
  <2>6. SUFFICES ASSUME Len(query.terms) > 1 =>
                          \A h \in ExactPage : \E b \in WithinCut(h.ref.segment) : b.ref = h.ref
                 PROVE  ToSet(hits) = ExactPage /\ hits = InOrder(ExactPage, RanksBefore)
    BY DEF PageIsExact
  <2>7. ASSUME NEW h \in ExactPage PROVE h \in offered
    <3>1. PICK r \in Matching : h = Exact(r)
      BY <1>2 DEF Top
    <3>2. h = Scored(r) /\ h.ref = r /\ r.segment < Len(index) + 1
      BY <1>1, <2>2, <3>1, MatchingTyped, IndexTyped
    <3>3. CASE Len(query.terms) > 1
      <4>1. PICK b \in WithinCut(r.segment) : b.ref = r
        BY <2>6, <3>2, <3>3
      <4>2. PICK q \in Matching : b = Base(q)
        BY <4>1 DEF WithinCut, Top
      <4>3. Base(r) \in WithinCut(r.segment)
        BY <2>2, <4>1, <4>2
      <4> QED BY <3>2, <4>3 DEF Offers, Survivors
    <3>4. CASE Len(query.terms) < 2
      <4>1. Base(r) \in WithinCut(r.segment)
        BY <1>1, <3>2, <3>4, CutIsExact
      <4> QED BY <3>2, <4>1 DEF Offers, Survivors
    <3>5. Len(query.terms) \in Nat
      BY <1>1, QueryTyped
    <3> QED BY <3>3, <3>4, <3>5
  <2>8. best = ExactPage
    <3>1. Top(all, limit) \subseteq offered
      BY <1>2, <2>7
    <3> HIDE DEF all, offered
    <3> QED BY <1>2, <2>1, <2>3, <2>4, <2>5, <3>1, TopOfSome
  <2>9. ToSet(hits) = best
    <3>1. best \in SUBSET all
      BY <1>2, <2>8 DEF Top
    <3> HIDE DEF all
    <3>2. best \in SUBSET Hit /\ IsFiniteSet(best)
      BY <2>3, <3>1, FS_Subset
    <3> QED BY <2>1, <3>2, ResultsAreListed
  <2> QED BY <2>1, <2>8, <2>9
<1> QED BY <1>3, <1>4

\* PageIsExact: the page is the best of all matches in the order of results, for
\* a search without a cut, for a single term, and whenever the cuts leave the
\* documents of that page.
THEOREM ThePageIsExact == SearchSpec => []PageIsExact
BY PageInvariant, ReturnedExactly, PTL
=============================================================================
