---------------------------- MODULE MCIndexBuild ----------------------------
(***************************************************************************)
(* Crawls for IndexBuild.  Letters are numbers, 0 is Space; a record has a *)
(* body and a title.                                                       *)
(***************************************************************************)
EXTENDS IndexBuild

Record(body, title, host, quality) ==
  [texts |-> (0 :> body @@ 1 :> title), host |-> host, quality |-> quality]

Uruk == <<3, 1>>
Ur   == <<2>>

\* Bodies that share words, repeat them, end where a title begins, or hold a
\* word too long to be a term; hosts out of order; one record without text.
Pages == {
  Record(<<1, 0, 1, 2>>, <<1>>, Uruk, 251),
  Record(<<1, 2, 0, 1, 0, 1>>, <<1, 2, 0>>, Ur, 250),
  Record(<<1, 0, 2, 2, 2, 0, 2>>, <<0, 2>>, Uruk, 506),
  Record(<<0>>, <<1>>, Uruk, 0)}

\* One page of a site whose every page begins with the same word.
AllAlike == {Record(<<1>>, <<>>, Uruk, 500)}

\* A text of letters that take two bytes.
Cyrillic == {Record(<<4, 4>>, <<>>, Uruk, 500), Record(<<1, 0, 2>>, <<>>, Ur, 500)}

NoLetters == {}

TwoByteLetters == {4}
=============================================================================
