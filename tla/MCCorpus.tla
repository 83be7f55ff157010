------------------------------- MODULE MCCorpus -------------------------------
(***************************************************************************)
(* A small web: two British sites, one of them with a www and a blog, two  *)
(* hosts below a wildcard suffix, two below an exception to it, links      *)
(* between them of every sort, and a page that names another's as its own. *)
(***************************************************************************)
EXTENDS Corpus

OrdinaryRules == {<<"com">>, <<"uk">>, <<"co", "uk">>}
WildcardRules == {<<"ck">>}
ExceptionRules == {<<"e", "ck">>}
NoHosts == {}

HostLabels == {"www", "com", "uk", "co", "ck", "a", "b", "blog", "c", "d", "e", "m", "x", "y"}

Acme == <<"a", "co", "uk">>
AcmeWww == <<"www">> \o Acme
AcmeBlog == <<"blog">> \o Acme
Bee == <<"b", "co", "uk">>
Cook == <<"c", "m", "ck">>
Dock == <<"d", "m", "ck">>
Elm == <<"x", "e", "ck">>
Elk == <<"y", "e", "ck">>

Url(host, path) == [host |-> host, path |-> path]

To(url, anchor) == [url |-> url, anchor |-> anchor, nofollow |-> FALSE]

Unvouched(link) == [link EXCEPT !.nofollow = TRUE]

\* Anchors 3 and 4 are one phrase, 5 is blank and 6 is a paragraph.
Tidying == [anchor \in 1..6 |-> CASE anchor \in 1..3 -> anchor [] anchor = 4 -> 3 [] anchor = 5 -> 0 [] anchor = 6 -> 4]
\* The third is in letters of two bytes.
Lengths == [phrase \in 1..4 |-> CASE phrase = 4 -> 9 [] OTHER -> 2]
ByteLengths == [phrase \in 1..4 |-> CASE phrase = 3 -> 4 [] OTHER -> Lengths[phrase]]

Page(url, words, links) ==
  [url |-> url, canonical |-> <<>>, index |-> TRUE, archive |-> TRUE, follow |-> TRUE,
   words |-> words, blank |-> FALSE, links |-> links]

AcmeLinks == <<To(Url(Bee, 1), 1), To(Url(Bee, 2), 2), To(Url(AcmeBlog, 1), 1),
               To(Url(Cook, 1), 1), Unvouched(To(Url(Dock, 1), 1))>>

Web ==
  {Page(Url(Acme, 1), <<1, 2>>, AcmeLinks),
   Page(Url(AcmeWww, 2), <<2, 2, 1>>, AcmeLinks),
   Page(Url(Acme, 3), <<1, 3>>, <<To(Url(Bee, 2), 2)>>),
   [Page(Url(AcmeBlog, 1), <<1, 1>>, <<To(Url(Bee, 1), 3), To(Url(Bee, 1), 6), To(Url(Acme, 1), 2)>>) EXCEPT !.follow = FALSE],
   Page(Url(Bee, 1), <<3>>, <<To(Url(AcmeWww, 2), 4), To(Url(Acme, 1), 5), To(Url(<<>>, 1), 1), To(Url(Cook, 1), 2)>>),
   [Page(Url(Bee, 2), <<1, 2>>, <<To(Url(Acme, 1), 1)>>) EXCEPT !.archive = FALSE],
   Page(Url(Cook, 1), <<3, 3, 1>>, <<To(Url(Dock, 1), 1), To(Url(Dock, 1), 2), To(Url(Bee, 1), 2), To(Url(Elm, 1), 1)>>),
   [Page(Url(Dock, 1), <<>>, <<To(Url(Bee, 1), 4), To(Url(Dock, 1), 2)>>) EXCEPT !.canonical = <<Url(Bee, 1)>>],
   [Page(Url(Elm, 2), <<>>, <<To(Url(Bee, 1), 1)>>) EXCEPT !.blank = TRUE],
   [Page(Url(Elm, 1), <<2, 3>>, <<To(Url(Elk, 1), 1), To(Url(Acme, 1), 3), To(Url(Dock, 1), 3)>>) EXCEPT !.canonical = <<Url(Elm, 2)>>]}

\* Cook names Bee's front page as its canonical one, and links to itself; a
\* farm gives Acme as many names as it may have; an honest site comes after.
Unbound ==
  {[Page(Url(Cook, 1), <<3>>, <<To(Url(Cook, 1), 1)>>) EXCEPT !.canonical = <<Url(Bee, 1)>>],
   Page(Url(Acme, 1), <<1, 2>>, <<>>),
   Page(Url(Dock, 1), <<1, 3>>, <<To(Url(Acme, 1), 1), To(Url(Acme, 1), 2)>>),
   Page(Url(Elm, 1), <<1, 1>>, <<To(Url(Acme, 1), 3)>>)}

SeedLists == {<<>>, <<Url(AcmeWww, 2), Url(<<>>, 1)>>, <<Url(Bee, 1), Url(Elk, 1)>>}

\* Most texts have fingerprints three bits apart; that of <<2, 3>> is one bit
\* from that of <<1, 2>>.
Hashes ==
  [run \in UNION {[1..n -> 1..3] : n \in 1..2} |->
     CASE run = <<1, 2>> -> {0, 3, 4}        [] run = <<2, 3>> -> {0, 3}           [] run = <<1, 3>> -> {2, 4, 5}
       [] run = <<2, 2>> -> {0, 1, 3, 5}     [] run = <<2, 1>> -> {1, 2, 3, 5}     [] run = <<1, 1>> -> {1, 2, 3, 4}
       [] run = <<3, 3>> -> {0, 1, 2, 3, 5}  [] run = <<3, 1>> -> {0, 2, 3, 4, 5}  [] run = <<3>>    -> {0, 1, 4, 5}
       [] OTHER -> {}]
=============================================================================
