-------------------------------- MODULE Hosts --------------------------------
(***************************************************************************)
(* Which hosts are one site (host.rs and suffix.rs of uruk-link, host.rs   *)
(* of uruk-index).  A host is the sequence of its labels, as it is left of *)
(* a URL once user, port, case and final dot are gone; <<>> is none.       *)
(***************************************************************************)
EXTENDS Integers, SequencesExt

CONSTANTS Labels,      \* what a host's name is made of
          Ordinary,    \* rules of the Public Suffix List, as hosts
          Wildcard,    \* rules that begin with "*.", without it
          Exception,   \* rules that begin with "!", without it
          Addresses    \* hosts that are IP addresses

ASSUME HostsAssumption ==
  \A rule \in Ordinary \cup Wildcard \cup Exception : rule \in Seq(Labels) /\ rule # <<>>

\* A map, with an entry for a key.
With(map, key, value) == [k \in DOMAIN map \cup {key} |-> IF k = key THEN value ELSE map[k]]

Www == "www"

\* The host that a URL names, for a link graph or an anchor.
HostOf(host) == IF Len(host) > 1 /\ Head(host) = Www THEN Tail(host) ELSE host

Candidate(host, index) == SubSeq(host, index, Len(host))

\* Where the longest public suffix begins, at the last label when no rule says.
SuffixAt(host) ==
  LET ruled == {i \in DOMAIN host :
                  \/ Candidate(host, i) \in Ordinary
                  \/ i < Len(host) /\ Candidate(host, i + 1) \in Wildcard}
  IN  IF ruled = {} THEN Len(host) ELSE Min(ruled)

\* A public suffix and one label; an address, or a host that is a suffix, whole.
RegistrableDomain(host) ==
  LET excepted == {i \in DOMAIN host : Candidate(host, i) \in Exception}
  IN  CASE host = <<>> \/ host \in Addresses -> host
        [] host \notin Addresses /\ excepted # {} -> Candidate(host, Min(excepted))
        [] OTHER -> IF SuffixAt(host) = 1 THEN host ELSE Candidate(host, SuffixAt(host) - 1)

SameSite(from, to) == RegistrableDomain(from) = RegistrableDomain(to)
=============================================================================
