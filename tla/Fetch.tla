-------------------------------- MODULE Fetch --------------------------------
(***************************************************************************)
(* What Fetcher::get makes of an answer (fetch.rs).  An answer is          *)
(* [sent, status, headers, chunks]: whether a status came at all, the      *)
(* header lines [name, value, number] in order, and what arrives of the    *)
(* body, each chunk with its size or the failure that came in its place.   *)
(* Decoding a body is left out, and a content type is its base: parameters *)
(* and case are gone.                                                      *)
(***************************************************************************)
EXTENDS Integers, SequencesExt

CONSTANTS MaxBytes,    \* the most that is read of a body (4 MiB)
          Parseable,   \* content types that are text, and the empty one
          NoType,      \* the empty content type
          Malformed    \* locations that are no URL

\* The first header of a name, if there is one.
FirstHeader(answer, name) ==
  LET named == {i \in DOMAIN answer.headers : answer.headers[i].name = name}
  IN  {answer.headers[i] : i \in {i \in named : \A j \in named : i <= j}}

IsParseable(answer) ==
  LET types == {header.value : header \in FirstHeader(answer, "content-type")}
  IN  (IF types = {} THEN {NoType} ELSE types) \subseteq Parseable

NothingRead == [body |-> <<>>, bytes |-> 0, failed |-> "no"]

\* A chunk arrives after what is read; the first that fails, or that would
\* pass the limit, ends it all.
Arrive(read, chunk) ==
  IF read.failed # "no" THEN read
  ELSE IF chunk.failed # "no" THEN [read EXCEPT !.failed = chunk.failed]
  ELSE IF read.bytes + chunk.bytes > MaxBytes THEN [read EXCEPT !.failed = "too_large"]
  ELSE [read EXCEPT !.bytes = @ + chunk.bytes, !.body = Append(@, chunk)]

ReadCapped(answer) == FoldLeft(Arrive, NothingRead, answer.chunks)

\* A redirect is handed back, never followed; a claim to more than the limit
\* is believed, a claim to less is not.
Get(answer) ==
  IF answer.sent # "yes" THEN [kind |-> answer.sent]
  ELSE CASE answer.status \in 300..399 ->
              IF \E header \in FirstHeader(answer, "location") : header.value \notin Malformed
              THEN [kind |-> "redirect", to |-> FirstHeader(answer, "location")]
              ELSE [kind |-> "bad_redirect"]
         [] answer.status \notin 200..399 -> [kind |-> "status", status |-> answer.status]
         [] answer.status \in 200..299 ->
              IF ~IsParseable(answer) THEN [kind |-> "not_parseable"]
              ELSE IF \E header \in FirstHeader(answer, "content-length") : header.number > MaxBytes THEN [kind |-> "too_large"]
              ELSE IF ReadCapped(answer).failed # "no" THEN [kind |-> ReadCapped(answer).failed]
              ELSE [kind |-> "page", body |-> ReadCapped(answer).body]
=============================================================================
