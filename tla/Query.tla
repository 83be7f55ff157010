-------------------------------- MODULE Query -------------------------------
(***************************************************************************)
(* The query language (uruk-query, parse.rs).  What is typed is a sequence *)
(* of characters: letters, Space, Quote, Minus, and Site, which stands for *)
(* the five characters "site:".  A minus inside a word separates like any  *)
(* other character that is not alphanumeric; Site reads as a word and a    *)
(* colon.                                                                  *)
(***************************************************************************)
EXTENDS Tokenize

CONSTANT SiteWord   \* the word "site", as the tokeniser has it

Quote == -1
Minus == -2
Site  == -3

Plain(text) ==
  FoldLeft(LAMBDA plain, c : CASE c = Site           -> plain \o SiteWord \o <<Space>>
                               [] c \in {Quote, Minus} -> Append(plain, Space)
                               [] OTHER              -> Append(plain, c), <<>>, text)

TermsOf(text) == FoldLeft(LAMBDA terms, token : Append(terms, token.term), <<>>, TokensOf(Plain(text)))

------------------------------------------------------------------------------
(***************************************************************************)
(* Chunks: quotes hold their words together, a minus at the start of a     *)
(* chunk excludes it.                                                      *)
(***************************************************************************)
Reading == [current |-> <<>>, negated |-> FALSE, inQuotes |-> FALSE, quoted |-> FALSE, atStart |-> TRUE, chunks |-> <<>>]

\* A bug: what is said of a chunk outlives it when the chunk is empty.
FinishKeeps(r) ==
  IF r.current = <<>> THEN r
  ELSE [r EXCEPT !.current = <<>>, !.negated = FALSE, !.quoted = FALSE,
          !.chunks = Append(@, [text |-> r.current, negated |-> r.negated, quoted |-> r.quoted])]

Finish(r) ==
  [r EXCEPT !.current = <<>>, !.negated = FALSE, !.quoted = FALSE,
     !.chunks = IF r.current = <<>> THEN @
                ELSE Append(@, [text |-> r.current, negated |-> r.negated, quoted |-> r.quoted])]

ReadChar(r, c) ==
  CASE c = Quote /\ r.inQuotes  -> [Finish([r EXCEPT !.quoted = TRUE]) EXCEPT !.inQuotes = FALSE, !.atStart = TRUE]
    [] c = Quote /\ ~r.inQuotes -> [r EXCEPT !.inQuotes = TRUE, !.quoted = TRUE, !.atStart = FALSE]
    [] c = Minus /\ r.atStart /\ ~r.inQuotes -> [r EXCEPT !.negated = TRUE, !.atStart = FALSE]
    [] c = Space /\ ~r.inQuotes -> [Finish(r) EXCEPT !.atStart = TRUE]
    [] OTHER                    -> [r EXCEPT !.current = Append(@, c), !.atStart = FALSE]

Chunks(raw) == Finish(FoldLeft(ReadChar, Reading, raw)).chunks

------------------------------------------------------------------------------
(***************************************************************************)
(* The query.  More than one term in a chunk is a phrase, quoted or not.   *)
(***************************************************************************)
Nothing == [required |-> <<>>, phrases |-> <<>>, excluded |-> <<>>, excludedPhrases |-> <<>>, site |-> <<>>]

AddTerms(query, negated, terms) ==
  IF terms = <<>> THEN query
  ELSE IF negated
  THEN IF Len(terms) > 1 THEN [query EXCEPT !.excludedPhrases = Append(@, terms)]
       ELSE [query EXCEPT !.excluded = @ \o terms]
  ELSE [query EXCEPT !.required = @ \o terms, !.phrases = IF Len(terms) > 1 THEN Append(@, terms) ELSE @]

AddChunk(query, chunk) ==
  IF ~chunk.quoted /\ ~chunk.negated /\ chunk.text[1] = Site
  THEN IF Len(chunk.text) = 1 THEN query ELSE [query EXCEPT !.site = Tail(chunk.text)]
  ELSE AddTerms(query, chunk.negated, TermsOf(chunk.text))

ParseQuery(raw) == FoldLeft(AddChunk, Nothing, Chunks(raw))

DistinctTerms(query) == FoldLeft(LAMBDA seen, t : IF Contains(seen, t) THEN seen ELSE Append(seen, t), <<>>, query.required)
=============================================================================
