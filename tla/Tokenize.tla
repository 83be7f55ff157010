------------------------------ MODULE Tokenize ------------------------------
(***************************************************************************)
(* Text into terms (tokenize.rs).  A text is a sequence of characters; a   *)
(* character is a letter, or Space, which stands for everything that is    *)
(* not alphanumeric.  What a letter looks like does not matter, how many   *)
(* bytes it takes does: the limits on a token are limits on its bytes.     *)
(* Lower-casing is left out: a letter is the letter it is lowered to.      *)
(***************************************************************************)
EXTENDS Integers, SequencesExt

CONSTANTS MaxTermLen,    \* bytes in the longest token worth a term (40)
          MaxDigitRun,   \* digits in the longest number worth a term (12)
          Wide,          \* letters that take two bytes; the others take one
          Digits         \* letters that are digits

Space == 0

WidthOf(ch) == IF ch \in Wide THEN 2 ELSE 1

Bytes(text) == FoldLeft(LAMBDA n, ch : n + WidthOf(ch), 0, text)

\* Whether a token is worth an entry in the dictionary.
IsUseful(token) ==
  /\ token # <<>> /\ Bytes(token) <= MaxTermLen
  /\ ~ (Bytes(token) > MaxDigitRun /\ \A i \in DOMAIN token : token[i] \in Digits)

\* Where a cut after that many bytes would fall: between two characters, or,
\* when there is no such place, inside one.
CutPoints(token, bytes) ==
  {n \in 0..Len(token) : Bytes(SubSeq(token, 1, n)) = bytes}

(***************************************************************************)
(* The scan: the token being built and where it starts, the bytes read,    *)
(* the position the next token takes, and what was found.  A token longer  *)
(* than the limit is cut to one byte past it; String::truncate panics when *)
(* that is not a character boundary.                                       *)
(***************************************************************************)
Scanning == [current |-> <<>>, start |-> 0, offset |-> 0, position |-> 0, tokens |-> <<>>, panicked |-> FALSE]

\* The token that ends here; start and end say where the text has it.
TokenAt(scan) ==
  [term |-> scan.current, position |-> scan.position, start |-> scan.start, end |-> scan.offset]

FlushTerm(scan) ==
  IF scan.current = <<>> THEN scan
  ELSE [scan EXCEPT
          !.current = <<>>,
          !.position = @ + 1,
          !.tokens = IF IsUseful(scan.current)
                     THEN Append(@, TokenAt(scan)) ELSE @]

Begun(scan) == IF scan.current = <<>> THEN [scan EXCEPT !.start = scan.offset] ELSE scan

Cut(scan, grown, cuts) ==
  IF cuts = {} THEN [scan EXCEPT !.panicked = TRUE]
  ELSE [scan EXCEPT !.current = SubSeq(grown, 1, CHOOSE n \in cuts : TRUE)]

GrowTo(scan, grown) ==
  IF Bytes(grown) <= MaxTermLen THEN [scan EXCEPT !.current = grown]
  ELSE Cut(scan, grown, CutPoints(grown, MaxTermLen + 1))

Grow(scan, ch) == GrowTo(Begun(scan), Append(scan.current, ch))

ScanChar(scan, ch) ==
  IF scan.panicked THEN scan
  ELSE [(IF ch = Space THEN FlushTerm(scan) ELSE Grow(scan, ch)) EXCEPT !.offset = @ + WidthOf(ch)]

Scan(text) == FlushTerm(FoldLeft(ScanChar, Scanning, text))

TokensOf(text) == Scan(text).tokens
=============================================================================
