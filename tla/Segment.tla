------------------------------ MODULE Segment ------------------------------
(***************************************************************************)
(* A segment of the index (segment.rs): what a builder keeps of the        *)
(* documents added to it, the file it writes, and what a reader makes of   *)
(* the file.  A file is a record of its four sections and its footer.      *)
(* Terms and host names are sequences of letters; what is sorted is sorted *)
(* by their bytes.                                                         *)
(***************************************************************************)
EXTENDS Tokenize, Postings

CONSTANT FieldGap   \* positions left empty between two fields (1000)

LexLess(s, t) ==
  \E n \in 0..Len(s) :
    /\ n < Len(t) /\ SubSeq(s, 1, n) = SubSeq(t, 1, n)
    /\ n = Len(s) \/ (n < Len(s) /\ s[n + 1] < t[n + 1])

Sorted(strings) == SetToSortSeq(strings, LexLess)

NoCounts == [f \in Fields |-> 0]

------------------------------------------------------------------------------
(***************************************************************************)
(* The builder.  Positions of a document's fields share one space, each    *)
(* field starting a gap after the last one's end; a field is as long as    *)
(* the position of its last term says, whatever was dropped after that.    *)
(***************************************************************************)
NewBuilder == [terms |-> <<>>, docs |-> <<>>, tokens |-> NoCounts, hosts |-> <<>>]

LengthOf(tokens) == IF tokens = <<>> THEN 0 ELSE Last(tokens).position + 1

\* A bug: the next field starts where the last one ended.
BaseOfNoGap(lengths, f) == Total([i \in 1..f |-> lengths[i - 1]])

BaseOf(lengths, f) == Total([i \in 1..f |-> lengths[i - 1] + FieldGap])

TermTokens(tokens, term) == SelectSeq(tokens, LAMBDA token : token.term = term)

PostingOf(id, tokens, term) ==
  LET lengths == [f \in Fields |-> LengthOf(tokens[f])]
      placed(f) == [i \in DOMAIN TermTokens(tokens[f], term) |->
                      BaseOf(lengths, f) + TermTokens(tokens[f], term)[i].position]
  IN  [doc |-> id,
       counts |-> [f \in Fields |-> Len(TermTokens(tokens[f], term))],
       positions |-> FlattenSeq([i \in 1..FieldCount |-> placed(i - 1)])]

ListOf(terms, term) == IF term \in DOMAIN terms THEN terms[term] ELSE <<>>

\* The id a host is interned under: the one it has, or the next one.
Intern(hosts, host) == IF host \in DOMAIN hosts THEN hosts ELSE (host :> Cardinality(DOMAIN hosts)) @@ hosts

AddTokens(builder, document, tokens) ==
  LET found   == UNION {{tokens[f][i].term : i \in DOMAIN tokens[f]} : f \in Fields}
      lengths == [f \in Fields |-> LengthOf(tokens[f])]
      hosts   == Intern(builder.hosts, document.host)
  IN  [terms |-> [t \in DOMAIN builder.terms \cup found |->
                    IF t \in found THEN Append(ListOf(builder.terms, t), PostingOf(Len(builder.docs), tokens, t))
                    ELSE builder.terms[t]],
       docs |-> Append(builder.docs, [crawl |-> document.crawl, host |-> hosts[document.host],
                                      lengths |-> lengths, quality |-> document.quality]),
       tokens |-> [f \in Fields |-> builder.tokens[f] + lengths[f]],
       hosts |-> hosts]

AddDocument(builder, document) ==
  AddTokens(builder, document, [f \in Fields |-> TokensOf(document.texts[f])])

AddPanics(document) == \E f \in Fields : Scan(document.texts[f]).panicked

------------------------------------------------------------------------------
(***************************************************************************)
(* Writing.  Front coding: a string is written as how much of it the last  *)
(* one shares, and the rest.  Hosts are written in sorted order, so the    *)
(* document table is written with the numbers they have there.             *)
(***************************************************************************)
SharedPrefix(s, t) ==
  Max({n \in 0..Min({Len(s), Len(t)}) : SubSeq(s, 1, n) = SubSeq(t, 1, n)})

FrontCode(strings) ==
  [i \in DOMAIN strings |->
     LET shared == IF i = 1 THEN 0 ELSE SharedPrefix(strings[i - 1], strings[i])
     IN  [shared |-> shared, suffix |-> SubSeq(strings[i], shared + 1, Len(strings[i]))]]

\* A bug: the document table keeps the numbers hosts were interned under.
RenumberedNot(hosts) == [id \in {hosts[h] : h \in DOMAIN hosts} |-> id]

Renumbered(hosts) ==
  LET sorted == Sorted(DOMAIN hosts)
  IN  [id \in {hosts[h] : h \in DOMAIN hosts} |-> (CHOOSE i \in DOMAIN sorted : hosts[sorted[i]] = id) - 1]

(***************************************************************************)
(* Thousandths: a quality is written as floor(1000 * q), and read as the   *)
(* closest 32-bit float to n / 1000.  For five n between 0 and 1000 a      *)
(* thousand times that float is less than n, so that a value read and      *)
(* written again, as a merge does, comes out one lower.                    *)
(***************************************************************************)
LosesOne == {251, 253, 502, 506, 511}

Rewritten(quality) == IF quality \in LosesOne THEN quality - 1 ELSE quality

Entries(coded, offsets, freqs) ==
  [i \in DOMAIN coded |-> [front |-> coded[i], gap |-> Gaps(offsets)[i], docFreq |-> freqs[i]]]

FileOf(builder, terms, lists, renumbered) ==
  [postings |-> FlattenSeq(lists),
   dictionary |-> Entries(FrontCode(terms),
                          [i \in DOMAIN lists |-> Total([k \in 1..(i - 1) |-> Len(lists[k])])],
                          [i \in DOMAIN terms |-> Len(builder.terms[terms[i]])]),
   hosts |-> FrontCode(Sorted(DOMAIN builder.hosts)),
   docs |-> [i \in DOMAIN builder.docs |-> [builder.docs[i] EXCEPT !.host = renumbered[@]]],
   tokens |-> builder.tokens]

WriteSegment(builder) ==
  LET terms == Sorted(DOMAIN builder.terms)
  IN  FileOf(builder, terms, [i \in DOMAIN terms |-> EncodeList(builder.terms[terms[i]])], Renumbered(builder.hosts))

------------------------------------------------------------------------------
(***************************************************************************)
(* Reading.  The end of a posting list is where the next one starts.       *)
(***************************************************************************)
FrontDecode(coded) ==
  LET string[i \in DOMAIN coded] ==
        IF i = 1 THEN coded[1].suffix
        ELSE SubSeq(string[i - 1], 1, coded[i].shared) \o coded[i].suffix
  IN  string

OpenSegment(file) ==
  LET terms  == FrontDecode([i \in DOMAIN file.dictionary |-> file.dictionary[i].front])
      offset == Sums([i \in DOMAIN file.dictionary |-> file.dictionary[i].gap])
      end(i) == IF i = Len(terms) THEN Len(file.postings) ELSE offset[i + 1]
  IN  [dictionary |-> [i \in DOMAIN terms |->
                         [term |-> terms[i], offset |-> offset[i], length |-> end(i) - offset[i],
                          docFreq |-> file.dictionary[i].docFreq]],
       hosts |-> FrontDecode(file.hosts),
       docs |-> file.docs,
       tokens |-> file.tokens,
       postings |-> file.postings]

Find(reader, term) == {i \in DOMAIN reader.dictionary : reader.dictionary[i].term = term}

DocFrequency(reader, term) == SumSet({reader.dictionary[i].docFreq : i \in Find(reader, term)})

PostingBytes(reader, entry) == SubSeq(reader.postings, entry.offset + 1, entry.offset + entry.length)

\* A term's list, read whole.
ReadPostings(reader, term) ==
  IF Find(reader, term) = {} THEN [error |-> FALSE, postings |-> <<>>]
  ELSE Decode(PostingBytes(reader, reader.dictionary[CHOOSE i \in Find(reader, term) : TRUE]))

\* The same without its positions, which are never looked at.
ReadDocuments(reader, term) ==
  IF Find(reader, term) = {} THEN [error |-> FALSE, heads |-> <<>>]
  ELSE DecodeHeads(PostingBytes(reader, reader.dictionary[CHOOSE i \in Find(reader, term) : TRUE]))

HostId(reader, host) == {i - 1 : i \in {j \in DOMAIN reader.hosts : reader.hosts[j] = host}}

HostName(reader, doc) == reader.hosts[reader.docs[doc].host + 1]

TermList(reader) == {reader.dictionary[i].term : i \in DOMAIN reader.dictionary}

------------------------------------------------------------------------------
(***************************************************************************)
(* Absorbing a segment into a builder: hosts are resolved by name, the     *)
(* documents follow those already there, and so do the postings.           *)
(***************************************************************************)
\* A bug: a posting list that is absorbed keeps its document numbers.
ShiftNot(list, base) == list

Shift(list, base) == [i \in DOMAIN list |-> [list[i] EXCEPT !.doc = @ + base]]

HostsWith(builder, reader) == FoldLeft(Intern, builder.hosts, reader.hosts)

CanAbsorb(reader) == \A t \in TermList(reader) : ~ReadPostings(reader, t).error

Absorb(builder, reader) ==
  LET base  == Len(builder.docs)
      hosts == HostsWith(builder, reader)
  IN  [terms |-> [t \in DOMAIN builder.terms \cup TermList(reader) |->
                    ListOf(builder.terms, t) \o Shift(ReadPostings(reader, t).postings, base)],
       docs |-> builder.docs \o [i \in DOMAIN reader.docs |->
                                   [reader.docs[i] EXCEPT !.host = hosts[reader.hosts[@ + 1]], !.quality = Rewritten(@)]],
       tokens |-> [f \in Fields |-> builder.tokens[f] + reader.tokens[f]],
       hosts |-> hosts]
=============================================================================
