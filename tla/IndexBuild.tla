----------------------------- MODULE IndexBuild -----------------------------
(***************************************************************************)
(* Building an index from a crawl and merging its segments (build.rs,      *)
(* merge.rs, index.rs).  A build walks the records of a crawl, adds those  *)
(* that have text to a builder and flushes the builder into a segment when *)
(* it is full.  A merge reads an index segment by segment into a builder   *)
(* and writes another index; its output may be merged again.               *)
(***************************************************************************)
EXTENDS Segment

CONSTANTS Records,         \* what the crawl may hold: [texts, host, quality]
          MaxRecords,      \* records in a crawl
          DocsPerSegment,  \* a builder that has this many documents is flushed
          MergeLimit,      \* documents in a segment that a merge writes
          MaxMerges        \* times an index is merged

ASSUME IndexBuildAssumption ==
  /\ MaxRecords \in Nat /\ DocsPerSegment \in Nat \ {0}
  /\ MergeLimit \in Nat \ {0} /\ MaxMerges \in Nat

VARIABLES crawl,      \* the records the walk has passed
          builder,    \* the builder of the build or the merge under way
          segments,   \* the index that is built, or that is being merged
          manifest,   \* what index.json counts of the index being written
          phase,      \* "build", "built", "merge", "failed" or "panicked"
          source,     \* the segments the merge has absorbed
          output,     \* the segments the merge has written
          merges      \* merges begun

buildVars == <<crawl, builder, segments, manifest, phase, source, output, merges>>

NewManifest == [documents |-> 0, postings |-> 0, skipped |-> 0]

BuildInit ==
  /\ crawl = <<>> /\ builder = NewBuilder /\ segments = <<>> /\ manifest = NewManifest
  /\ phase = "build" /\ source = 0 /\ output = <<>> /\ merges = 0

\* The body of a record is its text: a record without any is not indexed.
Blank(record) == \A i \in DOMAIN record.texts[0] : record.texts[0][i] = Space

PostingCount(b) == LET terms == Sorted(DOMAIN b.terms) IN Total([i \in DOMAIN terms |-> Len(b.terms[terms[i]])])

Counted(m, b) == [m EXCEPT !.documents = @ + Len(b.docs), !.postings = @ + PostingCount(b)]

\* What is written of a builder: nothing when it is empty.
Flushed(b) == IF b.docs = <<>> THEN <<>> ELSE <<WriteSegment(b)>>

(***************************************************************************)
(* The build.  A document's id in the crawl store is its place in the      *)
(* walk, counting the records that are skipped.                            *)
(***************************************************************************)

DocumentOf(record) == record @@ [crawl |-> Len(crawl)]

Skip(record) ==
  /\ phase = "build" /\ Len(crawl) < MaxRecords /\ Blank(record)
  /\ crawl' = Append(crawl, record)
  /\ manifest' = [manifest EXCEPT !.skipped = @ + 1]
  /\ UNCHANGED <<builder, segments, phase, source, output, merges>>

SegmentFull(b) == Len(b.docs) >= DocsPerSegment

\* The builder goes on with what was added, or is flushed and begins anew.
Goes(added) ==
  IF SegmentFull(added)
  THEN builder' = NewBuilder /\ segments' = Append(segments, WriteSegment(added)) /\ manifest' = Counted(manifest, added)
  ELSE builder' = added /\ UNCHANGED <<segments, manifest>>

Add(record) ==
  /\ phase = "build" /\ Len(crawl) < MaxRecords /\ ~Blank(record)
  /\ crawl' = Append(crawl, record)
  /\ IF AddPanics(record)
     THEN phase' = "panicked" /\ UNCHANGED <<builder, segments, manifest>>
     ELSE Goes(AddDocument(builder, DocumentOf(record))) /\ UNCHANGED phase
  /\ UNCHANGED <<source, output, merges>>

FinishBuild ==
  /\ phase = "build" /\ phase' = "built"
  /\ segments' = segments \o Flushed(builder)
  /\ manifest' = Counted(manifest, builder)
  /\ builder' = NewBuilder
  /\ UNCHANGED <<crawl, source, output, merges>>

(***************************************************************************)
(* The merge, and the merge of what it wrote.  A segment that would make   *)
(* the builder too big starts a new one; a list that cannot be read ends   *)
(* the merge.                                                              *)
(***************************************************************************)
StartMerge ==
  /\ phase = "built" /\ merges < MaxMerges
  /\ phase' = "merge" /\ merges' = merges + 1
  /\ source' = 0 /\ output' = <<>>
  /\ manifest' = [NewManifest EXCEPT !.skipped = manifest.skipped]
  /\ UNCHANGED <<crawl, builder, segments>>

TooBig(b, reader) == b.docs # <<>> /\ Len(b.docs) + Len(reader.docs) > MergeLimit

AbsorbInto(base, reader) ==
  IF CanAbsorb(reader)
  THEN builder' = Absorb(base, reader) /\ source' = source + 1 /\ UNCHANGED phase
  ELSE phase' = "failed" /\ builder' = base /\ UNCHANGED source

MergeSegment ==
  LET reader == OpenSegment(segments[source + 1])
      flush  == TooBig(builder, reader)
  IN  /\ phase = "merge" /\ source < Len(segments)
      /\ output' = IF flush THEN Append(output, WriteSegment(builder)) ELSE output
      /\ manifest' = IF flush THEN Counted(manifest, builder) ELSE manifest
      /\ AbsorbInto(IF flush THEN NewBuilder ELSE builder, reader)
      /\ UNCHANGED <<crawl, segments, merges>>

FinishMerge ==
  /\ phase = "merge" /\ source = Len(segments)
  /\ phase' = "built"
  /\ segments' = output \o Flushed(builder)
  /\ manifest' = Counted(manifest, builder)
  /\ builder' = NewBuilder /\ source' = 0 /\ output' = <<>>
  /\ UNCHANGED <<crawl, merges>>

BuildNext ==
  \/ \E record \in Records : Skip(record) \/ Add(record)
  \/ FinishBuild \/ StartMerge \/ MergeSegment \/ FinishMerge

BuildSpec == BuildInit /\ [][BuildNext]_buildVars

------------------------------------------------------------------------------
(***************************************************************************)
(* Reading an index: its segments, opened together.                        *)
(***************************************************************************)
Opened(files) == [k \in DOMAIN files |-> OpenSegment(files[k])]

\* What the index says of a term: every document that has it, in order.
Found(reader, doc, posting) ==
  [crawl |-> reader.docs[doc].crawl, host |-> HostName(reader, doc), lengths |-> reader.docs[doc].lengths,
   counts |-> posting.counts, positions |-> posting.positions]

Answer(readers, term) ==
  FlattenSeq([k \in DOMAIN readers |->
    LET postings == ReadPostings(readers[k], term).postings
    IN  [i \in DOMAIN postings |-> Found(readers[k], postings[i].doc + 1, postings[i])]])

DocFrequencyOf(readers, term) == Total([k \in DOMAIN readers |-> DocFrequency(readers[k], term)])

\* Tokens of a field and documents: what the average length is made of.
TokensOfField(readers, f) == Total([k \in DOMAIN readers |-> readers[k].tokens[f]])

DocumentsOf(readers) == Total([k \in DOMAIN readers |-> Len(readers[k].docs)])

\* Every document's entry, in the order of the index.
DocTable(readers) == FlattenSeq([k \in DOMAIN readers |->
  [i \in DOMAIN readers[k].docs |-> [readers[k].docs[i] EXCEPT !.host = HostName(readers[k], i)]]])
------------------------------------------------------------------------------
\* The index as far as it is written, with what is still in the builder.
Written ==
  Opened(CASE phase = "merge" -> output \o Flushed(builder)
           [] OTHER           -> segments \o Flushed(builder))

Terms(readers) == UNION {TermList(readers[k]) : k \in DOMAIN readers}

\* The maximal runs of letters in a text: its words, wherever they lie.
Runs(text) ==
  {r \in (DOMAIN text) \X (DOMAIN text) :
     /\ r[1] <= r[2] /\ \A i \in r[1]..r[2] : text[i] # Space
     /\ r[1] = 1 \/ text[r[1] - 1] = Space
     /\ r[2] = Len(text) \/ text[r[2] + 1] = Space}

WordAt(text, r) == SubSeq(text, r[1], r[2])

RunsOf(text, word) == {r \in Runs(text) : WordAt(text, r) = word}

Indexed == SelectSeq([p \in DOMAIN crawl |-> p], LAMBDA p : ~Blank(crawl[p]))

(***************************************************************************)
(* Type invariant.                                                         *)
(***************************************************************************)
IndexTypeOK ==
  /\ Len(crawl) <= MaxRecords /\ \A p \in DOMAIN crawl : crawl[p] \in Records
  /\ phase \in {"build", "built", "merge", "failed", "panicked"}
  /\ source \in 0..Len(segments) /\ merges \in 0..MaxMerges
  /\ manifest \in [documents : Nat, postings : Nat, skipped : Nat]
  /\ Len(builder.docs) < DocsPerSegment \/ phase \in {"merge", "failed"}

\* What an encoder is given can be read back: every list of every segment is
\* read without an error, whole or without its positions, and has as many
\* postings as the dictionary says, in ascending order of document (encode and
\* decode; their debug assertions).
InOrder(read, heads, docFreq) ==
  /\ ~read.error /\ Len(read.postings) = docFreq
  /\ \A p, q \in DOMAIN read.postings : p < q => read.postings[p].doc < read.postings[q].doc
  /\ heads = [p \in DOMAIN read.postings |-> [doc |-> read.postings[p].doc, counts |-> read.postings[p].counts]]

ListsReadBack ==
  \A k \in DOMAIN segments : LET reader == OpenSegment(segments[k]) IN
    \A entry \in ToSet(reader.dictionary) :
      InOrder(ReadPostings(reader, entry.term), ReadDocuments(reader, entry.term).heads, entry.docFreq)

\* An index is its crawl: while it is built, each word that is worth a term
\* finds exactly the records passed so far that have it, in the order of the
\* walk, with their id in the store, their host and how often each field has it
\* (SegmentBuilder::add and write, SegmentReader::open, build's loop).
AnswersFor(term, answer, having) ==
  /\ Len(answer) = Len(having)
  /\ \A i \in DOMAIN having :
       /\ answer[i].crawl = having[i] - 1
       /\ answer[i].host = crawl[having[i]].host
       /\ \A f \in Fields : answer[i].counts[f] = Cardinality(RunsOf(crawl[having[i]].texts[f], term))

IndexIsCrawl(readers) ==
  \A term \in Terms(readers) \cup UNION {{WordAt(crawl[p].texts[f], r) : r \in Runs(crawl[p].texts[f])} :
                                         p \in ToSet(Indexed), f \in Fields} :
    LET having == IF ~IsUseful(term) THEN <<>>
                  ELSE SelectSeq(Indexed, LAMBDA p : \E f \in Fields : RunsOf(crawl[p].texts[f], term) # {})
    IN  /\ AnswersFor(term, Answer(readers, term), having)
        /\ DocFrequencyOf(readers, term) = Len(having)

\* Positions tell phrases: two words are at neighbouring positions of a document
\* exactly when some field has them one after the other with no word between,
\* not even one that is too long to be a term; no phrase reaches from one field
\* into the next (FIELD_POSITION_GAP, tokenize).
PhrasesStayInFields(readers) ==
  LET places  == UNION {UNION {{<<t, a.crawl, p>> : p \in ToSet(a.positions)} : a \in ToSet(Answer(readers, t))} :
                        t \in Terms(readers)}
      adjacent(text, t, u) ==
        \E r \in RunsOf(text, t), s \in RunsOf(text, u) :
          r[2] < s[1] /\ \A i \in (r[2] + 1)..(s[1] - 1) : text[i] = Space
  IN  \A t, u \in Terms(readers), id \in {place[2] : place \in places} :
        (\E place \in places : place[1] = t /\ place[2] = id /\ <<u, id, place[3] + 1>> \in places)
          <=> \E f \in Fields : adjacent(crawl[id + 1].texts[f], t, u)

\* `site:` finds a host's documents and no other's, in every segment: the id a
\* host name has there is the one its documents carry, and a host with no
\* document there has none (host_id, encode_hosts, absorb).
SiteFilterExact ==
  \A k \in DOMAIN segments : LET reader == OpenSegment(segments[k]) IN
    \A host \in {crawl[p].host : p \in DOMAIN crawl} :
      LET ofHost == {i \in DOMAIN reader.docs : crawl[reader.docs[i].crawl + 1].host = host}
      IN  IF ofHost = {} THEN HostId(reader, host) = {}
          ELSE ofHost = {i \in DOMAIN reader.docs : reader.docs[i].host \in HostId(reader, host)}

\* A merge answers what its source did: at every step of it what has been
\* absorbed is in the output with the same lists, lengths, hosts and token
\* totals, in the same order (merge, absorb).
MergeChangesNothing(before, after) ==
  /\ \A term \in Terms(before) \cup Terms(after) : Answer(before, term) = Answer(after, term)
  /\ \A f \in Fields : TokensOfField(before, f) = TokensOfField(after, f)
  /\ DocumentsOf(before) = DocumentsOf(after)


\* A segment that a merge writes is within the bound, or is one segment of its
\* source that was not (merge's flush before absorbing).
MergeBound ==
  phase = "merge" =>
    \A n \in {Len(output[k].docs) : k \in DOMAIN output} \cup {Len(builder.docs)} :
      n <= MergeLimit \/ \E j \in 1..source : n = Len(segments[j].docs)

\* index.json of a finished index counts what its segments hold, and with what
\* was skipped the whole walk (IndexManifest::absorb).
ManifestCounts ==
  phase = "built" =>
    /\ manifest.documents = DocumentsOf(Opened(segments))
    /\ manifest.documents + manifest.skipped = Len(crawl)
    /\ manifest.postings = Total([k \in DOMAIN segments |->
                                    Total([i \in DOMAIN segments[k].dictionary |-> segments[k].dictionary[i].docFreq])])


\* The index is the crawl's: its terms, phrases and hosts find what the pages
\* have, and nothing in it is out of its range (build, SegmentReader).
IndexIsTheCrawls ==
  /\ IndexTypeOK /\ SiteFilterExact
  /\ phase \in {"build", "built"} => IndexIsCrawl(Written)
  /\ PhrasesStayInFields(Written)

\* What is merged and counted adds up to the same lists, at any point of any
\* number of merges (merge, IndexManifest); scores are MergeKeepsScores.
MergesAreFaithful ==
  /\ phase = "merge" => MergeChangesNothing(Opened(SubSeq(segments, 1, source)), Written)
  /\ MergeBound /\ ManifestCounts
=============================================================================
