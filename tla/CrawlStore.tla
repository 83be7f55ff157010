----------------------------- MODULE CrawlStore -----------------------------
(***************************************************************************)
(* The crawl store (crates/uruk-crawl/src/store.rs): pages.uruk, a header  *)
(* and blocks of records, and pages.idx, a header and one fixed-width      *)
(* entry per document saying in which block and at which place it is.  One *)
(* writer appends through two BufWriters that know nothing of each other;  *)
(* readers open the files whenever they like, and the writing process may  *)
(* fail, or be killed, inside any call.                                    *)
(*                                                                         *)
(* Lengths and offsets count words of four bytes: an entry is 2 + 1, a     *)
(* header 2 + 1, the two lengths before a block 1 + 1.  A file has a size, *)
(* what was written to it, and a part kept on the disk, size - kept being  *)
(* in the BufWriter.  A record is its document id.                         *)
(*                                                                         *)
(* Left out: two writers on one directory; the content of a block read     *)
(* from an offset that is not the start of one, which does not decompress  *)
(* (read as an error, like every other damage); the store's version.       *)
(***************************************************************************)
EXTENDS Integers, Sequences, FiniteSetsExt

CONSTANTS
  Capacity,    \* of a BufWriter: 2048 words in the program
  BlockTarget, \* BLOCK_TARGET, in the unit of RecordSizes
  RecordSizes, \* how much one encoded record adds to the pending block
  BodySizes,   \* words a compressed block may take
  MaxDocs,     \* bound: records in one crawl
  MaxCrawls    \* bound: crawls into the directory

ASSUME CrawlStoreAssumption ==
  /\ Capacity \in Nat \ {0}
  /\ BlockTarget \in Nat \ {0}
  /\ RecordSizes \subseteq Nat \ {0}
  /\ BodySizes \subseteq Nat \ {0}
  /\ MaxDocs \in Nat
  /\ MaxCrawls \in Nat

VARIABLES
  pages,   \* pages.uruk
  idx,     \* pages.idx
  summary, \* crawl.json: whose it is and its pages_stored
  writer,  \* StoreWriter
  reader   \* a StoreReader: whose index it read, and the entries

storeVars == <<pages, idx, summary, writer, reader>>

HeaderLen == 3
EntryLen == 3

StoredBlock == [at : Nat, body : Nat, lines : Seq(Nat)]
Entry == [offset : Nat, ordinal : Nat]
Summary == [crawl : Nat, stored : Nat]
NoSummary == [crawl |-> 0, stored |-> 0]

\* How the last crawl into the directory stands.
States == {"none", "open", "finished", "killed", "failed"}

PagesFile == [crawl : Nat, size : Nat, kept : Nat, blocks : SUBSET StoredBlock]
IndexFile == [crawl : Nat, size : Nat, kept : Nat, entries : Seq(Entry)]
StoreWriter == [state : States, docs : Nat, count : Nat, pending : Seq(Nat),
                bytes : Nat, offset : Nat]

StoreTypeOK ==
  /\ pages \in PagesFile /\ pages.kept <= pages.size
  /\ idx \in IndexFile /\ idx.kept <= idx.size
  /\ summary \in Summary
  /\ writer \in StoreWriter
  /\ reader \in [crawl : Nat, entries : Seq(Entry)]

-----------------------------------------------------------------------------
(* BufWriter *)

\* write_all of n words: what does not fit pushes out the buffer first, and
\* what no buffer could hold goes straight to the file.
Fits(f, n) == n <= Capacity - (f.size - f.kept)
PushedOut(f, n) ==
  IF n >= Capacity THEN f.size + n ELSE IF Fits(f, n) THEN f.kept ELSE f.size

Write(f, n) == [f EXCEPT !.size = @ + n, !.kept = PushedOut(f, n)]

Flush(f) == [f EXCEPT !.kept = f.size]

\* What is on the disk once the process is gone.  A kill loses the buffer.
\* After an error the writer is dropped, and dropping a BufWriter writes the
\* buffer out, as far as the disk takes it.
Left(f, how) == IF how = "killed" THEN {f.kept} ELSE f.kept..f.size

-----------------------------------------------------------------------------
(* The writer *)

\* File::create, for the next crawl.
Emptied(f) == [f EXCEPT !.crawl = pages.crawl + 1, !.size = 0, !.kept = 0]

Header(f) == Write(Write(f, 2), 1)
NewPages == Header([Emptied(pages) EXCEPT !.blocks = {}])
NewIndex == Header([Emptied(idx) EXCEPT !.entries = <<>>])

NewWriter ==
  [state |-> "open", docs |-> 0, count |-> 0, pending |-> <<>>, bytes |-> 0,
   offset |-> HeaderLen]

\* push, its first half: the entry of the next document.
EntryWritten ==
  [Write(Write(idx, 2), 1) EXCEPT
     !.entries = Append(@, [offset |-> writer.offset, ordinal |-> writer.count])]

\* push, its second half: the record joins the pending block.
Filled(size) ==
  [writer EXCEPT !.docs = @ + 1, !.count = @ + 1, !.bytes = @ + size,
                 !.pending = Append(@, writer.docs)]

LengthsWritten(f) == Write(Write(f, 1), 1)

\* flush_block, what it writes
BlockWritten(f, lines, body) ==
  IF lines = <<>> THEN f
  ELSE [Write(LengthsWritten(f), body) EXCEPT
          !.blocks = @ \cup {[at |-> f.size, body |-> body, lines |-> lines]}]

\* Mutant: pending_count is not reset.
ClearedCounting(w, body) ==
  [w EXCEPT !.pending = <<>>, !.bytes = 0, !.offset = @ + 2 + body]

\* Mutant: pending is not cleared, and the next block repeats its records.
ClearedKeeping(w, body) ==
  [w EXCEPT !.count = 0, !.bytes = 0, !.offset = @ + 2 + body]

\* flush_block, what it leaves in the writer
Cleared(w, body) ==
  [w EXCEPT !.pending = <<>>, !.count = 0, !.bytes = 0, !.offset = @ + 2 + body]

Full(size) == writer.bytes + size >= BlockTarget

Create ==
  /\ writer.state # "open"
  /\ pages.crawl < MaxCrawls
  /\ pages' = NewPages
  /\ idx' = NewIndex
  /\ writer' = NewWriter
  /\ UNCHANGED <<summary, reader>>

Push(size, body) ==
  /\ writer.state = "open"
  /\ writer.docs < MaxDocs
  /\ idx' = EntryWritten
  /\ \/ /\ ~Full(size)
        /\ writer' = Filled(size)
        /\ UNCHANGED pages
     \/ /\ Full(size)
        /\ writer' = Cleared(Filled(size), body)
        /\ pages' = BlockWritten(pages, Filled(size).pending, body)
  /\ UNCHANGED <<summary, reader>>

\* Mutant: the last block is not written.
FinishHasty(body) ==
  /\ writer.state = "open"
  /\ pages' = Flush(pages)
  /\ idx' = Flush(idx)
  /\ summary' = [crawl |-> pages.crawl, stored |-> writer.docs]
  /\ writer' = [NewWriter EXCEPT !.state = "finished"]
  /\ UNCHANGED reader

Finish(body) ==
  /\ writer.state = "open"
  /\ pages' = Flush(BlockWritten(pages, writer.pending, body))
  /\ idx' = Flush(idx)
  /\ summary' = [crawl |-> pages.crawl, stored |-> writer.docs]
  /\ writer' = [NewWriter EXCEPT !.state = "finished"]
  /\ UNCHANGED reader

-----------------------------------------------------------------------------
(* The end of the writing process inside a call, after the files have become *)
(* p and i: killed, or dropping its writer because of an error or a panic.   *)

StopAt(p, i) ==
  \E how \in {"killed", "failed"} :
    /\ \E k \in Left(p, how) : pages' = [p EXCEPT !.size = k, !.kept = k]
    /\ \E k \in Left(i, how) : idx' = [i EXCEPT !.size = k, !.kept = k]
    /\ writer' = [NewWriter EXCEPT !.state = how]

CreateStops ==
  /\ writer.state # "open"
  /\ pages.crawl < MaxCrawls
  /\ \/ StopAt(Emptied(pages), idx)
     \/ StopAt(NewPages, Emptied(idx))
     \/ StopAt(NewPages, NewIndex)
  /\ UNCHANGED <<summary, reader>>

PushStops(size) ==
  /\ writer.state = "open"
  /\ writer.docs < MaxDocs
  /\ \/ StopAt(pages, idx)
     \/ StopAt(pages, Write(idx, 2))
     \/ StopAt(pages, EntryWritten)
     \/ Full(size) /\ StopAt(Write(pages, 1), EntryWritten)
     \/ Full(size) /\ StopAt(LengthsWritten(pages), EntryWritten)
  /\ UNCHANGED <<summary, reader>>

\* crawl.json is truncated and then written.
FinishStops(body) ==
  LET written == BlockWritten(pages, writer.pending, body)
  IN  /\ writer.state = "open"
      /\ \/ /\ \/ writer.pending # <<>> /\ StopAt(Write(pages, 1), idx)
               \/ writer.pending # <<>> /\ StopAt(LengthsWritten(pages), idx)
               \/ StopAt(written, idx)
               \/ StopAt(Flush(written), idx)
               \/ StopAt(Flush(written), Flush(idx))
            /\ UNCHANGED summary
         \/ StopAt(Flush(written), Flush(idx)) /\ summary' = NoSummary
      /\ UNCHANGED reader

-----------------------------------------------------------------------------
(* The reader *)

\* open: both headers are there, and the rest of the index is whole entries.
Openable ==
  /\ pages.kept >= HeaderLen
  /\ idx.kept >= HeaderLen
  /\ (idx.kept - HeaderLen) % EntryLen = 0

EntriesOnDisk == SubSeq(idx.entries, 1, (idx.kept - HeaderLen) \div EntryLen)

Open ==
  /\ Openable
  /\ reader' = [crawl |-> idx.crawl, entries |-> EntriesOnDisk]
  /\ UNCHANGED <<pages, idx, summary, writer>>

OnDisk(b) == b.at + 2 + b.body <= pages.kept

\* get: the record the files hold for an entry; the empty set is an error.
Got(entry) ==
  {b.lines[entry.ordinal + 1] :
     b \in {b \in pages.blocks : /\ OnDisk(b)
                                 /\ b.at = entry.offset
                                 /\ entry.ordinal + 1 \in DOMAIN b.lines}}

\* How many records a set of blocks holds.
Lines(S) == MapThenSumSet(LAMBDA b : Len(b.lines), S)

\* records: where the walk over the blocks, which counts as it goes, finds a
\* block's first record.
Position(b) == Lines({c \in pages.blocks : c.at < b.at})

-----------------------------------------------------------------------------

StoreInit ==
  /\ pages = [crawl |-> 0, size |-> 0, kept |-> 0, blocks |-> {}]
  /\ idx = [crawl |-> 0, size |-> 0, kept |-> 0, entries |-> <<>>]
  /\ summary = NoSummary
  /\ writer = [NewWriter EXCEPT !.state = "none"]
  /\ reader = [crawl |-> 0, entries |-> <<>>]

StoreNext ==
  \/ Create
  \/ CreateStops
  \/ \E size \in RecordSizes :
       PushStops(size) \/ \E body \in BodySizes : Push(size, body)
  \/ \E body \in BodySizes : Finish(body) \/ FinishStops(body)
  \/ Open

StoreSpec == StoreInit /\ [][StoreNext]_storeVars

-----------------------------------------------------------------------------
(* What the store promises *)

\* A reader never returns one document for another, whenever it opened the
\* files, whatever has been written since and wherever the writer stopped: get
\* returns the document asked for or an error.  (Until a new crawl replaces the
\* files under it.)
NeverMisread ==
  reader.crawl = pages.crawl =>
    \A doc \in DOMAIN reader.entries : Got(reader.entries[doc]) \subseteq {doc - 1}

\* A crawl.json of the current crawl vouches for the store: it opens, it has
\* pages_stored documents and every one of them can be read, so an end inside
\* finish is never taken for a finished crawl.
SummaryVouches ==
  summary.crawl = pages.crawl /\ summary # NoSummary =>
    /\ Openable
    /\ Len(EntriesOnDisk) = summary.stored
    /\ \A doc \in 1..summary.stored : Got(EntriesOnDisk[doc]) = {doc - 1}

\* The walk of records() numbers the documents as get does, which is what lets
\* the index (build.rs: "The position in that walk is the crawl store's
\* document id") name documents the server then asks for by id.
WalkAgrees ==
  \A b \in pages.blocks : OnDisk(b) =>
    \A i \in DOMAIN b.lines : b.lines[i] = Position(b) + i - 1

-----------------------------------------------------------------------------
(* Why NeverMisread and SummaryVouches hold *)

\* The block an entry points to, if it has been written, holds the document.
Resolves(entry, doc) ==
  \A b \in pages.blocks :
    b.at = entry.offset /\ entry.ordinal + 1 \in DOMAIN b.lines =>
      b.lines[entry.ordinal + 1] = doc - 1

EntriesResolve ==
  /\ idx.size <= HeaderLen + EntryLen * Len(idx.entries) + 2
  /\ idx.crawl = pages.crawl =>
       \A doc \in DOMAIN idx.entries : Resolves(idx.entries[doc], doc)

\* Every entry has its document in a block.
Backed(entry) ==
  \E b \in pages.blocks : b.at = entry.offset /\ entry.ordinal + 1 \in DOMAIN b.lines

BlocksFit == \A b \in pages.blocks : b.at + 2 + b.body <= pages.size

\* The document an entry promises waits in the pending block.
InPending(entry, doc) ==
  /\ entry.offset = writer.offset
  /\ entry.ordinal + 1 \in DOMAIN writer.pending
  /\ writer.pending[entry.ordinal + 1] = doc - 1

\* What the writer believes of the two files is what it wrote to them.
WriterInStep ==
  writer.state = "open" =>
    /\ idx.crawl = pages.crawl
    /\ summary.crawl < pages.crawl
    /\ BlocksFit
    /\ writer.offset = pages.size /\ pages.size >= HeaderLen
    /\ writer.count = Len(writer.pending)
    /\ writer.docs = Len(idx.entries)
    /\ idx.size = HeaderLen + EntryLen * writer.docs
    /\ \A doc \in DOMAIN idx.entries :
         \/ InPending(idx.entries[doc], doc)
         \/ idx.entries[doc].offset < writer.offset /\ Backed(idx.entries[doc])

\* A reader of the current index holds the first of its entries.
ReaderInStep ==
  /\ reader.crawl <= idx.crawl /\ idx.crawl <= pages.crawl
  /\ reader.crawl = idx.crawl =>
       \A doc \in DOMAIN reader.entries :
         doc \in DOMAIN idx.entries /\ reader.entries[doc] = idx.entries[doc]

SummaryInStep ==
  /\ summary.crawl <= pages.crawl
  /\ summary.crawl = pages.crawl /\ summary # NoSummary =>
       /\ idx.crawl = pages.crawl
       /\ pages.kept = pages.size /\ pages.size >= HeaderLen /\ BlocksFit
       /\ idx.kept = idx.size
       /\ idx.size = HeaderLen + EntryLen * summary.stored
       /\ Len(idx.entries) = summary.stored
       /\ \A doc \in DOMAIN idx.entries : Backed(idx.entries[doc])

\* The inductive invariant of the store.
StoreInv ==
  StoreTypeOK /\ EntriesResolve /\ WriterInStep /\ ReaderInStep /\ SummaryInStep

\* Why WalkAgrees holds: counting the records of the blocks before it gives the
\* id of a block's first record.
CountedIn(S) ==
  \A b \in S : \A i \in DOMAIN b.lines :
    b.lines[i] = Lines({c \in S : c.at < b.at}) + i - 1

\* The pending block goes on where the written ones stop.
WalkInStep ==
  /\ IsFiniteSet(pages.blocks)
  /\ CountedIn(pages.blocks)
  /\ writer.state = "open" =>
       /\ writer.docs = Lines(pages.blocks) + Len(writer.pending)
       /\ \A i \in DOMAIN writer.pending :
            writer.pending[i] = Lines(pages.blocks) + i - 1

WalkStoreInv == StoreInv /\ WalkInStep
=============================================================================
