-------------------------- MODULE CrawlStoreProofs --------------------------
(***************************************************************************)
(* Theorems about the crawl store, for any buffer capacity, block size and *)
(* record sizes, and wherever the writing process ends.  The invariant is  *)
(* CrawlStore!StoreInv; StepKeeps has one step per action of StoreNext.    *)
(***************************************************************************)
EXTENDS CrawlStore, SequenceTheorems, FiniteSetTheorems, WellFoundedInduction,
        TLAPS

USE CrawlStoreAssumption DEF CrawlStoreAssumption, HeaderLen, EntryLen

-----------------------------------------------------------------------------
(* The files *)

\* A file as BufWriter leaves it: the disk has no more than was written.
LEMMA WriteToPages ==
  ASSUME NEW f \in PagesFile, f.kept <= f.size, NEW n \in Nat
  PROVE  /\ Write(f, n) \in PagesFile
         /\ Write(f, n).kept <= Write(f, n).size
         /\ Write(f, n).size = f.size + n
         /\ Write(f, n).crawl = f.crawl /\ Write(f, n).blocks = f.blocks
<1>1. /\ PushedOut(f, n) \in Nat /\ PushedOut(f, n) <= f.size + n
      /\ f.size + n \in Nat
  BY DEF PushedOut, PagesFile
<1>2. Write(f, n) \in PagesFile
  BY <1>1 DEF Write, PagesFile
<1>3. /\ Write(f, n).kept = PushedOut(f, n) /\ Write(f, n).size = f.size + n
      /\ Write(f, n).crawl = f.crawl /\ Write(f, n).blocks = f.blocks
  BY DEF Write, PagesFile
<1> QED BY <1>1, <1>2, <1>3

LEMMA WriteToIndex ==
  ASSUME NEW f \in IndexFile, f.kept <= f.size, NEW n \in Nat
  PROVE  /\ Write(f, n) \in IndexFile
         /\ Write(f, n).kept <= Write(f, n).size
         /\ Write(f, n).size = f.size + n
         /\ Write(f, n).crawl = f.crawl /\ Write(f, n).entries = f.entries
<1>1. /\ PushedOut(f, n) \in Nat /\ PushedOut(f, n) <= f.size + n
      /\ f.size + n \in Nat
  BY DEF PushedOut, IndexFile
<1>2. Write(f, n) \in IndexFile
  BY <1>1 DEF Write, IndexFile
<1>3. /\ Write(f, n).kept = PushedOut(f, n) /\ Write(f, n).size = f.size + n
      /\ Write(f, n).crawl = f.crawl /\ Write(f, n).entries = f.entries
  BY DEF Write, IndexFile
<1> QED BY <1>1, <1>2, <1>3

\* Creating the files starts the next crawl with nothing but headers.
LEMMA NewFiles ==
  ASSUME StoreTypeOK
  PROVE  /\ Emptied(pages) \in PagesFile
         /\ Emptied(pages).size = 0 /\ Emptied(pages).kept = 0
         /\ Emptied(pages).crawl = pages.crawl + 1
         /\ Emptied(idx) \in IndexFile
         /\ Emptied(idx).size = 0 /\ Emptied(idx).kept = 0
         /\ Emptied(idx).crawl = pages.crawl + 1
         /\ Emptied(idx).entries = idx.entries
         /\ NewPages \in PagesFile /\ NewPages.kept <= NewPages.size
         /\ NewPages.size = 3 /\ NewPages.blocks = {}
         /\ NewPages.crawl = pages.crawl + 1
         /\ NewIndex \in IndexFile /\ NewIndex.kept <= NewIndex.size
         /\ NewIndex.size = 3 /\ NewIndex.entries = <<>>
         /\ NewIndex.crawl = pages.crawl + 1
<1>1. pages \in PagesFile /\ idx \in IndexFile /\ pages.crawl + 1 \in Nat
  BY DEF StoreTypeOK, PagesFile
<1>2. Emptied(pages) \in PagesFile /\ Emptied(idx) \in IndexFile
  BY <1>1 DEF Emptied, PagesFile, IndexFile
<1>3. /\ Emptied(pages).size = 0 /\ Emptied(pages).kept = 0
      /\ Emptied(pages).crawl = pages.crawl + 1
  BY <1>1 DEF Emptied, PagesFile
<1>4. /\ Emptied(idx).size = 0 /\ Emptied(idx).kept = 0
      /\ Emptied(idx).crawl = pages.crawl + 1
      /\ Emptied(idx).entries = idx.entries
  BY <1>1 DEF Emptied, IndexFile
<1> DEFINE p == [Emptied(pages) EXCEPT !.blocks = {}]
           i == [Emptied(idx) EXCEPT !.entries = <<>>]
<1>5. /\ p \in PagesFile /\ p.size = 0 /\ p.kept = 0 /\ p.blocks = {}
      /\ p.crawl = pages.crawl + 1
  BY <1>2, <1>3 DEF PagesFile
<1>6. /\ i \in IndexFile /\ i.size = 0 /\ i.kept = 0 /\ i.entries = <<>>
      /\ i.crawl = pages.crawl + 1
  <2>1. <<>> \in Seq(Entry)
    OBVIOUS
  <2> QED BY <2>1, <1>2, <1>4 DEF IndexFile
<1>7. NewPages = Write(Write(p, 2), 1) /\ NewIndex = Write(Write(i, 2), 1)
  BY DEF NewPages, NewIndex, Header
<1> HIDE DEF p, i
<1>8. /\ NewPages \in PagesFile /\ NewPages.kept <= NewPages.size
      /\ NewPages.size = 3 /\ NewPages.blocks = {}
      /\ NewPages.crawl = pages.crawl + 1
  <2> DEFINE w == Write(p, 2)
  <2>1. /\ w \in PagesFile /\ w.kept <= w.size /\ w.size = 2
        /\ w.blocks = {} /\ w.crawl = pages.crawl + 1
    <3>1. p.kept <= p.size /\ 2 \in Nat /\ p.size + 2 = 2
      BY <1>5
    <3>2. /\ w \in PagesFile /\ w.kept <= w.size /\ w.size = p.size + 2
          /\ w.blocks = p.blocks /\ w.crawl = p.crawl
      BY <1>5, <3>1, WriteToPages
    <3> QED BY <1>5, <3>1, <3>2
  <2> HIDE DEF w
  <2>2. /\ Write(w, 1) \in PagesFile /\ Write(w, 1).kept <= Write(w, 1).size
        /\ Write(w, 1).size = 3 /\ Write(w, 1).blocks = {}
        /\ Write(w, 1).crawl = pages.crawl + 1
    <3>1. 1 \in Nat /\ w.size + 1 = 3
      BY <2>1
    <3> QED BY <2>1, <3>1, WriteToPages
  <2> QED BY <2>2, <1>7 DEF w
<1>9. /\ NewIndex \in IndexFile /\ NewIndex.kept <= NewIndex.size
      /\ NewIndex.size = 3 /\ NewIndex.entries = <<>>
      /\ NewIndex.crawl = pages.crawl + 1
  <2> DEFINE w == Write(i, 2)
  <2>1. /\ w \in IndexFile /\ w.kept <= w.size /\ w.size = 2
        /\ w.entries = <<>> /\ w.crawl = pages.crawl + 1
    <3>1. i.kept <= i.size /\ 2 \in Nat /\ i.size + 2 = 2
      BY <1>6
    <3>2. /\ w \in IndexFile /\ w.kept <= w.size /\ w.size = i.size + 2
          /\ w.entries = i.entries /\ w.crawl = i.crawl
      BY <1>6, <3>1, WriteToIndex
    <3> QED BY <1>6, <3>1, <3>2
  <2> HIDE DEF w
  <2>2. /\ Write(w, 1) \in IndexFile /\ Write(w, 1).kept <= Write(w, 1).size
        /\ Write(w, 1).size = 3 /\ Write(w, 1).entries = <<>>
        /\ Write(w, 1).crawl = pages.crawl + 1
    <3>1. 1 \in Nat /\ w.size + 1 = 3
      BY <2>1
    <3> QED BY <2>1, <3>1, WriteToIndex
  <2> QED BY <2>2, <1>7 DEF w
<1> QED BY <1>2, <1>3, <1>4, <1>8, <1>9

\* The two lengths before a block, whole or the first of them only.
LEMMA LengthsFacts ==
  ASSUME NEW f \in PagesFile, f.kept <= f.size
  PROVE  /\ Write(f, 1) \in PagesFile /\ Write(f, 1).kept <= Write(f, 1).size
         /\ Write(f, 1).crawl = f.crawl /\ Write(f, 1).blocks = f.blocks
         /\ LengthsWritten(f) \in PagesFile
         /\ LengthsWritten(f).kept <= LengthsWritten(f).size
         /\ LengthsWritten(f).size = f.size + 2
         /\ LengthsWritten(f).crawl = f.crawl /\ LengthsWritten(f).blocks = f.blocks
<1>1. /\ Write(f, 1) \in PagesFile /\ Write(f, 1).kept <= Write(f, 1).size
      /\ Write(f, 1).size = f.size + 1
      /\ Write(f, 1).crawl = f.crawl /\ Write(f, 1).blocks = f.blocks
  BY WriteToPages
<1>2. f.size + 1 + 1 = f.size + 2
  BY DEF PagesFile
<1> QED BY <1>1, <1>2, WriteToPages DEF LengthsWritten

\* A block is appended whole, at the end of the file, holding the lines.
LEMMA BlockFacts ==
  ASSUME NEW f \in PagesFile, f.kept <= f.size,
         NEW lines \in Seq(Nat), lines # <<>>, NEW body \in BodySizes
  PROVE  /\ BlockWritten(f, lines, body) \in PagesFile
         /\ BlockWritten(f, lines, body).kept <= BlockWritten(f, lines, body).size
         /\ BlockWritten(f, lines, body).size = f.size + 2 + body
         /\ BlockWritten(f, lines, body).crawl = f.crawl
         /\ BlockWritten(f, lines, body).blocks =
              f.blocks \cup {[at |-> f.size, body |-> body, lines |-> lines]}
<1> DEFINE l == LengthsWritten(f)
           w == Write(l, body)
           b == [at |-> f.size, body |-> body, lines |-> lines]
<1>1. /\ w \in PagesFile /\ w.kept <= w.size /\ w.size = f.size + 2 + body
      /\ w.crawl = f.crawl /\ w.blocks = f.blocks
  <2>1. /\ l \in PagesFile /\ l.kept <= l.size /\ l.size = f.size + 2
        /\ l.crawl = f.crawl /\ l.blocks = f.blocks
    BY LengthsFacts
  <2>2. body \in Nat
    OBVIOUS
  <2> HIDE DEF l
  <2>3. /\ w \in PagesFile /\ w.kept <= w.size /\ w.size = l.size + body
        /\ w.crawl = l.crawl /\ w.blocks = l.blocks
    BY <2>1, <2>2, WriteToPages
  <2> HIDE DEF w
  <2> QED BY <2>1, <2>2, <2>3
<1>2. b \in StoredBlock /\ f.blocks \subseteq StoredBlock
  BY DEF StoredBlock, PagesFile
<1>3. BlockWritten(f, lines, body) = [w EXCEPT !.blocks = @ \cup {b}]
  BY DEF BlockWritten
<1> HIDE DEF w
<1>4. /\ BlockWritten(f, lines, body) \in PagesFile
      /\ BlockWritten(f, lines, body).kept = w.kept
      /\ BlockWritten(f, lines, body).size = w.size
      /\ BlockWritten(f, lines, body).crawl = w.crawl
      /\ BlockWritten(f, lines, body).blocks = f.blocks \cup {b}
  BY <1>1, <1>2, <1>3 DEF PagesFile
<1> QED BY <1>1, <1>4

NewEntry == [offset |-> writer.offset, ordinal |-> writer.count]

\* An entry is appended whole: two writes.
LEMMA EntryFacts ==
  ASSUME StoreTypeOK
  PROVE  /\ Write(idx, 2) \in IndexFile
         /\ Write(idx, 2).kept <= Write(idx, 2).size
         /\ Write(idx, 2).size = idx.size + 2
         /\ Write(idx, 2).crawl = idx.crawl
         /\ Write(idx, 2).entries = idx.entries
         /\ EntryWritten \in IndexFile /\ EntryWritten.kept <= EntryWritten.size
         /\ EntryWritten.size = idx.size + 3
         /\ EntryWritten.crawl = idx.crawl
         /\ EntryWritten.entries = Append(idx.entries, NewEntry)
<1> DEFINE w == Write(Write(idx, 2), 1)
<1>1. /\ Write(idx, 2) \in IndexFile
      /\ Write(idx, 2).kept <= Write(idx, 2).size
      /\ Write(idx, 2).size = idx.size + 2
      /\ Write(idx, 2).crawl = idx.crawl
      /\ Write(idx, 2).entries = idx.entries
  BY WriteToIndex DEF StoreTypeOK
<1>2. idx.size + 2 + 1 = idx.size + 3
  BY DEF StoreTypeOK, IndexFile
<1>3. /\ w \in IndexFile /\ w.kept <= w.size /\ w.size = idx.size + 3
      /\ w.crawl = idx.crawl /\ w.entries = idx.entries
  BY <1>1, <1>2, WriteToIndex
<1>4. Append(idx.entries, NewEntry) \in Seq(Entry)
  BY DEF StoreTypeOK, IndexFile, StoreWriter, Entry, NewEntry
<1>5. EntryWritten = [w EXCEPT !.entries = Append(@, NewEntry)]
  BY DEF EntryWritten, NewEntry
<1> HIDE DEF w
<1>6. /\ EntryWritten \in IndexFile /\ EntryWritten.kept = w.kept
      /\ EntryWritten.size = w.size /\ EntryWritten.crawl = w.crawl
      /\ EntryWritten.entries = Append(idx.entries, NewEntry)
  BY <1>3, <1>4, <1>5 DEF IndexFile
<1> QED BY <1>1, <1>3, <1>6

-----------------------------------------------------------------------------
(* The two files together *)

\* What StoreInv says of a pair of files, whoever holds them.
ResolvesIn(blocks, entries) ==
  \A doc \in DOMAIN entries : \A b \in blocks :
    b.at = entries[doc].offset /\ entries[doc].ordinal + 1 \in DOMAIN b.lines =>
      b.lines[entries[doc].ordinal + 1] = doc - 1

ReadFrom(i) ==
  /\ reader.crawl <= i.crawl
  /\ reader.crawl = i.crawl =>
       \A doc \in DOMAIN reader.entries :
         doc \in DOMAIN i.entries /\ reader.entries[doc] = i.entries[doc]

Consistent(p, i) ==
  /\ p \in PagesFile /\ p.kept <= p.size
  /\ i \in IndexFile /\ i.kept <= i.size
  /\ i.size <= 3 + 3 * Len(i.entries) + 2
  /\ i.crawl <= p.crawl
  /\ i.crawl = p.crawl => ResolvesIn(p.blocks, i.entries)
  /\ ReadFrom(i)

\* An entry of the writer's: its document is in lines, which go to offset, or
\* in a block before that.
Placed(entry, doc, offset, lines) ==
  \/ /\ entry.offset = offset
     /\ entry.ordinal + 1 \in DOMAIN lines
     /\ lines[entry.ordinal + 1] = doc - 1
  \/ entry.offset < offset /\ Backed(entry)

LEMMA FilesConsistent ==
  ASSUME StoreInv
  PROVE  Consistent(pages, idx)
BY DEF StoreInv, StoreTypeOK, EntriesResolve, Resolves, ReaderInStep, Consistent,
       ResolvesIn, ReadFrom

\* Wherever the process ends, what is left of consistent files is as good:
\* cutting a file short changes no block and no entry.
LEMMA StopKeeps ==
  ASSUME StoreInv, NEW p, NEW i, Consistent(p, i), StopAt(p, i),
         reader' = reader, summary' \in {summary, NoSummary},
         summary.crawl < p.crawl
  PROVE  StoreInv'
<1>1. PICK how \in {"killed", "failed"} :
        /\ \E k \in Left(p, how) : pages' = [p EXCEPT !.size = k, !.kept = k]
        /\ \E k \in Left(i, how) : idx' = [i EXCEPT !.size = k, !.kept = k]
        /\ writer' = [NewWriter EXCEPT !.state = how]
  BY DEF StopAt
<1>2. /\ pages' \in PagesFile /\ pages'.kept = pages'.size
      /\ pages'.crawl = p.crawl /\ pages'.blocks = p.blocks
  <2>1. PICK k \in Left(p, how) : pages' = [p EXCEPT !.size = k, !.kept = k]
    BY <1>1
  <2>2. k \in Nat /\ p \in PagesFile
    BY DEF Left, Consistent, PagesFile
  <2> QED BY <2>1, <2>2 DEF PagesFile
<1>3. /\ idx' \in IndexFile /\ idx'.kept = idx'.size
      /\ idx'.crawl = i.crawl /\ idx'.entries = i.entries
      /\ idx'.size <= i.size
  <2>1. PICK k \in Left(i, how) : idx' = [i EXCEPT !.size = k, !.kept = k]
    BY <1>1
  <2>2. k \in Nat /\ k <= i.size /\ i \in IndexFile
    BY DEF Left, Consistent, IndexFile
  <2> QED BY <2>1, <2>2 DEF IndexFile
<1>4. writer' \in StoreWriter /\ writer'.state # "open"
  <2>1. <<>> \in Seq(Nat) /\ how \in States
    BY DEF States
  <2> QED BY <1>1, <2>1 DEF NewWriter, StoreWriter
<1>5. summary' \in Summary /\ summary'.crawl <= p.crawl
      /\ ~(summary'.crawl = p.crawl /\ summary' # NoSummary)
  BY <1>2 DEF StoreInv, StoreTypeOK, Summary, NoSummary, PagesFile, Consistent
<1>6. StoreTypeOK'
  <2>1. pages'.kept <= pages'.size /\ idx'.kept <= idx'.size
    BY <1>2, <1>3 DEF PagesFile, IndexFile
  <2> QED BY <2>1, <1>2, <1>3, <1>4, <1>5 DEF StoreTypeOK, StoreInv
<1>7. EntriesResolve'
  <2>1. idx'.size <= 3 + 3 * Len(idx'.entries) + 2
    <3>1. Len(i.entries) \in Nat
      BY DEF Consistent, IndexFile
    <3> QED BY <3>1, <1>3 DEF Consistent, IndexFile
  <2> QED BY <2>1, <1>2, <1>3 DEF EntriesResolve, Resolves, Consistent, ResolvesIn
<1>8. WriterInStep'
  BY <1>4 DEF WriterInStep
<1>9. ReaderInStep'
  BY <1>2, <1>3 DEF ReaderInStep, Consistent, ReadFrom
<1>10. SummaryInStep'
  BY <1>2, <1>5 DEF SummaryInStep, NoSummary
<1> QED BY <1>6, <1>7, <1>8, <1>9, <1>10 DEF StoreInv

\* A reader's entries are still the first ones when one more is appended.
LEMMA EntryKeepsReader ==
  ASSUME StoreInv PROVE ReadFrom(EntryWritten)
<1>1. EntryWritten.entries = Append(idx.entries, NewEntry)
      /\ EntryWritten.crawl = idx.crawl
  BY EntryFacts DEF StoreInv
<1>2. idx.entries \in Seq(Entry) /\ NewEntry \in Entry
  BY DEF StoreInv, StoreTypeOK, IndexFile, StoreWriter, NewEntry, Entry
<1>3. \A doc \in DOMAIN idx.entries :
        /\ doc \in DOMAIN EntryWritten.entries
        /\ EntryWritten.entries[doc] = idx.entries[doc]
  BY <1>1, <1>2
<1> QED BY <1>1, <1>3 DEF ReadFrom, StoreInv, ReaderInStep

\* After push has entered a document, its entry and all before it are placed:
\* in the pending block, which now holds the record, or in an earlier block.
LEMMA FilledPlaces ==
  ASSUME StoreInv, writer.state = "open", NEW size \in RecordSizes
  PROVE  /\ Filled(size) \in StoreWriter
         /\ Filled(size).pending \in Seq(Nat) /\ Filled(size).pending # <<>>
         /\ Filled(size).count = Len(Filled(size).pending)
         /\ Filled(size).docs = Len(EntryWritten.entries)
         /\ Filled(size).offset = writer.offset
         /\ Filled(size).state = "open"
         /\ \A doc \in DOMAIN EntryWritten.entries :
              Placed(EntryWritten.entries[doc], doc, writer.offset,
                     Filled(size).pending)
<1> DEFINE f == Filled(size)
           E == EntryWritten.entries
<1>1. /\ writer \in StoreWriter /\ size \in Nat
      /\ writer.count = Len(writer.pending) /\ writer.docs = Len(idx.entries)
      /\ idx.entries \in Seq(Entry) /\ writer.pending \in Seq(Nat)
      /\ writer.docs \in Nat /\ writer.count \in Nat /\ writer.offset \in Nat
      /\ writer.bytes \in Nat
  BY DEF StoreInv, StoreTypeOK, IndexFile, StoreWriter, WriterInStep
<1>2. NewEntry \in Entry /\ E = Append(idx.entries, NewEntry)
  BY <1>1, EntryFacts DEF StoreInv, NewEntry, Entry
<1>3. /\ Append(writer.pending, writer.docs) \in Seq(Nat)
      /\ Len(Append(writer.pending, writer.docs)) = writer.count + 1
      /\ Append(writer.pending, writer.docs) # <<>>
      /\ Append(writer.pending, writer.docs)[writer.count + 1] = writer.docs
      /\ \A n \in DOMAIN writer.pending :
           /\ n \in DOMAIN Append(writer.pending, writer.docs)
           /\ Append(writer.pending, writer.docs)[n] = writer.pending[n]
  <2>1. Len(Append(writer.pending, writer.docs)) = Len(writer.pending) + 1
    BY <1>1
  <2>2. Append(writer.pending, writer.docs)[Len(writer.pending) + 1] = writer.docs
    BY <1>1
  <2>3. Append(writer.pending, writer.docs) \in Seq(Nat)
    BY <1>1
  <2>4. Append(writer.pending, writer.docs) # <<>>
    BY <1>1, AppendProperties
  <2>5. \A n \in DOMAIN writer.pending :
          /\ n \in DOMAIN Append(writer.pending, writer.docs)
          /\ Append(writer.pending, writer.docs)[n] = writer.pending[n]
    BY <1>1
  <2> QED BY <2>1, <2>2, <2>3, <2>4, <2>5, <1>1
<1>4. /\ f \in StoreWriter /\ f.pending = Append(writer.pending, writer.docs)
      /\ f.count = writer.count + 1 /\ f.docs = writer.docs + 1
      /\ f.offset = writer.offset /\ f.state = "open"
  <2>1. writer.docs + 1 \in Nat /\ writer.count + 1 \in Nat
        /\ writer.bytes + size \in Nat
    BY <1>1
  <2> QED BY <1>1, <1>3, <2>1 DEF Filled, StoreWriter
<1>5. Len(E) = writer.docs + 1
  BY <1>1, <1>2
<1>6. ASSUME NEW doc \in DOMAIN E
      PROVE  Placed(E[doc], doc, writer.offset, f.pending)
  <2>1. CASE doc \in DOMAIN idx.entries
    <3>1. E[doc] = idx.entries[doc]
      BY <2>1, <1>1, <1>2
    <3>2. \/ InPending(idx.entries[doc], doc)
          \/ idx.entries[doc].offset < writer.offset /\ Backed(idx.entries[doc])
      BY <2>1 DEF StoreInv, WriterInStep
    <3> QED BY <3>1, <3>2, <1>3, <1>4 DEF Placed, InPending
  <2>2. CASE doc \notin DOMAIN idx.entries
    <3>1. doc = writer.docs + 1 /\ E[doc] = NewEntry
      BY <2>2, <1>1, <1>2, <1>5
    <3>2. writer.count + 1 \in DOMAIN f.pending
      BY <1>1, <1>3, <1>4
    <3>3. writer.docs = doc - 1
      BY <3>1, <1>1
    <3> QED BY <3>1, <3>2, <3>3, <1>3, <1>4 DEF Placed, NewEntry
  <2> QED BY <2>1, <2>2
<1> QED BY <1>3, <1>4, <1>5, <1>6

\* Writing the pending block gives every entry its document, and no entry of
\* another block a wrong one: offsets before the end are not the end.
LEMMA BlockPlaces ==
  ASSUME StoreInv, writer.state = "open",
         NEW lines \in Seq(Nat), lines # <<>>, NEW body \in BodySizes,
         NEW entries \in Seq(Entry),
         \A doc \in DOMAIN entries :
           Placed(entries[doc], doc, writer.offset, lines),
         ResolvesIn(pages.blocks, entries)
  PROVE  /\ ResolvesIn(BlockWritten(pages, lines, body).blocks, entries)
         /\ \A b \in BlockWritten(pages, lines, body).blocks :
              b.at + 2 + b.body <= BlockWritten(pages, lines, body).size
         /\ \A doc \in DOMAIN entries :
              /\ entries[doc].offset < writer.offset + 2 + body
              /\ \E b \in BlockWritten(pages, lines, body).blocks :
                   /\ b.at = entries[doc].offset
                   /\ entries[doc].ordinal + 1 \in DOMAIN b.lines
<1> DEFINE new == [at |-> pages.size, body |-> body, lines |-> lines]
<1>1. /\ BlockWritten(pages, lines, body).blocks = pages.blocks \cup {new}
      /\ BlockWritten(pages, lines, body).size = pages.size + 2 + body
  BY BlockFacts DEF StoreInv, StoreTypeOK
<1>2. /\ writer.offset = pages.size /\ pages.size \in Nat /\ body \in Nat
      /\ \A b \in pages.blocks : b.at + 2 + b.body <= pages.size
      /\ pages.blocks \subseteq StoredBlock
  BY DEF StoreInv, StoreTypeOK, PagesFile, WriterInStep, BlocksFit
<1>3. \A doc \in DOMAIN entries : entries[doc] \in Entry
  OBVIOUS
<1>4. ResolvesIn(pages.blocks \cup {new}, entries)
  <2>1. ASSUME NEW doc \in DOMAIN entries,
               entries[doc].ordinal + 1 \in DOMAIN new.lines,
               new.at = entries[doc].offset
        PROVE  new.lines[entries[doc].ordinal + 1] = doc - 1
    <3>1. entries[doc].offset = writer.offset
      BY <2>1, <1>2
    <3>2. ~(entries[doc].offset < writer.offset)
      BY <3>1, <1>2
    <3> QED BY <3>2 DEF Placed
  <2> QED BY <2>1 DEF ResolvesIn
<1>5. \A b \in pages.blocks \cup {new} : b.at + 2 + b.body <= pages.size + 2 + body
  <2>1. \A b \in pages.blocks : b.at \in Nat /\ b.body \in Nat
    BY <1>2 DEF StoredBlock
  <2>2. new.at + 2 + new.body <= pages.size + 2 + body
    BY <1>2
  <2> HIDE DEF new
  <2>3. \A b \in pages.blocks : b.at + 2 + b.body <= pages.size + 2 + body
    <3> TAKE b \in pages.blocks
    <3>1. b.at + 2 + b.body <= pages.size /\ pages.size \in Nat /\ body \in Nat
      BY <1>2
    <3>2. b.at \in Nat /\ b.body \in Nat
      BY <2>1
    <3> QED BY <3>1, <3>2
  <2> QED BY <2>2, <2>3
<1>6. ASSUME NEW doc \in DOMAIN entries
      PROVE  /\ entries[doc].offset < writer.offset + 2 + body
             /\ \E b \in pages.blocks \cup {new} :
                  /\ b.at = entries[doc].offset
                  /\ entries[doc].ordinal + 1 \in DOMAIN b.lines
  <2>1. entries[doc].offset \in Nat /\ writer.offset \in Nat
    BY <1>2, <1>3 DEF Entry
  <2>2. CASE entries[doc].offset = writer.offset
             /\ entries[doc].ordinal + 1 \in DOMAIN lines
    <3>1. new \in pages.blocks \cup {new} /\ new.at = entries[doc].offset
          /\ entries[doc].ordinal + 1 \in DOMAIN new.lines
      BY <2>2, <1>2
    <3>2. entries[doc].offset < writer.offset + 2 + body
      BY <2>1, <2>2, <1>2
    <3> HIDE DEF new
    <3> QED BY <3>1, <3>2
  <2>3. CASE entries[doc].offset < writer.offset /\ Backed(entries[doc])
    BY <2>1, <2>3, <1>2 DEF Backed
  <2> QED BY <2>2, <2>3 DEF Placed
<1> HIDE DEF new
<1> QED BY <1>1, <1>4, <1>5, <1>6

-----------------------------------------------------------------------------
(* The actions *)

LEMMA CreateKeeps == StoreInv /\ Create => StoreInv'
<1> SUFFICES ASSUME StoreInv, Create PROVE StoreInv'
  OBVIOUS
<1>1. /\ pages' = NewPages /\ idx' = NewIndex /\ writer' = NewWriter
      /\ summary' = summary /\ reader' = reader
  BY DEF Create
<1>2. /\ pages' \in PagesFile /\ pages'.kept <= pages'.size
      /\ pages'.size = 3 /\ pages'.blocks = {} /\ pages'.crawl = pages.crawl + 1
      /\ idx' \in IndexFile /\ idx'.kept <= idx'.size
      /\ idx'.size = 3 /\ idx'.entries = <<>> /\ idx'.crawl = pages.crawl + 1
  BY <1>1, NewFiles DEF StoreInv
<1>3. /\ writer' \in StoreWriter /\ writer'.offset = 3 /\ writer'.docs = 0
      /\ writer'.count = 0 /\ writer'.pending = <<>>
  BY <1>1 DEF NewWriter, StoreWriter, States
<1>4. /\ pages.crawl \in Nat /\ summary.crawl <= pages.crawl /\ summary.crawl \in Nat
      /\ reader.crawl \in Nat /\ reader.crawl <= pages.crawl
  BY DEF StoreInv, StoreTypeOK, PagesFile, IndexFile, Summary, SummaryInStep,
         ReaderInStep
<1>5. summary'.crawl < pages'.crawl /\ reader'.crawl < idx'.crawl
  BY <1>1, <1>2, <1>4
<1>6. StoreTypeOK'
  BY <1>1, <1>2, <1>3 DEF StoreTypeOK, StoreInv
<1>7. EntriesResolve'
  BY <1>2 DEF EntriesResolve
<1>8. WriterInStep'
  <2>1. Len(<<>>) = 0 /\ DOMAIN <<>> = {}
    OBVIOUS
  <2>2. BlocksFit'
    BY <1>2 DEF BlocksFit
  <2>3. /\ idx'.crawl = pages'.crawl /\ writer'.offset = pages'.size
        /\ pages'.size >= 3 /\ writer'.count = Len(writer'.pending)
        /\ writer'.docs = Len(idx'.entries)
        /\ idx'.size = 3 + 3 * writer'.docs
    BY <1>2, <1>3, <2>1
  <2>4. \A doc \in DOMAIN idx'.entries : FALSE
    BY <1>2, <2>1
  <2> QED BY <1>5, <2>2, <2>3, <2>4 DEF WriterInStep
<1>9. ReaderInStep'
  <2>1. reader'.crawl <= idx'.crawl /\ idx'.crawl <= pages'.crawl
    BY <1>1, <1>2, <1>4
  <2>2. reader'.crawl # idx'.crawl
    BY <1>1, <1>2, <1>4
  <2> QED BY <2>1, <2>2 DEF ReaderInStep
<1>10. SummaryInStep'
  <2>1. summary'.crawl <= pages'.crawl /\ summary'.crawl # pages'.crawl
    BY <1>1, <1>2, <1>4
  <2> QED BY <2>1 DEF SummaryInStep
<1> QED BY <1>6, <1>7, <1>8, <1>9, <1>10 DEF StoreInv

LEMMA OpenKeeps == StoreInv /\ Open => StoreInv'
<1> SUFFICES ASSUME StoreInv, Open PROVE StoreInv'
  OBVIOUS
<1>1. /\ UNCHANGED <<pages, idx, summary, writer>> /\ Openable
      /\ reader' = [crawl |-> idx.crawl, entries |-> EntriesOnDisk]
  BY DEF Open
<1> DEFINE n == (idx.kept - 3) \div 3
<1>2. n \in Nat /\ n <= Len(idx.entries)
  <2>1. /\ idx.kept \in Nat /\ idx.kept >= 3 /\ (idx.kept - 3) % 3 = 0
        /\ idx.kept <= 3 + 3 * Len(idx.entries) + 2
        /\ Len(idx.entries) \in Nat
    BY <1>1 DEF Openable, StoreInv, StoreTypeOK, IndexFile, EntriesResolve
  <2> QED BY <2>1
<1>3. /\ EntriesOnDisk \in Seq(Entry) /\ Len(EntriesOnDisk) = n
      /\ \A doc \in 1..n : EntriesOnDisk[doc] = idx.entries[doc]
  <2>1. idx.entries \in Seq(Entry) /\ EntriesOnDisk = SubSeq(idx.entries, 1, n)
    BY DEF StoreInv, StoreTypeOK, IndexFile, EntriesOnDisk
  <2> HIDE DEF n
  <2> QED BY <2>1, <1>2
<1> HIDE DEF n
<1>4. StoreTypeOK'
  BY <1>1, <1>3 DEF StoreInv, StoreTypeOK, IndexFile
<1>5. ReaderInStep'
  <2>1. reader'.entries = EntriesOnDisk /\ reader'.crawl = idx'.crawl
    BY <1>1
  <2>2. \A doc \in DOMAIN EntriesOnDisk :
          doc \in DOMAIN idx.entries /\ EntriesOnDisk[doc] = idx.entries[doc]
    BY <1>2, <1>3 DEF StoreInv, StoreTypeOK, IndexFile
  <2>3. idx'.crawl <= pages'.crawl /\ reader'.crawl <= idx'.crawl
    BY <1>1, <2>1 DEF StoreInv, ReaderInStep, StoreTypeOK, IndexFile
  <2> QED BY <1>1, <2>1, <2>2, <2>3 DEF ReaderInStep
<1>6. EntriesResolve' /\ WriterInStep' /\ SummaryInStep'
  BY <1>1 DEF StoreInv, EntriesResolve, Resolves, WriterInStep, SummaryInStep,
              BlocksFit, Backed, InPending
<1> QED BY <1>4, <1>5, <1>6 DEF StoreInv

LEMMA CreateStopsKeeps == StoreInv /\ CreateStops => StoreInv'
<1> SUFFICES ASSUME StoreInv, CreateStops PROVE StoreInv'
  OBVIOUS
<1>1. summary' = summary /\ reader' = reader
  BY DEF CreateStops
<1>2. /\ pages.crawl \in Nat /\ idx.crawl \in Nat /\ reader.crawl \in Nat
      /\ summary.crawl \in Nat /\ summary.crawl <= pages.crawl
      /\ reader.crawl <= idx.crawl /\ idx.crawl <= pages.crawl
      /\ idx.entries \in Seq(Entry)
  BY DEF StoreInv, StoreTypeOK, PagesFile, IndexFile, Summary, SummaryInStep,
         ReaderInStep
<1>3. summary.crawl < pages.crawl + 1 /\ idx.crawl < pages.crawl + 1
      /\ reader.crawl < pages.crawl + 1
  BY <1>2
<1>4. Consistent(Emptied(pages), idx)
  BY <1>2, <1>3, NewFiles, FilesConsistent DEF Consistent, StoreInv
<1>5. Consistent(NewPages, Emptied(idx))
  <2>1. 0 <= 3 + 3 * Len(idx.entries) + 2
    BY <1>2
  <2>2. ResolvesIn(NewPages.blocks, Emptied(idx).entries)
    BY NewFiles DEF StoreInv, ResolvesIn
  <2>3. ReadFrom(Emptied(idx))
    BY <1>2, <1>3, NewFiles DEF ReadFrom, StoreInv
  <2> QED BY <2>1, <2>2, <2>3, <1>2, NewFiles DEF Consistent, StoreInv
<1>6. Consistent(NewPages, NewIndex)
  <2>1. 3 <= 3 + 3 * Len(NewIndex.entries) + 2
    BY NewFiles DEF StoreInv
  <2>2. ResolvesIn(NewPages.blocks, NewIndex.entries)
    BY NewFiles DEF StoreInv, ResolvesIn
  <2>3. ReadFrom(NewIndex)
    BY <1>2, <1>3, NewFiles DEF ReadFrom, StoreInv
  <2> QED BY <2>1, <2>2, <2>3, <1>2, NewFiles DEF Consistent, StoreInv
<1>7. Emptied(pages).crawl = pages.crawl + 1 /\ NewPages.crawl = pages.crawl + 1
  BY NewFiles DEF StoreInv
<1>8. CASE StopAt(Emptied(pages), idx)
  BY <1>1, <1>3, <1>4, <1>7, <1>8, StopKeeps
<1>9. CASE StopAt(NewPages, Emptied(idx))
  BY <1>1, <1>3, <1>5, <1>7, <1>9, StopKeeps
<1>10. CASE StopAt(NewPages, NewIndex)
  BY <1>1, <1>3, <1>6, <1>7, <1>10, StopKeeps
<1> QED BY <1>8, <1>9, <1>10 DEF CreateStops

\* What an open writer may rely on.
LEMMA OpenFacts ==
  ASSUME StoreInv, writer.state = "open"
  PROVE  /\ writer \in StoreWriter /\ pages \in PagesFile /\ pages.kept <= pages.size
         /\ idx \in IndexFile /\ idx.kept <= idx.size
         /\ writer.offset = pages.size /\ pages.size \in Nat /\ pages.size >= 3
         /\ writer.docs = Len(idx.entries) /\ writer.docs \in Nat
         /\ idx.size = 3 + 3 * writer.docs
         /\ idx.crawl = pages.crawl /\ summary.crawl < pages.crawl
         /\ writer.pending \in Seq(Nat)
         /\ idx.entries \in Seq(Entry)
         /\ ResolvesIn(pages.blocks, idx.entries)
         /\ \A doc \in DOMAIN idx.entries :
              Placed(idx.entries[doc], doc, writer.offset, writer.pending)
<1>1. WriterInStep /\ StoreTypeOK /\ Consistent(pages, idx)
  BY FilesConsistent DEF StoreInv
<1>2. \A doc \in DOMAIN idx.entries :
         Placed(idx.entries[doc], doc, writer.offset, writer.pending)
  BY <1>1 DEF WriterInStep, Placed, InPending
<1> QED
  BY <1>1, <1>2 DEF WriterInStep, StoreTypeOK, PagesFile, IndexFile, StoreWriter,
                    Consistent

\* The entry pushed last points past every block on file.
LEMMA EnteredResolves ==
  ASSUME StoreInv, writer.state = "open"
  PROVE  ResolvesIn(pages.blocks, EntryWritten.entries)
<1>1. /\ EntryWritten.entries = Append(idx.entries, NewEntry)
      /\ idx.entries \in Seq(Entry) /\ NewEntry \in Entry
      /\ ResolvesIn(pages.blocks, idx.entries)
  BY EntryFacts, OpenFacts DEF StoreInv, NewEntry, Entry, StoreWriter
<1>2. \A b \in pages.blocks : b.at # writer.offset
  <2>1. TAKE b \in pages.blocks
  <2>2. b.at + 2 + b.body <= pages.size /\ b \in StoredBlock
    BY OpenFacts DEF StoreInv, WriterInStep, BlocksFit, PagesFile
  <2> QED BY <2>2, OpenFacts DEF StoredBlock
<1>3. ASSUME NEW doc \in DOMAIN Append(idx.entries, NewEntry),
             doc \notin DOMAIN idx.entries
      PROVE  Append(idx.entries, NewEntry)[doc] = NewEntry
  BY <1>1, <1>3
<1>4. ASSUME NEW doc \in DOMAIN idx.entries
      PROVE  Append(idx.entries, NewEntry)[doc] = idx.entries[doc]
  BY <1>1
<1>5. NewEntry.offset = writer.offset
  BY DEF NewEntry
<1> HIDE DEF NewEntry
<1> QED BY <1>1, <1>2, <1>3, <1>4, <1>5 DEF ResolvesIn

LEMMA PushKeeps ==
  ASSUME StoreInv, NEW size \in RecordSizes, NEW body \in BodySizes,
         Push(size, body)
  PROVE  StoreInv'
<1> DEFINE f == Filled(size)
<1>1. /\ writer.state = "open" /\ idx' = EntryWritten
      /\ summary' = summary /\ reader' = reader
  BY DEF Push
<1>2. /\ f \in StoreWriter /\ f.pending \in Seq(Nat) /\ f.pending # <<>>
      /\ f.count = Len(f.pending) /\ f.docs = Len(idx'.entries)
      /\ f.offset = writer.offset /\ f.state = "open"
      /\ \A doc \in DOMAIN idx'.entries :
           Placed(idx'.entries[doc], doc, writer.offset, f.pending)
  BY <1>1, FilledPlaces
<1>3. /\ idx' \in IndexFile /\ idx'.kept <= idx'.size
      /\ idx'.crawl = idx.crawl
      /\ idx'.entries \in Seq(Entry)
  BY <1>1, EntryFacts DEF StoreInv, IndexFile
<1>4. idx'.size = 3 + 3 * f.docs /\ Len(idx'.entries) \in Nat
  <2>1. idx'.size = idx.size + 3
    BY <1>1, EntryFacts DEF StoreInv
  <2>2. f.docs = writer.docs + 1
    BY <1>1, OpenFacts DEF Filled, StoreWriter
  <2>3. idx.size = 3 + 3 * writer.docs /\ writer.docs \in Nat
    BY <1>1, OpenFacts
  <2>4. Len(idx'.entries) \in Nat
    BY <1>3
  <2> HIDE DEF f
  <2> QED BY <2>1, <2>2, <2>3, <2>4
<1>5. /\ ReadFrom(idx') /\ ResolvesIn(pages.blocks, idx'.entries)
  BY <1>1, EntryKeepsReader, EnteredResolves
<1>6. /\ pages' \in PagesFile /\ pages'.kept <= pages'.size
      /\ pages'.crawl = pages.crawl
      /\ pages'.size >= 3
      /\ ResolvesIn(pages'.blocks, idx'.entries)
      /\ BlocksFit'
      /\ writer' \in StoreWriter /\ writer'.offset = pages'.size
      /\ writer'.count = Len(writer'.pending) /\ writer'.docs = f.docs
      /\ \A doc \in DOMAIN idx'.entries :
           \/ InPending(idx.entries[doc], doc)'
           \/ idx'.entries[doc].offset < writer'.offset /\ Backed(idx.entries[doc])'
  <2>1. CASE ~Full(size)
    <3>1. writer' = f /\ pages' = pages
      BY <2>1 DEF Push
    <3>2. BlocksFit'
      BY <3>1, <1>1 DEF StoreInv, WriterInStep, BlocksFit
    <3>3. ASSUME NEW doc \in DOMAIN idx'.entries
          PROVE  \/ InPending(idx.entries[doc], doc)'
                 \/ /\ idx'.entries[doc].offset < writer'.offset
                    /\ Backed(idx.entries[doc])'
      <4>1. Placed(idx'.entries[doc], doc, writer.offset, f.pending)
        BY <1>2
      <4> HIDE DEF f
      <4> QED BY <4>1, <3>1, <1>2 DEF Placed, InPending, Backed
    <3> HIDE DEF f
    <3> QED BY <3>1, <3>2, <3>3, <1>1, <1>2, <1>5, OpenFacts
  <2>2. CASE Full(size)
    <3>1. writer' = Cleared(f, body) /\ pages' = BlockWritten(pages, f.pending, body)
      BY <2>2 DEF Push
    <3> HIDE DEF f
    <3>2. /\ pages' \in PagesFile /\ pages'.kept <= pages'.size
          /\ pages'.crawl = pages.crawl /\ pages'.size = pages.size + 2 + body
      BY <3>1, <1>1, <1>2, BlockFacts, OpenFacts
    <3>3. /\ ResolvesIn(pages'.blocks, idx'.entries)
          /\ \A b \in pages'.blocks : b.at + 2 + b.body <= pages'.size
          /\ \A doc \in DOMAIN idx'.entries :
               /\ idx'.entries[doc].offset < writer.offset + 2 + body
               /\ \E b \in pages'.blocks :
                    /\ b.at = idx'.entries[doc].offset
                    /\ idx'.entries[doc].ordinal + 1 \in DOMAIN b.lines
      BY <3>1, <1>1, <1>2, <1>3, <1>5, BlockPlaces
    <3>4. /\ writer' \in StoreWriter /\ writer'.pending = <<>> /\ writer'.count = 0
          /\ writer'.docs = f.docs /\ writer'.offset = writer.offset + 2 + body
      <4>1. <<>> \in Seq(Nat) /\ f.offset + 2 + body \in Nat
            /\ f.offset + 2 + body = writer.offset + 2 + body
        BY <1>2 DEF StoreWriter
      <4> QED BY <3>1, <1>2, <4>1 DEF Cleared, StoreWriter
    <3>5. Len(<<>>) = 0
      OBVIOUS
    <3>6. /\ pages'.size >= 3 /\ writer'.offset = pages'.size
      <4>1. body \in Nat /\ writer.offset = pages.size /\ pages.size >= 3
            /\ pages.size \in Nat
        BY <1>1, OpenFacts
      <4> QED BY <4>1, <3>2, <3>4
    <3>7. BlocksFit'
      BY <3>3 DEF BlocksFit
    <3>8. \A doc \in DOMAIN idx'.entries :
            /\ idx'.entries[doc].offset < writer'.offset
            /\ Backed(idx.entries[doc])'
      BY <3>3, <3>4 DEF Backed
    <3> QED BY <3>2, <3>3, <3>4, <3>5, <3>6, <3>7, <3>8
  <2> QED BY <2>1, <2>2
<1>7. idx'.crawl = pages'.crawl /\ summary'.crawl < pages'.crawl
  BY <1>1, <1>3, <1>6, OpenFacts
<1> HIDE DEF f
<1>8. StoreTypeOK'
  BY <1>1, <1>3, <1>6 DEF StoreInv, StoreTypeOK
<1>9. EntriesResolve'
  BY <1>2, <1>4, <1>6 DEF EntriesResolve, Resolves, ResolvesIn
<1>10. WriterInStep'
  BY <1>2, <1>4, <1>6, <1>7 DEF WriterInStep
<1>11. ReaderInStep'
  <2>1. idx'.crawl <= pages'.crawl
    BY <1>6, <1>7 DEF PagesFile
  <2> QED BY <2>1, <1>1, <1>5 DEF ReaderInStep, ReadFrom
<1>12. SummaryInStep'
  <2>1. summary'.crawl <= pages'.crawl /\ summary'.crawl # pages'.crawl
    BY <1>7, <1>1, <1>6 DEF StoreInv, StoreTypeOK, Summary, PagesFile
  <2> QED BY <2>1 DEF SummaryInStep
<1> QED BY <1>8, <1>9, <1>10, <1>11, <1>12 DEF StoreInv

LEMMA PushStopsKeeps ==
  ASSUME StoreInv, NEW size \in RecordSizes, PushStops(size)
  PROVE  StoreInv'
<1>1. /\ writer.state = "open" /\ summary' = summary /\ reader' = reader
  BY DEF PushStops
<1>2. summary.crawl < pages.crawl
  BY <1>1, OpenFacts
<1>3. Consistent(pages, idx)
  BY FilesConsistent
<1>4. Consistent(pages, Write(idx, 2))
  <2>1. idx.size + 2 <= 3 + 3 * Len(idx.entries) + 2
    BY <1>1, OpenFacts
  <2> QED BY <2>1, <1>3, EntryFacts DEF Consistent, ReadFrom, StoreInv
<1>5. Consistent(pages, EntryWritten)
  <2>1. /\ EntryWritten \in IndexFile /\ EntryWritten.kept <= EntryWritten.size
        /\ EntryWritten.size = idx.size + 3
        /\ EntryWritten.crawl = idx.crawl
        /\ Len(EntryWritten.entries) = Len(idx.entries) + 1
    <3>1. /\ EntryWritten \in IndexFile /\ EntryWritten.kept <= EntryWritten.size
          /\ EntryWritten.size = idx.size + 3
          /\ EntryWritten.crawl = idx.crawl
          /\ EntryWritten.entries = Append(idx.entries, NewEntry)
      BY EntryFacts DEF StoreInv
    <3>2. idx.entries \in Seq(Entry)
      BY <1>1, OpenFacts
    <3>3. Len(Append(idx.entries, NewEntry)) = Len(idx.entries) + 1
      BY <3>2
    <3> QED BY <3>1, <3>3
  <2>2. /\ idx.size = 3 + 3 * writer.docs /\ writer.docs = Len(idx.entries)
        /\ writer.docs \in Nat
        /\ idx.crawl = pages.crawl
    BY <1>1, OpenFacts
  <2>3. EntryWritten.size <= 3 + 3 * Len(EntryWritten.entries) + 2
    BY <2>1, <2>2
  <2> QED
    BY <2>1, <2>2, <2>3, <1>1, <1>3, EntryKeepsReader, EnteredResolves DEF Consistent
<1>6. Consistent(Write(pages, 1), EntryWritten)
      /\ Write(pages, 1).crawl = pages.crawl
  BY <1>5, LengthsFacts DEF Consistent, ResolvesIn
<1>7. Consistent(LengthsWritten(pages), EntryWritten)
      /\ LengthsWritten(pages).crawl = pages.crawl
  BY <1>5, LengthsFacts DEF Consistent, ResolvesIn
<1>8. \E p \in {pages, Write(pages, 1), LengthsWritten(pages)},
         i \in {idx, Write(idx, 2), EntryWritten} :
        StopAt(p, i) /\ Consistent(p, i) /\ p.crawl = pages.crawl
  BY <1>3, <1>4, <1>5, <1>6, <1>7 DEF PushStops
<1> QED BY <1>1, <1>2, <1>8, StopKeeps

\* The pending block written by finish, if there is one.
LEMMA LastBlock ==
  ASSUME StoreInv, writer.state = "open", NEW body \in BodySizes
  PROVE  LET p == BlockWritten(pages, writer.pending, body)
         IN  /\ p \in PagesFile /\ p.kept <= p.size /\ p.size >= 3
             /\ p.crawl = pages.crawl
             /\ ResolvesIn(p.blocks, idx.entries)
             /\ \A b \in p.blocks : b.at + 2 + b.body <= p.size
             /\ \A doc \in DOMAIN idx.entries : \E b \in p.blocks :
                  /\ b.at = idx.entries[doc].offset
                  /\ idx.entries[doc].ordinal + 1 \in DOMAIN b.lines
<1> DEFINE p == BlockWritten(pages, writer.pending, body)
<1>1. CASE writer.pending = <<>>
  <2>1. p = pages /\ DOMAIN writer.pending = {}
    BY <1>1 DEF BlockWritten
  <2>2. \A doc \in DOMAIN idx.entries : Backed(idx.entries[doc])
    BY <2>1, OpenFacts DEF Placed
  <2>3. \A b \in pages.blocks : b.at + 2 + b.body <= pages.size
    BY DEF StoreInv, WriterInStep, BlocksFit
  <2> HIDE DEF p
  <2> QED BY <2>1, <2>2, <2>3, OpenFacts DEF p, Backed
<1>2. CASE writer.pending # <<>>
  <2>1. /\ p \in PagesFile /\ p.kept <= p.size /\ p.size = pages.size + 2 + body
        /\ p.crawl = pages.crawl
    BY <1>2, OpenFacts, BlockFacts
  <2>2. /\ ResolvesIn(p.blocks, idx.entries)
        /\ \A b \in p.blocks : b.at + 2 + b.body <= p.size
        /\ \A doc \in DOMAIN idx.entries : \E b \in p.blocks :
             /\ b.at = idx.entries[doc].offset
             /\ idx.entries[doc].ordinal + 1 \in DOMAIN b.lines
    BY <1>2, OpenFacts, BlockPlaces
  <2>3. body \in Nat /\ pages.size \in Nat /\ pages.size >= 3
    BY OpenFacts
  <2> HIDE DEF p
  <2>4. p.size >= 3
    BY <2>1, <2>3
  <2> QED BY <2>1, <2>2, <2>4 DEF p
<1> QED BY <1>1, <1>2

\* A file flushed is on the disk as written.
LEMMA FlushPages ==
  ASSUME NEW f \in PagesFile
  PROVE  /\ Flush(f) \in PagesFile /\ Flush(f).kept = f.size
         /\ Flush(f).size = f.size /\ Flush(f).crawl = f.crawl
         /\ Flush(f).blocks = f.blocks
BY DEF Flush, PagesFile

LEMMA FlushIndex ==
  ASSUME NEW f \in IndexFile
  PROVE  /\ Flush(f) \in IndexFile /\ Flush(f).kept = f.size
         /\ Flush(f).size = f.size /\ Flush(f).crawl = f.crawl
         /\ Flush(f).entries = f.entries
BY DEF Flush, IndexFile

LEMMA FinishKeeps ==
  ASSUME StoreInv, NEW body \in BodySizes, Finish(body)
  PROVE  StoreInv'
<1> DEFINE p == BlockWritten(pages, writer.pending, body)
<1>1. /\ writer.state = "open" /\ pages' = Flush(p) /\ idx' = Flush(idx)
      /\ summary' = [crawl |-> pages.crawl, stored |-> writer.docs]
      /\ writer' = [NewWriter EXCEPT !.state = "finished"]
      /\ reader' = reader
  BY DEF Finish
<1>2. /\ p \in PagesFile /\ p.size >= 3 /\ p.crawl = pages.crawl
      /\ ResolvesIn(p.blocks, idx.entries)
      /\ \A b \in p.blocks : b.at + 2 + b.body <= p.size
      /\ \A doc \in DOMAIN idx.entries : \E b \in p.blocks :
           /\ b.at = idx.entries[doc].offset
           /\ idx.entries[doc].ordinal + 1 \in DOMAIN b.lines
  BY <1>1, LastBlock
<1> HIDE DEF p
<1>3. /\ pages' \in PagesFile /\ pages'.kept = pages'.size /\ pages'.size >= 3
      /\ pages'.crawl = pages.crawl /\ pages'.blocks = p.blocks
      /\ BlocksFit'
  <2>1. /\ pages' \in PagesFile /\ pages'.kept = p.size /\ pages'.size = p.size
        /\ pages'.crawl = p.crawl /\ pages'.blocks = p.blocks
    BY <1>1, <1>2, FlushPages
  <2> QED BY <2>1, <1>2 DEF BlocksFit
<1>4. /\ idx' \in IndexFile /\ idx'.kept = idx'.size
      /\ idx'.size = 3 + 3 * writer.docs
      /\ idx'.crawl = pages.crawl /\ idx'.entries = idx.entries
      /\ Len(idx'.entries) = writer.docs /\ writer.docs \in Nat
  <2>1. idx \in IndexFile
    BY <1>1, OpenFacts
  <2>2. /\ idx' \in IndexFile /\ idx'.kept = idx.size
        /\ idx'.size = idx.size /\ idx'.crawl = idx.crawl
        /\ idx'.entries = idx.entries
    BY <2>1, <1>1, FlushIndex
  <2>3. /\ idx.size = 3 + 3 * writer.docs /\ Len(idx.entries) = writer.docs
        /\ idx.crawl = pages.crawl /\ writer.docs \in Nat
    BY <1>1, OpenFacts
  <2> QED BY <2>2, <2>3
<1>5. writer' \in StoreWriter /\ writer'.state # "open"
  <2>1. <<>> \in Seq(Nat)
    OBVIOUS
  <2> QED BY <1>1, <2>1 DEF NewWriter, StoreWriter, States
<1>6. /\ summary' \in Summary /\ summary'.crawl = pages'.crawl
      /\ summary'.stored = writer.docs
  BY <1>1, <1>3, <1>4 DEF Summary, PagesFile
<1>7. StoreTypeOK'
  <2>1. pages'.kept <= pages'.size /\ idx'.kept <= idx'.size
    BY <1>3, <1>4 DEF PagesFile, IndexFile
  <2> QED BY <2>1, <1>1, <1>3, <1>4, <1>5, <1>6 DEF StoreTypeOK, StoreInv
<1>8. EntriesResolve'
  <2>1. idx'.size <= 3 + 3 * Len(idx'.entries) + 2
    BY <1>4
  <2> QED BY <2>1, <1>2, <1>3, <1>4 DEF EntriesResolve, Resolves, ResolvesIn
<1>9. WriterInStep'
  BY <1>5 DEF WriterInStep
<1>10. ReaderInStep'
  <2>1. idx'.crawl = idx.crawl /\ pages'.crawl = pages.crawl
    BY <1>1, <1>3, <1>4, OpenFacts
  <2> QED BY <2>1, <1>1, <1>4 DEF ReaderInStep, StoreInv
<1>11. SummaryInStep'
  <2>1. \A doc \in DOMAIN idx'.entries : Backed(idx.entries[doc])'
    BY <1>2, <1>3, <1>4 DEF Backed
  <2>2. summary'.crawl <= pages'.crawl
    BY <1>3, <1>6 DEF PagesFile
  <2> QED BY <2>1, <2>2, <1>3, <1>4, <1>6 DEF SummaryInStep
<1> QED BY <1>7, <1>8, <1>9, <1>10, <1>11 DEF StoreInv

LEMMA FinishStopsKeeps ==
  ASSUME StoreInv, NEW body \in BodySizes, FinishStops(body)
  PROVE  StoreInv'
<1> DEFINE p == BlockWritten(pages, writer.pending, body)
<1>1. /\ writer.state = "open" /\ summary' \in {summary, NoSummary}
      /\ reader' = reader
  BY DEF FinishStops
<1>2. \E q \in {Write(pages, 1), LengthsWritten(pages), p, Flush(p)},
         i \in {idx, Flush(idx)} : StopAt(q, i)
  BY DEF FinishStops
<1>3. Consistent(pages, idx) /\ idx.crawl = pages.crawl
  BY <1>1, FilesConsistent, OpenFacts
<1>4. Consistent(Write(pages, 1), idx) /\ Consistent(LengthsWritten(pages), idx)
      /\ Write(pages, 1).crawl = pages.crawl
      /\ LengthsWritten(pages).crawl = pages.crawl
  BY <1>3, LengthsFacts DEF Consistent
<1>5. /\ p \in PagesFile /\ p.kept <= p.size /\ p.crawl = pages.crawl
      /\ ResolvesIn(p.blocks, idx.entries)
  BY <1>1, LastBlock
<1> HIDE DEF p
<1>6. Consistent(p, idx)
  BY <1>3, <1>5 DEF Consistent
<1>7. Consistent(Flush(p), idx) /\ Flush(p).crawl = pages.crawl
  <2>1. /\ Flush(p) \in PagesFile /\ Flush(p).kept <= Flush(p).size
        /\ Flush(p).crawl = pages.crawl /\ Flush(p).blocks = p.blocks
    BY <1>5, FlushPages DEF PagesFile
  <2> QED BY <2>1, <1>3, <1>5 DEF Consistent
<1>8. ASSUME NEW q, Consistent(q, idx) PROVE Consistent(q, Flush(idx))
  <2>1. /\ Flush(idx) \in IndexFile /\ Flush(idx).kept <= Flush(idx).size
        /\ Flush(idx).crawl = idx.crawl /\ Flush(idx).size = idx.size
        /\ Flush(idx).entries = idx.entries
    BY <1>3, FlushIndex DEF Consistent, IndexFile
  <2> QED BY <2>1, <1>8 DEF Consistent, ReadFrom
<1>9. PICK q \in {Write(pages, 1), LengthsWritten(pages), p, Flush(p)},
           i \in {idx, Flush(idx)} : StopAt(q, i)
  BY <1>2
<1>10. Consistent(q, i) /\ q.crawl = pages.crawl
  BY <1>4, <1>5, <1>6, <1>7, <1>8, <1>9
<1>11. summary.crawl < q.crawl
  BY <1>1, <1>10, OpenFacts
<1> QED BY <1>1, <1>9, <1>10, <1>11, StopKeeps

-----------------------------------------------------------------------------
(* The theorems *)

\* The inductive invariant of the store, whatever is pushed, read and
\* interrupted.
THEOREM StoreInvariant == StoreSpec => []StoreInv
<1>1. StoreInit => StoreInv
  <2> SUFFICES ASSUME StoreInit PROVE StoreInv
    OBVIOUS
  <2>1. <<>> \in Seq(Nat) /\ <<>> \in Seq(Entry) /\ Len(<<>>) = 0
    OBVIOUS
  <2>2. writer.state = "none" /\ writer \in StoreWriter
    BY <2>1 DEF StoreInit, NewWriter, StoreWriter, States
  <2>3. StoreTypeOK
    BY <2>1, <2>2 DEF StoreInit, StoreTypeOK, PagesFile, IndexFile, Summary, NoSummary
  <2>4. EntriesResolve /\ ReaderInStep
    BY <2>1 DEF StoreInit, EntriesResolve, ReaderInStep
  <2>5. WriterInStep /\ SummaryInStep
    BY <2>2 DEF StoreInit, WriterInStep, SummaryInStep, NoSummary
  <2> QED BY <2>3, <2>4, <2>5 DEF StoreInv
<1>2. StoreInv /\ [StoreNext]_storeVars => StoreInv'
  <2> SUFFICES ASSUME StoreInv, [StoreNext]_storeVars PROVE StoreInv'
    OBVIOUS
  <2>1. CASE Create
    BY <2>1, CreateKeeps
  <2>2. CASE CreateStops
    BY <2>2, CreateStopsKeeps
  <2>3. CASE \E size \in RecordSizes : PushStops(size)
    BY <2>3, PushStopsKeeps
  <2>4. CASE \E size \in RecordSizes, body \in BodySizes : Push(size, body)
    BY <2>4, PushKeeps
  <2>5. CASE \E body \in BodySizes : Finish(body)
    BY <2>5, FinishKeeps
  <2>6. CASE \E body \in BodySizes : FinishStops(body)
    BY <2>6, FinishStopsKeeps
  <2>7. CASE Open
    BY <2>7, OpenKeeps
  <2>8. CASE UNCHANGED storeVars
    BY <2>8 DEF storeVars, StoreInv, StoreTypeOK, EntriesResolve, Resolves,
                WriterInStep, BlocksFit, InPending, Backed, ReaderInStep, SummaryInStep
  <2> QED BY <2>1, <2>2, <2>3, <2>4, <2>5, <2>6, <2>7, <2>8 DEF StoreNext
<1> QED BY <1>1, <1>2, PTL DEF StoreSpec

\* Every variable of the store keeps its type, and no file has more on the disk
\* than was written to it.
THEOREM StoreTypes == StoreSpec => []StoreTypeOK
<1>1. StoreInv => StoreTypeOK
  BY DEF StoreInv
<1> QED BY <1>1, StoreInvariant, PTL

\* A reader never returns one document for another, whenever it opened the
\* store and wherever the writer stopped.
THEOREM NothingIsMisread == StoreSpec => []NeverMisread
<1>1. StoreInv => NeverMisread
  <2> SUFFICES ASSUME StoreInv, reader.crawl = pages.crawl,
                      NEW doc \in DOMAIN reader.entries,
                      NEW record \in Got(reader.entries[doc])
               PROVE  record = doc - 1
    BY DEF NeverMisread
  <2>1. reader.crawl = idx.crawl
    BY DEF StoreInv, ReaderInStep, StoreTypeOK, PagesFile, IndexFile
  <2>2. doc \in DOMAIN idx.entries /\ reader.entries[doc] = idx.entries[doc]
    BY <2>1 DEF StoreInv, ReaderInStep
  <2>3. Resolves(reader.entries[doc], doc)
    BY <2>1, <2>2 DEF StoreInv, EntriesResolve
  <2> QED BY <2>3 DEF Got, Resolves
<1> QED BY <1>1, StoreInvariant, PTL

\* A crawl.json of the current crawl vouches for a whole store.
THEOREM SummaryIsTrustworthy == StoreSpec => []SummaryVouches
<1>1. StoreInv => SummaryVouches
  <2> SUFFICES ASSUME StoreInv, summary.crawl = pages.crawl, summary # NoSummary
               PROVE  /\ Openable
                      /\ Len(EntriesOnDisk) = summary.stored
                      /\ \A doc \in 1..summary.stored :
                           Got(EntriesOnDisk[doc]) = {doc - 1}
    BY DEF SummaryVouches
  <2>1. /\ idx.crawl = pages.crawl
        /\ pages.kept = pages.size /\ pages.size >= 3 /\ BlocksFit
        /\ idx.kept = 3 + 3 * summary.stored
        /\ Len(idx.entries) = summary.stored
        /\ \A doc \in DOMAIN idx.entries : Backed(idx.entries[doc])
        /\ idx.entries \in Seq(Entry) /\ summary.stored \in Nat
    BY DEF StoreInv, SummaryInStep, StoreTypeOK, IndexFile, Summary
  <2>2. /\ idx.kept >= 3 /\ (idx.kept - 3) % 3 = 0
        /\ (idx.kept - 3) \div 3 = summary.stored
    BY <2>1
  <2>3. EntriesOnDisk = idx.entries
    BY <2>1, <2>2 DEF EntriesOnDisk
  <2>4. ASSUME NEW doc \in 1..summary.stored
        PROVE  Got(idx.entries[doc]) = {doc - 1}
    <3>1. doc \in DOMAIN idx.entries
      BY <2>1
    <3>2. Resolves(idx.entries[doc], doc) /\ Backed(idx.entries[doc])
      BY <2>1, <3>1 DEF StoreInv, EntriesResolve
    <3>3. \A b \in pages.blocks : OnDisk(b)
      BY <2>1 DEF OnDisk, BlocksFit
    <3> QED BY <3>2, <3>3 DEF Got, Resolves, Backed
  <2>5. Openable
    BY <2>1, <2>2 DEF Openable
  <2> QED BY <2>1, <2>3, <2>4, <2>5
<1> QED BY <1>1, StoreInvariant, PTL

-----------------------------------------------------------------------------
(* Counting records *)

First(s) == CHOOSE c \in s : TRUE

\* The function behind the sum of Lines: from every subset of S its count.
IsCount(g, S) ==
  g = [s \in SUBSET S |->
         IF s = {} THEN 0 ELSE Len(First(s).lines) + g[s \ {First(s)}]]

Count(S) == CHOOSE g : IsCount(g, S)

\* The sum is the value of that function at the whole set.
LEMMA LinesIsCount == \A S : Lines(S) = Count(S)[S]
BY DEF Lines, MapThenSumSet, MapThenFoldSet, Count, IsCount, First

\* Induction, as the provers can take it: among sets of subsets of a finite set
\* there is a smallest one, so a smallest counterexample.
LEMMA MinimalSet ==
  ASSUME NEW S, IsFiniteSet(S), NEW T \in SUBSET (SUBSET S), T # {}
  PROVE  \E x \in T : \A y \in T : y \subseteq x => y = x
<1>1. T \subseteq FiniteSubsetsOf(S)
  BY FS_FiniteSubsetsOfFinite
<1>2. PICK x \in T : \A y \in T : ~(<<y, x>> \in StrictSubsetOrdering(S))
  BY <1>1, WFMin, FS_StrictSubsetOrderingWellFounded
<1> QED
  BY <1>2 DEF StrictSubsetOrdering

\* Two such functions agree where both are defined.
LEMMA CountsAgree ==
  ASSUME NEW S, IsFiniteSet(S), NEW R \in SUBSET S, NEW g, IsCount(g, S),
         NEW f, IsCount(f, R)
  PROVE  \A s \in SUBSET R : f[s] = g[s]
<1> DEFINE Bad == {s \in SUBSET R : f[s] # g[s]}
<1> SUFFICES ASSUME Bad # {} PROVE FALSE
  OBVIOUS
<1>1. PICK s \in Bad : \A r \in Bad : r \subseteq s => r = s
  <2>1. Bad \in SUBSET (SUBSET S)
    OBVIOUS
  <2> HIDE DEF Bad
  <2> QED
    BY <2>1, MinimalSet
<1>2. s \in SUBSET R /\ s \in SUBSET S /\ f[s] # g[s]
  OBVIOUS
<1>3. /\ f[s] = IF s = {} THEN 0 ELSE Len(First(s).lines) + f[s \ {First(s)}]
      /\ g[s] = IF s = {} THEN 0 ELSE Len(First(s).lines) + g[s \ {First(s)}]
  BY <1>2 DEF IsCount
<1>4. s # {} /\ f[s \ {First(s)}] # g[s \ {First(s)}]
  BY <1>2, <1>3
<1>5. First(s) \in s
  BY <1>4 DEF First
<1> QED
  BY <1>1, <1>2, <1>4, <1>5

\* There is such a function: its value at a set comes from those of the subsets.
LEMMA CountExists ==
  ASSUME NEW S, IsFiniteSet(S)
  PROVE  IsCount(Count(S), S)
<1> DEFINE Bad == {s \in SUBSET S : ~\E g : IsCount(g, s)}
<1>1. Bad = {}
  <2> SUFFICES ASSUME Bad # {} PROVE FALSE
    OBVIOUS
  <2>1. PICK s \in Bad : \A r \in Bad : r \subseteq s => r = s
    <3>1. Bad \in SUBSET (SUBSET S)
      OBVIOUS
    <3> HIDE DEF Bad
    <3> QED
      BY <3>1, MinimalSet
  <2>2. s \in SUBSET S /\ ~\E g : IsCount(g, s)
    OBVIOUS
  <2> DEFINE Part(r) == IF r = {} THEN 0
                        ELSE Len(First(r).lines) + Count(r \ {First(r)})[r \ {First(r)}]
             g == [r \in SUBSET s |-> Part(r)]
  <2>3. ASSUME NEW r \in SUBSET s, r # s PROVE IsCount(Count(r), r)
    BY <2>1, <2>2, <2>3 DEF Count
  <2>4. ASSUME NEW r \in SUBSET s, r # {} 
        PROVE  g[r \ {First(r)}] = Count(r \ {First(r)})[r \ {First(r)}]
    <3>1. First(r) \in r
      BY <2>4 DEF First
    <3> DEFINE q == r \ {First(r)}
               p == q \ {First(q)}
    <3>2. q \in SUBSET s /\ q # s /\ IsCount(Count(q), q)
      BY <2>3, <3>1
    <3>3. g[q] = Part(q)
      BY <3>2
    <3>4. Count(q)[q] = IF q = {} THEN 0 ELSE Len(First(q).lines) + Count(q)[p]
      BY <3>2 DEF IsCount
    <3>5. ASSUME q # {} PROVE Count(q)[p] = Count(p)[p]
      <4>1. First(q) \in q
        BY <3>5 DEF First
      <4>2. p \in SUBSET q /\ p \in SUBSET s /\ p # s
        BY <3>1, <4>1
      <4>3. IsCount(Count(p), p) /\ IsFiniteSet(q)
        BY <4>2, <3>2, <2>2, <2>3, FS_Subset
      <4>4. IsCount(Count(q), q) /\ p \in SUBSET q /\ p \in SUBSET p
        BY <4>2, <3>2
      <4> HIDE DEF p, q, g
      <4> QED
        BY <4>3, <4>4, CountsAgree
    <3> HIDE DEF g
    <3> QED
      BY <3>3, <3>4, <3>5
  <2>5. IsCount(g, s)
    <3> SUFFICES \A r \in SUBSET s : g[r] = IF r = {} THEN 0
                   ELSE Len(First(r).lines) + g[r \ {First(r)}]
      BY DEF IsCount
    <3> QED
      BY <2>4
  <2> QED
    BY <2>2, <2>5
<1> QED
  BY <1>1 DEF Count

\* The sum takes the blocks one by one, in the order of the choice.
LEMMA LinesStep ==
  ASSUME NEW S, IsFiniteSet(S)
  PROVE  /\ Lines({}) = 0
         /\ S # {} => Lines(S) = Len(First(S).lines) + Lines(S \ {First(S)})
<1>1. Lines({}) = 0
  BY CountExists, FS_EmptySet, LinesIsCount DEF IsCount
<1>2. ASSUME S # {} PROVE Lines(S) = Len(First(S).lines) + Lines(S \ {First(S)})
  <2> DEFINE r == S \ {First(S)}
  <2>1. r \in SUBSET S /\ IsFiniteSet(r)
    BY FS_Subset
  <2>2. IsCount(Count(S), S) /\ IsCount(Count(r), r)
    BY <2>1, CountExists
  <2>3. Count(r)[r] = Count(S)[r]
    BY <2>1, <2>2, CountsAgree
  <2>4. Count(S)[S] = Len(First(S).lines) + Count(S)[r]
    BY <1>2, <2>2 DEF IsCount
  <2> QED
    BY <2>3, <2>4, LinesIsCount
<1> QED
  BY <1>1, <1>2

\* A number of records is a number.
LEMMA LinesTyped ==
  ASSUME NEW S \in SUBSET StoredBlock, IsFiniteSet(S)
  PROVE  Lines(S) \in Nat
<1> DEFINE Bad == {s \in SUBSET S : Lines(s) \notin Nat}
<1> SUFFICES ASSUME Bad # {} PROVE FALSE
  OBVIOUS
<1>1. PICK s \in Bad : \A r \in Bad : r \subseteq s => r = s
  <2>1. Bad \in SUBSET (SUBSET S)
    OBVIOUS
  <2> HIDE DEF Bad
  <2> QED
    BY <2>1, MinimalSet
<1>2. s \in SUBSET S /\ IsFiniteSet(s) /\ Lines(s) \notin Nat
  BY FS_Subset
<1>3. s # {} /\ Lines(s) = Len(First(s).lines) + Lines(s \ {First(s)})
  <2>1. Lines({}) = 0
    BY LinesStep, FS_EmptySet
  <2>2. s # {}
    BY <1>2, <2>1
  <2> QED
    BY <1>2, <2>2, LinesStep
<1>4. First(s) \in s
  BY <1>3 DEF First
<1>5. Len(First(s).lines) \in Nat
  BY <1>2, <1>4, LenProperties DEF StoredBlock
<1>6. Lines(s \ {First(s)}) \in Nat
  BY <1>1, <1>2, <1>4
<1> QED
  BY <1>2, <1>3, <1>5, <1>6

\* The order of the choice does not matter: any block can be counted first.
LEMMA LinesRemove ==
  ASSUME NEW S \in SUBSET StoredBlock, IsFiniteSet(S), NEW b \in S
  PROVE  Lines(S) = Len(b.lines) + Lines(S \ {b})
<1> DEFINE Bad == {s \in SUBSET S : \E c \in s : Lines(s) # Len(c.lines) + Lines(s \ {c})}
<1> SUFFICES ASSUME Bad # {} PROVE FALSE
  OBVIOUS
<1>1. PICK s \in Bad : \A r \in Bad : r \subseteq s => r = s
  <2>1. Bad \in SUBSET (SUBSET S)
    OBVIOUS
  <2> HIDE DEF Bad
  <2> QED
    BY <2>1, MinimalSet
<1>2. PICK c \in s : Lines(s) # Len(c.lines) + Lines(s \ {c})
  OBVIOUS
<1>3. s \in SUBSET S /\ s # {} /\ IsFiniteSet(s) /\ First(s) \in s
  BY <1>2, FS_Subset DEF First
<1> DEFINE f == First(s)
<1>4. Lines(s) = Len(f.lines) + Lines(s \ {f})
  BY <1>3, LinesStep
<1>5. c # f
  BY <1>2, <1>4
<1>6. Lines(s \ {f}) = Len(c.lines) + Lines((s \ {f}) \ {c})
  <2>1. s \ {f} \notin Bad /\ s \ {f} \in SUBSET S
    BY <1>1, <1>3
  <2> QED
    BY <2>1, <1>5
<1>7. Lines(s \ {c}) = Len(f.lines) + Lines((s \ {c}) \ {f})
  <2>1. s \ {c} \notin Bad /\ s \ {c} \in SUBSET S
    BY <1>1, <1>3
  <2> QED
    BY <2>1, <1>3, <1>5
<1> DEFINE rest == (s \ {f}) \ {c}
<1>8. /\ (s \ {c}) \ {f} = rest
      /\ rest \in SUBSET S
  BY <1>3
<1>9. Lines(rest) \in Nat
  BY <1>8, LinesTyped, FS_Subset
<1>10. Len(c.lines) \in Nat /\ Len(f.lines) \in Nat
  BY <1>3, LenProperties DEF StoredBlock
<1>11. Lines(s \ {c}) = Len(f.lines) + Lines(rest)
  BY <1>7, <1>8
<1> HIDE DEF rest
<1>12. Lines(s) = Len(f.lines) + (Len(c.lines) + Lines(rest))
  BY <1>4, <1>6 DEF rest
<1> HIDE DEF f
<1> QED
  BY <1>2, <1>9, <1>10, <1>11, <1>12

\* Another block adds its records to the count.
LEMMA LinesAdd ==
  ASSUME NEW S \in SUBSET StoredBlock, IsFiniteSet(S), NEW b \in StoredBlock, b \notin S
  PROVE  Lines(S \cup {b}) = Lines(S) + Len(b.lines)
<1>1. /\ IsFiniteSet(S \cup {b}) /\ S \cup {b} \in SUBSET StoredBlock
      /\ (S \cup {b}) \ {b} = S
  BY FS_AddElement
<1>2. Lines(S) \in Nat /\ Len(b.lines) \in Nat
  BY LinesTyped, LenProperties DEF StoredBlock
<1> QED
  BY <1>1, <1>2, LinesRemove

-----------------------------------------------------------------------------
(* The walk over the blocks *)

\* A block written at the end of the file that goes on with the numbers of the
\* others keeps the whole counted.
LEMMA BlockIsCounted ==
  ASSUME StoreInv, WalkInStep, writer.state = "open",
         NEW lines \in Seq(Nat), lines # <<>>, NEW body \in BodySizes,
         \A i \in DOMAIN lines : lines[i] = Lines(pages.blocks) + i - 1
  PROVE  LET S == BlockWritten(pages, lines, body).blocks
         IN  /\ IsFiniteSet(S)
             /\ CountedIn(S)
             /\ Lines(S) = Lines(pages.blocks) + Len(lines)
<1> DEFINE new == [at |-> pages.size, body |-> body, lines |-> lines]
           old == pages.blocks
           S == old \cup {new}
<1>1. BlockWritten(pages, lines, body).blocks = S
  BY BlockFacts DEF StoreInv, StoreTypeOK
<1>2. /\ old \subseteq StoredBlock /\ new \in StoredBlock /\ IsFiniteSet(old)
      /\ pages.size \in Nat
  BY DEF StoreInv, StoreTypeOK, PagesFile, StoredBlock, WalkInStep
<1>3. \A c \in old : c.at < new.at
  <2>1. \A c \in old : c.at + 2 + c.body <= pages.size
    BY DEF StoreInv, WriterInStep, BlocksFit
  <2>2. \A c \in old : c.at \in Nat /\ c.body \in Nat
    BY <1>2 DEF StoredBlock
  <2>3. new.at = pages.size
    OBVIOUS
  <2> HIDE DEF new, old
  <2> QED
    BY <2>1, <2>2, <2>3, <1>2
<1>4. new.at \in Nat /\ \A c \in old : c.at \in Nat
  BY <1>2 DEF StoredBlock
<1>5. /\ {c \in S : c.at < new.at} = old
      /\ \A b \in old : {c \in S : c.at < b.at} = {c \in old : c.at < b.at}
  <2> HIDE DEF new, old
  <2> QED
    BY <1>3, <1>4
<1>6. new \notin old
  <2> HIDE DEF new, old
  <2> QED
    BY <1>3, <1>4
<1>7. new.lines = lines
  OBVIOUS
<1>8. IsFiniteSet(S) /\ Lines(S) = Lines(old) + Len(lines)
  <2> HIDE DEF new, old
  <2> QED
    BY <1>2, <1>6, <1>7, LinesAdd, FS_AddElement
<1>9. CountedIn(S)
  <2>1. CountedIn(old)
    BY DEF WalkInStep
  <2>2. \A i \in DOMAIN new.lines : new.lines[i] = Lines(old) + i - 1
    BY <1>7
  <2> HIDE DEF new, old
  <2>3. ASSUME NEW b \in S, NEW i \in DOMAIN b.lines
        PROVE  b.lines[i] = Lines({c \in S : c.at < b.at}) + i - 1
    <3>1. CASE b \in old
      BY <3>1, <2>1, <2>3, <1>5 DEF CountedIn
    <3>2. CASE b = new
      BY <3>2, <2>2, <2>3, <1>5
    <3> QED
      BY <3>1, <3>2
  <2> HIDE DEF S
  <2> QED
    BY <2>3 DEF CountedIn
<1> HIDE DEF S, new
<1> QED
  BY <1>1, <1>8, <1>9

\* The next record has the next number.
LEMMA FilledCounts ==
  ASSUME StoreInv, WalkInStep, writer.state = "open", NEW size \in RecordSizes
  PROVE  LET f == Filled(size)
         IN  /\ f.pending \in Seq(Nat) /\ f.pending # <<>> /\ f.state = "open"
             /\ f.docs = Lines(pages.blocks) + Len(f.pending)
             /\ \A i \in DOMAIN f.pending :
                  f.pending[i] = Lines(pages.blocks) + i - 1
<1> DEFINE n == Lines(pages.blocks)
           p == writer.pending
           f == Filled(size)
<1>1. /\ writer \in StoreWriter /\ p \in Seq(Nat) /\ writer.docs \in Nat
      /\ pages.blocks \in SUBSET StoredBlock
  BY DEF StoreInv, StoreTypeOK, StoreWriter, PagesFile
<1>2. /\ f.pending = Append(p, writer.docs) /\ f.docs = writer.docs + 1
      /\ f.state = "open"
  BY <1>1 DEF Filled, StoreWriter
<1>3. /\ n \in Nat /\ writer.docs = n + Len(p)
      /\ \A i \in DOMAIN p : p[i] = n + i - 1
  BY <1>1, LinesTyped DEF WalkInStep
<1> HIDE DEF n, p, f
<1>4. /\ Len(p) \in Nat /\ DOMAIN p = 1..Len(p)
      /\ f.pending \in Seq(Nat) /\ f.pending # <<>>
      /\ Len(f.pending) = Len(p) + 1 /\ DOMAIN f.pending = 1..(Len(p) + 1)
      /\ f.pending[Len(p) + 1] = writer.docs
      /\ \A i \in 1..Len(p) : f.pending[i] = p[i]
  BY <1>1, <1>2
<1>5. ASSUME NEW i \in DOMAIN f.pending PROVE f.pending[i] = n + i - 1
  <2>1. CASE i = Len(p) + 1
    BY <2>1, <1>3, <1>4
  <2>2. CASE i \in 1..Len(p)
    BY <2>2, <1>3, <1>4
  <2> QED
    BY <1>4, <1>5, <2>1, <2>2
<1>6. f.docs = n + Len(f.pending)
  BY <1>2, <1>3, <1>4
<1> QED
  BY <1>2, <1>4, <1>5, <1>6 DEF f, n

\* An empty store is counted.
LEMMA NothingCounted == IsFiniteSet({}) /\ CountedIn({}) /\ Lines({}) = 0
BY FS_EmptySet, LinesStep DEF CountedIn

\* Wherever the process ends, the blocks are those of a counted file.
LEMMA StopCounts ==
  ASSUME NEW p \in PagesFile, NEW i, StopAt(p, i),
         IsFiniteSet(p.blocks), CountedIn(p.blocks)
  PROVE  WalkInStep'
<1>1. PICK how \in {"killed", "failed"} :
        /\ \E k \in Left(p, how) : pages' = [p EXCEPT !.size = k, !.kept = k]
        /\ writer' = [NewWriter EXCEPT !.state = how]
  BY DEF StopAt
<1>2. pages'.blocks = p.blocks
  BY <1>1 DEF PagesFile
<1>3. writer'.state # "open"
  BY <1>1 DEF NewWriter
<1> QED
  BY <1>2, <1>3 DEF WalkInStep, CountedIn

\* push numbers its record and may write the pending block.
LEMMA PushCounts ==
  ASSUME StoreInv, WalkInStep, NEW size \in RecordSizes, NEW body \in BodySizes,
         Push(size, body)
  PROVE  WalkInStep'
<1> DEFINE f == Filled(size)
<1>1. writer.state = "open"
  BY DEF Push
<1>2. /\ f.pending \in Seq(Nat) /\ f.pending # <<>> /\ f.state = "open"
      /\ f.docs = Lines(pages.blocks) + Len(f.pending)
      /\ \A i \in DOMAIN f.pending : f.pending[i] = Lines(pages.blocks) + i - 1
  BY <1>1, FilledCounts
<1>3. IsFiniteSet(pages.blocks) /\ CountedIn(pages.blocks)
  BY DEF WalkInStep
<1>4. f \in StoreWriter
  BY <1>1, FilledPlaces
<1>5. CASE ~Full(size)
  <2>1. writer' = f /\ pages' = pages
    BY <1>5 DEF Push
  <2> HIDE DEF f
  <2> QED
    BY <2>1, <1>2, <1>3 DEF WalkInStep
<1>6. CASE Full(size)
  <2>1. writer' = Cleared(f, body) /\ pages' = BlockWritten(pages, f.pending, body)
    BY <1>6 DEF Push
  <2> HIDE DEF f
  <2>2. /\ IsFiniteSet(pages'.blocks) /\ CountedIn(pages'.blocks)
        /\ Lines(pages'.blocks) = Lines(pages.blocks) + Len(f.pending)
    BY <2>1, <1>1, <1>2, BlockIsCounted
  <2>3. writer'.pending = <<>> /\ writer'.docs = f.docs
    BY <2>1, <1>4 DEF Cleared, StoreWriter
  <2>4. /\ Len(<<>>) = 0 /\ DOMAIN <<>> = {}
        /\ Lines(pages.blocks) + Len(f.pending) \in Nat
    <3>1. f.docs \in Nat
      BY <1>4 DEF StoreWriter
    <3> QED
      BY <3>1, <1>2
  <2>5. writer'.docs = Lines(pages'.blocks) + Len(writer'.pending)
    BY <2>2, <2>3, <2>4, <1>2
  <2>6. \A i \in DOMAIN writer'.pending : FALSE
    BY <2>3, <2>4
  <2> QED
    BY <2>2, <2>5, <2>6 DEF WalkInStep
<1> QED
  BY <1>5, <1>6

\* finish writes the pending block if there is one.
LEMMA LastBlockCounts ==
  ASSUME StoreInv, WalkInStep, writer.state = "open", NEW body \in BodySizes
  PROVE  LET p == BlockWritten(pages, writer.pending, body)
         IN  p \in PagesFile /\ IsFiniteSet(p.blocks) /\ CountedIn(p.blocks)
<1> DEFINE p == BlockWritten(pages, writer.pending, body)
<1>1. p \in PagesFile
  BY LastBlock
<1>2. CASE writer.pending = <<>>
  <2>1. p = pages
    BY <1>2 DEF BlockWritten
  <2> HIDE DEF p
  <2> QED
    BY <2>1, <1>1 DEF WalkInStep, p
<1>3. CASE writer.pending # <<>>
  <2>1. writer.pending \in Seq(Nat)
    BY DEF StoreInv, StoreTypeOK, StoreWriter
  <2>2. \A i \in DOMAIN writer.pending :
          writer.pending[i] = Lines(pages.blocks) + i - 1
    BY DEF WalkInStep
  <2> QED
    BY <2>1, <2>2, <1>1, <1>3, BlockIsCounted
<1> QED
  BY <1>2, <1>3

\* Every step of the store keeps its blocks counted.
LEMMA WalkNextInv == WalkStoreInv /\ [StoreNext]_storeVars => WalkInStep'
<1> SUFFICES ASSUME StoreInv, WalkInStep, [StoreNext]_storeVars PROVE WalkInStep'
  BY DEF WalkStoreInv
<1>1. /\ pages \in PagesFile /\ pages.kept <= pages.size
      /\ IsFiniteSet(pages.blocks) /\ CountedIn(pages.blocks)
  BY DEF StoreInv, StoreTypeOK, WalkInStep
<1>2. CASE Create
  <2>1. pages'.blocks = {} /\ writer' = NewWriter
    BY <1>2, NewFiles DEF Create, StoreInv
  <2>2. /\ writer'.docs = 0 /\ writer'.pending = <<>>
        /\ Len(<<>>) = 0 /\ DOMAIN <<>> = {}
    BY <2>1 DEF NewWriter
  <2>3. writer'.docs = Lines(pages'.blocks) + Len(writer'.pending)
    BY <2>1, <2>2, NothingCounted
  <2>4. \A i \in DOMAIN writer'.pending : FALSE
    BY <2>2
  <2>5. IsFiniteSet(pages'.blocks) /\ CountedIn(pages'.blocks)
    BY <2>1, NothingCounted
  <2> QED
    BY <2>3, <2>4, <2>5 DEF WalkInStep
<1>3. CASE CreateStops
  <2>1. /\ Emptied(pages) \in PagesFile /\ Emptied(pages).blocks = pages.blocks
        /\ NewPages \in PagesFile /\ NewPages.blocks = {}
    BY <1>1, NewFiles DEF StoreInv, Emptied, PagesFile
  <2>2. \/ StopAt(Emptied(pages), idx)
        \/ StopAt(NewPages, Emptied(idx))
        \/ StopAt(NewPages, NewIndex)
    BY <1>3 DEF CreateStops
  <2>3. CASE StopAt(Emptied(pages), idx)
    BY <2>1, <2>3, <1>1, StopCounts
  <2>4. IsFiniteSet(NewPages.blocks) /\ CountedIn(NewPages.blocks)
    BY <2>1, NothingCounted
  <2> QED
    BY <2>1, <2>2, <2>3, <2>4, StopCounts
<1>4. ASSUME NEW size \in RecordSizes, PushStops(size) PROVE WalkInStep'
  <2>1. PICK p \in {pages, Write(pages, 1), LengthsWritten(pages)},
             i \in {idx, Write(idx, 2), EntryWritten} : StopAt(p, i)
    BY <1>4 DEF PushStops
  <2>2. p \in PagesFile /\ p.blocks = pages.blocks
    BY <1>1, LengthsFacts
  <2> QED
    BY <2>1, <2>2, <1>1, StopCounts
<1>5. ASSUME NEW size \in RecordSizes, NEW body \in BodySizes, Push(size, body)
      PROVE  WalkInStep'
  BY <1>5, PushCounts
<1>6. ASSUME NEW body \in BodySizes, Finish(body) PROVE WalkInStep'
  <2> DEFINE p == BlockWritten(pages, writer.pending, body)
  <2>1. /\ writer.state = "open" /\ pages' = Flush(p)
        /\ writer' = [NewWriter EXCEPT !.state = "finished"]
    BY <1>6 DEF Finish
  <2>2. p \in PagesFile /\ IsFiniteSet(p.blocks) /\ CountedIn(p.blocks)
    BY <2>1, LastBlockCounts
  <2> HIDE DEF p
  <2>3. pages'.blocks = p.blocks
    BY <2>1, <2>2, FlushPages
  <2>4. writer'.state # "open"
    BY <2>1 DEF NewWriter
  <2> QED
    BY <2>2, <2>3, <2>4 DEF WalkInStep
<1>7. ASSUME NEW body \in BodySizes, FinishStops(body) PROVE WalkInStep'
  <2> DEFINE p == BlockWritten(pages, writer.pending, body)
  <2>1. writer.state = "open"
    BY <1>7 DEF FinishStops
  <2>2. PICK q \in {Write(pages, 1), LengthsWritten(pages), p, Flush(p)},
             i \in {idx, Flush(idx)} : StopAt(q, i)
    BY <1>7 DEF FinishStops
  <2>3. p \in PagesFile /\ IsFiniteSet(p.blocks) /\ CountedIn(p.blocks)
    BY <2>1, LastBlockCounts
  <2> HIDE DEF p
  <2>4. /\ q \in PagesFile
        /\ q.blocks = pages.blocks \/ q.blocks = p.blocks
    BY <2>2, <2>3, <1>1, LengthsFacts, FlushPages
  <2> QED
    BY <2>2, <2>3, <2>4, <1>1, StopCounts
<1>8. CASE pages' = pages /\ writer' = writer
  BY <1>8 DEF WalkInStep, CountedIn
<1>9. Open \/ UNCHANGED storeVars => pages' = pages /\ writer' = writer
  BY DEF Open, storeVars
<1> QED
  BY <1>2, <1>3, <1>4, <1>5, <1>6, <1>7, <1>8, <1>9 DEF StoreNext

\* The blocks stay counted, for any number and size of records and blocks.
THEOREM WalkInvariant == StoreSpec => []WalkInStep
<1>1. StoreInit => WalkInStep
  BY NothingCounted DEF StoreInit, WalkInStep, NewWriter
<1>2. WalkInStep /\ StoreInv /\ [StoreNext]_storeVars => WalkInStep'
  BY WalkNextInv DEF WalkStoreInv
<1> QED
  BY <1>1, <1>2, StoreInvariant, PTL DEF StoreSpec

\* The walk of records() gives every document the id that get knows it by.
THEOREM TheWalkAgrees == StoreSpec => []WalkAgrees
<1>1. WalkInStep => WalkAgrees
  BY DEF WalkInStep, CountedIn, WalkAgrees, Position
<1> QED
  BY <1>1, WalkInvariant, PTL

=============================================================================
