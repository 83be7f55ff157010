------------------------------ MODULE Postings ------------------------------
(***************************************************************************)
(* How the postings of a term become bytes and are read back (codec.rs,    *)
(* postings.rs).  Bytes are a sequence of cells.  A cell is what one write *)
(* puts down: a varint, a single byte, or the packed part of a block; it   *)
(* knows its value and how many bytes it takes, because the reader's       *)
(* guards compare counts with bytes.                                       *)
(***************************************************************************)
EXTENDS Integers, SequencesExt, FiniteSetsExt

CONSTANTS Block,          \* values in a packed block (128)
          MaxExceptions,  \* values of a block that may be patched (12)
          PositionGroup,  \* documents in a group of positions (128)
          FieldCount      \* fields of a document; the body is field 0 (5)

Fields == 0..(FieldCount - 1)

MaxBits == 30   \* the code's integers have 32 bits; those of a model stay below

BitsNeeded(value) == Min({b \in 0..MaxBits : value < 2^b})

Varint(value) == [value |-> value, bytes |-> Min({n \in 1..5 : n = 5 \/ value < 128^n})]

Byte(value) == [value |-> value, bytes |-> 1]

\* The sums of a sequence's first members, which undo its gaps.
Sums(gaps) ==
  LET sum[i \in DOMAIN gaps] == IF i = 1 THEN gaps[1] ELSE sum[i - 1] + gaps[i]
  IN  sum

Total(numbers) == IF numbers = <<>> THEN 0 ELSE Sums(numbers)[Len(numbers)]

Size(cells) == Total([i \in DOMAIN cells |-> cells[i].bytes])

------------------------------------------------------------------------------
(***************************************************************************)
(* PForDelta.  A whole block is packed at the narrowest width that leaves  *)
(* at most MaxExceptions of its values over; those are packed as zero and  *)
(* written out after the block with their places.  What is left when there *)
(* is no whole block more is written as varints.                           *)
(***************************************************************************)
Over(block, bits) == {i \in 1..Block : BitsNeeded(block[i]) > bits}

PforWidth(block) ==
  Min({bits \in 0..MaxBits : Cardinality(Over(block, bits)) <= MaxExceptions})

\* The packed part of a block: the places of the bits that are set.
Pack(values, bits) ==
  [value |-> UNION {{bits * (i - 1) + b : b \in {c \in 0..(MaxBits - 1) : (values[i] \div 2^c) % 2 = 1}} :
                    i \in 1..Block},
   bytes |-> (Block * bits + 7) \div 8]

Unpack(cell, bits) ==
  [i \in 1..Block |-> SumSet({2^b : b \in {c \in 0..(bits - 1) : bits * (i - 1) + c \in cell.value}})]

Kept(block, over) == [i \in 1..Block |-> IF i \in over THEN 0 ELSE block[i]]

Patches(block, places) ==
  FlattenSeq([k \in DOMAIN places |-> <<Byte(places[k] - 1), Varint(block[places[k]])>>])

BlockOf(block, bits, over) ==
  <<Byte(bits), Byte(Cardinality(over))>>
    \o (IF bits = 0 THEN <<>> ELSE <<Pack(Kept(block, over), bits)>>)
    \o Patches(block, SetToSortSeq(over, <))

EncodeBlock(block) == LET bits == PforWidth(block) IN BlockOf(block, bits, Over(block, bits))

EncodeStream(values) ==
  LET whole == Len(values) \div Block
  IN  FlattenSeq([k \in 1..whole |-> EncodeBlock(SubSeq(values, (k - 1) * Block + 1, k * Block))])
        \o [k \in 1..(Len(values) % Block) |-> Varint(values[whole * Block + k])]

\* One block off the input at `at`: where the next thing starts, and the values.
DecodeBlock(input, at) ==
  LET bits   == input[at].value
      count  == input[at + 1].value
      packed == IF bits = 0 THEN [i \in 1..Block |-> 0] ELSE Unpack(input[at + 2], bits)
      first  == IF bits = 0 THEN at + 2 ELSE at + 3
      patches == {k \in 1..count : TRUE}
      place(k) == input[first + 2 * (k - 1)].value + 1
  IN  [at |-> first + 2 * count,
       values |-> [i \in 1..Block |->
                     IF \E k \in patches : place(k) = i
                     THEN input[first + 2 * (CHOOSE k \in patches : place(k) = i) - 1].value
                     ELSE packed[i]]]

NextBlock(read, block) == [at |-> block.at, values |-> read.values \o block.values]

ReadTail(input, read, tail) ==
  [at |-> read.at + tail, values |-> read.values \o [k \in 1..tail |-> input[read.at + k - 1].value]]

DecodeStream(input, at, count) ==
  ReadTail(input,
           FoldLeft(LAMBDA read, k : NextBlock(read, DecodeBlock(input, read.at)),
                    [at |-> at, values |-> <<>>], [k \in 1..(count \div Block) |-> k]),
           count % Block)

------------------------------------------------------------------------------
(***************************************************************************)
(* A posting: a document, how often the term is in each of its fields, and *)
(* at which positions.  Positions are as many as the counts add up to, and *)
(* the body's count is what the other fields do not account for, so        *)
(* neither is written.                                                     *)
(***************************************************************************)
CountTotal(counts) == Total([i \in 1..FieldCount |-> counts[i - 1]])

OtherFields(counts) == {f \in Fields \ {0} : counts[f] > 0}

Gaps(numbers) == [i \in DOMAIN numbers |-> IF i = 1 THEN numbers[1] ELSE numbers[i] - numbers[i - 1]]

Frequency(counts) ==
  2 * CountTotal(counts) + (IF OtherFields(counts) = {} THEN 0 ELSE 1)

FieldDetail(counts) ==
  LET others == SetToSortSeq(OtherFields(counts), <)
  IN  IF others = <<>> THEN <<>>
      ELSE <<Byte(OtherFields(counts))>> \o [k \in DOMAIN others |-> Varint(counts[others[k]])]

\* The members of group k of a list: positions are cut into groups of
\* PositionGroup documents that can be decoded each on its own.
GroupCount(documents) == (documents + PositionGroup - 1) \div PositionGroup

GroupMembers(list, k) ==
  SubSeq(list, (k - 1) * PositionGroup + 1, Min({k * PositionGroup, Len(list)}))

EncodeGroup(members) ==
  EncodeStream(FlattenSeq([i \in DOMAIN members |-> Gaps(members[i].positions)]))

\* The groups, behind the table of their sizes.
Tabled(groups) ==
  <<Varint(Len(groups))>> \o [k \in DOMAIN groups |-> Varint(Size(groups[k]))] \o FlattenSeq(groups)

EncodeList(list) ==
  <<Varint(Len(list))>>
    \o (IF list = <<>> THEN <<>>
        ELSE EncodeStream(Gaps([i \in DOMAIN list |-> list[i].doc]))
               \o EncodeStream([i \in DOMAIN list |-> Frequency(list[i].counts)])
               \o FlattenSeq([i \in DOMAIN list |-> FieldDetail(list[i].counts)])
               \o Tabled([k \in 1..GroupCount(Len(list)) |-> EncodeGroup(GroupMembers(list, k))]))

------------------------------------------------------------------------------
(***************************************************************************)
(* Reading.  A refusal is the record [error |-> TRUE].  The first guard    *)
(* refuses a list that claims more documents than it has bytes left, the   *)
(* last a group that claims more positions than its bytes have bits.       *)
(***************************************************************************)
Refused == [error |-> TRUE]

\* Field detail of one posting read at `at`.
ReadDetail(input, at, packed) ==
  LET total  == packed \div 2
      others == IF packed % 2 = 1 THEN SetToSortSeq(input[at].value, <) ELSE <<>>
      value(f) == input[at + (CHOOSE k \in DOMAIN others : others[k] = f)].value
      spent  == Total([k \in DOMAIN others |-> input[at + k].value])
  IN  [at |-> IF others = <<>> THEN at ELSE at + 1 + Len(others),
       counts |-> [f \in Fields |-> IF f = 0 THEN total - spent
                                    ELSE IF f \in ToSet(others) THEN value(f) ELSE 0]]

TooManyDocuments(input) == input[1].value > Size(Tail(input)) + 1

NextHead(read, doc, detail) ==
  [read EXCEPT !.at = detail.at, !.heads = Append(@, [doc |-> doc, counts |-> detail.counts])]

\* The postings' documents and counts, once both streams are unpacked.
Heads(input, docs, packed) ==
  FoldLeft(LAMBDA read, i : NextHead(read, docs[i], ReadDetail(input, read.at, packed.values[i])),
           [error |-> FALSE, at |-> packed.at, heads |-> <<>>], [i \in DOMAIN docs |-> i])

HeadsAfter(input, gaps) ==
  Heads(input, Sums(gaps.values), DecodeStream(input, gaps.at, Len(gaps.values)))

DecodeHeads(input) ==
  IF input[1].value = 0 THEN [error |-> FALSE, at |-> 2, heads |-> <<>>]
  ELSE IF TooManyDocuments(input) THEN Refused
  ELSE HeadsAfter(input, DecodeStream(input, 2, input[1].value))

\* Where each group's cells lie, from the table of their sizes in bytes: the
\* groups follow each other, so a size says where the next one starts.
GroupCells(input, first, size) ==
  LET last == CHOOSE n \in (first - 1)..Len(input) : Size(SubSeq(input, first, n)) = size
  IN  SubSeq(input, first, last)

NextGroup(read, cells) == [at |-> read.at + Len(cells), groups |-> Append(read.groups, cells)]

\* The groups behind the table of `count` sizes at `at`.
Groups(input, at, count) ==
  FoldLeft(LAMBDA read, k : NextGroup(read, GroupCells(input, read.at, input[at + k].value)),
           [at |-> at + 1 + count, groups |-> <<>>], [k \in 1..count |-> k]).groups

ListFrom(input, heads, count) ==
  IF heads.error THEN Refused
  ELSE IF heads.heads = <<>> THEN [error |-> FALSE, heads |-> <<>>, groups |-> <<>>]
  ELSE IF input[heads.at].value # count THEN Refused
  ELSE [error |-> FALSE, heads |-> heads.heads, groups |-> Groups(input, heads.at, count)]

DecodeList(input) == ListFrom(input, DecodeHeads(input), GroupCount(input[1].value))

TooManyPositions(cells, expected) == expected > 8 * Size(cells) + 8

\* One document's positions, from the only group that is decoded for it.
PositionsIn(cells, wanted, index) ==
  IF TooManyPositions(cells, Total(wanted)) THEN Refused
  ELSE LET skip == Total(SubSeq(wanted, 1, index - 1))
       IN  [error |-> FALSE,
            positions |-> Sums(SubSeq(DecodeStream(cells, 1, Total(wanted)).values, skip + 1, skip + wanted[index]))]

Positions(list, index) ==
  LET group == (index - 1) \div PositionGroup + 1
      heads == GroupMembers(list.heads, group)
  IN  PositionsIn(list.groups[group], [i \in DOMAIN heads |-> CountTotal(heads[i].counts)],
                  index - (group - 1) * PositionGroup)

WithPositions(heads, read) ==
  IF \E i \in DOMAIN read : read[i].error THEN Refused
  ELSE [error |-> FALSE,
        postings |-> [i \in DOMAIN read |-> [doc |-> heads[i].doc, counts |-> heads[i].counts,
                                             positions |-> read[i].positions]]]

Whole(list) ==
  IF list.error THEN Refused
  ELSE WithPositions(list.heads, [i \in DOMAIN list.heads |-> Positions(list, i)])

Decode(input) == Whole(DecodeList(input))
=============================================================================
