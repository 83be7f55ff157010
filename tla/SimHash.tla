------------------------------- MODULE SimHash -------------------------------
(***************************************************************************)
(* Telling near-duplicates apart (simhash.rs).  A fingerprint is the set   *)
(* of its bits that are one; the empty one stands for a text without       *)
(* words.  What has been seen is a sequence; the buckets that the code     *)
(* keeps, one map per block from the value of the block to positions, are  *)
(* read off it.                                                            *)
(***************************************************************************)
EXTENDS Integers, SequencesExt, FiniteSets

CONSTANTS Blocks,      \* parts a fingerprint is looked up by (8)
          BlockBits,   \* bits in each (8)
          Threshold,   \* bits by which near-duplicates may differ (6)
          Shingle,     \* words hashed together (3)
          HashOf       \* the fingerprint of each run of words

\* with_threshold refuses a threshold for which the lookup would miss.
ASSUME SimHashAssumption ==
  /\ Blocks \in Nat /\ BlockBits \in Nat /\ Threshold \in Nat
  /\ Threshold < Blocks

Bits == 0..(Blocks * BlockBits - 1)

Fingerprints == SUBSET Bits

NoWords == {}

------------------------------------------------------------------------------
(***************************************************************************)
(* The fingerprint of a text: a bit is one when most runs of its words     *)
(* hash to a one there.  A text shorter than a run is one run.             *)
(***************************************************************************)
Runs(words) ==
  IF Len(words) < Shingle THEN <<words>>
  ELSE [i \in 1..(Len(words) - Shingle + 1) |-> SubSeq(words, i, i + Shingle - 1)]

Column(runs, bit) == Cardinality({i \in DOMAIN runs : bit \in HashOf[runs[i]]})

Fingerprint(words) ==
  IF words = <<>> THEN NoWords
  ELSE LET runs == Runs(words) IN {bit \in Bits : 2 * Column(runs, bit) > Len(runs)}

Differing(f, g) == (f \ g) \cup (g \ f)

Distance(f, g) == Cardinality(Differing(f, g))

------------------------------------------------------------------------------
(***************************************************************************)
(* What has been seen.  Only a fingerprint that has a block in common is   *)
(* compared.                                                               *)
(***************************************************************************)
BlockOf(bit) == bit \div BlockBits

\* The value of a block, its bits left where they are.
Block(f, index) == {bit \in f : BlockOf(bit) = index}

\* A bug: the last block is not looked at.
CandidatesButLast(seen, f) ==
  {p \in DOMAIN seen : \E index \in 0..(Blocks - 2) : Block(seen[p], index) = Block(f, index)}

\* The positions in the buckets that a fingerprint falls in.
Candidates(seen, f) ==
  {p \in DOMAIN seen : \E index \in 0..(Blocks - 1) : Block(seen[p], index) = Block(f, index)}

\* The fingerprints seen that are near, none to the fingerprint of no words.
\* (The code returns the one it comes to first; its callers ask only whether.)
Near(seen, f) ==
  IF f = NoWords THEN {}
  ELSE {seen[p] : p \in {p \in Candidates(seen, f) : Distance(f, seen[p]) <= Threshold}}

Insert(seen, f) == IF f = NoWords THEN seen ELSE Append(seen, f)

InsertUnlessDuplicate(seen, f) == IF Near(seen, f) # {} THEN seen ELSE Insert(seen, f)
=============================================================================
