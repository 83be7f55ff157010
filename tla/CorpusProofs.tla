---------------------------- MODULE CorpusProofs ----------------------------
(***************************************************************************)
(* Theorems about what a crawl keeps, and about the link graph and the     *)
(* anchor texts of what it kept.                                           *)
(*                                                                         *)
(* Near-duplicates, for fingerprints of any number of blocks of any width, *)
(* any threshold below the number of blocks, any hash and any pages: the   *)
(* argument is the pigeonhole of simhash.rs, fewer differing bits than     *)
(* blocks leave one block alone.                                           *)
(*                                                                         *)
(* Votes and names, for any pages, any public suffixes and any limits:     *)
(* both are folds over the links of the records, so each is followed       *)
(* through the subsets of the indices that it goes by (FoldTheorems).      *)
(*                                                                         *)
(* Authority, for any number of rounds: trust is counted in so many parts  *)
(* that no round has a rest (the section on it says how).                  *)
(***************************************************************************)
EXTENDS Corpus, FoldTheorems

USE SimHashAssumption DEF SimHashAssumption

-----------------------------------------------------------------------------
(* Fingerprints *)

\* A set of bits is finite.
LEMMA BitsFinite == ASSUME NEW S \in SUBSET Bits PROVE IsFiniteSet(S)
<1>1. Blocks * BlockBits - 1 \in Int
  BY SMT
<1>2. IsFiniteSet(Bits)
  BY <1>1, FS_Interval DEF Bits
<1> QED BY <1>2, FS_Subset

\* The differing bits fall in no more blocks than there are of them.
LEMMA BlocksTouched ==
  ASSUME NEW D \in SUBSET Bits
  PROVE  /\ IsFiniteSet({BlockOf(bit) : bit \in D})
         /\ Cardinality({BlockOf(bit) : bit \in D}) <= Cardinality(D)
<1> DEFINE T == {BlockOf(bit) : bit \in D}
           touch == [bit \in D |-> BlockOf(bit)]
<1>1. touch \in Surjection(D, T)
  BY DEF Surjection
<1>2. IsFiniteSet(D)
  BY BitsFinite
<1> QED BY <1>1, <1>2, FS_Surjection

\* Fingerprints that are near have a block in common.
LEMMA CommonBlock ==
  ASSUME NEW f \in Fingerprints, NEW g \in Fingerprints, Distance(f, g) <= Threshold
  PROVE  \E index \in 0..(Blocks - 1) : Block(f, index) = Block(g, index)
<1> DEFINE D == Differing(f, g)
           T == {BlockOf(bit) : bit \in D}
           All == 0..(Blocks - 1)
<1>1. D \in SUBSET Bits
  BY DEF Differing, Fingerprints
<1>2. /\ IsFiniteSet(T) /\ Cardinality(T) <= Cardinality(D)
      /\ IsFiniteSet(D) /\ Cardinality(D) \in Nat /\ Cardinality(T) \in Nat
  BY <1>1, BitsFinite, BlocksTouched, FS_CardinalityType
<1>3. Cardinality(All) = Blocks
  BY FS_Interval
<1>4. ~ (All \subseteq T)
  <2>1. SUFFICES ASSUME All \subseteq T PROVE FALSE
    OBVIOUS
  <2>2. Cardinality(All) <= Cardinality(T)
    BY <1>2, <2>1, FS_Subset
  <2>3. Cardinality(D) <= Threshold
    BY DEF Distance
  <2> QED BY <1>2, <1>3, <2>2, <2>3
<1>5. PICK index \in All : index \notin T
  BY <1>4
<1>6. Block(f, index) = Block(g, index)
  <2>1. ASSUME NEW bit, BlockOf(bit) = index PROVE bit \in f <=> bit \in g
    <3>1. bit \notin D
      BY <1>5, <2>1
    <3> QED BY <3>1 DEF Differing
  <2> QED BY <2>1 DEF Block
<1> QED BY <1>5, <1>6

-----------------------------------------------------------------------------
(* What has been seen *)

Prints == Fingerprints \ {NoWords}

\* Looking by blocks finds what looking at everything would.
LEMMA NearIsExact ==
  ASSUME NEW s \in Seq(Prints), NEW f \in Prints
  PROVE  Near(s, f) = {g \in ToSet(s) : Distance(f, g) <= Threshold}
<1>1. ASSUME NEW p \in DOMAIN s, Distance(f, s[p]) <= Threshold PROVE p \in Candidates(s, f)
  <2>1. s[p] \in Fingerprints /\ f \in Fingerprints
    BY DEF Prints
  <2>2. PICK index \in 0..(Blocks - 1) : Block(f, index) = Block(s[p], index)
    BY <1>1, <2>1, CommonBlock
  <2> QED BY <2>2 DEF Candidates
<1>2. Near(s, f) = {s[p] : p \in {p \in Candidates(s, f) : Distance(f, s[p]) <= Threshold}}
  BY DEF Near, Prints
<1>3. Candidates(s, f) \subseteq DOMAIN s
  BY DEF Candidates
<1>4. ToSet(s) = {s[p] : p \in DOMAIN s}
  BY DEF ToSet
<1> QED BY <1>1, <1>2, <1>3, <1>4

\* Two fingerprints are as far apart either way.
LEMMA DistanceSymmetric == ASSUME NEW f, NEW g PROVE Distance(f, g) = Distance(g, f)
<1>1. Differing(f, g) = Differing(g, f)
  BY DEF Differing
<1> QED BY <1>1 DEF Distance

\* Distances are numbers.
LEMMA DistanceInt ==
  ASSUME NEW f \in Fingerprints, NEW g \in Fingerprints PROVE Distance(f, g) \in Nat
<1>1. Differing(f, g) \in SUBSET Bits
  BY DEF Differing, Fingerprints
<1> QED BY <1>1, BitsFinite, FS_CardinalityType DEF Distance

\* What is computed of words is a fingerprint.
LEMMA FingerprintType == ASSUME NEW words PROVE Fingerprint(words) \in Fingerprints
<1>1. {} \in Fingerprints
  BY DEF Fingerprints
<1>2. {bit \in Bits : 2 * Column(Runs(words), bit) > Len(Runs(words))} \in Fingerprints
  BY DEF Fingerprints
<1> QED BY <1>1, <1>2 DEF Fingerprint, NoWords

SeenOK == seen \in Seq(Prints)

SeenInv == SeenOK /\ KeptApart

\* Inserting into the seen set keeps what SeenInv says of it.
LEMMA InsertKeeps ==
  ASSUME SeenInv, NEW f \in Fingerprints
  PROVE  LET s == InsertUnlessDuplicate(seen, f)
         IN  /\ s \in Seq(Prints)
             /\ \A i, j \in DOMAIN s : i # j => Distance(s[i], s[j]) > Threshold
<1> DEFINE s == InsertUnlessDuplicate(seen, f)
<1>1. CASE s = seen
  BY <1>1 DEF SeenInv, SeenOK, KeptApart
<1>2. CASE s # seen
  <2>1. s = Append(seen, f) /\ f # NoWords /\ Near(seen, f) = {}
    BY <1>2 DEF InsertUnlessDuplicate, Insert
  <2>2. f \in Prints
    BY <2>1 DEF Prints
  <2>3. s \in Seq(Prints)
    BY <2>1, <2>2 DEF SeenInv, SeenOK
  <2>4. ASSUME NEW i \in DOMAIN seen PROVE Distance(f, seen[i]) > Threshold /\ Distance(seen[i], f) > Threshold
    <3>1. seen[i] \in ToSet(seen) /\ seen[i] \in Fingerprints
      BY DEF ToSet, SeenInv, SeenOK, Prints
    <3>2. ~ (Distance(f, seen[i]) <= Threshold)
      BY <2>1, <2>2, <3>1, NearIsExact DEF SeenInv, SeenOK
    <3>3. Distance(f, seen[i]) \in Nat
      BY <3>1, DistanceInt
    <3> QED BY <3>2, <3>3, DistanceSymmetric
  <2>5. DOMAIN s = 1..(Len(seen) + 1) /\ s[Len(seen) + 1] = f /\ DOMAIN seen = 1..Len(seen)
        /\ \A i \in DOMAIN seen : s[i] = seen[i]
    BY <2>1 DEF SeenInv, SeenOK
  <2>6. ASSUME NEW i \in DOMAIN s, NEW j \in DOMAIN s, i # j PROVE Distance(s[i], s[j]) > Threshold
    <3>1. CASE i \in DOMAIN seen /\ j \in DOMAIN seen
      BY <2>5, <2>6, <3>1 DEF SeenInv, KeptApart
    <3>2. CASE i \in DOMAIN seen /\ j = Len(seen) + 1
      BY <2>4, <2>5, <3>2
    <3>3. CASE i = Len(seen) + 1 /\ j \in DOMAIN seen
      BY <2>4, <2>5, <3>3
    <3>4. Len(seen) \in Nat
      BY DEF SeenInv, SeenOK
    <3> QED BY <2>5, <2>6, <3>1, <3>2, <3>3, <3>4
  <2> QED BY <2>3, <2>6
<1> QED BY <1>1, <1>2

-----------------------------------------------------------------------------
(* The crawl *)

\* SeenInv holds at first.
LEMMA SeenInit == CorpusInit => SeenInv
<1>1. <<>> \in Seq(Prints) /\ DOMAIN <<>> = {}
  OBVIOUS
<1> QED BY <1>1 DEF CorpusInit, SeenInv, SeenOK, KeptApart

\* Every step keeps SeenInv.
LEMMA SeenStep == SeenInv /\ [CorpusNext]_corpusVars => SeenInv'
<1>1. SUFFICES ASSUME SeenInv, [CorpusNext]_corpusVars PROVE SeenInv'
  OBVIOUS
<1>2. CASE UNCHANGED corpusVars
  BY <1>1, <1>2 DEF corpusVars, SeenInv, SeenOK, KeptApart
<1>3. ASSUME NEW page \in Pages, KeepPage(page) PROVE SeenInv'
  <2>1. seen' = seen \/ seen' = InsertUnlessDuplicate(seen, Fingerprint(page.words))
    BY <1>3 DEF KeepPage, Remembers
  <2>2. CASE seen' = seen
    BY <1>1, <2>2 DEF SeenInv, SeenOK, KeptApart
  <2>3. CASE seen' = InsertUnlessDuplicate(seen, Fingerprint(page.words))
    <3>1. Fingerprint(page.words) \in Fingerprints
      BY FingerprintType
    <3> QED BY <1>1, <2>3, <3>1, InsertKeeps DEF SeenInv, SeenOK, KeptApart
  <2> QED BY <2>1, <2>2, <2>3
<1> QED BY <1>1, <1>2, <1>3 DEF CorpusNext

\* No two texts that a crawl keeps are near-duplicates, although a text is
\* compared only with those that have a block of its fingerprint
\* (SeenFingerprints::insert_unless_duplicate).
THEOREM KeptAlwaysApart == CorpusSpec => []KeptApart
<1>1. SeenInv => KeptApart
  BY DEF SeenInv
<1> QED BY <1>1, SeenInit, SeenStep, PTL DEF CorpusSpec

\* The lookup by blocks is exact, whatever has been seen and whatever text
\* comes next (SeenFingerprints::find_near).
THEOREM LookupAlwaysExact == CorpusSpec => []LookupExact
<1>1. SeenInv => LookupExact
  <2>1. SUFFICES ASSUME SeenInv, NEW f \in Fingerprints \ {NoWords}
                 PROVE  Near(seen, f) = {g \in ToSet(seen) : Distance(f, g) <= Threshold}
    BY DEF LookupExact
  <2>2. seen \in Seq(Prints) /\ f \in Prints
    BY <2>1 DEF SeenInv, SeenOK, Prints
  <2> QED BY <2>2, NearIsExact
<1> QED BY <1>1, SeenInit, SeenStep, PTL DEF CorpusSpec

\* Near-duplicates are found in any crawl: what LookupAlwaysExact and
\* KeptAlwaysApart say of it together (SeenFingerprints).
THEOREM DuplicatesAreAlwaysFound == CorpusSpec => []DuplicatesAreFound
<1>1. KeptApart /\ LookupExact => DuplicatesAreFound
  BY DEF DuplicatesAreFound
<1> QED BY <1>1, KeptAlwaysApart, LookupAlwaysExact, PTL

-----------------------------------------------------------------------------
(* What is stored *)

\* KeptAsPermitted, of some pages.
AreKept(kept) ==
  /\ ToKeep(kept)
  /\ ToSet(seen) = {PrintOf(i) : i \in kept} \ {NoWords}
  /\ Len(records) = Cardinality(kept)
  /\ \A i \in kept : records[Cardinality({j \in kept : j <= i})] = RecordOf(fetched[i])

\* A text is near one that has been seen when it is near one that is kept.
LEMMA NearIsNearKept ==
  ASSUME seen \in Seq(Prints), NEW kept, ToSet(seen) = {PrintOf(i) : i \in kept} \ {NoWords},
         NEW f \in Fingerprints
  PROVE  Near(seen, f) = {} <=> \A i \in kept : Apart(f, PrintOf(i))
<1>1. CASE f = NoWords
  BY <1>1 DEF Near, Apart
<1>2. CASE f # NoWords
  <2>1. Near(seen, f) = {g \in ToSet(seen) : Distance(f, g) <= Threshold}
    BY <1>2, NearIsExact DEF Prints
  <2>2. \A g \in ToSet(seen) : Distance(f, g) \in Nat
    BY DistanceInt DEF ToSet, Prints
  <2>3. \A i \in kept : PrintOf(i) # NoWords => Distance(f, PrintOf(i)) \in Nat
    BY <2>2
  <2>4. \A i \in kept : Apart(f, PrintOf(i)) <=> PrintOf(i) = NoWords \/ ~(Distance(f, PrintOf(i)) <= Threshold)
    BY <1>2, <2>3 DEF Apart
  <2> QED BY <2>1, <2>4
<1> QED BY <1>1, <1>2

\* What has been kept so far, for the pages fetched so far, and the types that
\* the argument needs of the crawl.
StoredInv == SeenInv /\ CorpusTypeOK /\ KeptAsPermitted

\* Appending adds one element.
LEMMA ToSetAppend ==
  ASSUME NEW S, NEW s \in Seq(S), NEW x
  PROVE  ToSet(Append(s, x)) = ToSet(s) \cup {x}
<1> DEFINE t == Append(s, x)
<1>1. /\ DOMAIN s = 1..Len(s) /\ Len(s) \in Nat /\ DOMAIN t = 1..(Len(s) + 1)
      /\ t[Len(s) + 1] = x /\ \A i \in 1..Len(s) : t[i] = s[i]
  OBVIOUS
<1> HIDE DEF t
<1>2. ASSUME NEW y PROVE y \in ToSet(t) <=> y \in ToSet(s) \/ y = x
  BY <1>1 DEF ToSet
<1> QED BY <1>2 DEF t

\* StoredInv holds at first.
LEMMA StoredInit == CorpusInit => StoredInv
<1> SUFFICES ASSUME CorpusInit PROVE StoredInv
  OBVIOUS
<1>1. CorpusTypeOK
  BY CorpusAssumption DEF CorpusAssumption, CorpusInit, CorpusTypeOK
<1>2. AreKept({})
  BY FS_EmptySet DEF CorpusInit, AreKept, ToKeep, ToSet
<1>3. KeptAsPermitted
  BY <1>2 DEF KeptAsPermitted, AreKept
<1> QED BY <1>1, <1>3, SeenInit DEF StoredInv

\* A page is fetched and its types kept, whatever becomes of it.
LEMMA KeepTyped ==
  ASSUME StoredInv, SeenInv', NEW page \in Pages, KeepPage(page)
  PROVE  CorpusTypeOK'
<1>1. /\ fetched' \in Seq(Pages) /\ Len(fetched') = Len(fetched) + 1 /\ Len(fetched') <= MaxPages
      /\ ToSet(fetched') = ToSet(fetched) \cup {page}
  <2>1. fetched \in Seq(Pages) /\ fetched' = Append(fetched, page) /\ Len(fetched) < MaxPages
    BY DEF StoredInv, CorpusTypeOK, KeepPage
  <2> QED BY <2>1, ToSetAppend, CorpusAssumption DEF CorpusAssumption
<1>2. seen' \in Seq(Fingerprints \ {NoWords})
  BY DEF SeenInv, SeenOK, Prints
<1> DEFINE Made == {RecordOf(p) : p \in ToSet(fetched)}
           Made2 == {RecordOf(p) : p \in ToSet(fetched')}
<1>3. Made \subseteq Made2 /\ RecordOf(page) \in Made2
  BY <1>1
<1>4. records \in Seq(Made)
  BY DEF StoredInv, CorpusTypeOK
<1> HIDE DEF Made, Made2
<1>5. /\ records' \in Seq(Made2)
      /\ Len(records) \in Nat /\ Len(records') \in Nat
      /\ records' = records \/ Len(records') = Len(records) + 1
  BY <1>3, <1>4 DEF KeepPage
<1>6. /\ Len(records) \in Nat /\ noindex \in Nat /\ duplicates \in Nat /\ Len(fetched) \in Nat
      /\ Len(records) + noindex + duplicates <= Len(fetched)
  BY <1>5 DEF StoredInv, CorpusTypeOK
<1>7. /\ noindex' \in Nat /\ duplicates' \in Nat
      /\ Len(records') + noindex' + duplicates' <= Len(fetched) + 1
  <2>1. CASE ~Storable(page)
    <3>1. records' = records /\ duplicates' = duplicates /\ (noindex' = noindex \/ noindex' = noindex + 1)
      BY <2>1 DEF KeepPage
    <3> QED BY <1>6, <3>1
  <2>2. CASE Storable(page) /\ Near(seen, Fingerprint(page.words)) # {}
    <3>1. records' = records /\ duplicates' = duplicates + 1 /\ noindex' = noindex
      BY <2>2 DEF KeepPage, Storable
    <3> QED BY <1>6, <3>1
  <2>3. CASE Storable(page) /\ Near(seen, Fingerprint(page.words)) = {}
    <3>1. noindex' = noindex /\ duplicates' = duplicates
      BY <2>3 DEF KeepPage, Storable
    <3> QED BY <1>5, <1>6, <3>1
  <2> QED BY <2>1, <2>2, <2>3
<1> QED BY <1>1, <1>2, <1>5, <1>7 DEF CorpusTypeOK, Made2

\* A page joins those that are kept, or is none of them.
LEMMA KeepKeeps ==
  ASSUME StoredInv, CorpusTypeOK', SeenInv', NEW page \in Pages, KeepPage(page),
         NEW kept \in SUBSET DOMAIN fetched, AreKept(kept)
  PROVE  KeptAsPermitted'
<1>a. PICK n : n = Len(fetched) + 1
  OBVIOUS
<1>b. PICK f : f = Fingerprint(page.words)
  OBVIOUS
<1>c. PICK keeps \in BOOLEAN : keeps <=> Storable(page) /\ Near(seen, f) = {}
  OBVIOUS
<1>d. PICK both : both = IF keeps THEN kept \cup {n} ELSE kept
  OBVIOUS
<1>1. /\ fetched \in Seq(Pages) /\ Len(fetched) \in Nat /\ fetched' = Append(fetched, page)
      /\ seen \in Seq(Prints)
  BY DEF StoredInv, CorpusTypeOK, KeepPage, Prints
<1>2. /\ DOMAIN fetched = 1..Len(fetched) /\ DOMAIN fetched' = 1..n
      /\ fetched'[n] = page /\ \A i \in DOMAIN fetched : fetched'[i] = fetched[i]
      /\ kept \subseteq 1..Len(fetched) /\ n \notin kept
  BY <1>1, <1>a
<1>3. f \in Fingerprints
  BY FingerprintType, <1>b
<1>4. PrintOf(n)' = f /\ \A i \in DOMAIN fetched : PrintOf(i)' = PrintOf(i)
  BY <1>1, <1>2, <1>b DEF PrintOf
<1>5. keeps <=> Storable(page) /\ \A i \in kept : Apart(f, PrintOf(i))
  BY <1>1, <1>3, <1>c, NearIsNearKept DEF AreKept
<1>6. both \in SUBSET (DOMAIN fetched')
  BY <1>1, <1>2, <1>a, <1>d
<1>7. ToKeep(both)'
  <2> SUFFICES ASSUME NEW i \in DOMAIN fetched'
               PROVE  i \in both <=> /\ Storable(fetched'[i])
                                     /\ \A j \in both : j < i => Apart(PrintOf(i)', PrintOf(j)')
    BY DEF ToKeep, Apart, Distance, Differing, NoWords
  <2>1. CASE i = n
    <3>1. i \in both <=> keeps
      BY <1>2, <1>d, <2>1
    <3>2. \A j \in both : j < i <=> j \in kept
      BY <1>1, <1>2, <1>a, <1>d, <2>1
    <3>3. \A j \in kept : j \in both /\ PrintOf(j)' = PrintOf(j)
      BY <1>1, <1>2, <1>4, <1>d
    <3> QED BY <1>2, <1>4, <1>5, <2>1, <3>1, <3>2, <3>3
  <2>2. CASE i # n
    <3>1. i \in DOMAIN fetched /\ i < n /\ (i \in both <=> i \in kept)
      BY <1>1, <1>2, <1>a, <1>d, <2>2
    <3>2. \A j \in both : j < i => j \in kept /\ PrintOf(j)' = PrintOf(j)
      BY <1>1, <1>2, <1>4, <1>a, <1>d, <3>1
    <3>3. \A j \in kept : j \in both /\ PrintOf(j)' = PrintOf(j)
      BY <1>1, <1>2, <1>4, <1>d
    <3>4. i \in kept <=> Storable(fetched[i]) /\ \A j \in kept : j < i => Apart(PrintOf(i), PrintOf(j))
      BY <3>1 DEF AreKept, ToKeep
    <3> QED BY <1>2, <1>4, <3>1, <3>2, <3>3, <3>4
  <2> QED BY <2>1, <2>2
<1>8. ToSet(seen') = {PrintOf(i)' : i \in both} \ {NoWords}
  <2>1. {PrintOf(i)' : i \in both} = {PrintOf(i) : i \in kept} \cup (IF keeps THEN {f} ELSE {})
    BY <1>1, <1>2, <1>4, <1>d
  <2>2. ToSet(seen) = {PrintOf(i) : i \in kept} \ {NoWords}
    BY DEF AreKept
  <2>3. seen' = IF keeps /\ f # NoWords THEN Append(seen, f) ELSE seen
    BY <1>b, <1>c DEF KeepPage, Remembers, InsertUnlessDuplicate, Insert
  <2>4. ToSet(Append(seen, f)) = ToSet(seen) \cup {f}
    BY <1>1, ToSetAppend
  <2> QED BY <2>1, <2>2, <2>3, <2>4
<1> DEFINE Upto(K, i) == {j \in K : j <= i}
<1>9. IsFiniteSet(kept) /\ Cardinality(kept) \in Nat /\ Len(records) = Cardinality(kept)
  <2>1. IsFiniteSet(1..Len(fetched))
    BY <1>1, FS_Interval
  <2> QED BY <1>2, <2>1, FS_Subset, FS_CardinalityType DEF AreKept
<1>10. /\ records' = IF keeps THEN Append(records, RecordOf(page)) ELSE records
       /\ \E S : records \in Seq(S)
  BY <1>b, <1>c DEF KeepPage, StoredInv, CorpusTypeOK
<1>11. Len(records') = Cardinality(both)
  <2>1. Cardinality(kept \cup {n}) = Cardinality(kept) + 1
    BY <1>2, <1>9, FS_AddElement
  <2> QED BY <1>9, <1>10, <1>d, <2>1
<1>12. ASSUME NEW i \in both PROVE records'[Cardinality(Upto(both, i))] = RecordOf(fetched'[i])
  <2>1. CASE i = n
    <3>1. keeps /\ Upto(both, i) = both
      BY <1>1, <1>2, <1>a, <1>d, <2>1
    <3>2. records'[Len(records')] = RecordOf(page)
      BY <1>9, <1>10, <3>1
    <3> QED BY <1>2, <1>11, <2>1, <3>1, <3>2
  <2>2. CASE i # n
    <3>1. i \in kept /\ Upto(both, i) = Upto(kept, i) /\ i \in Upto(kept, i)
      BY <1>1, <1>2, <1>a, <1>d, <2>2
    <3>2. /\ Cardinality(Upto(kept, i)) \in Nat /\ Cardinality(Upto(kept, i)) <= Cardinality(kept)
          /\ Cardinality(Upto(kept, i)) # 0
      BY <1>9, <3>1, FS_Subset, FS_CardinalityType, FS_EmptySet
    <3>3. records[Cardinality(Upto(kept, i))] = RecordOf(fetched[i])
      BY <3>1 DEF AreKept
    <3>4. records'[Cardinality(Upto(kept, i))] = records[Cardinality(Upto(kept, i))]
      BY <1>9, <1>10, <3>2
    <3> QED BY <1>2, <3>1, <3>3, <3>4
  <2> QED BY <2>1, <2>2
<1> QED BY <1>6, <1>7, <1>8, <1>11, <1>12 DEF KeptAsPermitted

\* Every step keeps StoredInv.
LEMMA StoredStep == StoredInv /\ [CorpusNext]_corpusVars => StoredInv'
<1> SUFFICES ASSUME StoredInv, [CorpusNext]_corpusVars PROVE StoredInv'
  OBVIOUS
<1>1. SeenInv'
  BY SeenStep DEF StoredInv
<1>2. CASE UNCHANGED corpusVars
  <2>1. CorpusTypeOK'
    BY <1>2 DEF corpusVars, StoredInv, CorpusTypeOK
  <2>2. KeptAsPermitted'
    BY <1>2 DEF corpusVars, StoredInv, KeptAsPermitted, ToKeep, PrintOf
  <2> QED BY <1>1, <2>1, <2>2 DEF StoredInv
<1>3. ASSUME NEW page \in Pages, KeepPage(page) PROVE StoredInv'
  <2>1. CorpusTypeOK'
    BY <1>1, <1>3, KeepTyped
  <2>2. PICK kept \in SUBSET DOMAIN fetched : AreKept(kept)
    BY DEF StoredInv, KeptAsPermitted, AreKept
  <2>3. KeptAsPermitted'
    BY <1>1, <1>3, <2>1, <2>2, KeepKeeps
  <2> QED BY <1>1, <2>1, <2>3 DEF StoredInv
<1> QED BY <1>2, <1>3 DEF CorpusNext

\* What any crawl stores is what it may store and has not stored already, in
\* the order it came, and a page that is refused leaves no trace by which a
\* later copy would be (CrawlState::keep).
THEOREM StoredAlwaysAsPermitted == CorpusSpec => []StoredAsPermitted
<1>1. StoredInv => StoredAsPermitted
  BY DEF StoredInv, StoredAsPermitted
<1> QED BY <1>1, StoredInit, StoredStep, PTL DEF CorpusSpec

\* What is stored has the type of the crawl's records.
THEOREM CorpusTypes == CorpusSpec => []CorpusTypeOK
BY StoredAlwaysAsPermitted, PTL DEF StoredAsPermitted

HIDE SimHashAssumption DEF SimHashAssumption

-----------------------------------------------------------------------------
(* Hosts *)

\* What may be a host: a sequence of labels.
Names == Seq(Labels)

-----------------------------------------------------------------------------
(* Who owns a host *)

\* A rule is at the end of a host where the host continues with it.
LEMMA SuffixIsCandidate ==
  ASSUME NEW host \in Names, NEW rule \in Names, rule # <<>>
  PROVE  IsSuffix(rule, host) <=>
           \E i \in DOMAIN host : Candidate(host, i) = rule /\ Len(rule) = Len(host) - i + 1
<1> DEFINE n == Len(host)
           m == Len(rule)
           a == Reverse(rule)
           b == Reverse(host)
<1>1. /\ n \in Nat /\ m \in Nat /\ m >= 1 /\ DOMAIN host = 1..n /\ DOMAIN rule = 1..m
      /\ \A j \in 1..n : host[j] \in Labels
      /\ \A j \in 1..m : rule[j] \in Labels
  BY DEF Names
<1>2. /\ a \in Names /\ b \in Names /\ Len(a) = m /\ Len(b) = n
      /\ \A j \in 1..m : a[j] = rule[m - j + 1]
      /\ \A j \in 1..n : b[j] = host[n - j + 1]
  BY <1>1 DEF Reverse, Names
<1> HIDE DEF a, b, n, m
<1>3. IsSuffix(rule, host) <=> m <= n /\ SubSeq(a, 1, m) = SubSeq(b, 1, m)
  BY <1>2 DEF IsSuffix, IsPrefix, a, b
<1>4. ASSUME m <= n
      PROVE  (SubSeq(a, 1, m) = SubSeq(b, 1, m)) <=> \A j \in 1..m : rule[j] = host[n - m + j]
  <2>1. SubSeq(a, 1, m) = [j \in 1..m |-> a[j]] /\ SubSeq(b, 1, m) = [j \in 1..m |-> b[j]]
    BY <1>1, <1>2, <1>4
  <2>2. (SubSeq(a, 1, m) = SubSeq(b, 1, m)) <=> \A j \in 1..m : a[j] = b[j]
    BY <2>1
  <2>3. \A j \in 1..m : j \in 1..n /\ a[j] = rule[m - j + 1] /\ b[j] = host[n - j + 1]
    BY <1>1, <1>2, <1>4
  <2>4. ASSUME \A j \in 1..m : a[j] = b[j], NEW j \in 1..m PROVE rule[j] = host[n - m + j]
    <3>1. m - j + 1 \in 1..m /\ m - (m - j + 1) + 1 = j /\ n - (m - j + 1) + 1 = n - m + j
      BY <1>1
    <3> QED BY <2>3, <2>4, <3>1
  <2>5. ASSUME \A j \in 1..m : rule[j] = host[n - m + j], NEW j \in 1..m PROVE a[j] = b[j]
    <3>1. m - j + 1 \in 1..m /\ n - m + (m - j + 1) = n - j + 1
      BY <1>1
    <3> QED BY <2>3, <2>5, <3>1
  <2> QED BY <2>2, <2>4, <2>5
<1>5. ASSUME NEW i \in 1..n, m = n - i + 1
      PROVE  Candidate(host, i) = rule <=> \A j \in 1..m : rule[j] = host[n - m + j]
  <2> DEFINE c == Candidate(host, i)
  <2>1. /\ c = [j \in 1..m |-> host[i + j - 1]]
        /\ \A j \in 1..m : i + j - 1 = n - m + j
    BY <1>1, <1>5 DEF Candidate, n
  <2>2. rule = [j \in 1..m |-> rule[j]]
    BY <1>1 DEF Names, m
  <2> HIDE DEF c
  <2> QED BY <2>1, <2>2 DEF c
<1>6. ASSUME IsSuffix(rule, host)
      PROVE  \E i \in 1..n : Candidate(host, i) = rule /\ m = n - i + 1
  <2>1. m <= n /\ \A j \in 1..m : rule[j] = host[n - m + j]
    BY <1>3, <1>4, <1>6
  <2>2. n - m + 1 \in 1..n /\ m = n - (n - m + 1) + 1
    BY <1>1, <2>1
  <2>3. Candidate(host, n - m + 1) = rule
    BY <1>5, <2>1, <2>2
  <2> QED BY <2>2, <2>3
<1>7. ASSUME NEW i \in 1..n, Candidate(host, i) = rule, m = n - i + 1
      PROVE  IsSuffix(rule, host)
  <2>1. m <= n
    BY <1>1, <1>7
  <2> QED BY <1>3, <1>4, <1>5, <1>7, <2>1
<1> QED BY <1>1, <1>6, <1>7 DEF n, m

\* What is left of a host from some label on is as long as it should be.
LEMMA CandidatesFit ==
  ASSUME NEW host \in Names, NEW i \in DOMAIN host
  PROVE  /\ Candidate(host, i) \in Names /\ Candidate(host, i) # <<>>
         /\ Len(Candidate(host, i)) = Len(host) - i + 1
<1>1. Len(host) \in Nat /\ i \in 1..Len(host) /\ Len(host) - i + 1 \in 1..Len(host)
  <2>1. Len(host) \in Nat /\ DOMAIN host = 1..Len(host)
    BY DEF Names
  <2> QED BY <2>1
<1>2. Candidate(host, i) \in Seq(Labels) /\ Len(Candidate(host, i)) = Len(host) - i + 1
  BY <1>1 DEF Candidate, Names
<1> QED BY <1>1, <1>2 DEF Names

\* The rules that a host ends with, as the places where they begin.
LEMMA RulesAsPlaces ==
  ASSUME HostsAssumption, NEW host \in Names
  PROVE  /\ \A S \in {Ordinary, Wildcard, Exception} :
              {rule \in S : IsSuffix(rule, host)} = {Candidate(host, i) : i \in {j \in DOMAIN host : Candidate(host, j) \in S}}
         /\ \A rule \in Ordinary \cup Wildcard \cup Exception : rule \in Names /\ rule # <<>>
<1>1. \A rule \in Ordinary \cup Wildcard \cup Exception : rule \in Names /\ rule # <<>>
  BY DEF HostsAssumption, Names
<1>2. ASSUME NEW S \in {Ordinary, Wildcard, Exception}
      PROVE  {rule \in S : IsSuffix(rule, host)} = {Candidate(host, i) : i \in {j \in DOMAIN host : Candidate(host, j) \in S}}
  <2>1. S \subseteq Ordinary \cup Wildcard \cup Exception
    OBVIOUS
  <2>2. ASSUME NEW rule \in S, IsSuffix(rule, host)
        PROVE  \E i \in DOMAIN host : Candidate(host, i) = rule
    BY <1>1, <2>1, <2>2, SuffixIsCandidate
  <2>3. ASSUME NEW i \in DOMAIN host, Candidate(host, i) \in S PROVE IsSuffix(Candidate(host, i), host)
    <3>1. /\ Candidate(host, i) \in Names /\ Candidate(host, i) # <<>>
          /\ Len(Candidate(host, i)) = Len(host) - i + 1
      BY CandidatesFit
    <3> QED BY <3>1, SuffixIsCandidate
  <2> QED BY <2>2, <2>3
<1> QED BY <1>1, <1>2

\* The code finds the owner: walking labels from the left it meets the longest
\* rule first (registrable_domain, suffix_at).
LEMMA OwnerIsRegistrable ==
  ASSUME HostsAssumption, NEW host \in Names
  PROVE  Owner(host) = RegistrableDomain(host)
<1> DEFINE n == Len(host)
           X == {i \in DOMAIN host : Candidate(host, i) \in Exception}
           R == {i \in DOMAIN host : \/ Candidate(host, i) \in Ordinary
                                     \/ i < Len(host) /\ Candidate(host, i + 1) \in Wildcard}
           E == {rule \in Exception : IsSuffix(rule, host)}
           L == {1} \cup {Len(rule) : rule \in {r \in Ordinary : IsSuffix(r, host)}}
                    \cup {Len(rule) + 1 : rule \in {r \in Wildcard : IsSuffix(r, host) /\ Len(host) > Len(r)}}
<1>1. n \in Nat /\ DOMAIN host = 1..n /\ (n = 0 <=> host = <<>>)
  BY DEF Names
<1>2. \A i \in 1..n : /\ Candidate(host, i) \in Names /\ Candidate(host, i) # <<>>
                      /\ Len(Candidate(host, i)) = n - i + 1
  BY <1>1, CandidatesFit
<1>3. E = {Candidate(host, i) : i \in X}
  BY RulesAsPlaces
<1>4. CASE host \in Addresses
  BY <1>4 DEF Owner, RegistrableDomain
<1>5. CASE host \notin Addresses /\ X # {}
  <2> DEFINE m == Min(X)
             Longest(rule) == \A r \in E : Len(r) <= Len(rule)
  <2>1. m \in X /\ \A i \in X : m <= i
    <3>1. X \in SUBSET Nat
      BY <1>1
    <3> HIDE DEF X
    <3> QED BY <1>5, <3>1, LeastNat
  <2>2. host # <<>> /\ m \in 1..n
    BY <1>1, <1>5, <2>1
  <2> HIDE DEF m, X
  <2>3. \A i \in X : i \in 1..n
    BY <1>1 DEF X
  <2>4. Candidate(host, m) \in E /\ Longest(Candidate(host, m))
    <3>1. ASSUME NEW i \in X PROVE Len(Candidate(host, i)) <= Len(Candidate(host, m))
      <4>1. i \in 1..n /\ m \in 1..n /\ m <= i
        BY <2>1, <2>2, <2>3
      <4> QED BY <1>1, <1>2, <4>1
    <3> QED BY <1>3, <2>1, <3>1
  <2>5. ASSUME NEW w \in E, Longest(w) PROVE w = Candidate(host, m)
    <3>1. PICK i \in X : w = Candidate(host, i)
      BY <1>3
    <3>2. i \in 1..n /\ m \in 1..n /\ m <= i /\ Len(Candidate(host, m)) <= Len(Candidate(host, i))
      BY <2>1, <2>2, <2>3, <2>4, <2>5, <3>1
    <3>3. i = m
      BY <1>1, <1>2, <3>2
    <3> QED BY <3>1, <3>3
  <2>6. (CHOOSE rule \in E : Longest(rule)) = Candidate(host, m)
    <3> HIDE DEF E, Longest
    <3> QED BY <2>4, <2>5
  <2>7. E # {}
    BY <2>4
  <2>8. Owner(host) = CHOOSE rule \in E : Longest(rule)
    BY <1>5, <2>7 DEF Owner
  <2>9. RegistrableDomain(host) = Candidate(host, m)
    BY <1>5, <2>2 DEF RegistrableDomain, X, m
  <2> QED BY <2>6, <2>8, <2>9
<1>6. CASE host \notin Addresses /\ X = {}
  <2>1. E = {}
    BY <1>3, <1>6
  <2>2. CASE host = <<>>
    <3>1. RegistrableDomain(host) = <<>>
      BY <2>2 DEF RegistrableDomain
    <3>2. Owner(host) = SubSeq(host, Max({1, Len(host) - Max(L)}), Len(host))
      BY <1>6, <2>1 DEF Owner
    <3>3. L = {1}
      <4>1. \A S \in {Ordinary, Wildcard, Exception} : {rule \in S : IsSuffix(rule, host)} = {}
        BY <1>1, <2>2, RulesAsPlaces
      <4> QED BY <4>1
    <3>4. Max({1}) = 1
      BY DEF Max
    <3>5. Max({1, -1}) = 1
      <4>1. \A x \in {1, -1} : (\A y \in {1, -1} : x >= y) => x = 1
        OBVIOUS
      <4>2. 1 \in {1, -1} /\ \A y \in {1, -1} : 1 >= y
        OBVIOUS
      <4> QED BY <4>1, <4>2 DEF Max
    <3> HIDE DEF L
    <3>6. Owner(host) = SubSeq(host, 1, 0)
      <4>1. Len(host) = 0 /\ 0 - 1 = -1
        BY <2>2
      <4> QED BY <3>2, <3>3, <3>4, <3>5, <4>1
    <3>7. SubSeq(host, 1, 0) = <<>>
      BY <2>2
    <3> QED BY <3>1, <3>6, <3>7
  <2>3. CASE host # <<>>
    <3> DEFINE k == SuffixAt(host)
    <3>1. L = {1} \cup {n - i + 1 : i \in R}
      <4>1. ASSUME NEW i \in R PROVE n - i + 1 \in L
        <5>1. i \in 1..n
          BY <1>1
        <5>2. CASE Candidate(host, i) \in Ordinary
          <6>1. Candidate(host, i) \in {r \in Ordinary : IsSuffix(r, host)}
            BY <1>1, <5>1, <5>2, RulesAsPlaces
          <6> QED BY <1>2, <5>1, <6>1
        <5>3. CASE i < Len(host) /\ Candidate(host, i + 1) \in Wildcard
          <6>1. i + 1 \in 1..n
            BY <1>1, <5>1, <5>3
          <6>2. Candidate(host, i + 1) \in {r \in Wildcard : IsSuffix(r, host)}
            BY <1>1, <5>3, <6>1, RulesAsPlaces
          <6>3. Len(Candidate(host, i + 1)) = n - i
            BY <1>1, <1>2, <6>1
          <6>4. Len(host) > n - i
            BY <1>1, <5>1
          <6> QED BY <1>1, <5>1, <6>2, <6>3, <6>4
        <5> QED BY <5>2, <5>3
      <4>2. ASSUME NEW r \in Ordinary, IsSuffix(r, host) PROVE \E i \in R : Len(r) = n - i + 1
        <5>1. PICK i \in DOMAIN host : Candidate(host, i) = r
          <6>1. r \in {rule \in Ordinary : IsSuffix(rule, host)}
            BY <4>2
          <6> QED BY <6>1, RulesAsPlaces
        <5> QED BY <1>1, <1>2, <5>1
      <4>3. ASSUME NEW r \in Wildcard, IsSuffix(r, host), Len(host) > Len(r)
            PROVE  \E i \in R : Len(r) + 1 = n - i + 1
        <5>1. PICK i \in DOMAIN host : Candidate(host, i) = r
          <6>1. r \in {rule \in Wildcard : IsSuffix(rule, host)}
            BY <4>3
          <6> QED BY <6>1, RulesAsPlaces
        <5>2. Len(r) = n - i + 1 /\ i \in 1..n
          BY <1>1, <1>2, <5>1
        <5>3. i - 1 \in 1..n /\ i - 1 < Len(host) /\ (i - 1) + 1 = i /\ Len(r) + 1 = n - (i - 1) + 1
          BY <1>1, <4>3, <5>2
        <5>4. i - 1 \in R
          BY <1>1, <5>1, <5>3
        <5> HIDE DEF R
        <5> QED BY <5>3, <5>4
      <4> QED BY <4>1, <4>2, <4>3
    <3>2. /\ k \in 1..n /\ \A i \in R : k <= i
          /\ R # {} => k \in R
          /\ R = {} => k = n
          /\ R \subseteq 1..n
      <4>1. CASE R = {}
        <5>1. k = Len(host)
          BY <4>1 DEF SuffixAt
        <5>2. n \in 1..n
          BY <1>1, <2>3
        <5> QED BY <4>1, <5>1, <5>2
      <4>2. CASE R # {}
        <5>1. k = Min(R)
          BY <4>2 DEF SuffixAt
        <5>2. R \in SUBSET Nat /\ R \subseteq 1..n
          BY <1>1
        <5> HIDE DEF R, k
        <5> QED BY <4>2, <5>1, <5>2, LeastNat
      <4> QED BY <4>1, <4>2
    <3> HIDE DEF k, R, n, L, E, X
    <3>3. Max(L) = n - k + 1
      <4>1. n - k + 1 \in L
        <5>1. CASE R = {}
          <6>1. n - k + 1 = 1
            BY <1>1, <3>2, <5>1
          <6> QED BY <3>1, <6>1
        <5>2. CASE R # {}
          BY <3>1, <3>2, <5>2
        <5> QED BY <5>1, <5>2
      <4>2. ASSUME NEW l \in L PROVE l \in Int /\ n - k + 1 >= l
        <5>1. CASE l = 1
          BY <1>1, <3>2, <5>1
        <5>2. ASSUME NEW i \in R, l = n - i + 1 PROVE l \in Int /\ n - k + 1 >= l
          <6>1. i \in 1..n /\ k <= i
            BY <1>1, <3>2
          <6> QED BY <1>1, <3>2, <5>2, <6>1
        <5> QED BY <3>1, <5>1, <5>2
      <4>3. n - k + 1 \in Int
        BY <1>1, <3>2
      <4> QED BY <4>1, <4>2, <4>3 DEF Max
    <3>4. Max({1, k - 1}) = IF k = 1 THEN 1 ELSE k - 1
      <4> DEFINE M == IF k = 1 THEN 1 ELSE k - 1
      <4>1. k \in Nat /\ k >= 1
        BY <3>2
      <4>2. M \in {1, k - 1} /\ \A y \in {1, k - 1} : M >= y
        BY <4>1
      <4>3. \A x \in {1, k - 1} : (\A y \in {1, k - 1} : x >= y) => x = M
        BY <4>1
      <4> HIDE DEF M
      <4>4. Max({1, k - 1}) = M
        BY <4>2, <4>3 DEF Max
      <4> QED BY <4>4 DEF M
    <3>5. Owner(host) = SubSeq(host, IF k = 1 THEN 1 ELSE k - 1, n)
      <4>1. Owner(host) = SubSeq(host, Max({1, Len(host) - Max(L)}), Len(host))
        BY <1>6, <2>1 DEF Owner, L, E
      <4>2. n - (n - k + 1) = k - 1
        BY <1>1, <3>2
      <4> QED BY <3>3, <3>4, <4>1, <4>2 DEF n
    <3>6. RegistrableDomain(host) = IF k = 1 THEN host ELSE Candidate(host, k - 1)
      BY <1>6, <2>3 DEF RegistrableDomain, k, X
    <3>7. SubSeq(host, 1, n) = host
      BY DEF Names, n
    <3>8. CASE k = 1
      BY <3>5, <3>6, <3>7, <3>8
    <3>9. CASE k # 1
      BY <3>5, <3>6, <3>9 DEF Candidate, n
    <3> QED BY <3>8, <3>9
  <2> QED BY <2>2, <2>3
<1> QED BY <1>4, <1>5, <1>6

-----------------------------------------------------------------------------
(* Reading the links of a page *)

\* The links that are dropped, by reason (Dropped).
Drops == [nofollow : Nat, sameSite : Nat, unparseable : Nat, repeat : Nat]

\* All links that are dropped.
Dropped(d) == d.nofollow + d.sameSite + d.unparseable + d.repeat

\* What reading the links of a page may come to.
Reads == [targets : SUBSET Names, dropped : Drops]

\* A link that is a vote when a page of that host has it.
IsVote(from, link) ==
  /\ ~link.nofollow /\ HostOf(link.url.host) # <<>>
  /\ Owner(from) # Owner(HostOf(link.url.host))

\* The links of a page.
AreLinks(links) == links \in Seq(ToSet(links)) /\ \A i \in DOMAIN links : IsLink(links[i])

\* The host of a URL is a host.
LEMMA HostOfType == ASSUME NEW host \in Names PROVE HostOf(host) \in Names
BY DEF Names, HostOf

\* A link that is dropped is one more of those that were, for whichever reason.
LEMMA OneMoreDropped ==
  ASSUME NEW d \in Drops
  PROVE  /\ LET e == [d EXCEPT !.nofollow = @ + 1] IN e \in Drops /\ Dropped(e) = Dropped(d) + 1
         /\ LET e == [d EXCEPT !.sameSite = @ + 1] IN e \in Drops /\ Dropped(e) = Dropped(d) + 1
         /\ LET e == [d EXCEPT !.unparseable = @ + 1] IN e \in Drops /\ Dropped(e) = Dropped(d) + 1
<1>1. LET e == [d EXCEPT !.nofollow = @ + 1] IN e \in Drops /\ Dropped(e) = Dropped(d) + 1
  BY DEF Drops, Dropped
<1>2. LET e == [d EXCEPT !.sameSite = @ + 1] IN e \in Drops /\ Dropped(e) = Dropped(d) + 1
  BY DEF Drops, Dropped
<1>3. LET e == [d EXCEPT !.unparseable = @ + 1] IN e \in Drops /\ Dropped(e) = Dropped(d) + 1
  BY DEF Drops, Dropped
<1> QED BY <1>1, <1>2, <1>3

\* One link is a target or dropped.
LEMMA ReadsOne ==
  ASSUME HostsAssumption, NEW from \in Names, NEW read \in Reads, IsFiniteSet(read.targets),
         NEW link, IsLink(link)
  PROVE  LET next == ReadLink(from, read, link) IN
         /\ next \in Reads /\ IsFiniteSet(next.targets)
         /\ next.targets = read.targets \cup (IF IsVote(from, link) THEN {HostOf(link.url.host)} ELSE {})
         /\ Dropped(next.dropped) + Cardinality(next.targets) = Dropped(read.dropped) + Cardinality(read.targets) + 1
<1> DEFINE to == HostOf(link.url.host)
           next == ReadLink(from, read, link)
           d == read.dropped
<1>1. to \in Names /\ link.nofollow \in BOOLEAN
  BY HostOfType DEF IsLink, IsUrl, Names
<1>2. IsVote(from, link) <=> ~link.nofollow /\ to # <<>> /\ ~SameSite(from, to)
  BY <1>1, OwnerIsRegistrable DEF IsVote, SameSite
<1>3. /\ read.targets \in SUBSET Names /\ d \in Drops
      /\ read = [targets |-> read.targets, dropped |-> d]
      /\ d = [nofollow |-> d.nofollow, sameSite |-> d.sameSite, unparseable |-> d.unparseable, repeat |-> d.repeat]
      /\ d.nofollow \in Nat /\ d.sameSite \in Nat /\ d.unparseable \in Nat /\ d.repeat \in Nat
  BY DEF Reads, Drops
<1>4. Cardinality(read.targets) \in Nat /\ Dropped(d) \in Nat
  BY <1>3, FS_CardinalityType DEF Dropped
<1> HIDE DEF to
<1>5. CASE link.nofollow
  <2>1. next = [targets |-> read.targets, dropped |-> [d EXCEPT !.nofollow = @ + 1]]
    BY <1>3, <1>5 DEF ReadLink
  <2> HIDE DEF next, d
  <2>2. next \in Reads /\ next.targets = read.targets /\ Dropped(next.dropped) = Dropped(d) + 1
    <3>1. next.targets = read.targets /\ next.dropped = [d EXCEPT !.nofollow = @ + 1]
      BY <2>1
    <3>2. next.dropped \in Drops /\ Dropped(next.dropped) = Dropped(d) + 1
      BY <1>3, <3>1, OneMoreDropped
    <3> QED BY <1>3, <2>1, <3>1, <3>2 DEF Reads
  <2>3. ~IsVote(from, link)
    BY <1>2, <1>5
  <2>4. Dropped(next.dropped) + Cardinality(next.targets) = Dropped(d) + Cardinality(read.targets) + 1
    BY <1>4, <2>2
  <2> QED BY <2>2, <2>3, <2>4 DEF next, d
<1>6. CASE ~link.nofollow /\ to = <<>>
  <2>1. next = [targets |-> read.targets, dropped |-> [d EXCEPT !.unparseable = @ + 1]]
    BY <1>3, <1>6 DEF ReadLink, to
  <2> HIDE DEF next, d
  <2>2. next \in Reads /\ next.targets = read.targets /\ Dropped(next.dropped) = Dropped(d) + 1
    <3>1. next.targets = read.targets /\ next.dropped = [d EXCEPT !.unparseable = @ + 1]
      BY <2>1
    <3>2. next.dropped \in Drops /\ Dropped(next.dropped) = Dropped(d) + 1
      BY <1>3, <3>1, OneMoreDropped
    <3> QED BY <1>3, <2>1, <3>1, <3>2 DEF Reads
  <2>3. ~IsVote(from, link)
    BY <1>2, <1>6
  <2>4. Dropped(next.dropped) + Cardinality(next.targets) = Dropped(d) + Cardinality(read.targets) + 1
    BY <1>4, <2>2
  <2> QED BY <2>2, <2>3, <2>4 DEF next, d
<1>7. CASE ~link.nofollow /\ to # <<>> /\ SameSite(from, to)
  <2>1. next = [targets |-> read.targets, dropped |-> [d EXCEPT !.sameSite = @ + 1]]
    BY <1>3, <1>7 DEF ReadLink, to
  <2> HIDE DEF next, d
  <2>2. next \in Reads /\ next.targets = read.targets /\ Dropped(next.dropped) = Dropped(d) + 1
    <3>1. next.targets = read.targets /\ next.dropped = [d EXCEPT !.sameSite = @ + 1]
      BY <2>1
    <3>2. next.dropped \in Drops /\ Dropped(next.dropped) = Dropped(d) + 1
      BY <1>3, <3>1, OneMoreDropped
    <3> QED BY <1>3, <2>1, <3>1, <3>2 DEF Reads
  <2>3. ~IsVote(from, link)
    BY <1>2, <1>7
  <2>4. Dropped(next.dropped) + Cardinality(next.targets) = Dropped(d) + Cardinality(read.targets) + 1
    BY <1>4, <2>2
  <2> QED BY <2>2, <2>3, <2>4 DEF next, d
<1>8. CASE ~link.nofollow /\ to # <<>> /\ ~SameSite(from, to)
  <2> DEFINE more == IF to \in read.targets THEN d.repeat + 1 ELSE d.repeat
  <2>1. next = [targets |-> read.targets \cup {to}, dropped |-> [d EXCEPT !.repeat = more]]
    BY <1>3, <1>8 DEF ReadLink, to
  <2>2. /\ IsFiniteSet(read.targets \cup {to})
        /\ Cardinality(read.targets \cup {to}) = IF to \in read.targets THEN Cardinality(read.targets) ELSE Cardinality(read.targets) + 1
    BY FS_AddElement
  <2>3. next \in Reads
    BY <1>1, <1>3, <2>1 DEF Reads, Drops
  <2>4. Dropped(next.dropped) = Dropped(d) + (IF to \in read.targets THEN 1 ELSE 0)
    BY <1>3, <2>1 DEF Dropped, Drops
  <2>6. next.targets = read.targets \cup {to} /\ next.targets = read.targets \cup (IF IsVote(from, link) THEN {to} ELSE {})
    BY <1>2, <1>8, <2>1
  <2> HIDE DEF next
  <2> QED BY <1>4, <2>2, <2>3, <2>4, <2>6 DEF next, to
<1> QED BY <1>1, <1>5, <1>6, <1>7, <1>8 DEF to

\* The fold behind ReadLinks: what is read of every set of the links.
IsReading(g, from, links, base) ==
  g = [s \in SUBSET DOMAIN links |-> IF s = {} THEN base ELSE ReadLink(from, g[s \ {Max(s)}], links[Max(s)])]

Reading(from, links, base) == CHOOSE g : IsReading(g, from, links, base)

\* ReadLinks is that fold at all of them.
LEMMA ReadLinksIsReading ==
  ASSUME NEW graph, NEW from, NEW links
  PROVE  ReadLinks(graph, from, links) = Reading(from, links, [targets |-> {}, dropped |-> graph.dropped])[DOMAIN links]
BY DEF ReadLinks, FoldLeft, MapThenFoldSet, Reading, IsReading

\* There is such a fold.
LEMMA ReadingExists ==
  ASSUME HostsAssumption, NEW from \in Names, NEW links, AreLinks(links), NEW base \in Reads, IsFiniteSet(base.targets)
  PROVE  IsReading(Reading(from, links, base), from, links, base)
<1> DEFINE n == Len(links)
           c == [s \in SUBSET (1..n) |-> Max(s)]
           States == {read \in Reads : IsFiniteSet(read.targets)}
           step == [i \in 1..n |-> [read \in States |-> ReadLink(from, read, links[i])]]
<1>1. n \in Nat /\ DOMAIN links = 1..n /\ \A i \in 1..n : IsLink(links[i])
  BY DEF AreLinks
<1>2. step \in [1..n -> [States -> States]]
  <2>1. ASSUME NEW i \in 1..n, NEW read \in States PROVE ReadLink(from, read, links[i]) \in States
    BY <1>1, ReadsOne
  <2> HIDE DEF States
  <2> QED BY <2>1
<1>3. PICK g \in [SUBSET (1..n) -> States] : IsFold(g, 1..n, c, base, step)
  <2>1. Takes(c, 1..n) /\ IsFiniteSet(1..n) /\ base \in States
    BY <1>1, LastTakes, TakesLast
  <2> HIDE DEF c, step, States
  <2> QED BY <1>2, <2>1, FoldExists
<1>4. ASSUME NEW s \in SUBSET (1..n)
      PROVE  g[s] = IF s = {} THEN base ELSE ReadLink(from, g[s \ {Max(s)}], links[Max(s)])
  <2>1. g[s] = IF s = {} THEN base ELSE step[c[s]][g[s \ {c[s]}]]
    BY <1>3 DEF IsFold
  <2>2. CASE s # {}
    <3>1. Max(s) \in 1..n /\ c[s] = Max(s) /\ s \ {Max(s)} \in SUBSET (1..n)
      BY <1>1, <2>2, TakesLast
    <3>2. g[s \ {Max(s)}] \in States
      BY <3>1
    <3>3. step[Max(s)][g[s \ {Max(s)}]] = ReadLink(from, g[s \ {Max(s)}], links[Max(s)])
      <4> HIDE DEF States
      <4> QED BY <3>1, <3>2
    <3> HIDE DEF c, step, States
    <3> QED BY <2>1, <2>2, <3>1, <3>3
  <2> QED BY <2>1, <2>2
<1>5. IsReading(g, from, links, base)
  BY <1>1, <1>4 DEF IsReading
<1> QED BY <1>5 DEF Reading

\* All links are read: a page's targets are the hosts it votes for, and every
\* link is one of them or dropped.
LEMMA LinksAreRead ==
  ASSUME HostsAssumption, NEW from \in Names, NEW links, AreLinks(links), NEW graph, graph.dropped \in Drops
  PROVE  LET read == ReadLinks(graph, from, links) IN
         /\ read \in Reads /\ IsFiniteSet(read.targets)
         /\ read.targets = {HostOf(links[i].url.host) : i \in {j \in DOMAIN links : IsVote(from, links[j])}}
         /\ Dropped(read.dropped) + Cardinality(read.targets) = Dropped(graph.dropped) + Len(links)
<1> DEFINE n == Len(links)
           base == [targets |-> {}, dropped |-> graph.dropped]
           g == Reading(from, links, base)
           c == [s \in SUBSET (1..n) |-> Max(s)]
           Told(s) == {HostOf(links[i].url.host) : i \in {j \in s : IsVote(from, links[j])}}
           Right(s) == /\ g[s] \in Reads /\ IsFiniteSet(g[s].targets) /\ g[s].targets = Told(s)
                       /\ Dropped(g[s].dropped) + Cardinality(g[s].targets) = Dropped(graph.dropped) + Cardinality(s)
           G == {s \in SUBSET (1..n) : Right(s)}
<1>1. n \in Nat /\ DOMAIN links = 1..n /\ \A i \in 1..n : IsLink(links[i])
  BY DEF AreLinks
<1>2. base \in Reads /\ IsFiniteSet({}) /\ Cardinality({}) = 0 /\ IsFiniteSet(1..n) /\ Cardinality(1..n) = n
  BY <1>1, FS_EmptySet, FS_Interval DEF Reads
<1>3. \A s \in SUBSET (1..n) : g[s] = IF s = {} THEN base ELSE ReadLink(from, g[s \ {Max(s)}], links[Max(s)])
  <2>1. IsReading(g, from, links, base)
    BY <1>2, ReadingExists
  <2> HIDE DEF g
  <2> QED BY <1>1, <2>1 DEF IsReading
<1> HIDE DEF g
<1>4. Dropped(graph.dropped) \in Nat
  BY DEF Drops, Dropped
<1>5. {} \in G
  <2>1. g[{}] = base /\ Told({}) = {}
    BY <1>3
  <2>2. g[{}].targets = {} /\ g[{}].dropped = graph.dropped /\ g[{}] \in Reads /\ {} \in SUBSET (1..n)
    BY <1>2, <2>1
  <2> HIDE DEF Told, base
  <2>3. Right({})
    BY <1>2, <1>4, <2>1, <2>2
  <2> HIDE DEF Right
  <2> QED BY <2>2, <2>3
<1>6. ASSUME NEW s \in SUBSET (1..n), s # {}, s \ {c[s]} \in G PROVE s \in G
  <2> DEFINE m == Max(s)
             r == s \ {m}
  <2>1. m \in s /\ m \in 1..n /\ c[s] = m
    BY <1>1, <1>6, TakesLast
  <2>2. r \in SUBSET (1..n) /\ Right(r)
    <3> HIDE DEF Right, c, m
    <3> QED BY <1>6, <2>1
  <2>3. IsFiniteSet(r) /\ IsFiniteSet(s) /\ Cardinality(r) \in Nat /\ Cardinality(s) = Cardinality(r) + 1
    <3>1. IsFiniteSet(s) /\ IsFiniteSet(r)
      BY <1>2, FS_Subset
    <3> HIDE DEF m
    <3>2. Cardinality(r) = Cardinality(s) - 1 /\ Cardinality(s) \in Nat /\ Cardinality(r) \in Nat
      BY <2>1, <3>1, FS_RemoveElement, FS_CardinalityType
    <3> QED BY <3>1, <3>2
  <2>4. g[s] = ReadLink(from, g[r], links[m])
    BY <1>3, <1>6
  <2>5. Told(s) = Told(r) \cup (IF IsVote(from, links[m]) THEN {HostOf(links[m].url.host)} ELSE {})
    <3> HIDE DEF m
    <3> QED BY <2>1
  <2>6. /\ g[s] \in Reads /\ IsFiniteSet(g[s].targets)
        /\ g[s].targets = g[r].targets \cup (IF IsVote(from, links[m]) THEN {HostOf(links[m].url.host)} ELSE {})
        /\ Dropped(g[s].dropped) + Cardinality(g[s].targets) = Dropped(g[r].dropped) + Cardinality(g[r].targets) + 1
    <3>1. IsLink(links[m]) /\ g[r] \in Reads /\ IsFiniteSet(g[r].targets)
      BY <1>1, <2>1, <2>2
    <3> HIDE DEF m, r
    <3> QED BY <2>4, <3>1, ReadsOne
  <2> HIDE DEF m, r, Told, base
  <2>7. g[s].targets = Told(s)
    BY <2>2, <2>5, <2>6
  <2>8. Dropped(g[s].dropped) + Cardinality(g[s].targets) = Dropped(graph.dropped) + Cardinality(s)
    BY <1>4, <2>2, <2>3, <2>6
  <2> QED BY <2>6, <2>7, <2>8
<1>7. 1..n \in G
  <2>1. Takes(c, 1..n)
    BY <1>1, LastTakes
  <2> HIDE DEF G, c
  <2> QED BY <1>2, <1>5, <1>6, <2>1, FoldInduction
<1>8. ReadLinks(graph, from, links) = g[1..n]
  BY <1>1, ReadLinksIsReading DEF g
<1> QED BY <1>1, <1>2, <1>7, <1>8

-----------------------------------------------------------------------------
(* Votes *)

\* Maps from hosts.
Maps(A) == UNION {[D -> A] : D \in SUBSET Names}

\* An edge is there when it counts a page.
Positive == Nat \ {0}

\* Pages that vote, by host.
Counts == Maps(Positive)

\* The graphs of a crawl: every host has both kinds of edge, to hosts it knows.
Graphs ==
  {g \in [pages : Maps(Nat), out : Maps(Counts), incoming : Maps(Counts), seeds : SUBSET Names, dropped : Drops] :
     /\ IsFiniteSet(HostsOf(g)) /\ DOMAIN g.out = HostsOf(g) /\ DOMAIN g.incoming = HostsOf(g)
     /\ g.seeds \subseteq HostsOf(g)
     /\ \A h \in HostsOf(g) : DOMAIN g.out[h] \subseteq HostsOf(g) /\ DOMAIN g.incoming[h] \subseteq HostsOf(g)}

\* Pages of a host that vote for another, by either end of the edge.
Sent(g, a, b) == IF a \in HostsOf(g) THEN CountIn(g.out[a], b) ELSE 0

Got(g, a, b) == IF b \in HostsOf(g) THEN CountIn(g.incoming[b], a) ELSE 0

\* All votes of a host, and of all hosts.
SentBy(g, h) == SumOf(g.out[h], DOMAIN g.out[h])

AllSent(g) == SumOf([h \in HostsOf(g) |-> SentBy(g, h)], HostsOf(g))

\* What it is to be a map.
LEMMA InMaps ==
  ASSUME NEW A, NEW f
  PROVE  f \in Maps(A) <=> f = [x \in DOMAIN f |-> f[x]] /\ DOMAIN f \in SUBSET Names /\ \A x \in DOMAIN f : f[x] \in A
<1>1. ASSUME f \in Maps(A) PROVE f = [x \in DOMAIN f |-> f[x]] /\ DOMAIN f \in SUBSET Names /\ \A x \in DOMAIN f : f[x] \in A
  BY <1>1 DEF Maps
<1>2. ASSUME f = [x \in DOMAIN f |-> f[x]], DOMAIN f \in SUBSET Names, \A x \in DOMAIN f : f[x] \in A PROVE f \in Maps(A)
  <2>1. f \in [DOMAIN f -> A]
    BY <1>2
  <2> QED BY <1>2, <2>1 DEF Maps
<1> QED BY <1>1, <1>2

\* The empty map.
LEMMA EmptyMap ==
  /\ DOMAIN <<>> = {} /\ \A A : <<>> \in Maps(A)
<1>1. DOMAIN <<>> = {} /\ <<>> = [x \in {} |-> x]
  OBVIOUS
<1>2. ASSUME NEW A PROVE <<>> \in [{} -> A]
  BY <1>1
<1> QED BY <1>1, <1>2 DEF Maps

\* A map to some set with a value for a key, or another.
IsWith(n, A, f, k, v) ==
  /\ n \in Maps(A) /\ DOMAIN n = DOMAIN f \cup {k}
  /\ \A x \in DOMAIN f \cup {k} : n[x] = IF x = k THEN v ELSE f[x]

\* A map with a value for a key is one.
LEMMA WithInMaps ==
  ASSUME NEW A, NEW f \in Maps(A), NEW k \in Names, NEW v \in A
  PROVE  IsWith(With(f, k, v), A, f, k, v)
<1>1. DOMAIN f \in SUBSET Names /\ \A x \in DOMAIN f : f[x] \in A
  BY InMaps
<1>2. With(f, k, v) \in [DOMAIN f \cup {k} -> A]
  BY <1>1 DEF With
<1>3. DOMAIN f \cup {k} \in SUBSET Names
  BY <1>1
<1> QED BY <1>2, <1>3 DEF Maps, With, IsWith

\* The same for the kinds of map that a graph is made of.
LEMMA WithEdge ==
  ASSUME NEW f \in Maps(Positive), NEW k \in Names, NEW v \in Positive
  PROVE  /\ With(f, k, v) \in Maps(Positive) /\ DOMAIN With(f, k, v) = DOMAIN f \cup {k}
         /\ \A x \in DOMAIN f \cup {k} : With(f, k, v)[x] = IF x = k THEN v ELSE f[x]
<1>1. IsWith(With(f, k, v), Positive, f, k, v)
  BY WithInMaps, Zenon
<1> QED BY <1>1 DEF IsWith

\* Setting one number of a map of numbers.
LEMMA WithCount ==
  ASSUME NEW f \in Maps(Nat), NEW k \in Names, NEW v \in Nat
  PROVE  /\ With(f, k, v) \in Maps(Nat) /\ DOMAIN With(f, k, v) = DOMAIN f \cup {k}
         /\ \A x \in DOMAIN f \cup {k} : With(f, k, v)[x] = IF x = k THEN v ELSE f[x]
<1>1. IsWith(With(f, k, v), Nat, f, k, v)
  BY WithInMaps, Zenon
<1> QED BY <1>1 DEF IsWith

\* What a graph is made of.
LEMMA GraphParts ==
  ASSUME NEW g
  PROVE  g \in Graphs <=>
           /\ g = [pages |-> g.pages, out |-> g.out, incoming |-> g.incoming, seeds |-> g.seeds, dropped |-> g.dropped]
           /\ g.pages \in Maps(Nat) /\ g.out \in Maps(Counts) /\ g.incoming \in Maps(Counts)
           /\ g.seeds \in SUBSET Names /\ g.dropped \in Drops
           /\ IsFiniteSet(HostsOf(g)) /\ DOMAIN g.out = HostsOf(g) /\ DOMAIN g.incoming = HostsOf(g)
           /\ g.seeds \subseteq HostsOf(g)
           /\ \A h \in HostsOf(g) : DOMAIN g.out[h] \subseteq HostsOf(g) /\ DOMAIN g.incoming[h] \subseteq HostsOf(g)
BY DEF Graphs

\* A host that is met for the first time has no edges.
LEMMA InternKeeps ==
  ASSUME NEW g \in Graphs, NEW host \in Names
  PROVE  LET n == Intern(g, host) IN
         /\ n \in Graphs /\ HostsOf(n) = HostsOf(g) \cup {host}
         /\ n.seeds = g.seeds /\ n.dropped = g.dropped
         /\ \A h \in HostsOf(g) : n.out[h] = g.out[h] /\ n.incoming[h] = g.incoming[h]
         /\ host \notin HostsOf(g) => n.out[host] = <<>> /\ n.incoming[host] = <<>>
<1> DEFINE n == Intern(g, host)
<1>1. CASE host \in HostsOf(g)
  <2>1. n = g
    BY <1>1 DEF Intern, HostsOf
  <2> QED BY <1>1, <2>1
<1>2. CASE host \notin HostsOf(g)
  <2>1. n = [g EXCEPT !.pages = With(@, host, 0), !.out = With(@, host, <<>>), !.incoming = With(@, host, <<>>)]
    BY <1>2 DEF Intern, HostsOf
  <2>2. g = [pages |-> g.pages, out |-> g.out, incoming |-> g.incoming, seeds |-> g.seeds, dropped |-> g.dropped]
    BY GraphParts
  <2> HIDE DEF n
  <2>3. n = [pages |-> With(g.pages, host, 0), out |-> With(g.out, host, <<>>), incoming |-> With(g.incoming, host, <<>>),
             seeds |-> g.seeds, dropped |-> g.dropped]
    BY <2>1, <2>2
  <2>4. /\ n.pages = With(g.pages, host, 0) /\ n.out = With(g.out, host, <<>>)
        /\ n.incoming = With(g.incoming, host, <<>>) /\ n.seeds = g.seeds /\ n.dropped = g.dropped
        /\ n = [pages |-> n.pages, out |-> n.out, incoming |-> n.incoming, seeds |-> n.seeds, dropped |-> n.dropped]
    BY <2>3
  <2>5. /\ g.pages \in Maps(Nat) /\ g.out \in Maps(Counts) /\ g.incoming \in Maps(Counts)
        /\ g.seeds \in SUBSET Names /\ g.dropped \in Drops
        /\ IsFiniteSet(HostsOf(g)) /\ DOMAIN g.pages = HostsOf(g) /\ DOMAIN g.out = HostsOf(g) /\ DOMAIN g.incoming = HostsOf(g)
        /\ g.seeds \subseteq HostsOf(g)
        /\ \A h \in HostsOf(g) : DOMAIN g.out[h] \subseteq HostsOf(g) /\ DOMAIN g.incoming[h] \subseteq HostsOf(g)
    BY GraphParts DEF HostsOf
  <2>6. <<>> \in Counts /\ DOMAIN <<>> = {}
    BY EmptyMap DEF Counts
  <2>7. /\ n.pages \in Maps(Nat) /\ DOMAIN n.pages = HostsOf(g) \cup {host}
    <3> DEFINE f == g.pages
               v == 0
    <3>1. f \in Maps(Nat) /\ v \in Nat /\ DOMAIN f = HostsOf(g) /\ n.pages = With(f, host, v)
      BY <2>4, <2>5
    <3>2. With(f, host, v) \in Maps(Nat) /\ DOMAIN With(f, host, v) = DOMAIN f \cup {host}
      <4> HIDE DEF f, v
      <4> QED BY <3>1, WithCount
    <3> QED BY <3>1, <3>2
  <2>8. /\ n.out \in Maps(Counts) /\ DOMAIN n.out = HostsOf(g) \cup {host}
        /\ \A x \in HostsOf(g) \cup {host} : n.out[x] = IF x = host THEN <<>> ELSE g.out[x]
    <3> DEFINE f == g.out
               v == <<>>
    <3>1. f \in Maps(Counts) /\ v \in Counts /\ DOMAIN f = HostsOf(g) /\ n.out = With(f, host, v)
      BY <2>4, <2>5, <2>6
    <3>2. /\ With(f, host, v) \in Maps(Counts) /\ DOMAIN With(f, host, v) = DOMAIN f \cup {host}
          /\ \A x \in DOMAIN f \cup {host} : With(f, host, v)[x] = IF x = host THEN v ELSE f[x]
      <4>1. f \in Maps(Counts) /\ v \in Counts
        BY <3>1
      <4> HIDE DEF f, v
      <4>2. IsWith(With(f, host, v), Counts, f, host, v)
        BY <4>1, WithInMaps, Zenon
      <4> QED BY <4>2 DEF IsWith
    <3> QED BY <3>1, <3>2
  <2>9. /\ n.incoming \in Maps(Counts) /\ DOMAIN n.incoming = HostsOf(g) \cup {host}
        /\ \A x \in HostsOf(g) \cup {host} : n.incoming[x] = IF x = host THEN <<>> ELSE g.incoming[x]
    <3> DEFINE f == g.incoming
               v == <<>>
    <3>1. f \in Maps(Counts) /\ v \in Counts /\ DOMAIN f = HostsOf(g) /\ n.incoming = With(f, host, v)
      BY <2>4, <2>5, <2>6
    <3>2. /\ With(f, host, v) \in Maps(Counts) /\ DOMAIN With(f, host, v) = DOMAIN f \cup {host}
          /\ \A x \in DOMAIN f \cup {host} : With(f, host, v)[x] = IF x = host THEN v ELSE f[x]
      <4>1. f \in Maps(Counts) /\ v \in Counts
        BY <3>1
      <4> HIDE DEF f, v
      <4>2. IsWith(With(f, host, v), Counts, f, host, v)
        BY <4>1, WithInMaps, Zenon
      <4> QED BY <4>2 DEF IsWith
    <3> QED BY <3>1, <3>2
  <2>10. /\ \A h \in HostsOf(g) : n.out[h] = g.out[h] /\ n.incoming[h] = g.incoming[h]
         /\ n.out[host] = <<>> /\ n.incoming[host] = <<>>
    BY <1>2, <2>8, <2>9
  <2>11. HostsOf(n) = HostsOf(g) \cup {host} /\ IsFiniteSet(HostsOf(n))
    BY <2>5, <2>7, FS_AddElement DEF HostsOf
  <2>12. n \in Graphs
    <3>1. \A h \in HostsOf(n) : DOMAIN n.out[h] \subseteq HostsOf(n) /\ DOMAIN n.incoming[h] \subseteq HostsOf(n)
      BY <2>5, <2>6, <2>10, <2>11
    <3> QED BY <2>4, <2>5, <2>7, <2>8, <2>9, <2>11, <3>1, GraphParts
  <2> QED BY <2>4, <2>10, <2>11, <2>12 DEF n
<1> QED BY <1>1, <1>2

\* Nothing is voted, so the counts are what they were.
LEMMA InternCounts ==
  ASSUME NEW g \in Graphs, NEW host \in Names
  PROVE  /\ \A a, b : Sent(Intern(g, host), a, b) = Sent(g, a, b) /\ Got(Intern(g, host), a, b) = Got(g, a, b)
         /\ AllSent(Intern(g, host)) = AllSent(g)
<1> DEFINE n == Intern(g, host)
           e == [h \in HostsOf(g) |-> SentBy(g, h)]
           f == [h \in HostsOf(n) |-> SentBy(n, h)]
<1>1. /\ n \in Graphs /\ HostsOf(n) = HostsOf(g) \cup {host}
      /\ \A h \in HostsOf(g) : n.out[h] = g.out[h] /\ n.incoming[h] = g.incoming[h]
      /\ host \notin HostsOf(g) => n.out[host] = <<>> /\ n.incoming[host] = <<>>
  BY InternKeeps
<1>2. DOMAIN <<>> = {}
  BY EmptyMap
<1>3. \A a, b : Sent(n, a, b) = Sent(g, a, b) /\ Got(n, a, b) = Got(g, a, b)
  <2> HIDE DEF n
  <2> QED BY <1>1, <1>2 DEF Sent, Got, CountIn
<1>4. \A h \in HostsOf(g) : e[h] \in Int
  <2> SUFFICES ASSUME NEW h \in HostsOf(g) PROVE SentBy(g, h) \in Int
    OBVIOUS
  <2>1. /\ g.out[h] \in Counts /\ DOMAIN g.out[h] \subseteq HostsOf(g) /\ IsFiniteSet(HostsOf(g))
    BY GraphParts, InMaps
  <2>2. \A x \in DOMAIN g.out[h] : g.out[h][x] \in Int
    BY <2>1, InMaps DEF Counts, Positive
  <2>3. IsFiniteSet(DOMAIN g.out[h])
    BY <2>1, FS_Subset
  <2> QED BY <2>2, <2>3, SumLaws DEF SentBy
<1>5. SumOf(f, HostsOf(n)) = SumOf(e, HostsOf(g))
  <2>1. IsFiniteSet(HostsOf(g)) /\ IsFiniteSet(HostsOf(n))
    BY <1>1, GraphParts
  <2>2. \A h \in HostsOf(g) : f[h] = e[h]
    BY <1>1 DEF SentBy
  <2>3. CASE host \in HostsOf(g)
    <3>1. HostsOf(n) = HostsOf(g)
      BY <1>1, <2>3
    <3> HIDE DEF e, f, n
    <3> QED BY <1>4, <2>1, <2>2, <3>1, SumLaws
  <2>4. CASE host \notin HostsOf(g)
    <3>1. f[host] = 0
      <4>1. f[host] = SumOf(<<>>, {})
        BY <1>1, <1>2, <2>4 DEF SentBy
      <4> QED BY <4>1, FS_EmptySet, SumLaws
    <3> HIDE DEF e, f, n
    <3>2. \A h \in HostsOf(n) : f[h] \in Int
      BY <1>1, <1>4, <2>2, <3>1
    <3>3. SumOf(f, HostsOf(n)) = f[host] + SumOf(f, HostsOf(n) \ {host})
      BY <1>1, <2>1, <3>2, SumLaws
    <3>4. HostsOf(n) \ {host} = HostsOf(g)
      BY <1>1, <2>4
    <3>5. SumOf(f, HostsOf(g)) = SumOf(e, HostsOf(g)) /\ SumOf(e, HostsOf(g)) \in Int
      BY <1>4, <2>1, <2>2, SumLaws
    <3> QED BY <3>1, <3>3, <3>4, <3>5
  <2> QED BY <2>3, <2>4
<1> QED BY <1>3, <1>5 DEF AllSent

\* A sum moves by what one of its members moves by.
LEMMA SumMoves ==
  ASSUME NEW S, IsFiniteSet(S), NEW f, \A x \in S : f[x] \in Int, NEW x \in S, NEW d \in Int,
         NEW e, e[x] = f[x] + d, \A y \in S : y # x => e[y] = f[y]
  PROVE  SumOf(e, S) = SumOf(f, S) + d
<1> DEFINE R == S \ {x}
<1>1. IsFiniteSet(R) /\ \A y \in R : f[y] \in Int /\ e[y] = f[y]
  BY FS_RemoveElement
<1>2. \A y \in S : e[y] \in Int
  OBVIOUS
<1>3. SumOf(f, S) = f[x] + SumOf(f, R)
  BY SumLaws
<1>4. SumOf(e, S) = e[x] + SumOf(e, R)
  BY <1>2, SumLaws
<1>5. SumOf(e, R) = SumOf(f, R) /\ SumOf(f, R) \in Int
  <2> HIDE DEF R
  <2> QED BY <1>1, SumLaws
<1> QED BY <1>3, <1>4, <1>5

\* Counting one more page on an edge.
LEMMA OneMoreCounts ==
  ASSUME NEW c \in Counts, IsFiniteSet(DOMAIN c), NEW k \in Names
  PROVE  /\ OneMore(c, k) \in Counts /\ DOMAIN OneMore(c, k) = DOMAIN c \cup {k}
         /\ \A x : CountIn(c, x) \in Nat /\ CountIn(OneMore(c, k), x) = CountIn(c, x) + (IF x = k THEN 1 ELSE 0)
         /\ SumOf(c, DOMAIN c) \in Int
         /\ SumOf(OneMore(c, k), DOMAIN c \cup {k}) = SumOf(c, DOMAIN c) + 1
<1> DEFINE v == CountIn(c, k) + 1
           n == OneMore(c, k)
           D == DOMAIN c
<1>1. D \in SUBSET Names /\ \A x \in D : c[x] \in Nat \ {0}
  BY InMaps DEF Counts, Positive
<1>2. \A x : CountIn(c, x) \in Nat
  BY <1>1 DEF CountIn
<1>3. v \in Positive
  BY <1>2 DEF Positive
<1>4. /\ n \in Counts /\ DOMAIN n = D \cup {k}
      /\ \A x \in D \cup {k} : n[x] = IF x = k THEN v ELSE c[x]
  <2>1. n = With(c, k, v)
    BY DEF OneMore
  <2> HIDE DEF v
  <2>2. c \in Maps(Positive)
    BY DEF Counts
  <2>3. /\ With(c, k, v) \in Maps(Positive) /\ DOMAIN With(c, k, v) = DOMAIN c \cup {k}
        /\ \A x \in DOMAIN c \cup {k} : With(c, k, v)[x] = IF x = k THEN v ELSE c[x]
    <3>1. IsWith(With(c, k, v), Positive, c, k, v)
      BY <1>3, <2>2, WithInMaps, Zenon
    <3> QED BY <3>1 DEF IsWith
  <2> HIDE DEF n
  <2> QED BY <2>1, <2>3 DEF Counts
<1> HIDE DEF n
<1>5. \A x : CountIn(n, x) = CountIn(c, x) + (IF x = k THEN 1 ELSE 0)
  <2> SUFFICES ASSUME NEW x PROVE CountIn(n, x) = CountIn(c, x) + (IF x = k THEN 1 ELSE 0)
    OBVIOUS
  <2>1. CASE x = k
    BY <1>4, <2>1 DEF CountIn
  <2>2. CASE x # k
    <3>1. CountIn(n, x) = CountIn(c, x)
      BY <1>4, <2>2 DEF CountIn
    <3> QED BY <1>2, <2>2, <3>1
  <2> QED BY <2>1, <2>2
<1>6. \A x \in D : c[x] \in Int
  BY <1>1
<1>7. SumOf(c, D) \in Int
  <2> HIDE DEF D
  <2> QED BY <1>6, SumLaws DEF D
<1>8. SumOf(n, D \cup {k}) = SumOf(c, D) + 1
  <2> HIDE DEF v
  <2>1. CASE k \in D
    <3>1. D \cup {k} = D /\ n[k] = c[k] + 1 /\ \A y \in D : y # k => n[y] = c[y]
      BY <1>4, <2>1 DEF v, CountIn
    <3> HIDE DEF D
    <3> QED BY <1>6, <2>1, <3>1, SumMoves DEF D
  <2>2. CASE k \notin D
    <3>1. n[k] = 1
      BY <1>4, <2>2 DEF v, CountIn
    <3> DEFINE S == D \cup {k}
    <3>2. IsFiniteSet(S) /\ S \ {k} = D /\ k \in S
      BY <2>2, FS_AddElement
    <3>3. SumOf(n, S) = n[k] + SumOf(n, D)
      <4>1. \A x \in S : n[x] \in Int
        <5>1. ASSUME NEW x \in S PROVE n[x] \in Int
          <6>1. CASE x = k
            BY <3>1, <6>1
          <6>2. CASE x # k
            BY <1>4, <1>6, <6>2
          <6> QED BY <6>1, <6>2
        <5> QED BY <5>1
      <4>2. SumOf(n, S) = n[k] + SumOf(n, S \ {k})
        <5> HIDE DEF S
        <5> QED BY <3>2, <4>1, SumLaws
      <4> QED BY <3>2, <4>2
    <3>4. \A x \in D : n[x] = c[x]
      BY <1>4, <2>2
    <3>5. SumOf(n, D) = SumOf(c, D)
      <4> HIDE DEF D
      <4> QED BY <1>6, <3>4, SumLaws DEF D
    <3> HIDE DEF D
    <3> QED BY <1>7, <3>1, <3>3, <3>5
  <2> QED BY <2>1, <2>2
<1> QED BY <1>2, <1>4, <1>5, <1>7, <1>8 DEF n

\* What is in a graph at a host.
LEMMA AtHost ==
  ASSUME NEW g \in Graphs, NEW h \in HostsOf(g)
  PROVE  /\ h \in Names
         /\ g.out[h] \in Counts /\ IsFiniteSet(DOMAIN g.out[h]) /\ DOMAIN g.out[h] \subseteq HostsOf(g)
         /\ g.incoming[h] \in Counts /\ IsFiniteSet(DOMAIN g.incoming[h]) /\ DOMAIN g.incoming[h] \subseteq HostsOf(g)
         /\ SentBy(g, h) \in Int
<1>1. /\ g.pages \in Maps(Nat) /\ g.out \in Maps(Counts) /\ g.incoming \in Maps(Counts)
      /\ DOMAIN g.out = HostsOf(g) /\ DOMAIN g.incoming = HostsOf(g) /\ IsFiniteSet(HostsOf(g))
      /\ DOMAIN g.out[h] \subseteq HostsOf(g) /\ DOMAIN g.incoming[h] \subseteq HostsOf(g)
  BY GraphParts
<1>2. h \in Names
  BY <1>1, InMaps DEF HostsOf
<1>3. g.out[h] \in Counts /\ g.incoming[h] \in Counts
  BY <1>1, InMaps
<1>4. IsFiniteSet(DOMAIN g.out[h]) /\ IsFiniteSet(DOMAIN g.incoming[h])
  BY <1>1, FS_Subset
<1>5. SentBy(g, h) \in Int
  <2> DEFINE c == g.out[h]
             D == DOMAIN c
  <2>1. IsFiniteSet(D) /\ \A x \in D : c[x] \in Int
    BY <1>3, <1>4, InMaps DEF Counts, Positive
  <2>2. SumOf(c, D) \in Int
    <3> HIDE DEF c, D
    <3> QED BY <2>1, SumLaws
  <2> QED BY <2>2 DEF SentBy
<1> QED BY <1>1, <1>2, <1>3, <1>4, <1>5

\* The votes add up to a number.
LEMMA AllSentType == ASSUME NEW g \in Graphs PROVE AllSent(g) \in Int
<1> DEFINE e == [h \in HostsOf(g) |-> SentBy(g, h)]
           S == HostsOf(g)
<1>1. IsFiniteSet(S) /\ \A h \in S : e[h] \in Int
  BY AtHost, GraphParts
<1> HIDE DEF e, S
<1>2. SumOf(e, S) \in Int
  BY <1>1, SumLaws
<1> QED BY <1>2 DEF AllSent, e, S

\* The counts at both ends of every edge are numbers.
LEMMA CountsType == ASSUME NEW g \in Graphs PROVE \A a, b : Sent(g, a, b) \in Nat /\ Got(g, a, b) \in Nat
<1> SUFFICES ASSUME NEW a, NEW b PROVE Sent(g, a, b) \in Nat /\ Got(g, a, b) \in Nat
  OBVIOUS
<1>1. ASSUME NEW c \in Counts, NEW x PROVE CountIn(c, x) \in Nat
  BY InMaps DEF CountIn, Counts, Positive
<1>2. Sent(g, a, b) \in Nat
  <2>1. CASE a \in HostsOf(g)
    BY <1>1, <2>1, AtHost DEF Sent
  <2> QED BY <2>1 DEF Sent
<1>3. Got(g, a, b) \in Nat
  <2>1. CASE b \in HostsOf(g)
    BY <1>1, <2>1, AtHost DEF Got
  <2> QED BY <2>1 DEF Got
<1> QED BY <1>2, <1>3

\* A vote is counted at both ends of its edge, and nowhere else.
LEMMA VoteKeeps ==
  ASSUME NEW g \in Graphs, NEW from \in HostsOf(g), NEW to \in Names
  PROVE  LET n == Vote(g, from, to)
             one(a, b) == IF a = from /\ b = to THEN 1 ELSE 0
         IN
         /\ n \in Graphs /\ HostsOf(n) = HostsOf(g) \cup {to}
         /\ n.seeds = g.seeds /\ n.dropped = g.dropped
         /\ \A a, b : Sent(n, a, b) = Sent(g, a, b) + one(a, b) /\ Got(n, a, b) = Got(g, a, b) + one(a, b)
         /\ AllSent(n) = AllSent(g) + 1
<1> DEFINE m == Intern(g, to)
           n == Vote(g, from, to)
           H == HostsOf(g) \cup {to}
           o == OneMore(m.out[from], to)
           i == OneMore(m.incoming[to], from)
           one(a, b) == IF a = from /\ b = to THEN 1 ELSE 0
<1>1. /\ m \in Graphs /\ HostsOf(m) = H /\ m.seeds = g.seeds /\ m.dropped = g.dropped
      /\ \A a, b : Sent(m, a, b) = Sent(g, a, b) /\ Got(m, a, b) = Got(g, a, b)
      /\ AllSent(m) = AllSent(g)
  BY InternKeeps, InternCounts
<1>2. from \in H /\ to \in H /\ from \in Names
  BY AtHost
<1>3. n = [m EXCEPT !.out[from] = o, !.incoming[to] = i]
  BY DEF Vote
<1> HIDE DEF m, n, H
<1>4. /\ m = [pages |-> m.pages, out |-> m.out, incoming |-> m.incoming, seeds |-> m.seeds, dropped |-> m.dropped]
      /\ m.pages \in Maps(Nat) /\ m.out \in Maps(Counts) /\ m.incoming \in Maps(Counts)
      /\ m.seeds \in SUBSET Names /\ m.dropped \in Drops
      /\ IsFiniteSet(H) /\ DOMAIN m.pages = H /\ DOMAIN m.out = H /\ DOMAIN m.incoming = H
      /\ m.seeds \subseteq H
      /\ \A h \in H : DOMAIN m.out[h] \subseteq H /\ DOMAIN m.incoming[h] \subseteq H
  BY <1>1, GraphParts DEF HostsOf
<1>5. /\ m.out[from] \in Counts /\ IsFiniteSet(DOMAIN m.out[from]) /\ DOMAIN m.out[from] \subseteq H
      /\ m.incoming[to] \in Counts /\ IsFiniteSet(DOMAIN m.incoming[to]) /\ DOMAIN m.incoming[to] \subseteq H
  BY <1>1, <1>2, AtHost
<1>6. /\ o \in Counts /\ DOMAIN o = DOMAIN m.out[from] \cup {to}
      /\ \A x : CountIn(m.out[from], x) \in Nat /\ CountIn(o, x) = CountIn(m.out[from], x) + (IF x = to THEN 1 ELSE 0)
      /\ SumOf(o, DOMAIN m.out[from] \cup {to}) = SumOf(m.out[from], DOMAIN m.out[from]) + 1
  <2> DEFINE c == m.out[from]
  <2>1. c \in Counts /\ IsFiniteSet(DOMAIN c)
    BY <1>5
  <2> HIDE DEF c
  <2> QED BY <2>1, OneMoreCounts DEF c
<1>7. /\ i \in Counts /\ DOMAIN i = DOMAIN m.incoming[to] \cup {from}
      /\ \A x : CountIn(m.incoming[to], x) \in Nat /\ CountIn(i, x) = CountIn(m.incoming[to], x) + (IF x = from THEN 1 ELSE 0)
  <2> DEFINE c == m.incoming[to]
  <2>1. c \in Counts /\ IsFiniteSet(DOMAIN c)
    BY <1>5
  <2> HIDE DEF c
  <2> QED BY <1>2, <2>1, OneMoreCounts DEF c
<1> HIDE DEF o, i
<1>8. n = [pages |-> m.pages, out |-> [m.out EXCEPT ![from] = o], incoming |-> [m.incoming EXCEPT ![to] = i],
           seeds |-> m.seeds, dropped |-> m.dropped]
  BY <1>3, <1>4
<1>9. /\ n.pages = m.pages /\ n.out = [m.out EXCEPT ![from] = o] /\ n.incoming = [m.incoming EXCEPT ![to] = i]
      /\ n.seeds = m.seeds /\ n.dropped = m.dropped
      /\ n = [pages |-> n.pages, out |-> n.out, incoming |-> n.incoming, seeds |-> n.seeds, dropped |-> n.dropped]
  BY <1>8
<1>10. /\ DOMAIN n.out = H /\ \A h \in H : n.out[h] = IF h = from THEN o ELSE m.out[h]
       /\ DOMAIN n.incoming = H /\ \A h \in H : n.incoming[h] = IF h = to THEN i ELSE m.incoming[h]
       /\ n.out = [h \in H |-> n.out[h]] /\ n.incoming = [h \in H |-> n.incoming[h]]
  <2>1. m.out = [h \in H |-> m.out[h]] /\ m.incoming = [h \in H |-> m.incoming[h]]
    BY <1>4, InMaps
  <2> QED BY <1>2, <1>9, <2>1
<1>11. HostsOf(n) = H
  BY <1>4, <1>9 DEF HostsOf
<1>12. n.out \in Maps(Counts) /\ n.incoming \in Maps(Counts)
  <2>1. \A h \in H : m.out[h] \in Counts /\ m.incoming[h] \in Counts
    BY <1>1, AtHost
  <2>2. \A h \in H : n.out[h] \in Counts /\ n.incoming[h] \in Counts
    BY <1>6, <1>7, <1>10, <2>1
  <2>3. H \in SUBSET Names
    BY <1>4, InMaps
  <2> QED BY <1>10, <2>2, <2>3, InMaps
<1>13. n \in Graphs
  <2>1. \A h \in H : DOMAIN n.out[h] \subseteq H /\ DOMAIN n.incoming[h] \subseteq H
    BY <1>2, <1>4, <1>5, <1>6, <1>7, <1>10
  <2> QED BY <1>4, <1>9, <1>10, <1>11, <1>12, <2>1, GraphParts
<1>14. ASSUME NEW a, NEW b PROVE Sent(n, a, b) = Sent(g, a, b) + one(a, b)
  <2>1. Sent(m, a, b) = Sent(g, a, b)
    BY <1>1
  <2>2. CASE a = from
    <3>1. Sent(n, a, b) = CountIn(o, b) /\ Sent(m, a, b) = CountIn(m.out[from], b)
      BY <1>1, <1>2, <1>10, <1>11, <2>2 DEF Sent
    <3> QED BY <1>6, <2>1, <2>2, <3>1
  <2>3. CASE a # from
    <3>1. Sent(n, a, b) = Sent(m, a, b)
      BY <1>1, <1>10, <1>11, <2>3 DEF Sent
    <3>2. Sent(m, a, b) \in Nat
      <4>1. CASE a \in H
        <5>1. m.out[a] \in Counts /\ IsFiniteSet(DOMAIN m.out[a])
          BY <1>1, <4>1, AtHost
        <5>2. CountIn(m.out[a], b) \in Nat
          <6> DEFINE c == m.out[a]
          <6>1. c \in Counts /\ IsFiniteSet(DOMAIN c)
            BY <5>1
          <6> HIDE DEF c
          <6> QED BY <1>2, <6>1, OneMoreCounts DEF c
        <5> QED BY <1>1, <4>1, <5>2 DEF Sent
      <4>2. CASE a \notin H
        BY <1>1, <4>2 DEF Sent
      <4> QED BY <4>1, <4>2
    <3> QED BY <2>1, <2>3, <3>1, <3>2
  <2> QED BY <2>2, <2>3
<1>15. ASSUME NEW a, NEW b PROVE Got(n, a, b) = Got(g, a, b) + one(a, b)
  <2>1. Got(m, a, b) = Got(g, a, b)
    BY <1>1
  <2>2. CASE b = to
    <3>1. Got(n, a, b) = CountIn(i, a) /\ Got(m, a, b) = CountIn(m.incoming[to], a)
      BY <1>1, <1>2, <1>10, <1>11, <2>2 DEF Got
    <3> QED BY <1>7, <2>1, <2>2, <3>1
  <2>3. CASE b # to
    <3>1. Got(n, a, b) = Got(m, a, b)
      BY <1>1, <1>10, <1>11, <2>3 DEF Got
    <3>2. Got(m, a, b) \in Nat
      <4>1. CASE b \in H
        <5>1. m.incoming[b] \in Counts /\ IsFiniteSet(DOMAIN m.incoming[b])
          BY <1>1, <4>1, AtHost
        <5>2. CountIn(m.incoming[b], a) \in Nat
          <6> DEFINE c == m.incoming[b]
          <6>1. c \in Counts /\ IsFiniteSet(DOMAIN c)
            BY <5>1
          <6> HIDE DEF c
          <6> QED BY <1>2, <6>1, OneMoreCounts DEF c
        <5> QED BY <1>1, <4>1, <5>2 DEF Got
      <4>2. CASE b \notin H
        BY <1>1, <4>2 DEF Got
      <4> QED BY <4>1, <4>2
    <3> QED BY <2>1, <2>3, <3>1, <3>2
  <2> QED BY <2>2, <2>3
<1>16. AllSent(n) = AllSent(g) + 1
  <2> DEFINE e == [h \in H |-> SentBy(m, h)]
             f == [h \in H |-> SentBy(n, h)]
  <2>1. \A h \in H : e[h] \in Int
    BY <1>1, AtHost
  <2>2. f[from] = e[from] + 1
    BY <1>2, <1>6, <1>10 DEF SentBy
  <2>3. \A h \in H : h # from => f[h] = e[h]
    BY <1>10 DEF SentBy
  <2>4. SumOf(f, H) = SumOf(e, H) + 1
    <3> DEFINE d == 1
    <3>1. d \in Int /\ f[from] = e[from] + d /\ IsFiniteSet(H) /\ from \in H
      BY <1>2, <1>4, <2>2
    <3> HIDE DEF d, e, f
    <3>2. SumOf(f, H) = SumOf(e, H) + d
      BY <2>1, <2>3, <3>1, SumMoves
    <3> QED BY <3>2 DEF d
  <2>5. AllSent(n) = SumOf(f, H) /\ AllSent(m) = SumOf(e, H)
    BY <1>1, <1>11 DEF AllSent
  <2> HIDE DEF e, f
  <2> QED BY <1>1, <2>4, <2>5
<1> QED BY <1>1, <1>9, <1>11, <1>13, <1>14, <1>15, <1>16 DEF n, H

\* The fold behind VoteForAll.
IsVoting(v, from, targets, base) ==
  v = [s \in SUBSET targets |-> IF s = {} THEN base ELSE Vote(v[s \ {First(s)}], from, First(s))]

VotingOf(from, targets, base) == CHOOSE v : IsVoting(v, from, targets, base)

\* VoteForAll is that fold at all targets.
LEMMA VoteForAllIsVoting ==
  ASSUME NEW graph, NEW from, NEW targets
  PROVE  VoteForAll(graph, from, targets) = VotingOf(from, targets, graph)[targets]
BY DEF VoteForAll, FoldSet, MapThenFoldSet, VotingOf, IsVoting, First

\* There is such a fold.
LEMMA VotingExists ==
  ASSUME NEW base \in Graphs, NEW from \in HostsOf(base), NEW targets \in SUBSET Names, IsFiniteSet(targets)
  PROVE  IsVoting(VotingOf(from, targets, base), from, targets, base)
<1> DEFINE c == [s \in SUBSET targets |-> First(s)]
           States == {g \in Graphs : from \in HostsOf(g)}
           step == [to \in targets |-> [g \in States |-> Vote(g, from, to)]]
<1>1. step \in [targets -> [States -> States]]
  <2>1. ASSUME NEW to \in targets, NEW g \in States PROVE Vote(g, from, to) \in States
    <3>1. g \in Graphs /\ from \in HostsOf(g) /\ to \in Names
      OBVIOUS
    <3>2. Vote(g, from, to) \in Graphs /\ HostsOf(Vote(g, from, to)) = HostsOf(g) \cup {to}
      BY <3>1, VoteKeeps
    <3> QED BY <3>1, <3>2
  <2> HIDE DEF States
  <2> QED BY <2>1
<1>2. PICK g \in [SUBSET targets -> States] : IsFold(g, targets, c, base, step)
  <2>1. Takes(c, targets)
    BY DEF Takes, First
  <2>2. base \in States
    OBVIOUS
  <2> HIDE DEF c, step, States
  <2> QED BY <1>1, <2>1, <2>2, FoldExists
<1>3. ASSUME NEW s \in SUBSET targets
      PROVE  g[s] = IF s = {} THEN base ELSE Vote(g[s \ {First(s)}], from, First(s))
  <2>1. g[s] = IF s = {} THEN base ELSE step[c[s]][g[s \ {c[s]}]]
    BY <1>2 DEF IsFold
  <2>2. CASE s # {}
    <3>1. First(s) \in targets /\ c[s] = First(s) /\ s \ {First(s)} \in SUBSET targets
      BY <2>2 DEF First
    <3>2. g[s \ {First(s)}] \in States
      BY <3>1
    <3>3. step[First(s)][g[s \ {First(s)}]] = Vote(g[s \ {First(s)}], from, First(s))
      <4> HIDE DEF States
      <4> QED BY <3>1, <3>2
    <3> HIDE DEF c, step, States
    <3> QED BY <2>1, <2>2, <3>1, <3>3
  <2> QED BY <2>1, <2>2
<1>4. IsVoting(g, from, targets, base)
  BY <1>3 DEF IsVoting
<1> QED BY <1>4 DEF VotingOf

\* A page votes once for each of the hosts it links to.
LEMMA VotesKeep ==
  ASSUME NEW base \in Graphs, NEW from \in HostsOf(base), NEW targets \in SUBSET Names, IsFiniteSet(targets)
  PROVE  LET n == VoteForAll(base, from, targets)
             one(a, b) == IF a = from /\ b \in targets THEN 1 ELSE 0
         IN
         /\ n \in Graphs /\ HostsOf(n) = HostsOf(base) \cup targets
         /\ n.seeds = base.seeds /\ n.dropped = base.dropped
         /\ \A a, b : Sent(n, a, b) = Sent(base, a, b) + one(a, b) /\ Got(n, a, b) = Got(base, a, b) + one(a, b)
         /\ AllSent(n) = AllSent(base) + Cardinality(targets)
<1> DEFINE v == VotingOf(from, targets, base)
           c == [s \in SUBSET targets |-> First(s)]
           one(a, b, s) == IF a = from /\ b \in s THEN 1 ELSE 0
           Right(n, s) ==
             /\ n \in Graphs /\ HostsOf(n) = HostsOf(base) \cup s
             /\ n.seeds = base.seeds /\ n.dropped = base.dropped
             /\ \A a, b : Sent(n, a, b) = Sent(base, a, b) + one(a, b, s) /\ Got(n, a, b) = Got(base, a, b) + one(a, b, s)
             /\ AllSent(n) = AllSent(base) + Cardinality(s)
           G == {s \in SUBSET targets : Right(v[s], s)}
<1>1. \A s \in SUBSET targets : v[s] = IF s = {} THEN base ELSE Vote(v[s \ {First(s)}], from, First(s))
  <2>1. IsVoting(v, from, targets, base)
    BY VotingExists
  <2> HIDE DEF v
  <2> QED BY <2>1 DEF IsVoting
<1> HIDE DEF v
<1>2. AllSent(base) \in Int /\ \A a, b : Sent(base, a, b) \in Nat /\ Got(base, a, b) \in Nat
  BY AllSentType, CountsType
<1>3. {} \in G
  <2>1. v[{}] = base /\ {} \in SUBSET targets
    BY <1>1
  <2>2. Cardinality({}) = 0
    BY FS_EmptySet
  <2>3. Right(base, {})
    BY <1>2, <2>2
  <2> HIDE DEF Right
  <2> QED BY <2>1, <2>3
<1>4. ASSUME NEW s \in SUBSET targets, s # {}, s \ {c[s]} \in G PROVE s \in G
  <2> DEFINE to == First(s)
             r == s \ {to}
             n == v[r]
  <2>1. to \in s /\ to \in Names /\ c[s] = to
    BY <1>4 DEF First
  <2>2. r \in SUBSET targets /\ Right(n, r)
    <3> HIDE DEF Right, to, n
    <3> QED BY <1>4, <2>1 DEF n
  <2>3. IsFiniteSet(r) /\ Cardinality(r) \in Nat /\ Cardinality(s) = Cardinality(r) + 1
    <3>1. IsFiniteSet(s) /\ IsFiniteSet(r)
      BY FS_Subset
    <3> HIDE DEF to
    <3>2. Cardinality(r) = Cardinality(s) - 1 /\ Cardinality(s) \in Nat /\ Cardinality(r) \in Nat
      BY <2>1, <3>1, FS_RemoveElement, FS_CardinalityType
    <3> QED BY <3>1, <3>2
  <2>4. v[s] = Vote(n, from, to)
    BY <1>1, <1>4
  <2> DEFINE w == Vote(n, from, to)
             last(a, b) == IF a = from /\ b = to THEN 1 ELSE 0
  <2>5. n \in Graphs /\ from \in HostsOf(n)
    BY <2>2
  <2> HIDE DEF to, n
  <2>6. /\ w \in Graphs /\ HostsOf(w) = HostsOf(n) \cup {to}
        /\ w.seeds = n.seeds /\ w.dropped = n.dropped
        /\ \A a, b : Sent(w, a, b) = Sent(n, a, b) + last(a, b) /\ Got(w, a, b) = Got(n, a, b) + last(a, b)
        /\ AllSent(w) = AllSent(n) + 1
    BY <2>1, <2>5, VoteKeeps
  <2> HIDE DEF w
  <2>7. ASSUME NEW a, NEW b PROVE one(a, b, s) = one(a, b, r) + last(a, b)
    BY <2>1
  <2>8. s = r \cup {to}
    BY <2>1
  <2> HIDE DEF r
  <2>9. Right(w, s)
    <3>1. HostsOf(w) = HostsOf(base) \cup s
      BY <2>2, <2>6, <2>8
    <3>2. ASSUME NEW a, NEW b
          PROVE  Sent(w, a, b) = Sent(base, a, b) + one(a, b, s) /\ Got(w, a, b) = Got(base, a, b) + one(a, b, s)
      <4>1. /\ Sent(w, a, b) = Sent(n, a, b) + last(a, b) /\ Got(w, a, b) = Got(n, a, b) + last(a, b)
            /\ Sent(n, a, b) = Sent(base, a, b) + one(a, b, r) /\ Got(n, a, b) = Got(base, a, b) + one(a, b, r)
        BY <2>2, <2>6
      <4>2. last(a, b) \in Int /\ one(a, b, r) \in Int /\ Sent(base, a, b) \in Int /\ Got(base, a, b) \in Int
        BY <1>2
      <4>3. one(a, b, s) = one(a, b, r) + last(a, b)
        BY <2>7
      <4> HIDE DEF one, last
      <4> QED BY <4>1, <4>2, <4>3
    <3>3. AllSent(w) = AllSent(base) + Cardinality(s)
      BY <1>2, <2>2, <2>3, <2>6
    <3>4. w \in Graphs /\ w.seeds = base.seeds /\ w.dropped = base.dropped
      BY <2>2, <2>6
    <3> HIDE DEF one
    <3> QED BY <3>1, <3>2, <3>3, <3>4
  <2> HIDE DEF Right
  <2> QED BY <2>4, <2>9 DEF w
<1>5. targets \in G
  <2>1. Takes(c, targets)
    BY DEF Takes, First
  <2> HIDE DEF G, c
  <2> QED BY <1>3, <1>4, <2>1, FoldInduction
<1>6. VoteForAll(base, from, targets) = v[targets]
  BY VoteForAllIsVoting DEF v
<1> QED BY <1>5, <1>6

\* The same in one word.
IsVoted(n, base, from, targets) ==
  /\ n \in Graphs /\ HostsOf(n) = HostsOf(base) \cup targets
  /\ n.seeds = base.seeds /\ n.dropped = base.dropped
  /\ \A a, b : LET once == IF a = from /\ b \in targets THEN 1 ELSE 0
               IN  Sent(n, a, b) = Sent(base, a, b) + once /\ Got(n, a, b) = Got(base, a, b) + once
  /\ AllSent(n) = AllSent(base) + Cardinality(targets)

LEMMA HasVoted ==
  ASSUME NEW base \in Graphs, NEW from \in HostsOf(base), NEW targets \in SUBSET Names, IsFiniteSet(targets)
  PROVE  IsVoted(VoteForAll(base, from, targets), base, from, targets)
BY VotesKeep DEF IsVoted

\* The records and the seeds that a graph may be built from.
AreRecords(rs) ==
  rs \in Seq(ToSet(rs)) /\ \A i \in DOMAIN rs : IsUrl(rs[i].url) /\ IsUrl(rs[i].final) /\ AreLinks(rs[i].links)

AreSeeds(seeds) == seeds \in Seq(ToSet(seeds)) /\ \A i \in DOMAIN seeds : IsUrl(seeds[i])

\* The hosts that a record votes for, those it names, and whether it votes.
Targets(record) ==
  {HostOf(record.links[i].url.host) : i \in {j \in DOMAIN record.links : IsVote(HostOf(record.final.host), record.links[j])}}

Named(record) == IF HostOf(record.final.host) = <<>> THEN {} ELSE {HostOf(record.final.host)} \cup Targets(record)

Votes(record, a, b) == a # <<>> /\ a = HostOf(record.final.host) /\ b \in Targets(record)

\* What of a record has a place: its links, or itself when it has no host.
Places(record) == IF HostOf(record.final.host) = <<>> THEN 1 ELSE Len(record.links)

\* A page is counted for its host.
LEMMA NotedKeeps ==
  ASSUME NEW g \in Graphs, NEW from \in Names, NEW d \in Drops
  PROVE  LET n == [[Intern(g, from) EXCEPT !.pages[from] = @ + 1] EXCEPT !.dropped = d] IN
         /\ n \in Graphs /\ HostsOf(n) = HostsOf(g) \cup {from}
         /\ n.seeds = g.seeds /\ n.dropped = d
         /\ \A a, b : Sent(n, a, b) = Sent(g, a, b) /\ Got(n, a, b) = Got(g, a, b)
         /\ AllSent(n) = AllSent(g)
<1> DEFINE m == Intern(g, from)
           n == [[m EXCEPT !.pages[from] = @ + 1] EXCEPT !.dropped = d]
           H == HostsOf(g) \cup {from}
<1>1. /\ m \in Graphs /\ HostsOf(m) = H /\ m.seeds = g.seeds
      /\ \A a, b : Sent(m, a, b) = Sent(g, a, b) /\ Got(m, a, b) = Got(g, a, b)
      /\ AllSent(m) = AllSent(g)
  BY InternKeeps, InternCounts
<1>2. from \in H
  OBVIOUS
<1> HIDE DEF m, H
<1>3. /\ m = [pages |-> m.pages, out |-> m.out, incoming |-> m.incoming, seeds |-> m.seeds, dropped |-> m.dropped]
      /\ m.pages \in Maps(Nat) /\ m.out \in Maps(Counts) /\ m.incoming \in Maps(Counts)
      /\ m.seeds \in SUBSET Names
      /\ IsFiniteSet(H) /\ DOMAIN m.pages = H /\ DOMAIN m.out = H /\ DOMAIN m.incoming = H
      /\ m.seeds \subseteq H
      /\ \A h \in H : DOMAIN m.out[h] \subseteq H /\ DOMAIN m.incoming[h] \subseteq H
  BY <1>1, GraphParts DEF HostsOf
<1>4. n = [pages |-> [m.pages EXCEPT ![from] = @ + 1], out |-> m.out, incoming |-> m.incoming, seeds |-> m.seeds, dropped |-> d]
  <2> DEFINE p == [m.pages EXCEPT ![from] = @ + 1]
             k == [m EXCEPT !.pages[from] = @ + 1]
  <2>1. k = [m EXCEPT !.pages = p]
    BY <1>3
  <2> HIDE DEF p, k
  <2>2. k = [pages |-> p, out |-> m.out, incoming |-> m.incoming, seeds |-> m.seeds, dropped |-> m.dropped]
    BY <1>3, <2>1
  <2>3. n = [k EXCEPT !.dropped = d]
    BY DEF k
  <2> HIDE DEF n
  <2> QED BY <2>2, <2>3 DEF p
<1> HIDE DEF n
<1>5. /\ n.pages = [m.pages EXCEPT ![from] = @ + 1] /\ n.out = m.out /\ n.incoming = m.incoming /\ n.seeds = m.seeds /\ n.dropped = d
      /\ n = [pages |-> n.pages, out |-> n.out, incoming |-> n.incoming, seeds |-> n.seeds, dropped |-> n.dropped]
  BY <1>4
<1>6. DOMAIN n.pages = H /\ HostsOf(n) = H
  BY <1>3, <1>5 DEF HostsOf
<1>7. n.pages \in Maps(Nat)
  <2>1. H \in SUBSET Names /\ m.pages = [x \in H |-> m.pages[x]] /\ \A x \in H : m.pages[x] \in Nat
    BY <1>3, InMaps
  <2>2. n.pages = [x \in H |-> n.pages[x]] /\ \A x \in H : n.pages[x] \in Nat
    BY <1>2, <1>5, <2>1
  <2> QED BY <1>6, <2>1, <2>2, InMaps
<1>8. n \in Graphs
  BY <1>3, <1>5, <1>6, <1>7, GraphParts
<1>9. \A a, b : Sent(n, a, b) = Sent(m, a, b) /\ Got(n, a, b) = Got(m, a, b)
  BY <1>1, <1>5, <1>6 DEF Sent, Got
<1>10. AllSent(n) = AllSent(m)
  BY <1>1, <1>5, <1>6 DEF AllSent, SentBy
<1> QED BY <1>1, <1>5, <1>6, <1>8, <1>9, <1>10 DEF m, n, H

\* A page votes for the hosts it links to, and all its links have their place.
LEMMA RecordKeeps ==
  ASSUME HostsAssumption, NEW g \in Graphs, NEW record, IsUrl(record.final), AreLinks(record.links)
  PROVE  LET n == AddRecord(g, record)
             one(a, b) == IF Votes(record, a, b) THEN 1 ELSE 0
         IN
         /\ n \in Graphs /\ HostsOf(n) = HostsOf(g) \cup Named(record) /\ n.seeds = g.seeds
         /\ \A a, b : Sent(n, a, b) = Sent(g, a, b) + one(a, b) /\ Got(n, a, b) = Got(g, a, b) + one(a, b)
         /\ Dropped(n.dropped) + AllSent(n) = Dropped(g.dropped) + AllSent(g) + Places(record)
<1> DEFINE from == HostOf(record.final.host)
           n == AddRecord(g, record)
           one(a, b) == IF Votes(record, a, b) THEN 1 ELSE 0
<1>1. from \in Names
  BY HostOfType DEF IsUrl, Names
<1>2. /\ g = [pages |-> g.pages, out |-> g.out, incoming |-> g.incoming, seeds |-> g.seeds, dropped |-> g.dropped]
      /\ g.dropped \in Drops
  BY GraphParts
<1>3. AllSent(g) \in Int /\ \A a, b : Sent(g, a, b) \in Nat /\ Got(g, a, b) \in Nat
  BY AllSentType, CountsType
<1>4. Dropped(g.dropped) \in Nat
  BY <1>2 DEF Drops, Dropped
<1>5. CASE from = <<>>
  <2> DEFINE d == [g.dropped EXCEPT !.unparseable = @ + 1]
  <2>1. d \in Drops /\ Dropped(d) = Dropped(g.dropped) + 1
    BY <1>2 DEF Drops, Dropped
  <2>2. n = [g EXCEPT !.dropped = d]
    BY <1>2, <1>5 DEF AddRecord
  <2> HIDE DEF d, n
  <2>3. n = [pages |-> g.pages, out |-> g.out, incoming |-> g.incoming, seeds |-> g.seeds, dropped |-> d]
    BY <1>2, <2>2
  <2>4. /\ n.pages = g.pages /\ n.out = g.out /\ n.incoming = g.incoming /\ n.seeds = g.seeds /\ n.dropped = d
        /\ n = [pages |-> n.pages, out |-> n.out, incoming |-> n.incoming, seeds |-> n.seeds, dropped |-> n.dropped]
    BY <2>3
  <2>5. HostsOf(n) = HostsOf(g)
    BY <2>4 DEF HostsOf
  <2>6. n \in Graphs
    <3>1. /\ g.pages \in Maps(Nat) /\ g.out \in Maps(Counts) /\ g.incoming \in Maps(Counts) /\ g.seeds \in SUBSET Names
          /\ IsFiniteSet(HostsOf(g)) /\ DOMAIN g.out = HostsOf(g) /\ DOMAIN g.incoming = HostsOf(g)
          /\ g.seeds \subseteq HostsOf(g)
          /\ \A h \in HostsOf(g) : DOMAIN g.out[h] \subseteq HostsOf(g) /\ DOMAIN g.incoming[h] \subseteq HostsOf(g)
      BY GraphParts
    <3> QED BY <2>1, <2>4, <2>5, <3>1, GraphParts
  <2>7. \A a, b : Sent(n, a, b) = Sent(g, a, b) /\ Got(n, a, b) = Got(g, a, b)
    BY <2>4, <2>5 DEF Sent, Got
  <2>8. AllSent(n) = AllSent(g)
    BY <2>4, <2>5 DEF AllSent, SentBy
  <2>9. Named(record) = {} /\ Places(record) = 1 /\ \A a, b : one(a, b) = 0
    BY <1>5 DEF Named, Places, Votes
  <2>10. \A a, b : Sent(n, a, b) = Sent(g, a, b) + one(a, b) /\ Got(n, a, b) = Got(g, a, b) + one(a, b)
    <3> HIDE DEF one
    <3> QED BY <1>3, <2>7, <2>9
  <2>11. Dropped(n.dropped) + AllSent(n) = Dropped(g.dropped) + AllSent(g) + Places(record)
    <3> HIDE DEF from
    <3> QED BY <1>3, <1>4, <2>1, <2>4, <2>8, <2>9
  <2> QED BY <2>4, <2>5, <2>6, <2>9, <2>10, <2>11 DEF n
<1>6. CASE from # <<>>
  <2> DEFINE read == ReadLinks(g, from, record.links)
             known == [[Intern(g, from) EXCEPT !.pages[from] = @ + 1] EXCEPT !.dropped = read.dropped]
             two(a, b) == IF a = from /\ b \in read.targets THEN 1 ELSE 0
  <2>1. /\ read \in Reads /\ IsFiniteSet(read.targets)
        /\ read.targets = Targets(record)
        /\ Dropped(read.dropped) + Cardinality(read.targets) = Dropped(g.dropped) + Len(record.links)
    <3> DEFINE links == record.links
    <3>1. AreLinks(links)
      OBVIOUS
    <3>2. LET read_ == ReadLinks(g, from, links) IN
          /\ read_ \in Reads /\ IsFiniteSet(read_.targets)
          /\ read_.targets = {HostOf(links[i].url.host) : i \in {j \in DOMAIN links : IsVote(from, links[j])}}
          /\ Dropped(read_.dropped) + Cardinality(read_.targets) = Dropped(g.dropped) + Len(links)
      <4> HIDE DEF links, from
      <4> QED BY <1>1, <1>2, <3>1, LinksAreRead
    <3> QED BY <3>2 DEF Targets
  <2>2. n = VoteForAll(known, from, read.targets)
    BY <1>6 DEF AddRecord
  <2> HIDE DEF read, n, from
  <2>3. read.targets \in SUBSET Names /\ read.dropped \in Drops
    BY <2>1 DEF Reads
  <2>4. /\ known \in Graphs /\ HostsOf(known) = HostsOf(g) \cup {from}
        /\ known.seeds = g.seeds /\ known.dropped = read.dropped
        /\ \A a, b : Sent(known, a, b) = Sent(g, a, b) /\ Got(known, a, b) = Got(g, a, b)
        /\ AllSent(known) = AllSent(g)
    BY <1>1, <2>3, NotedKeeps
  <2> HIDE DEF known
  <2>5. /\ n \in Graphs /\ HostsOf(n) = HostsOf(known) \cup read.targets
        /\ n.seeds = known.seeds /\ n.dropped = known.dropped
        /\ \A a, b : Sent(n, a, b) = Sent(known, a, b) + two(a, b) /\ Got(n, a, b) = Got(known, a, b) + two(a, b)
        /\ AllSent(n) = AllSent(known) + Cardinality(read.targets)
    <3> DEFINE targets == read.targets
    <3>1. targets \in SUBSET Names /\ IsFiniteSet(targets) /\ from \in HostsOf(known)
      BY <2>1, <2>3, <2>4
    <3> HIDE DEF targets
    <3>2. IsVoted(VoteForAll(known, from, targets), known, from, targets)
      BY <2>4, <3>1, HasVoted, Zenon
    <3> QED BY <2>2, <3>2 DEF IsVoted, targets
  <2>6. \A a, b : two(a, b) = one(a, b)
    BY <1>6, <2>1 DEF Votes, from
  <2>7. HostsOf(n) = HostsOf(g) \cup Named(record) /\ Places(record) = Len(record.links)
    BY <1>6, <2>1, <2>4, <2>5 DEF Named, Places, from
  <2>8. Dropped(n.dropped) + AllSent(n) = Dropped(g.dropped) + AllSent(g) + Places(record)
    <3>1. Cardinality(read.targets) \in Nat /\ Dropped(read.dropped) \in Nat /\ Len(record.links) \in Nat
      BY <2>1, <2>3, FS_CardinalityType DEF AreLinks, Drops, Dropped
    <3> QED BY <1>3, <1>4, <2>1, <2>4, <2>5, <2>7, <3>1
  <2>9. \A a, b : Sent(n, a, b) = Sent(g, a, b) + one(a, b) /\ Got(n, a, b) = Got(g, a, b) + one(a, b)
    <3> HIDE DEF one, two
    <3> QED BY <2>4, <2>5, <2>6
  <2>10. n.seeds = g.seeds
    BY <2>4, <2>5
  <2> QED BY <2>5, <2>7, <2>8, <2>9, <2>10 DEF n
<1> QED BY <1>5, <1>6

\* A graph without edges.
Edgeless(g) == (\A a, b : Sent(g, a, b) = 0 /\ Got(g, a, b) = 0) /\ AllSent(g) = 0 /\ Dropped(g.dropped) = 0

\* The graph starts without edges.
LEMMA NewIsEdgeless ==
  NewGraph \in Graphs /\ HostsOf(NewGraph) = {} /\ NewGraph.seeds = {} /\ Edgeless(NewGraph)
<1>1. <<>> \in Maps(Nat) /\ <<>> \in Maps(Counts) /\ DOMAIN <<>> = {}
  BY EmptyMap
<1>2. HostsOf(NewGraph) = {} /\ IsFiniteSet({})
  BY <1>1, FS_EmptySet DEF NewGraph, HostsOf
<1>3. NoDrops \in Drops /\ Dropped(NoDrops) = 0
  BY DEF NoDrops, Drops, Dropped
<1>4. NewGraph \in Graphs
  BY <1>1, <1>2, <1>3, GraphParts DEF NewGraph
<1>5. \A a, b : Sent(NewGraph, a, b) = 0 /\ Got(NewGraph, a, b) = 0
  BY <1>2 DEF Sent, Got
<1>6. AllSent(NewGraph) = 0
  <2> DEFINE e == [h \in HostsOf(NewGraph) |-> SentBy(NewGraph, h)]
  <2>1. AllSent(NewGraph) = SumOf(e, {})
    BY <1>2 DEF AllSent
  <2> HIDE DEF e
  <2> QED BY <1>2, <2>1, SumLaws
<1>7. NewGraph.seeds = {} /\ NewGraph.dropped = NoDrops
  BY DEF NewGraph
<1> QED BY <1>2, <1>3, <1>4, <1>5, <1>6, <1>7 DEF Edgeless

\* A seed is a host of the graph and nothing else.
SeedNames(url) == {HostOf(url.host)} \ {<<>>}

\* A seed adds its host and no edge.
LEMMA SeedKeeps ==
  ASSUME NEW g \in Graphs, Edgeless(g), NEW url, IsUrl(url)
  PROVE  LET n == AddSeed(g, url) IN
         /\ n \in Graphs /\ Edgeless(n)
         /\ HostsOf(n) = HostsOf(g) \cup SeedNames(url) /\ n.seeds = g.seeds \cup SeedNames(url)
<1> DEFINE host == HostOf(url.host)
           n == AddSeed(g, url)
           m == Intern(g, host)
           H == HostsOf(g) \cup {host}
<1>1. host \in Names
  BY HostOfType DEF IsUrl, Names
<1>2. CASE host = <<>>
  BY <1>2 DEF AddSeed, SeedNames
<1>3. CASE host # <<>>
  <2>1. SeedNames(url) = {host}
    BY <1>3 DEF SeedNames
  <2>2. /\ m \in Graphs /\ HostsOf(m) = H /\ m.seeds = g.seeds /\ m.dropped = g.dropped
        /\ \A a, b : Sent(m, a, b) = Sent(g, a, b) /\ Got(m, a, b) = Got(g, a, b)
        /\ AllSent(m) = AllSent(g)
    BY <1>1, InternKeeps, InternCounts
  <2>3. n = [m EXCEPT !.seeds = @ \cup {host}]
    BY <1>3 DEF AddSeed
  <2>4. host \in H
    OBVIOUS
  <2> HIDE DEF m, n, host, H
  <2>5. /\ m = [pages |-> m.pages, out |-> m.out, incoming |-> m.incoming, seeds |-> m.seeds, dropped |-> m.dropped]
        /\ m.pages \in Maps(Nat) /\ m.out \in Maps(Counts) /\ m.incoming \in Maps(Counts)
        /\ m.seeds \in SUBSET Names /\ m.dropped \in Drops
        /\ IsFiniteSet(H) /\ DOMAIN m.pages = H /\ DOMAIN m.out = H /\ DOMAIN m.incoming = H
        /\ m.seeds \subseteq H
        /\ \A h \in H : DOMAIN m.out[h] \subseteq H /\ DOMAIN m.incoming[h] \subseteq H
    BY <2>2, GraphParts DEF HostsOf
  <2>6. n = [pages |-> m.pages, out |-> m.out, incoming |-> m.incoming, seeds |-> m.seeds \cup {host}, dropped |-> m.dropped]
    BY <2>3, <2>5
  <2>7. /\ n.pages = m.pages /\ n.out = m.out /\ n.incoming = m.incoming /\ n.seeds = m.seeds \cup {host} /\ n.dropped = m.dropped
        /\ n = [pages |-> n.pages, out |-> n.out, incoming |-> n.incoming, seeds |-> n.seeds, dropped |-> n.dropped]
    BY <2>6
  <2>8. HostsOf(n) = H
    BY <2>5, <2>7 DEF HostsOf
  <2>9. n \in Graphs
    <3>1. n.seeds \in SUBSET Names /\ n.seeds \subseteq H
      BY <1>1, <2>4, <2>5, <2>7
    <3> QED BY <2>5, <2>7, <2>8, <3>1, GraphParts
  <2>10. \A a, b : Sent(n, a, b) = Sent(m, a, b) /\ Got(n, a, b) = Got(m, a, b)
    BY <2>2, <2>7, <2>8 DEF Sent, Got
  <2>11. AllSent(n) = AllSent(m)
    BY <2>2, <2>7, <2>8 DEF AllSent, SentBy
  <2>12. Edgeless(n)
    BY <2>2, <2>7, <2>10, <2>11 DEF Edgeless
  <2>13. HostsOf(n) = HostsOf(g) \cup SeedNames(url) /\ n.seeds = g.seeds \cup SeedNames(url)
    BY <2>1, <2>2, <2>7, <2>8 DEF H
  <2> QED BY <2>9, <2>12, <2>13 DEF n
<1> QED BY <1>2, <1>3

\* The fold of the seeds.
IsSeeding(v, seeds, base) ==
  v = [s \in SUBSET DOMAIN seeds |-> IF s = {} THEN base ELSE AddSeed(v[s \ {Max(s)}], seeds[Max(s)])]

Seeding(seeds, base) == CHOOSE v : IsSeeding(v, seeds, base)

\* The seeds are folded by it.
LEMMA SeedsAreSeeding ==
  ASSUME NEW base, NEW seeds
  PROVE  FoldLeft(AddSeed, base, seeds) = Seeding(seeds, base)[DOMAIN seeds]
BY DEF FoldLeft, MapThenFoldSet, Seeding, IsSeeding

\* There is such a fold.
LEMMA SeedingExists ==
  ASSUME NEW seeds, AreSeeds(seeds), NEW base \in Graphs, Edgeless(base)
  PROVE  IsSeeding(Seeding(seeds, base), seeds, base)
<1> DEFINE n == Len(seeds)
           c == [s \in SUBSET (1..n) |-> Max(s)]
           States == {g \in Graphs : Edgeless(g)}
           step == [i \in 1..n |-> [g \in States |-> AddSeed(g, seeds[i])]]
<1>1. n \in Nat /\ DOMAIN seeds = 1..n /\ \A i \in 1..n : IsUrl(seeds[i])
  BY DEF AreSeeds
<1>2. step \in [1..n -> [States -> States]]
  <2>1. ASSUME NEW i \in 1..n, NEW g \in States PROVE AddSeed(g, seeds[i]) \in States
    BY <1>1, SeedKeeps
  <2> HIDE DEF States
  <2> QED BY <2>1
<1>3. PICK v \in [SUBSET (1..n) -> States] : IsFold(v, 1..n, c, base, step)
  <2>1. Takes(c, 1..n) /\ IsFiniteSet(1..n) /\ base \in States
    BY <1>1, LastTakes, TakesLast
  <2> HIDE DEF c, step, States
  <2> QED BY <1>2, <2>1, FoldExists
<1>4. ASSUME NEW s \in SUBSET (1..n)
      PROVE  v[s] = IF s = {} THEN base ELSE AddSeed(v[s \ {Max(s)}], seeds[Max(s)])
  <2>1. v[s] = IF s = {} THEN base ELSE step[c[s]][v[s \ {c[s]}]]
    BY <1>3 DEF IsFold
  <2>2. CASE s # {}
    <3>1. Max(s) \in 1..n /\ c[s] = Max(s) /\ s \ {Max(s)} \in SUBSET (1..n)
      BY <1>1, <2>2, TakesLast
    <3>2. v[s \ {Max(s)}] \in States
      BY <3>1
    <3>3. step[Max(s)][v[s \ {Max(s)}]] = AddSeed(v[s \ {Max(s)}], seeds[Max(s)])
      <4> HIDE DEF States
      <4> QED BY <3>1, <3>2
    <3> HIDE DEF c, step, States
    <3> QED BY <2>1, <2>2, <3>1, <3>3
  <2> QED BY <2>1, <2>2
<1>5. IsSeeding(v, seeds, base)
  BY <1>1, <1>4 DEF IsSeeding
<1> QED BY <1>5 DEF Seeding

\* The hosts of the seeds.
SeedHosts(seeds) == UNION {SeedNames(seeds[i]) : i \in DOMAIN seeds}

\* All seeds add their hosts and no edge.
LEMMA SeedsKeep ==
  ASSUME NEW seeds, AreSeeds(seeds)
  PROVE  LET n == FoldLeft(AddSeed, NewGraph, seeds) IN
         /\ n \in Graphs /\ Edgeless(n)
         /\ HostsOf(n) = SeedHosts(seeds) /\ n.seeds = SeedHosts(seeds)
<1> DEFINE n == Len(seeds)
           v == Seeding(seeds, NewGraph)
           c == [s \in SUBSET (1..n) |-> Max(s)]
           Of(s) == UNION {SeedNames(seeds[i]) : i \in s}
           Right(g, s) == g \in Graphs /\ Edgeless(g) /\ HostsOf(g) = Of(s) /\ g.seeds = Of(s)
           G == {s \in SUBSET (1..n) : Right(v[s], s)}
<1>1. n \in Nat /\ DOMAIN seeds = 1..n /\ \A i \in 1..n : IsUrl(seeds[i])
  BY DEF AreSeeds
<1>2. \A s \in SUBSET (1..n) : v[s] = IF s = {} THEN NewGraph ELSE AddSeed(v[s \ {Max(s)}], seeds[Max(s)])
  <2>1. IsSeeding(v, seeds, NewGraph)
    BY NewIsEdgeless, SeedingExists
  <2> HIDE DEF v
  <2> QED BY <1>1, <2>1 DEF IsSeeding
<1> HIDE DEF v
<1>3. {} \in G
  <2>1. v[{}] = NewGraph /\ {} \in SUBSET (1..n) /\ Of({}) = {}
    BY <1>2
  <2>2. Right(NewGraph, {})
    BY <2>1, NewIsEdgeless
  <2> HIDE DEF Right
  <2> QED BY <2>1, <2>2
<1>4. ASSUME NEW s \in SUBSET (1..n), s # {}, s \ {c[s]} \in G PROVE s \in G
  <2> DEFINE m == Max(s)
             r == s \ {m}
             w == AddSeed(v[r], seeds[m])
  <2>1. m \in s /\ m \in 1..n /\ c[s] = m
    BY <1>1, <1>4, TakesLast
  <2>2. r \in SUBSET (1..n) /\ Right(v[r], r)
    <3> HIDE DEF Right, c, m
    <3> QED BY <1>4, <2>1
  <2>3. v[s] = w
    BY <1>2, <1>4
  <2>4. Of(s) = Of(r) \cup SeedNames(seeds[m])
    <3> HIDE DEF m
    <3> QED BY <2>1
  <2>5. IsUrl(seeds[m])
    BY <1>1, <2>1
  <2> HIDE DEF m, r
  <2>6. /\ w \in Graphs /\ Edgeless(w)
        /\ HostsOf(w) = HostsOf(v[r]) \cup SeedNames(seeds[m]) /\ w.seeds = v[r].seeds \cup SeedNames(seeds[m])
    BY <2>2, <2>5, SeedKeeps
  <2> HIDE DEF w, Of
  <2>7. Right(w, s)
    BY <2>2, <2>4, <2>6
  <2> HIDE DEF Right
  <2> QED BY <2>3, <2>7
<1>5. 1..n \in G
  <2>1. Takes(c, 1..n) /\ IsFiniteSet(1..n)
    BY <1>1, LastTakes, TakesLast
  <2> HIDE DEF G, c
  <2> QED BY <1>3, <1>4, <2>1, FoldInduction
<1>6. FoldLeft(AddSeed, NewGraph, seeds) = v[1..n]
  BY <1>1, SeedsAreSeeding DEF v
<1>7. Of(1..n) = SeedHosts(seeds)
  BY <1>1 DEF SeedHosts
<1> HIDE DEF Of
<1> QED BY <1>5, <1>6, <1>7

\* The fold of the records.
IsGathering(v, rs, base) ==
  v = [s \in SUBSET DOMAIN rs |-> IF s = {} THEN base ELSE AddRecord(v[s \ {Max(s)}], rs[Max(s)])]

Gathering(rs, base) == CHOOSE v : IsGathering(v, rs, base)

\* A graph is what comes of the seeds and then of the records.
LEMMA GraphIsGathering ==
  ASSUME NEW rs, NEW seeds
  PROVE  Graph(rs, seeds) = Gathering(rs, FoldLeft(AddSeed, NewGraph, seeds))[DOMAIN rs]
<1> DEFINE base == FoldLeft(AddSeed, NewGraph, seeds)
<1>1. Graph(rs, seeds) = FoldLeft(AddRecord, base, rs)
  BY DEF Graph
<1> HIDE DEF base
<1>2. FoldLeft(AddRecord, base, rs) = Gathering(rs, base)[DOMAIN rs]
  BY DEF FoldLeft, MapThenFoldSet, Gathering, IsGathering
<1> QED BY <1>1, <1>2 DEF base

\* There is such a fold.
LEMMA GatheringExists ==
  ASSUME HostsAssumption, NEW rs, AreRecords(rs), NEW base \in Graphs
  PROVE  IsGathering(Gathering(rs, base), rs, base)
<1> DEFINE n == Len(rs)
           c == [s \in SUBSET (1..n) |-> Max(s)]
           step == [i \in 1..n |-> [g \in Graphs |-> AddRecord(g, rs[i])]]
<1>1. n \in Nat /\ DOMAIN rs = 1..n /\ \A i \in 1..n : IsUrl(rs[i].final) /\ AreLinks(rs[i].links)
  BY DEF AreRecords
<1>2. step \in [1..n -> [Graphs -> Graphs]]
  <2>1. ASSUME NEW i \in 1..n, NEW g \in Graphs PROVE AddRecord(g, rs[i]) \in Graphs
    BY <1>1, RecordKeeps
  <2> QED BY <2>1
<1>3. PICK v \in [SUBSET (1..n) -> Graphs] : IsFold(v, 1..n, c, base, step)
  <2>1. Takes(c, 1..n) /\ IsFiniteSet(1..n)
    BY <1>1, LastTakes, TakesLast
  <2> HIDE DEF c, step
  <2> QED BY <1>2, <2>1, FoldExists
<1>4. ASSUME NEW s \in SUBSET (1..n)
      PROVE  v[s] = IF s = {} THEN base ELSE AddRecord(v[s \ {Max(s)}], rs[Max(s)])
  <2>1. v[s] = IF s = {} THEN base ELSE step[c[s]][v[s \ {c[s]}]]
    BY <1>3 DEF IsFold
  <2>2. CASE s # {}
    <3>1. Max(s) \in 1..n /\ c[s] = Max(s) /\ s \ {Max(s)} \in SUBSET (1..n)
      BY <1>1, <2>2, TakesLast
    <3>2. v[s \ {Max(s)}] \in Graphs
      BY <3>1
    <3>3. step[Max(s)][v[s \ {Max(s)}]] = AddRecord(v[s \ {Max(s)}], rs[Max(s)])
      BY <3>1, <3>2
    <3> HIDE DEF c, step
    <3> QED BY <2>1, <2>2, <3>1, <3>3
  <2> QED BY <2>1, <2>2
<1>5. IsGathering(v, rs, base)
  BY <1>1, <1>4 DEF IsGathering
<1> QED BY <1>5 DEF Gathering

\* The records that vote for b as a.
Voters(rs, s, a, b) == {i \in s : Votes(rs[i], a, b)}

\* The same for all records.
PlacesOf(rs) == [i \in DOMAIN rs |-> Places(rs[i])]

\* What a graph says of the records it is built from.
LEMMA GraphSays ==
  ASSUME HostsAssumption, NEW rs, AreRecords(rs), NEW seeds, AreSeeds(seeds)
  PROVE  LET g == Graph(rs, seeds) IN
         /\ g \in Graphs /\ g.seeds = SeedHosts(seeds)
         /\ HostsOf(g) = SeedHosts(seeds) \cup UNION {Named(rs[i]) : i \in DOMAIN rs}
         /\ \A a, b : /\ Sent(g, a, b) = Cardinality(Voters(rs, DOMAIN rs, a, b))
                      /\ Got(g, a, b) = Cardinality(Voters(rs, DOMAIN rs, a, b))
         /\ Dropped(g.dropped) + AllSent(g) = SumOf(PlacesOf(rs), DOMAIN rs)
<1> DEFINE n == Len(rs)
           base == FoldLeft(AddSeed, NewGraph, seeds)
           v == Gathering(rs, base)
           c == [s \in SUBSET (1..n) |-> Max(s)]
           f == PlacesOf(rs)
           In(s) == UNION {Named(rs[i]) : i \in s}
           Right(g, s) ==
             /\ g \in Graphs /\ g.seeds = base.seeds /\ HostsOf(g) = HostsOf(base) \cup In(s)
             /\ \A a, b : Sent(g, a, b) = Cardinality(Voters(rs, s, a, b)) /\ Got(g, a, b) = Cardinality(Voters(rs, s, a, b))
             /\ Dropped(g.dropped) + AllSent(g) = SumOf(f, s)
           G == {s \in SUBSET (1..n) : Right(v[s], s)}
<1>1. n \in Nat /\ DOMAIN rs = 1..n /\ \A i \in 1..n : IsUrl(rs[i].final) /\ AreLinks(rs[i].links)
  BY DEF AreRecords
<1>2. base \in Graphs /\ Edgeless(base) /\ HostsOf(base) = SeedHosts(seeds) /\ base.seeds = SeedHosts(seeds)
  BY SeedsKeep
<1>3. \A i \in 1..n : f[i] \in Int
  BY <1>1 DEF PlacesOf, Places, AreLinks
<1> HIDE DEF base
<1>4. \A s \in SUBSET (1..n) : v[s] = IF s = {} THEN base ELSE AddRecord(v[s \ {Max(s)}], rs[Max(s)])
  <2>1. IsGathering(v, rs, base)
    BY <1>2, GatheringExists
  <2> HIDE DEF v
  <2> QED BY <1>1, <2>1 DEF IsGathering
<1> HIDE DEF v, f
<1>5. {} \in G
  <2>1. v[{}] = base /\ {} \in SUBSET (1..n) /\ In({}) = {}
    BY <1>4
  <2>2. \A a, b : Voters(rs, {}, a, b) = {}
    BY DEF Voters
  <2>3. Cardinality({}) = 0 /\ SumOf(f, {}) = 0
    BY <1>1, <1>3, FS_EmptySet, FS_Interval, SumLaws
  <2>4. Right(base, {})
    <3>1. HostsOf(base) = HostsOf(base) \cup In({})
      BY <2>1
    <3>2. \A a, b : Sent(base, a, b) = Cardinality(Voters(rs, {}, a, b)) /\ Got(base, a, b) = Cardinality(Voters(rs, {}, a, b))
      BY <1>2, <2>2, <2>3 DEF Edgeless
    <3>3. Dropped(base.dropped) + AllSent(base) = SumOf(f, {})
      BY <1>2, <2>3 DEF Edgeless
    <3> HIDE DEF In
    <3> QED BY <1>2, <3>1, <3>2, <3>3
  <2> HIDE DEF Right
  <2> QED BY <2>1, <2>4
<1>6. ASSUME NEW s \in SUBSET (1..n), s # {}, s \ {c[s]} \in G PROVE s \in G
  <2> DEFINE m == Max(s)
             r == s \ {m}
             g == v[r]
             w == AddRecord(g, rs[m])
             one(a, b) == IF Votes(rs[m], a, b) THEN 1 ELSE 0
  <2>1. m \in s /\ m \in 1..n /\ c[s] = m
    BY <1>1, <1>6, TakesLast
  <2>2. r \in SUBSET (1..n) /\ Right(g, r)
    <3> HIDE DEF Right, c, m
    <3> QED BY <1>6, <2>1
  <2>3. v[s] = w
    BY <1>4, <1>6
  <2>4. IsUrl(rs[m].final) /\ AreLinks(rs[m].links) /\ f[m] = Places(rs[m])
    BY <1>1, <2>1 DEF f, PlacesOf
  <2> HIDE DEF m
  <2>5. In(s) = In(r) \cup Named(rs[m])
    BY <2>1
  <2>6. IsFiniteSet(s) /\ IsFiniteSet(r) /\ m \notin r /\ s = r \cup {m}
    <3>1. IsFiniteSet(1..n)
      BY <1>1, FS_Interval
    <3>2. IsFiniteSet(s) /\ IsFiniteSet(r)
      <4> HIDE DEF m
      <4> QED BY <3>1, FS_Subset
    <3> HIDE DEF m
    <3> QED BY <2>1, <3>2
  <2> HIDE DEF r, g
  <2>7. /\ w \in Graphs /\ HostsOf(w) = HostsOf(g) \cup Named(rs[m]) /\ w.seeds = g.seeds
        /\ \A a, b : Sent(w, a, b) = Sent(g, a, b) + one(a, b) /\ Got(w, a, b) = Got(g, a, b) + one(a, b)
        /\ Dropped(w.dropped) + AllSent(w) = Dropped(g.dropped) + AllSent(g) + Places(rs[m])
    <3> DEFINE record == rs[m]
    <3>1. IsUrl(record.final) /\ AreLinks(record.links) /\ g \in Graphs
      BY <2>2, <2>4
    <3> HIDE DEF record
    <3>2. LET n_ == AddRecord(g, record)
              one_(a, b) == IF Votes(record, a, b) THEN 1 ELSE 0
          IN
          /\ n_ \in Graphs /\ HostsOf(n_) = HostsOf(g) \cup Named(record) /\ n_.seeds = g.seeds
          /\ \A a, b : Sent(n_, a, b) = Sent(g, a, b) + one_(a, b) /\ Got(n_, a, b) = Got(g, a, b) + one_(a, b)
          /\ Dropped(n_.dropped) + AllSent(n_) = Dropped(g.dropped) + AllSent(g) + Places(record)
      BY <3>1, RecordKeeps
    <3> QED BY <3>2 DEF record
  <2> HIDE DEF w
  <2>8. ASSUME NEW a, NEW b
        PROVE  /\ Cardinality(Voters(rs, r, a, b)) \in Nat
               /\ Cardinality(Voters(rs, s, a, b)) = Cardinality(Voters(rs, r, a, b)) + one(a, b)
    <3> DEFINE old == Voters(rs, r, a, b)
    <3>1. IsFiniteSet(old) /\ m \notin old
      BY <2>6, FS_Subset DEF Voters
    <3>2. Voters(rs, s, a, b) = old \cup (IF Votes(rs[m], a, b) THEN {m} ELSE {})
      BY <2>6 DEF Voters
    <3> HIDE DEF old
    <3>3. Cardinality(old) \in Nat /\ Cardinality(old \cup {m}) = Cardinality(old) + 1
      BY <3>1, FS_CardinalityType, FS_AddElement
    <3>4. old \cup {} = old
      OBVIOUS
    <3>5. CASE Votes(rs[m], a, b)
      BY <3>2, <3>3, <3>5 DEF old
    <3>6. CASE ~Votes(rs[m], a, b)
      BY <3>2, <3>3, <3>4, <3>6 DEF old
    <3> QED BY <3>5, <3>6
  <2>9. SumOf(f, s) = SumOf(f, r) + Places(rs[m]) /\ SumOf(f, r) \in Int
    <3>1. \A i \in s : f[i] \in Int
      BY <1>3
    <3>2. \A i \in r : f[i] \in Int
      BY <1>3, <2>2
    <3>3. SumOf(f, s) = f[m] + SumOf(f, r)
      BY <2>1, <2>6, <3>1, SumLaws DEF r
    <3>4. SumOf(f, r) \in Int
      BY <2>6, <3>2, SumLaws
    <3>5. f[m] \in Int
      BY <2>1, <3>1
    <3> QED BY <2>4, <3>3, <3>4, <3>5
  <2> HIDE DEF In
  <2>10. Right(w, s)
    <3>1. HostsOf(w) = HostsOf(base) \cup In(s) /\ w.seeds = base.seeds
      BY <2>2, <2>5, <2>7
    <3>2. ASSUME NEW a, NEW b
          PROVE  Sent(w, a, b) = Cardinality(Voters(rs, s, a, b)) /\ Got(w, a, b) = Cardinality(Voters(rs, s, a, b))
      <4>1. Sent(w, a, b) = Sent(g, a, b) + one(a, b) /\ Got(w, a, b) = Got(g, a, b) + one(a, b)
        BY <2>7
      <4>2. Sent(g, a, b) = Cardinality(Voters(rs, r, a, b)) /\ Got(g, a, b) = Cardinality(Voters(rs, r, a, b))
        BY <2>2
      <4> QED BY <2>8, <4>1, <4>2
    <3>3. Dropped(w.dropped) + AllSent(w) = SumOf(f, s)
      BY <2>2, <2>7, <2>9
    <3> QED BY <2>7, <3>1, <3>2, <3>3
  <2> HIDE DEF Right
  <2> QED BY <2>3, <2>10
<1>7. 1..n \in G
  <2>1. Takes(c, 1..n) /\ IsFiniteSet(1..n)
    BY <1>1, LastTakes, TakesLast
  <2> HIDE DEF G, c
  <2> QED BY <1>5, <1>6, <2>1, FoldInduction
<1>8. Graph(rs, seeds) = v[1..n]
  BY <1>1, GraphIsGathering DEF v, base
<1>9. Right(Graph(rs, seeds), DOMAIN rs)
  <2> HIDE DEF Right
  <2> QED BY <1>1, <1>7, <1>8
<1> QED BY <1>2, <1>9 DEF f

\* The records of a crawl are those a graph is built from.
LEMMA RecordsAreRecords ==
  ASSUME CorpusAssumption, CorpusTypeOK
  PROVE  AreRecords(records) /\ Len(records) \in Nat /\ DOMAIN records = 1..Len(records)
<1>1. records \in Seq({RecordOf(page) : page \in ToSet(fetched)}) /\ fetched \in Seq(Pages)
  BY DEF CorpusTypeOK
<1>2. Len(records) \in Nat /\ DOMAIN records = 1..Len(records)
  BY <1>1
<1>3. ASSUME NEW i \in DOMAIN records
      PROVE  IsUrl(records[i].url) /\ IsUrl(records[i].final) /\ AreLinks(records[i].links)
  <2>1. PICK page \in ToSet(fetched) : records[i] = RecordOf(page)
    BY <1>1
  <2>2. page \in Pages
    BY <1>1 DEF ToSet
  <2>3. /\ IsUrl(page.url) /\ (page.canonical # <<>> => IsUrl(page.canonical[1]))
        /\ page.links \in Seq(ToSet(page.links)) /\ \A link \in ToSet(page.links) : IsLink(link)
    BY <2>2 DEF CorpusAssumption
  <2>4. AreLinks(page.links)
    BY <2>3 DEF AreLinks, ToSet
  <2> QED BY <2>1, <2>3, <2>4 DEF RecordOf
<1>4. records \in Seq(ToSet(records))
  BY <1>1 DEF ToSet
<1> QED BY <1>2, <1>3, <1>4 DEF AreRecords

\* The seeds of the model are seeds.
LEMMA SeedsAreSeeds ==
  ASSUME CorpusAssumption
  PROVE  AreSeeds(<<>>) /\ \A seeds \in Seeds : AreSeeds(seeds)
<1>1. AreSeeds(<<>>)
  BY DEF AreSeeds, ToSet
<1>2. ASSUME NEW seeds \in Seeds PROVE AreSeeds(seeds)
  BY DEF CorpusAssumption, AreSeeds, ToSet
<1> QED BY <1>1, <1>2

-----------------------------------------------------------------------------
(***************************************************************************)
(* What the code counts: the promises with the host that a page names as   *)
(* its canonical one in the place of the one that served it, which come to *)
(* the same where every page names one of its own site (NamesMatter).      *)
(***************************************************************************)

CountedVoting(from, to) ==
  {i \in DOMAIN records : /\ HostOf(records[i].final.host) = from
                          /\ \E link \in ToSet(records[i].links) : IsCounted(records[i], link) /\ HostOf(link.url.host) = to}

CountedCalled(url) ==
  {Tidy[link.anchor] : link \in UNION {{l \in ToSet(records[i].links) : l.url = url /\ IsCounted(records[i], l)} : i \in DOMAIN records}}

CountedFitting(url) == {phrase \in CountedCalled(url) : phrase # NoPhrase /\ Chars[phrase] <= MaxPhraseChars}

VotesAreCounted ==
  LET graph == Graph(records, <<>>)
  IN  \A from, to \in HostsOf(graph) :
        /\ CountIn(graph.out[from], to) = Cardinality(CountedVoting(from, to))
        /\ CountIn(graph.incoming[to], from) = Cardinality(CountedVoting(from, to))

AnchorsAreCounted ==
  \A url \in Crawled(records) :
    LET phrases == Target(Collect(records), url).phrases
    IN  /\ phrases \subseteq CountedFitting(url)
        /\ Cardinality(phrases) = Min({MaxPhrases, Cardinality(CountedFitting(url))})

DescriptionIsCounted ==
  LET anchors == Collect(records)
  IN  \A i \in DOMAIN records :
        LET text == TextFor(anchors, records[i].url, records[i].final)
        IN  /\ Written(text) <= MaxTotalChars
            /\ ToSet(text) \subseteq CountedFitting(records[i].url) \cup CountedFitting(records[i].final)

ScoreIsCounted ==
  LET graph == Graph(records, <<>>)
  IN  \A i \in DOMAIN records :
        LET host == records[i].final.host
        IN  AuthorityScore(graph, host) = Cardinality({from \in HostsOf(graph) : CountedVoting(from, HostOf(host)) # {}})

\* Where pages are called by their own site's names, what is counted is what
\* vouches.
LEMMA NamesMatter ==
  ASSUME OwnNames
  PROVE  /\ \A from, to : CountedVoting(from, to) = Voting(from, to)
         /\ \A url : CountedFitting(url) = Fitting(url)
<1>1. \A i \in DOMAIN records : \A link : IsCounted(records[i], link) <=> Vouches(records[i], link)
  BY DEF OwnNames, IsCounted, Vouches
<1> HIDE DEF IsCounted, Vouches
<1>2. \A from, to : CountedVoting(from, to) = Voting(from, to)
  BY <1>1 DEF CountedVoting, Voting
<1>3. ASSUME NEW url PROVE CountedCalled(url) = Called(url)
  <2>1. \A i \in DOMAIN records : {l \in ToSet(records[i].links) : l.url = url /\ IsCounted(records[i], l)}
                                    = {l \in ToSet(records[i].links) : l.url = url /\ Vouches(records[i], l)}
    BY <1>1
  <2>2. {{l \in ToSet(records[i].links) : l.url = url /\ IsCounted(records[i], l)} : i \in DOMAIN records}
          = {{l \in ToSet(records[i].links) : l.url = url /\ Vouches(records[i], l)} : i \in DOMAIN records}
    BY <2>1
  <2> QED BY <2>2 DEF CountedCalled, Called
<1>4. \A url : CountedFitting(url) = Fitting(url)
  BY <1>3 DEF CountedFitting, Fitting
<1> QED BY <1>2, <1>4

\* Who votes for a host is who has a link that is counted for it.
LEMMA VotingIsVotes ==
  ASSUME AreRecords(records), NEW a, NEW b
  PROVE  CountedVoting(a, b) = Voters(records, DOMAIN records, a, b)
<1> SUFFICES ASSUME NEW i \in DOMAIN records
             PROVE  /\ HostOf(records[i].final.host) = a
                    /\ \E link \in ToSet(records[i].links) : IsCounted(records[i], link) /\ HostOf(link.url.host) = b
                    <=> Votes(records[i], a, b)
  BY DEF CountedVoting, Voters
<1> DEFINE record == records[i]
           from == HostOf(record.final.host)
<1>1. ToSet(record.links) = {record.links[k] : k \in DOMAIN record.links}
  BY DEF ToSet
<1>2. \A link : IsCounted(record, link) <=> from # <<>> /\ IsVote(from, link)
  BY DEF IsCounted, IsVote
<1>3. b \in Targets(record) <=> \E k \in DOMAIN record.links : IsVote(from, record.links[k]) /\ b = HostOf(record.links[k].url.host)
  BY DEF Targets
<1> HIDE DEF record, from
<1>4. from = a /\ (\E link \in ToSet(record.links) : IsCounted(record, link) /\ HostOf(link.url.host) = b)
        <=> a # <<>> /\ a = from /\ b \in Targets(record)
  BY <1>1, <1>2, <1>3
<1> QED BY <1>4 DEF Votes, record, from

\* The two ends of every edge count the pages that vote.
LEMMA VotesCounted ==
  ASSUME HostsAssumption, CorpusAssumption, CorpusTypeOK
  PROVE  VotesAreCounted
<1> DEFINE g == Graph(records, <<>>)
<1>1. AreRecords(records) /\ AreSeeds(<<>>)
  BY RecordsAreRecords, SeedsAreSeeds
<1>2. \A a, b : /\ Sent(g, a, b) = Cardinality(Voters(records, DOMAIN records, a, b))
                /\ Got(g, a, b) = Cardinality(Voters(records, DOMAIN records, a, b))
  BY <1>1, GraphSays
<1> HIDE DEF g
<1>3. ASSUME NEW from \in HostsOf(g), NEW to \in HostsOf(g)
      PROVE  /\ CountIn(g.out[from], to) = Cardinality(CountedVoting(from, to))
             /\ CountIn(g.incoming[to], from) = Cardinality(CountedVoting(from, to))
  <2>1. Sent(g, from, to) = CountIn(g.out[from], to) /\ Got(g, from, to) = CountIn(g.incoming[to], from)
    BY DEF Sent, Got
  <2>2. CountedVoting(from, to) = Voters(records, DOMAIN records, from, to)
    BY <1>1, VotingIsVotes
  <2> QED BY <1>2, <2>1, <2>2
<1> QED BY <1>3 DEF VotesAreCounted, g

\* The promise counts the votes as sums do.
LEMMA AllSentCounts ==
  ASSUME NEW g
  PROVE  AllOf(HostsOf(g), LAMBDA h : AllOf(DOMAIN g.out[h], LAMBDA to : g.out[h][to])) = AllSent(g)
<1> DEFINE S == HostsOf(g)
           e == [h \in S |-> SentBy(g, h)]
           P(v) == v = [s \in SUBSET S |-> IF s = {} THEN 0 ELSE AllOf(DOMAIN g.out[First(s)], LAMBDA to : g.out[First(s)][to]) + v[s \ {First(s)}]]
           Q(v) == v = [s \in SUBSET S |-> IF s = {} THEN 0 ELSE e[First(s)] + v[s \ {First(s)}]]
<1>1. AllOf(HostsOf(g), LAMBDA h : AllOf(DOMAIN g.out[h], LAMBDA to : g.out[h][to])) = (CHOOSE v : P(v))[S]
  BY DEF AllOf, FoldSet, MapThenFoldSet, First
<1>2. AllSent(g) = (CHOOSE v : Q(v))[S]
  BY DEF AllSent, SumOf, SumsOver
<1>3. \A h : AllOf(DOMAIN g.out[h], LAMBDA to : g.out[h][to]) = SentBy(g, h)
  BY DEF AllOf, FoldSet, MapThenFoldSet, SentBy, SumOf, SumsOver, First
<1>4. ASSUME NEW v PROVE P(v) <=> Q(v)
  <2>1. ASSUME NEW s \in SUBSET S, s # {}
        PROVE  AllOf(DOMAIN g.out[First(s)], LAMBDA to : g.out[First(s)][to]) = e[First(s)]
    <3>1. First(s) \in S
      BY <2>1 DEF First
    <3> QED BY <1>3, <3>1
  <2> QED BY <2>1
<1> HIDE DEF P, Q
<1>5. (CHOOSE v : P(v)) = (CHOOSE v : Q(v))
  BY <1>4
<1> QED BY <1>1, <1>2, <1>5

\* Adding up from a number is that number and a sum.
AddsUp(rs, S, base) == FoldSet(LAMBDA i, n : n + Len(rs[i].links), base, S)

\* A sum that goes by a fold with a base is the sum and the base.
LEMMA AddsUpIsSum ==
  ASSUME NEW rs, NEW S, IsFiniteSet(S), NEW base \in Int, NEW len, \A i \in S : len[i] \in Int /\ len[i] = Len(rs[i].links)
  PROVE  AddsUp(rs, S, base) = base + SumOf(len, S)
<1> DEFINE P(v) == v = [s \in SUBSET S |-> IF s = {} THEN base ELSE v[s \ {First(s)}] + Len(rs[First(s)].links)]
           h == SumsOver(len, S)
           k == [s \in SUBSET S |-> base + h[s]]
           v == CHOOSE u : P(u)
           G == {s \in SUBSET S : v[s] = base + h[s]}
<1>1. AddsUp(rs, S, base) = v[S]
  BY DEF AddsUp, FoldSet, MapThenFoldSet, First
<1>2. /\ \A s \in SUBSET S : h[s] \in Int
      /\ \A s \in SUBSET S : h[s] = IF s = {} THEN 0 ELSE len[First(s)] + h[s \ {First(s)}]
  BY SumsExist, ZenonT(40)
<1> HIDE DEF h
<1>3. \A s \in SUBSET S : s # {} => First(s) \in S /\ First(s) \in s /\ s \ {First(s)} \in SUBSET S
  BY DEF First
<1>4. P(k)
  <2>1. ASSUME NEW s \in SUBSET S PROVE k[s] = IF s = {} THEN base ELSE k[s \ {First(s)}] + Len(rs[First(s)].links)
    <3>1. CASE s = {}
      <4>1. h[s] = 0
        BY <1>2, <3>1
      <4>2. k[s] = base + h[s]
        OBVIOUS
      <4> HIDE DEF k
      <4> QED BY <3>1, <4>1, <4>2
    <3>2. CASE s # {}
      <4>1. h[s] = len[First(s)] + h[s \ {First(s)}] /\ h[s \ {First(s)}] \in Int /\ len[First(s)] \in Int
            /\ len[First(s)] = Len(rs[First(s)].links) /\ k[s \ {First(s)}] = base + h[s \ {First(s)}] /\ k[s] = base + h[s]
        BY <1>2, <1>3, <3>2
      <4> HIDE DEF k
      <4> QED BY <3>2, <4>1
    <3> QED BY <3>1, <3>2
  <2>2. k = [s \in SUBSET S |-> k[s]]
    OBVIOUS
  <2> HIDE DEF k
  <2> QED BY <2>1, <2>2
<1>5. P(v)
  <2> HIDE DEF P, k
  <2> QED BY <1>4
<1> HIDE DEF v
<1>6. \A s \in SUBSET S : v[s] = IF s = {} THEN base ELSE v[s \ {First(s)}] + Len(rs[First(s)].links)
  BY <1>5
<1>7. ASSUME NEW s \in SUBSET S, \A r \in SUBSET s : r # s => r \in G PROVE s \in G
  <2>1. CASE s = {}
    <3>1. h[s] = 0 /\ v[s] = base
      BY <1>2, <1>6, <2>1
    <3>2. v[s] = base + h[s]
      BY <3>1
    <3> QED BY <3>2
  <2>2. CASE s # {}
    <3>1. s \ {First(s)} \in G
      BY <1>3, <1>7, <2>2
    <3>2. v[s \ {First(s)}] = base + h[s \ {First(s)}]
      BY <3>1
    <3>3. h[s] = len[First(s)] + h[s \ {First(s)}] /\ h[s \ {First(s)}] \in Int /\ len[First(s)] \in Int
          /\ len[First(s)] = Len(rs[First(s)].links)
      BY <1>2, <1>3, <2>2
    <3>4. v[s] = v[s \ {First(s)}] + Len(rs[First(s)].links)
      BY <1>6, <2>2
    <3>5. v[s] = base + h[s]
      <4> DEFINE r == s \ {First(s)}
                 x == len[First(s)]
                 y == Len(rs[First(s)].links)
      <4>1. v[r] = base + h[r] /\ h[s] = x + h[r] /\ h[r] \in Int /\ x \in Int /\ x = y /\ v[s] = v[r] + y
        BY <3>2, <3>3, <3>4
      <4> HIDE DEF r, x, y
      <4> QED BY <4>1
    <3> QED BY <3>5
  <2> QED BY <2>1, <2>2
<1>8. \A s \in SUBSET S : s \in G
  <2> HIDE DEF G
  <2> QED BY <1>7, BySubset
<1>9. v[S] = base + h[S]
  BY <1>8
<1> QED BY <1>1, <1>9 DEF SumOf, h

\* What has no host has one place, and what has one has a place for each link.
LEMMA PlacesAddUp ==
  ASSUME NEW rs, AreRecords(rs)
  PROVE  LET placed == {i \in DOMAIN rs : HostOf(rs[i].final.host) # <<>>}
             len == [i \in DOMAIN rs |-> Len(rs[i].links)]
         IN  /\ IsFiniteSet(placed) /\ Cardinality(placed) \in Nat /\ \A i \in DOMAIN rs : len[i] \in Nat
             /\ SumOf(PlacesOf(rs), DOMAIN rs) = Len(rs) - Cardinality(placed) + SumOf(len, placed)
<1> DEFINE D == DOMAIN rs
           placed == {i \in D : HostOf(rs[i].final.host) # <<>>}
           len == [i \in D |-> Len(rs[i].links)]
           f == PlacesOf(rs)
           In(s) == s \cap placed
           G == {s \in SUBSET D : SumOf(f, s) = Cardinality(s) - Cardinality(In(s)) + SumOf(len, In(s))}
<1>1. Len(rs) \in Nat /\ D = 1..Len(rs) /\ \A i \in D : len[i] \in Nat
  BY DEF AreRecords, AreLinks
<1>2. IsFiniteSet(D) /\ Cardinality(D) = Len(rs)
  BY <1>1, FS_Interval
<1>3. /\ \A i \in placed : f[i] = len[i]
      /\ \A i \in D : i \notin placed => f[i] = 1
      /\ \A i \in D : f[i] \in Int
  BY <1>1 DEF PlacesOf, Places
<1>4. placed \in SUBSET D
  OBVIOUS
<1> HIDE DEF f, len, D, placed
<1>5. ASSUME NEW s \in SUBSET D, \A r \in SUBSET s : r # s => r \in G PROVE s \in G
  <2>1. IsFiniteSet(s) /\ IsFiniteSet(In(s)) /\ Cardinality(s) \in Nat /\ Cardinality(In(s)) \in Nat
    BY <1>2, FS_Subset, FS_CardinalityType
  <2>2. (\A i \in s : f[i] \in Int) /\ (\A i \in In(s) : len[i] \in Int)
    BY <1>1, <1>3, <1>4
  <2>3. SumOf(len, In(s)) \in Int /\ SumOf(len, {}) = 0 /\ SumOf(f, {}) = 0
    <3> DEFINE t == In(s)
    <3>1. IsFiniteSet(t) /\ \A i \in t : len[i] \in Int
      BY <2>1, <2>2
    <3> HIDE DEF t
    <3>2. SumOf(len, t) \in Int /\ SumOf(len, {}) = 0
      BY <3>1, SumLaws
    <3>3. SumOf(f, {}) = 0
      BY <2>1, <2>2, SumLaws
    <3> QED BY <3>2, <3>3 DEF t
  <2>4. CASE s = {}
    <3>1. In(s) = {} /\ Cardinality({}) = 0
      BY <2>4, FS_EmptySet
    <3> QED BY <2>3, <2>4, <3>1
  <2>5. ASSUME NEW x \in s PROVE s \in G
    <3> DEFINE r == s \ {x}
    <3>1. /\ IsFiniteSet(r) /\ Cardinality(r) = Cardinality(s) - 1
      BY <2>1, FS_RemoveElement
    <3>2. SumOf(f, r) = Cardinality(r) - Cardinality(In(r)) + SumOf(len, In(r))
      <4>1. r \in G
        BY <1>5, <2>5
      <4> QED BY <4>1
    <3>3. SumOf(f, s) = f[x] + SumOf(f, r)
      BY <2>1, <2>2, SumLaws
    <3>4. IsFiniteSet(In(r)) /\ Cardinality(In(r)) \in Nat /\ SumOf(len, In(r)) \in Int
      <4> DEFINE t == In(r)
      <4>1. IsFiniteSet(t) /\ \A i \in t : len[i] \in Int
        BY <2>2, <3>1, FS_Subset
      <4> HIDE DEF t
      <4>2. Cardinality(t) \in Nat /\ SumOf(len, t) \in Int
        BY <4>1, SumLaws, FS_CardinalityType
      <4> QED BY <4>1, <4>2 DEF t
    <3>5. CASE x \in placed
      <4>1. x \in In(s) /\ In(s) \ {x} = In(r)
        BY <3>5
      <4>2. Cardinality(In(s) \ {x}) = Cardinality(In(s)) - 1 /\ SumOf(len, In(s)) = len[x] + SumOf(len, In(s) \ {x})
        <5> DEFINE t == In(s)
        <5>1. IsFiniteSet(t) /\ x \in t /\ \A i \in t : len[i] \in Int
          BY <2>1, <2>2, <4>1
        <5> HIDE DEF t
        <5>2. Cardinality(t \ {x}) = Cardinality(t) - 1 /\ SumOf(len, t) = len[x] + SumOf(len, t \ {x})
          BY <5>1, SumLaws, FS_RemoveElement
        <5> QED BY <5>2 DEF t
      <4>3. f[x] = len[x] /\ len[x] \in Int
        BY <1>3, <2>2, <3>5, <4>1
      <4> HIDE DEF In, r
      <4>4. Cardinality(In(r)) = Cardinality(In(s)) - 1 /\ SumOf(len, In(s)) = len[x] + SumOf(len, In(r))
        BY <4>1, <4>2
      <4>5. SumOf(f, s) = Cardinality(s) - Cardinality(In(s)) + SumOf(len, In(s))
        BY <2>1, <2>3, <3>1, <3>2, <3>3, <3>4, <4>3, <4>4
      <4> QED BY <4>5
    <3>6. CASE x \notin placed
      <4>1. In(s) = In(r)
        BY <3>6
      <4>2. f[x] = 1
        BY <1>3, <3>6
      <4> HIDE DEF In, r
      <4>3. SumOf(f, s) = Cardinality(s) - Cardinality(In(s)) + SumOf(len, In(s))
        BY <2>1, <2>3, <3>1, <3>2, <3>3, <3>4, <4>1, <4>2
      <4> QED BY <4>3
    <3> QED BY <3>5, <3>6
  <2> HIDE DEF G
  <2> QED BY <2>4, <2>5
<1>6. \A s \in SUBSET D : s \in G
  <2> HIDE DEF G
  <2> QED BY <1>2, <1>5, BySubset
<1>7. In(D) = placed
  BY <1>4
<1>8. SumOf(f, D) = Cardinality(D) - Cardinality(placed) + SumOf(len, placed)
  <2>1. D \in G
    BY <1>6
  <2>2. SumOf(f, D) = Cardinality(D) - Cardinality(In(D)) + SumOf(len, In(D))
    BY <2>1
  <2> HIDE DEF In
  <2> QED BY <1>7, <2>2
<1>9. IsFiniteSet(placed) /\ Cardinality(placed) \in Nat
  BY <1>2, <1>4, FS_Subset, FS_CardinalityType
<1> QED BY <1>1, <1>2, <1>8, <1>9 DEF f, len, D, placed

\* Every link is counted once.
LEMMA LinksCounted ==
  ASSUME HostsAssumption, CorpusAssumption, CorpusTypeOK
  PROVE  LinksAccounted
<1> DEFINE g == Graph(records, <<>>)
           placed == {i \in DOMAIN records : HostOf(records[i].final.host) # <<>>}
           len == [i \in DOMAIN records |-> Len(records[i].links)]
           base == Len(records) - Cardinality(placed)
           d == g.dropped
           all == AllOf(HostsOf(g), LAMBDA h : AllOf(DOMAIN g.out[h], LAMBDA to : g.out[h][to]))
<1>1. AreRecords(records) /\ AreSeeds(<<>>) /\ Len(records) \in Nat
  BY RecordsAreRecords, SeedsAreSeeds
<1>2. Dropped(d) + AllSent(g) = SumOf(PlacesOf(records), DOMAIN records)
  BY <1>1, GraphSays
<1>3. /\ IsFiniteSet(placed) /\ Cardinality(placed) \in Nat /\ \A i \in DOMAIN records : len[i] \in Nat
      /\ SumOf(PlacesOf(records), DOMAIN records) = base + SumOf(len, placed)
  BY <1>1, PlacesAddUp
<1>4. all = AllSent(g)
  <2> HIDE DEF g
  <2> QED BY AllSentCounts
<1>5. AddsUp(records, placed, base) = base + SumOf(len, placed)
  <2>1. \A i \in placed : len[i] \in Int /\ len[i] = Len(records[i].links)
    BY <1>3
  <2>2. base \in Int
    BY <1>1, <1>3
  <2> HIDE DEF len, placed, base
  <2> QED BY <1>3, <2>1, <2>2, AddsUpIsSum
<1>6. AddsUp(records, placed, base) = d.nofollow + d.sameSite + d.unparseable + d.repeat + all
  <2> HIDE DEF g, all, placed, len, base
  <2> QED BY <1>2, <1>3, <1>4, <1>5 DEF Dropped
<1> QED BY <1>6 DEF LinksAccounted, AddsUp

\* Graphs that differ at most in how many pages an edge counts.
SameLinks(g, w) ==
  /\ HostsOf(w) = HostsOf(g) /\ w.seeds = g.seeds
  /\ \A h \in HostsOf(g) : DOMAIN w.out[h] = DOMAIN g.out[h] /\ DOMAIN w.incoming[h] = DOMAIN g.incoming[h]

\* What flows to a host, by the links that other hosts have.
Flow(S, scores, degrees) == AllOf(S, LAMBDA from : scores[from] \div (2 * degrees[from]))

\* What some hosts hold together, and how many links each host has out.
Held(S, scores) == AllOf(S, LAMBDA h : scores[h])

DegreesOf(g) == [h \in HostsOf(g) |-> OutDegree(g, h)]

\* What a host receives is what flows to it.
LEMMA ReceivedIsFlow ==
  ASSUME NEW g, NEW scores, NEW host, DOMAIN g.incoming[host] \subseteq HostsOf(g)
  PROVE  Received(g, scores, host) = Flow(DOMAIN g.incoming[host], scores, DegreesOf(g))
<1> DEFINE S == DOMAIN g.incoming[host]
           degrees == DegreesOf(g)
           P(v) == v = [s \in SUBSET S |-> IF s = {} THEN 0 ELSE (scores[First(s)] \div (2 * OutDegree(g, First(s)))) + v[s \ {First(s)}]]
           Q(v) == v = [s \in SUBSET S |-> IF s = {} THEN 0 ELSE (scores[First(s)] \div (2 * degrees[First(s)])) + v[s \ {First(s)}]]
<1>1. Received(g, scores, host) = (CHOOSE v : P(v))[S]
  BY DEF Received, AllOf, FoldSet, MapThenFoldSet, First
<1>2. Flow(S, scores, degrees) = (CHOOSE v : Q(v))[S]
  BY DEF Flow, AllOf, FoldSet, MapThenFoldSet, First
<1>3. ASSUME NEW v PROVE P(v) <=> Q(v)
  <2>1. ASSUME NEW s \in SUBSET S, s # {} PROVE OutDegree(g, First(s)) = degrees[First(s)]
    <3>1. First(s) \in HostsOf(g)
      BY <2>1 DEF First
    <3> QED BY <3>1 DEF DegreesOf
  <2> HIDE DEF degrees
  <2> QED BY <2>1
<1> HIDE DEF P, Q
<1>4. (CHOOSE v : P(v)) = (CHOOSE v : Q(v))
  BY <1>3
<1> QED BY <1>1, <1>2, <1>4

\* Authority is in the links.
LEMMA TrustIsInLinks ==
  ASSUME NEW g \in Graphs, NEW w \in Graphs, SameLinks(g, w), NEW n
  PROVE  Trust(g, n) = Trust(w, n)
<1> DEFINE H == HostsOf(g)
<1>1. HostsOf(w) = H /\ w.seeds = g.seeds
      /\ \A h \in H : /\ DOMAIN w.out[h] = DOMAIN g.out[h] /\ DOMAIN w.incoming[h] = DOMAIN g.incoming[h]
                      /\ DOMAIN g.incoming[h] \subseteq H
  BY AtHost DEF SameLinks
<1> HIDE DEF H
<1>2. HostsOf(g) = H
  BY DEF H
<1>3. Roots(g) = Roots(w) /\ Unit(g) = Unit(w)
  BY <1>1, <1>2 DEF Roots, Unit
<1>4. \A trust, h : Teleport(g, trust, h) = Teleport(w, trust, h)
  BY <1>3 DEF Teleport
<1>5. \A h \in H : OutDegree(g, h) = OutDegree(w, h)
  BY <1>1 DEF OutDegree
<1>6. DegreesOf(g) = DegreesOf(w)
  BY <1>1, <1>2, <1>5 DEF DegreesOf
<1>7. ASSUME NEW scores PROVE Dangling(g, scores) = Dangling(w, scores)
  <2> DEFINE A == {h \in HostsOf(g) : OutDegree(g, h) = 0}
             B == {h \in HostsOf(w) : OutDegree(w, h) = 0}
  <2>1. A = B
    BY <1>1, <1>2, <1>5
  <2>2. Dangling(g, scores) = Held(A, scores) /\ Dangling(w, scores) = Held(B, scores)
    BY DEF Dangling, Held
  <2> HIDE DEF A, B
  <2> QED BY <2>1, <2>2
<1>8. ASSUME NEW scores, NEW h \in H PROVE Received(g, scores, h) = Received(w, scores, h)
  <2>1. DOMAIN w.incoming[h] = DOMAIN g.incoming[h] /\ DOMAIN g.incoming[h] \subseteq H
    BY <1>1
  <2>2. Received(g, scores, h) = Flow(DOMAIN g.incoming[h], scores, DegreesOf(g))
    BY <1>2, <2>1, ReceivedIsFlow
  <2>3. Received(w, scores, h) = Flow(DOMAIN w.incoming[h], scores, DegreesOf(w))
    BY <1>1, <2>1, ReceivedIsFlow
  <2> QED BY <1>6, <2>1, <2>2, <2>3
<1>9. ASSUME NEW scores PROVE Round(g, scores) = Round(w, scores)
  <2> DEFINE A(h) == Teleport(g, Unit(g) \div 2, h) + Received(g, scores, h) + Teleport(g, Dangling(g, scores) \div 2, h)
             B(h) == Teleport(w, Unit(w) \div 2, h) + Received(w, scores, h) + Teleport(w, Dangling(w, scores) \div 2, h)
  <2>1. \A h \in H : A(h) = B(h)
    BY <1>3, <1>4, <1>7, <1>8
  <2>2. Round(g, scores) = [h \in H |-> A(h)] /\ Round(w, scores) = [h \in H |-> B(h)]
    BY <1>1, <1>2 DEF Round
  <2> HIDE DEF A, B
  <2> QED BY <2>1, <2>2
<1> DEFINE first(x) == [h \in HostsOf(x) |-> Teleport(x, Unit(x), h)]
           D == DOMAIN [k \in 1..n |-> k]
           P(v) == v = [s \in SUBSET D |-> IF s = {} THEN first(g) ELSE Round(g, v[s \ {Max(s)}])]
           Q(v) == v = [s \in SUBSET D |-> IF s = {} THEN first(w) ELSE Round(w, v[s \ {Max(s)}])]
<1>10. first(g) = first(w)
  BY <1>1, <1>2, <1>3, <1>4
<1>11. Trust(g, n) = (CHOOSE v : P(v))[D] /\ Trust(w, n) = (CHOOSE v : Q(v))[D]
  BY DEF Trust, FoldLeft, MapThenFoldSet
<1> HIDE DEF first
<1>12. ASSUME NEW v PROVE P(v) <=> Q(v)
  BY <1>9, <1>10
<1> HIDE DEF P, Q
<1>13. (CHOOSE v : P(v)) = (CHOOSE v : Q(v))
  BY <1>12
<1> QED BY <1>11, <1>13

\* A host is at an edge's end when pages have voted.
LEMMA EdgesAreVotes ==
  ASSUME NEW g \in Graphs, NEW h \in HostsOf(g), NEW x
  PROVE  (x \in DOMAIN g.out[h] <=> Sent(g, h, x) # 0) /\ (x \in DOMAIN g.incoming[h] <=> Got(g, x, h) # 0)
<1>1. ASSUME NEW c \in Counts PROVE x \in DOMAIN c <=> CountIn(c, x) # 0
  BY InMaps DEF CountIn, Counts, Positive
<1>2. g.out[h] \in Counts /\ g.incoming[h] \in Counts
  BY AtHost
<1> QED BY <1>1, <1>2 DEF Sent, Got

\* The records that are left without one.
LEMMA WithoutOne ==
  ASSUME NEW rs, AreRecords(rs), NEW i \in DOMAIN rs
  PROVE  LET ws == RemoveAt(rs, i) IN
         /\ AreRecords(ws)
         /\ \A k \in DOMAIN ws : \E m \in DOMAIN rs : m # i /\ ws[k] = rs[m]
         /\ \A m \in DOMAIN rs : m # i => \E k \in DOMAIN ws : ws[k] = rs[m]
<1> DEFINE n == Len(rs)
           ws == RemoveAt(rs, i)
           a == SubSeq(rs, 1, i - 1)
           b == SubSeq(rs, i + 1, n)
           R == ToSet(rs)
<1>1. n \in Nat /\ i \in 1..n /\ rs \in Seq(R) /\ DOMAIN rs = 1..n
  BY DEF AreRecords
<1>2. a \in Seq(R) /\ Len(a) = i - 1 /\ \A k \in 1..(i - 1) : a[k] = rs[k]
  <2> HIDE DEF R
  <2> QED BY <1>1
<1>3. b \in Seq(R) /\ Len(b) = n - i /\ \A k \in 1..(n - i) : b[k] = rs[i + k]
  <2> HIDE DEF R
  <2> QED BY <1>1
<1>4. ws = a \o b
  BY DEF RemoveAt
<1> HIDE DEF a, b, n, R, ws
<1>5. ws \in Seq(R) /\ Len(ws) = n - 1 /\ DOMAIN ws = 1..(n - 1)
  <2>1. ws \in Seq(R) /\ Len(ws) = Len(a) + Len(b)
    <3>1. a \in Seq(R) /\ b \in Seq(R)
      BY <1>2, <1>3
    <3>2. a \o b \in Seq(R) /\ Len(a \o b) = Len(a) + Len(b)
      BY <3>1
    <3> QED BY <1>4, <3>2
  <2>2. Len(ws) = n - 1
    BY <1>1, <1>2, <1>3, <2>1
  <2> QED BY <2>1, <2>2
<1>6. ASSUME NEW k \in 1..(n - 1) PROVE ws[k] = IF k < i THEN rs[k] ELSE rs[k + 1]
  <2>1. CASE k < i
    <3>1. k \in 1..(i - 1) /\ k \in 1..Len(a)
      BY <1>1, <1>2, <2>1
    <3>2. (a \o b)[k] = a[k]
      BY <1>2, <1>3, <3>1
    <3> QED BY <1>2, <1>4, <2>1, <3>1, <3>2
  <2>2. CASE ~(k < i)
    <3>1. k - (i - 1) \in 1..(n - i) /\ i + (k - (i - 1)) = k + 1 /\ k > Len(a)
      BY <1>1, <1>2, <2>2
    <3>2. (a \o b)[k] = b[k - (i - 1)]
      BY <1>1, <1>2, <1>3, <2>2, <3>1
    <3> QED BY <1>3, <1>4, <2>2, <3>1, <3>2
  <2> QED BY <2>1, <2>2
<1>7. ASSUME NEW k \in DOMAIN ws PROVE \E m \in DOMAIN rs : m # i /\ ws[k] = rs[m]
  <2>1. CASE k < i
    <3>1. k \in 1..n /\ k # i /\ ws[k] = rs[k]
      BY <1>1, <1>5, <1>6, <2>1
    <3> QED BY <1>1, <3>1
  <2>2. CASE ~(k < i)
    <3>1. k + 1 \in 1..n /\ k + 1 # i /\ ws[k] = rs[k + 1]
      BY <1>1, <1>5, <1>6, <2>2
    <3> QED BY <1>1, <3>1
  <2> QED BY <2>1, <2>2
<1>8. ASSUME NEW m \in DOMAIN rs, m # i PROVE \E k \in DOMAIN ws : ws[k] = rs[m]
  <2>1. CASE m < i
    <3>1. m \in 1..(n - 1) /\ ws[m] = rs[m]
      BY <1>1, <1>6, <2>1
    <3> QED BY <1>5, <3>1
  <2>2. CASE ~(m < i)
    <3>1. m - 1 \in 1..(n - 1) /\ ~(m - 1 < i) /\ (m - 1) + 1 = m
      BY <1>1, <1>8, <2>2
    <3>2. ws[m - 1] = rs[m]
      BY <1>6, <3>1
    <3> QED BY <1>5, <3>1, <3>2
  <2> QED BY <2>1, <2>2
<1>9. ws \in Seq(ToSet(ws))
  BY <1>5 DEF ToSet
<1>10. AreRecords(ws)
  BY <1>7, <1>9 DEF AreRecords
<1> QED BY <1>7, <1>8, <1>10 DEF ws

\* A page whose links repeat another's changes no edge and no trust.
LEMMA PagesCounted ==
  ASSUME HostsAssumption, CorpusAssumption, CorpusTypeOK
  PROVE  PagesBuyNothing
<1> SUFFICES ASSUME NEW seeds \in Seeds, NEW i \in DOMAIN records, NEW j \in DOMAIN records, i # j,
                    HostOf(records[i].final.host) = HostOf(records[j].final.host), records[i].links = records[j].links
             PROVE  LET g == Graph(records, seeds)
                        w == Graph(RemoveAt(records, i), seeds)
                    IN  /\ Trust(g, Rounds) = Trust(w, Rounds)
                        /\ \A h \in HostsOf(g) : InDegree(g, h) = InDegree(w, h)
  BY DEF PagesBuyNothing
<1> DEFINE ws == RemoveAt(records, i)
           g == Graph(records, seeds)
           w == Graph(ws, seeds)
<1>1. AreRecords(records) /\ AreSeeds(seeds)
  BY RecordsAreRecords, SeedsAreSeeds
<1>2. /\ AreRecords(ws)
      /\ \A k \in DOMAIN ws : \E m \in DOMAIN records : m # i /\ ws[k] = records[m]
      /\ \A m \in DOMAIN records : m # i => \E k \in DOMAIN ws : ws[k] = records[m]
  BY <1>1, WithoutOne
<1> HIDE DEF ws
<1>3. /\ g \in Graphs /\ g.seeds = SeedHosts(seeds)
      /\ HostsOf(g) = SeedHosts(seeds) \cup UNION {Named(records[k]) : k \in DOMAIN records}
      /\ \A a, b : /\ Sent(g, a, b) = Cardinality(Voters(records, DOMAIN records, a, b))
                   /\ Got(g, a, b) = Cardinality(Voters(records, DOMAIN records, a, b))
  BY <1>1, GraphSays
<1>4. /\ w \in Graphs /\ w.seeds = SeedHosts(seeds)
      /\ HostsOf(w) = SeedHosts(seeds) \cup UNION {Named(ws[k]) : k \in DOMAIN ws}
      /\ \A a, b : /\ Sent(w, a, b) = Cardinality(Voters(ws, DOMAIN ws, a, b))
                   /\ Got(w, a, b) = Cardinality(Voters(ws, DOMAIN ws, a, b))
  BY <1>1, <1>2, GraphSays
<1> HIDE DEF g, w
<1>5. Named(records[i]) = Named(records[j]) /\ \A a, b : Votes(records[i], a, b) <=> Votes(records[j], a, b)
  BY DEF Named, Votes, Targets
<1>6. UNION {Named(records[k]) : k \in DOMAIN records} = UNION {Named(ws[k]) : k \in DOMAIN ws}
  <2>1. ASSUME NEW k \in DOMAIN records PROVE \E m \in DOMAIN ws : Named(ws[m]) = Named(records[k])
    <3>1. CASE k = i
      BY <1>2, <1>5, <3>1
    <3>2. CASE k # i
      BY <1>2, <3>2
    <3> QED BY <3>1, <3>2
  <2>2. ASSUME NEW k \in DOMAIN ws PROVE \E m \in DOMAIN records : Named(records[m]) = Named(ws[k])
    BY <1>2
  <2> QED BY <2>1, <2>2
<1>7. HostsOf(w) = HostsOf(g) /\ w.seeds = g.seeds
  BY <1>3, <1>4, <1>6
<1>8. ASSUME NEW a, NEW b
      PROVE  Cardinality(Voters(records, DOMAIN records, a, b)) # 0 <=> Cardinality(Voters(ws, DOMAIN ws, a, b)) # 0
  <2> DEFINE old == Voters(records, DOMAIN records, a, b)
             new == Voters(ws, DOMAIN ws, a, b)
  <2>1. IsFiniteSet(old) /\ IsFiniteSet(new)
    <3>1. IsFiniteSet(DOMAIN records) /\ IsFiniteSet(DOMAIN ws)
      <4>1. Len(records) \in Nat /\ Len(ws) \in Nat /\ DOMAIN records = 1..Len(records) /\ DOMAIN ws = 1..Len(ws)
        BY <1>1, <1>2 DEF AreRecords
      <4> QED BY <4>1, FS_Interval
    <3>2. old \in SUBSET DOMAIN records /\ new \in SUBSET DOMAIN ws
      BY DEF Voters
    <3> HIDE DEF old, new
    <3> QED BY <3>1, <3>2, FS_Subset
  <2>2. old = {} <=> new = {}
    <3>1. ASSUME NEW k \in DOMAIN records, Votes(records[k], a, b) PROVE \E m \in DOMAIN ws : Votes(ws[m], a, b)
      <4>1. CASE k = i
        BY <1>2, <1>5, <3>1, <4>1
      <4>2. CASE k # i
        BY <1>2, <3>1, <4>2
      <4> QED BY <4>1, <4>2
    <3>2. ASSUME NEW k \in DOMAIN ws, Votes(ws[k], a, b) PROVE \E m \in DOMAIN records : Votes(records[m], a, b)
      BY <1>2, <3>2
    <3> QED BY <3>1, <3>2 DEF Voters
  <2> HIDE DEF old, new
  <2>3. (Cardinality(old) = 0 <=> old = {}) /\ (Cardinality(new) = 0 <=> new = {})
    BY <2>1, FS_EmptySet
  <2> QED BY <2>2, <2>3 DEF old, new
<1>9. ASSUME NEW h \in HostsOf(g)
      PROVE  DOMAIN w.out[h] = DOMAIN g.out[h] /\ DOMAIN w.incoming[h] = DOMAIN g.incoming[h]
  <2>1. \A x : (x \in DOMAIN g.out[h] <=> Sent(g, h, x) # 0) /\ (x \in DOMAIN g.incoming[h] <=> Got(g, x, h) # 0)
    BY <1>3, EdgesAreVotes
  <2>2. \A x : (x \in DOMAIN w.out[h] <=> Sent(w, h, x) # 0) /\ (x \in DOMAIN w.incoming[h] <=> Got(w, x, h) # 0)
    BY <1>4, <1>7, EdgesAreVotes
  <2>3. \A x : (x \in DOMAIN g.out[h] <=> x \in DOMAIN w.out[h]) /\ (x \in DOMAIN g.incoming[h] <=> x \in DOMAIN w.incoming[h])
    BY <1>3, <1>4, <1>8, <2>1, <2>2
  <2> QED BY <2>3
<1>10. SameLinks(g, w)
  BY <1>7, <1>9 DEF SameLinks
<1>11. Trust(g, Rounds) = Trust(w, Rounds)
  BY <1>3, <1>4, <1>10, TrustIsInLinks
<1>12. \A h \in HostsOf(g) : InDegree(g, h) = InDegree(w, h)
  BY <1>9 DEF InDegree
<1> QED BY <1>11, <1>12 DEF g, w, ws

\* Votes are fair, whatever records there are.
LEMMA VotesAreFairWhen ==
  ASSUME HostsAssumption, CorpusAssumption, CorpusTypeOK
  PROVE  VotesAreFair
<1>1. VotesAreOthers
  <2>1. ASSUME OwnNames PROVE \A from, to : CountedVoting(from, to) = Voting(from, to)
    BY <2>1, NamesMatter
  <2>2. VotesAreCounted
    BY VotesCounted
  <2> HIDE DEF CountedVoting, Voting, OwnNames
  <2> QED BY <2>1, <2>2 DEF VotesAreOthers, VotesAreCounted
<1> QED BY <1>1, LinksCounted, PagesCounted DEF VotesAreFair

-----------------------------------------------------------------------------
(* What a page is called *)

\* What may be heard of a page.
Heard == [phrases : SUBSET Nat, seen : SUBSET (Names \X Nat)]

\* What may be heard of the pages of a crawl.
Tellings(U) ==
  [targets : UNION {[D -> Heard] : D \in SUBSET U}, nofollow : Nat, uncrawled : Nat, sameSite : Nat, tooLong : Nat, repeated : Nat]

\* What hearing a phrase makes of a target (Describe).
Hears(target, site, phrase) ==
  IF Cardinality(target.phrases) >= MaxPhrases THEN [target EXCEPT !.seen = {}]
  ELSE [phrases |-> target.phrases \cup (IF <<site, phrase>> \in target.seen THEN {} ELSE {phrase}),
        seen |-> target.seen \cup {<<site, phrase>>}]

\* A target of which those phrases were said: it has them all, or as many as it
\* may have.
HasHeard(target, said) ==
  /\ target \in Heard /\ IsFiniteSet(target.phrases)
  /\ target.phrases \subseteq said /\ Cardinality(target.phrases) <= MaxPhrases
  /\ Cardinality(target.phrases) < MaxPhrases => target.phrases = said
  /\ \A pair \in target.seen : pair[2] \in target.phrases \/ Cardinality(target.phrases) >= MaxPhrases

\* Of a page that nothing is said of, nothing was heard.
LEMMA NothingHeard == HasHeard(NoTarget, {})
<1>1. NoTarget.phrases = {} /\ NoTarget.seen = {} /\ NoTarget \in Heard
  BY DEF NoTarget, Heard
<1>2. IsFiniteSet({}) /\ Cardinality({}) = 0 /\ MaxPhrases \in Nat
  BY FS_EmptySet, AnchorsAssumption
<1> QED BY <1>1, <1>2 DEF HasHeard

\* A target that hears another phrase has heard that one too.
LEMMA HearsMore ==
  ASSUME NEW said \in SUBSET Nat, NEW target, HasHeard(target, said), NEW site \in Names, NEW phrase \in Nat
  PROVE  HasHeard(Hears(target, site, phrase), said \cup {phrase})
<1> DEFINE n == Hears(target, site, phrase)
           P == target.phrases
           N == said \cup {phrase}
<1>1. /\ target \in Heard /\ IsFiniteSet(P) /\ Cardinality(P) \in Nat /\ MaxPhrases \in Nat \ {0}
      /\ P \subseteq said /\ Cardinality(P) <= MaxPhrases
      /\ Cardinality(P) < MaxPhrases => P = said
  BY FS_CardinalityType, AnchorsAssumption DEF HasHeard
<1>2. target = [phrases |-> P, seen |-> target.seen] /\ P \in SUBSET Nat /\ target.seen \in SUBSET (Names \X Nat)
  BY <1>1 DEF Heard
<1>3. CASE Cardinality(P) >= MaxPhrases
  <2>1. n = [phrases |-> P, seen |-> {}]
    BY <1>2, <1>3 DEF Hears
  <2>2. n.phrases = P /\ n.seen = {} /\ n \in Heard
    BY <1>2, <2>1 DEF Heard
  <2> HIDE DEF n, P
  <2>3. ~(Cardinality(n.phrases) < MaxPhrases) /\ Cardinality(n.phrases) <= MaxPhrases /\ IsFiniteSet(n.phrases) /\ n.phrases \subseteq N
    BY <1>1, <1>3, <2>2
  <2> HIDE DEF N
  <2>4. HasHeard(n, N)
    BY <2>2, <2>3 DEF HasHeard
  <2> QED BY <2>4 DEF n, N
<1>4. CASE ~(Cardinality(P) >= MaxPhrases)
  <2> DEFINE new == IF <<site, phrase>> \in target.seen THEN {} ELSE {phrase}
  <2>1. P = said /\ Cardinality(P) < MaxPhrases
    BY <1>1, <1>4
  <2>2. <<site, phrase>> \in target.seen => phrase \in P
    <3>1. \A pair \in target.seen : pair[2] \in P \/ Cardinality(P) >= MaxPhrases
      BY DEF HasHeard
    <3> QED BY <1>4, <3>1
  <2>3. P \cup new = N
    BY <2>1, <2>2
  <2>4. n = [phrases |-> P \cup new, seen |-> target.seen \cup {<<site, phrase>>}]
    BY <1>4 DEF Hears
  <2>5. n.phrases = N /\ n.seen = target.seen \cup {<<site, phrase>>}
    BY <2>3, <2>4
  <2>6. n \in Heard
    <3>1. P \cup new \in SUBSET Nat /\ target.seen \cup {<<site, phrase>>} \in SUBSET (Names \X Nat)
      BY <1>2
    <3> QED BY <2>4, <3>1 DEF Heard
  <2>7. IsFiniteSet(N) /\ Cardinality(N) <= MaxPhrases
    <3>1. /\ IsFiniteSet(P \cup {phrase})
          /\ Cardinality(P \cup {phrase}) = IF phrase \in P THEN Cardinality(P) ELSE Cardinality(P) + 1
      BY <1>1, FS_AddElement
    <3>2. N = P \cup {phrase}
      BY <2>1
    <3> HIDE DEF P, N
    <3> QED BY <1>1, <2>1, <3>1, <3>2
  <2>8. \A pair \in n.seen : pair[2] \in N
    <3>1. \A pair \in target.seen : pair[2] \in P
      BY <1>4 DEF HasHeard
    <3>2. <<site, phrase>>[2] = phrase
      OBVIOUS
    <3> QED BY <2>1, <2>5, <3>1, <3>2
  <2> HIDE DEF n, N
  <2>9. HasHeard(n, N)
    BY <2>5, <2>6, <2>7, <2>8 DEF HasHeard
  <2> QED BY <2>9 DEF n, N
<1> QED BY <1>3, <1>4

\* A link that is good for a phrase of that page, on a page of that site.
Says(U, site, link, url) ==
  /\ link.url = url /\ ~link.nofollow /\ url \in U
  /\ HostOf(url.host) # <<>> /\ RegistrableDomain(HostOf(url.host)) # site
  /\ Tidy[link.anchor] # NoPhrase /\ Chars[Tidy[link.anchor]] <= MaxPhraseChars

\* What is heard is made of its parts.
LEMMA TellingParts ==
  ASSUME NEW U, NEW a
  PROVE  a \in Tellings(U) <=>
           /\ a = [targets |-> a.targets, nofollow |-> a.nofollow, uncrawled |-> a.uncrawled, sameSite |-> a.sameSite,
                   tooLong |-> a.tooLong, repeated |-> a.repeated]
           /\ a.nofollow \in Nat /\ a.uncrawled \in Nat /\ a.sameSite \in Nat /\ a.tooLong \in Nat /\ a.repeated \in Nat
           /\ DOMAIN a.targets \in SUBSET U /\ a.targets \in [DOMAIN a.targets -> Heard]
<1>1. ASSUME NEW t, DOMAIN t \in SUBSET U, t \in [DOMAIN t -> Heard] PROVE t \in UNION {[D -> Heard] : D \in SUBSET U}
  BY <1>1
<1>2. ASSUME NEW t \in UNION {[D -> Heard] : D \in SUBSET U} PROVE DOMAIN t \in SUBSET U /\ t \in [DOMAIN t -> Heard]
  OBVIOUS
<1> QED BY <1>1, <1>2 DEF Tellings

\* A link is heard by the page it is good for, and by no other.
LEMMA LinkIsHeard ==
  ASSUME NEW U, NEW site \in Names, NEW a \in Tellings(U), NEW link, IsLink(link)
  PROVE  LET n == HearLink(U, site, a, link) IN
         /\ n \in Tellings(U)
         /\ \A url : Target(n, url) = IF Says(U, site, link, url) THEN Hears(Target(a, url), site, Tidy[link.anchor])
                                      ELSE Target(a, url)
<1> DEFINE n == HearLink(U, site, a, link)
           host == HostOf(link.url.host)
           phrase == Tidy[link.anchor]
           t == a.targets
<1>1. /\ a = [targets |-> t, nofollow |-> a.nofollow, uncrawled |-> a.uncrawled, sameSite |-> a.sameSite,
              tooLong |-> a.tooLong, repeated |-> a.repeated]
      /\ a.nofollow \in Nat /\ a.uncrawled \in Nat /\ a.sameSite \in Nat /\ a.tooLong \in Nat /\ a.repeated \in Nat
      /\ DOMAIN t \in SUBSET U /\ t \in [DOMAIN t -> Heard]
  BY TellingParts
<1>2. phrase \in Nat /\ link.nofollow \in BOOLEAN /\ (phrase # NoPhrase => Chars[phrase] \in Nat)
  BY AnchorsAssumption DEF IsLink
<1>3. MaxPhraseChars \in Nat
  BY AnchorsAssumption
<1> DEFINE good == /\ ~link.nofollow /\ link.url \in U /\ host # <<>> /\ RegistrableDomain(host) # site
                   /\ phrase # NoPhrase /\ ~(Chars[phrase] > MaxPhraseChars)
<1>4. \A url : Says(U, site, link, url) <=> url = link.url /\ good
  BY <1>2, <1>3 DEF Says
<1> HIDE DEF t
<1>5. CASE ~good
  <2>1. \/ n = a
        \/ n = [targets |-> t, nofollow |-> a.nofollow + 1, uncrawled |-> a.uncrawled, sameSite |-> a.sameSite,
                tooLong |-> a.tooLong, repeated |-> a.repeated]
        \/ n = [targets |-> t, nofollow |-> a.nofollow, uncrawled |-> a.uncrawled + 1, sameSite |-> a.sameSite,
                tooLong |-> a.tooLong, repeated |-> a.repeated]
        \/ n = [targets |-> t, nofollow |-> a.nofollow, uncrawled |-> a.uncrawled, sameSite |-> a.sameSite + 1,
                tooLong |-> a.tooLong, repeated |-> a.repeated]
        \/ n = [targets |-> t, nofollow |-> a.nofollow, uncrawled |-> a.uncrawled, sameSite |-> a.sameSite,
                tooLong |-> a.tooLong + 1, repeated |-> a.repeated]
    <3>1. \/ n = a
          \/ n = [a EXCEPT !.nofollow = @ + 1]
          \/ n = [a EXCEPT !.uncrawled = @ + 1]
          \/ n = [a EXCEPT !.sameSite = @ + 1]
          \/ n = [a EXCEPT !.tooLong = @ + 1]
      <4> HIDE DEF host, phrase
      <4> QED BY <1>5 DEF HearLink, host, phrase
    <3> HIDE DEF n
    <3> QED BY <1>1, <3>1
  <2> HIDE DEF n, good
  <2>2. n \in Tellings(U) /\ n.targets = t
    <3>1. /\ n = [targets |-> n.targets, nofollow |-> n.nofollow, uncrawled |-> n.uncrawled, sameSite |-> n.sameSite,
                  tooLong |-> n.tooLong, repeated |-> n.repeated]
          /\ n.nofollow \in Nat /\ n.uncrawled \in Nat /\ n.sameSite \in Nat /\ n.tooLong \in Nat /\ n.repeated \in Nat
          /\ n.targets = t
      BY <1>1, <2>1 DEF t
    <3> QED BY <1>1, <3>1, TellingParts
  <2>3. \A url : Target(n, url) = Target(a, url)
    BY <2>2 DEF Target, t
  <2> QED BY <1>4, <1>5, <2>2, <2>3 DEF n
<1>6. CASE good
  <2> DEFINE url == link.url
             target == Target(a, url)
             now == Hears(target, site, phrase)
             r == IF ~(Cardinality(target.phrases) >= MaxPhrases) /\ <<site, phrase>> \in target.seen THEN a.repeated + 1 ELSE a.repeated
  <2>1. n = Describe(a, site, url, phrase)
    BY <1>6 DEF HearLink
  <2>2. Describe(a, site, url, phrase) = [a EXCEPT !.targets = With(@, url, now), !.repeated = r]
    <3> HIDE DEF url, phrase
    <3> QED BY <1>1 DEF Describe, Hears
  <2>3. target \in Heard
    <3>1. NoTarget \in Heard
      BY DEF NoTarget, Heard
    <3> QED BY <1>1, <3>1 DEF Target, t
  <2>4. now \in Heard
    <3> HIDE DEF target, phrase
    <3>1. target = [phrases |-> target.phrases, seen |-> target.seen] /\ target.phrases \in SUBSET Nat /\ target.seen \in SUBSET (Names \X Nat)
      BY <2>3 DEF Heard
    <3>2. CASE Cardinality(target.phrases) >= MaxPhrases
      <4>1. now = [phrases |-> target.phrases, seen |-> {}]
        BY <3>1, <3>2 DEF Hears
      <4> QED BY <3>1, <4>1 DEF Heard
    <3>3. CASE ~(Cardinality(target.phrases) >= MaxPhrases)
      <4>1. now = [phrases |-> target.phrases \cup (IF <<site, phrase>> \in target.seen THEN {} ELSE {phrase}),
                   seen |-> target.seen \cup {<<site, phrase>>}]
        BY <3>3 DEF Hears
      <4>2. target.phrases \cup (IF <<site, phrase>> \in target.seen THEN {} ELSE {phrase}) \in SUBSET Nat
            /\ target.seen \cup {<<site, phrase>>} \in SUBSET (Names \X Nat)
        BY <1>2, <3>1
      <4> QED BY <4>1, <4>2 DEF Heard
    <3> QED BY <3>2, <3>3
  <2>5. r \in Nat /\ url \in U
    BY <1>1, <1>6
  <2> HIDE DEF n, now, r, target, phrase, host, url
  <2> DEFINE w == With(t, url, now)
  <2>6. n = [targets |-> w, nofollow |-> a.nofollow, uncrawled |-> a.uncrawled, sameSite |-> a.sameSite,
             tooLong |-> a.tooLong, repeated |-> r]
    <3>1. n = [a EXCEPT !.targets = w, !.repeated = r]
      BY <2>1, <2>2 DEF t
    <3> HIDE DEF w
    <3> QED BY <1>1, <3>1
  <2>7. DOMAIN w \in SUBSET U /\ w \in [DOMAIN w -> Heard] /\ DOMAIN w = DOMAIN t \cup {url}
        /\ \A u \in DOMAIN w : w[u] = IF u = url THEN now ELSE t[u]
    BY <1>1, <2>4, <2>5 DEF With
  <2> HIDE DEF w
  <2>8. /\ n = [targets |-> n.targets, nofollow |-> n.nofollow, uncrawled |-> n.uncrawled, sameSite |-> n.sameSite,
                tooLong |-> n.tooLong, repeated |-> n.repeated]
        /\ n.nofollow \in Nat /\ n.uncrawled \in Nat /\ n.sameSite \in Nat /\ n.tooLong \in Nat /\ n.repeated \in Nat
        /\ n.targets = w
    BY <1>1, <2>5, <2>6
  <2>9. n \in Tellings(U)
    BY <2>7, <2>8, TellingParts
  <2>10. \A u : Target(n, u) = IF u = url THEN now ELSE Target(a, u)
    <3> SUFFICES ASSUME NEW u PROVE Target(n, u) = IF u = url THEN now ELSE Target(a, u)
      OBVIOUS
    <3>1. Target(n, u) = IF u \in DOMAIN w THEN w[u] ELSE NoTarget
      BY <2>8 DEF Target
    <3>2. Target(a, u) = IF u \in DOMAIN t THEN t[u] ELSE NoTarget
      BY DEF Target, t
    <3> QED BY <2>7, <3>1, <3>2
  <2>11. \A u : Says(U, site, link, u) <=> u = url
    BY <1>4, <1>6 DEF url
  <2>12. \A u : Target(n, u) = IF Says(U, site, link, u) THEN Hears(Target(a, u), site, phrase) ELSE Target(a, u)
    BY <2>10, <2>11 DEF now, target
  <2> QED BY <2>9, <2>12 DEF n, phrase
<1> QED BY <1>5, <1>6

\* What the targets have heard of what was said.
Knows(U, a, said) == a \in Tellings(U) /\ \A url \in U : HasHeard(Target(a, url), said[url])

\* What some links of a page of that site say.
SaidIn(U, site, links, s, url) == {Tidy[links[k].anchor] : k \in {m \in s : Says(U, site, links[m], url)}}

\* After a link, what is known is what was known and what the link says.
LEMMA LinkIsKnown ==
  ASSUME NEW U, NEW site \in Names, NEW said, \A url \in U : said[url] \in SUBSET Nat,
         NEW a, Knows(U, a, said), NEW link, IsLink(link),
         NEW now, \A url \in U : now[url] = said[url] \cup (IF Says(U, site, link, url) THEN {Tidy[link.anchor]} ELSE {})
  PROVE  Knows(U, HearLink(U, site, a, link), now)
<1> DEFINE n == HearLink(U, site, a, link)
           phrase == Tidy[link.anchor]
<1>1. phrase \in Nat
  BY AnchorsAssumption DEF IsLink
<1>2. /\ n \in Tellings(U)
      /\ \A url : Target(n, url) = IF Says(U, site, link, url) THEN Hears(Target(a, url), site, phrase) ELSE Target(a, url)
  BY LinkIsHeard DEF Knows
<1> HIDE DEF n, phrase
<1>3. ASSUME NEW url \in U PROVE HasHeard(Target(n, url), now[url])
  <2> DEFINE t == Target(a, url)
             P == said[url]
  <2>1. P \in SUBSET Nat /\ HasHeard(t, P)
    BY DEF Knows
  <2> HIDE DEF t, P
  <2>2. CASE Says(U, site, link, url)
    <3>1. HasHeard(Hears(t, site, phrase), P \cup {phrase})
      BY <1>1, <2>1, HearsMore
    <3>2. now[url] = P \cup {phrase} /\ Target(n, url) = Hears(t, site, phrase)
      BY <1>2, <2>2 DEF P, t, phrase
    <3> QED BY <3>1, <3>2
  <2>3. CASE ~Says(U, site, link, url)
    <3>1. now[url] = P /\ Target(n, url) = t
      BY <1>2, <2>3 DEF P, t
    <3> QED BY <2>1, <3>1
  <2> QED BY <2>2, <2>3
<1> QED BY <1>2, <1>3 DEF Knows, n

\* The fold behind HearLinks.
IsHearing(v, U, site, links, base) ==
  v = [s \in SUBSET DOMAIN links |-> IF s = {} THEN base ELSE HearLink(U, site, v[s \ {Max(s)}], links[Max(s)])]

Hearing(U, site, links, base) == CHOOSE v : IsHearing(v, U, site, links, base)

\* HearLinks is that fold at all links.
LEMMA HearLinksIsHearing ==
  ASSUME NEW U, NEW site, NEW links, NEW base
  PROVE  HearLinks(U, site, base, links) = Hearing(U, site, links, base)[DOMAIN links]
BY DEF HearLinks, FoldLeft, MapThenFoldSet, Hearing, IsHearing

\* There is such a fold.
LEMMA HearingExists ==
  ASSUME NEW U, NEW site \in Names, NEW links, AreLinks(links), NEW base \in Tellings(U)
  PROVE  IsHearing(Hearing(U, site, links, base), U, site, links, base)
<1> DEFINE n == Len(links)
           c == [s \in SUBSET (1..n) |-> Max(s)]
           States == Tellings(U)
           step == [i \in 1..n |-> [a \in States |-> HearLink(U, site, a, links[i])]]
<1>1. n \in Nat /\ DOMAIN links = 1..n /\ \A i \in 1..n : IsLink(links[i])
  BY DEF AreLinks
<1>2. step \in [1..n -> [States -> States]]
  <2>1. ASSUME NEW i \in 1..n, NEW a \in States PROVE HearLink(U, site, a, links[i]) \in States
    BY <1>1, LinkIsHeard
  <2> HIDE DEF States
  <2> QED BY <2>1
<1>3. PICK v \in [SUBSET (1..n) -> States] : IsFold(v, 1..n, c, base, step)
  <2>1. Takes(c, 1..n) /\ IsFiniteSet(1..n) /\ base \in States
    BY <1>1, LastTakes, TakesLast
  <2> HIDE DEF c, step, States
  <2> QED BY <1>2, <2>1, FoldExists
<1>4. ASSUME NEW s \in SUBSET (1..n)
      PROVE  v[s] = IF s = {} THEN base ELSE HearLink(U, site, v[s \ {Max(s)}], links[Max(s)])
  <2>1. v[s] = IF s = {} THEN base ELSE step[c[s]][v[s \ {c[s]}]]
    BY <1>3 DEF IsFold
  <2>2. CASE s # {}
    <3>1. Max(s) \in 1..n /\ c[s] = Max(s) /\ s \ {Max(s)} \in SUBSET (1..n)
      BY <1>1, <2>2, TakesLast
    <3>2. v[s \ {Max(s)}] \in States
      BY <3>1
    <3>3. step[Max(s)][v[s \ {Max(s)}]] = HearLink(U, site, v[s \ {Max(s)}], links[Max(s)])
      <4> HIDE DEF States
      <4> QED BY <3>1, <3>2
    <3> HIDE DEF c, step, States
    <3> QED BY <2>1, <2>2, <3>1, <3>3
  <2> QED BY <2>1, <2>2
<1>5. IsHearing(v, U, site, links, base)
  BY <1>1, <1>4 DEF IsHearing
<1> QED BY <1>5 DEF Hearing

\* All links of a page are heard.
LEMMA LinksAreHeard ==
  ASSUME NEW U, NEW site \in Names, NEW said, \A url \in U : said[url] \in SUBSET Nat,
         NEW base, Knows(U, base, said), NEW links, AreLinks(links)
  PROVE  Knows(U, HearLinks(U, site, base, links), [url \in U |-> said[url] \cup SaidIn(U, site, links, DOMAIN links, url)])
<1> DEFINE n == Len(links)
           v == Hearing(U, site, links, base)
           c == [s \in SUBSET (1..n) |-> Max(s)]
           now(s) == [url \in U |-> said[url] \cup SaidIn(U, site, links, s, url)]
           G == {s \in SUBSET (1..n) : Knows(U, v[s], now(s))}
<1>1. n \in Nat /\ DOMAIN links = 1..n /\ \A i \in 1..n : IsLink(links[i])
  BY DEF AreLinks
<1>2. \A s \in SUBSET (1..n) : v[s] = IF s = {} THEN base ELSE HearLink(U, site, v[s \ {Max(s)}], links[Max(s)])
  <2>1. IsHearing(v, U, site, links, base)
    BY HearingExists DEF Knows
  <2> HIDE DEF v
  <2> QED BY <1>1, <2>1 DEF IsHearing
<1> HIDE DEF v
<1>3. {} \in G
  <2>1. v[{}] = base /\ {} \in SUBSET (1..n)
    BY <1>2
  <2>2. \A url \in U : now({})[url] = said[url]
    BY DEF SaidIn
  <2> HIDE DEF now
  <2>3. Knows(U, base, now({}))
    BY <2>2 DEF Knows
  <2> QED BY <2>1, <2>3
<1>4. ASSUME NEW s \in SUBSET (1..n), s # {}, s \ {c[s]} \in G PROVE s \in G
  <2> DEFINE m == Max(s)
             r == s \ {m}
             link == links[m]
  <2>1. m \in s /\ m \in 1..n /\ c[s] = m
    BY <1>1, <1>4, TakesLast
  <2>2. r \in SUBSET (1..n) /\ Knows(U, v[r], now(r))
    <3> HIDE DEF now, c, m
    <3> QED BY <1>4, <2>1
  <2>3. v[s] = HearLink(U, site, v[r], link)
    BY <1>2, <1>4
  <2>4. IsLink(link)
    BY <1>1, <2>1
  <2> HIDE DEF m
  <2>5. \A url \in U : /\ now(r)[url] \in SUBSET Nat
                       /\ now(s)[url] = now(r)[url] \cup (IF Says(U, site, link, url) THEN {Tidy[link.anchor]} ELSE {})
    <3>1. \A k \in r : Tidy[links[k].anchor] \in Nat
      BY <1>1, <2>2, AnchorsAssumption DEF IsLink
    <3> QED BY <2>1, <3>1 DEF SaidIn
  <2> HIDE DEF now, r, link
  <2> DEFINE before == now(r)
             after == now(s)
  <2>6. /\ \A url \in U : before[url] \in SUBSET Nat
        /\ \A url \in U : after[url] = before[url] \cup (IF Says(U, site, link, url) THEN {Tidy[link.anchor]} ELSE {})
        /\ Knows(U, v[r], before)
    BY <2>2, <2>5
  <2> HIDE DEF before, after
  <2>7. Knows(U, HearLink(U, site, v[r], link), after)
    BY <2>4, <2>6, LinkIsKnown
  <2> QED BY <2>3, <2>7 DEF after
<1>5. 1..n \in G
  <2>1. Takes(c, 1..n) /\ IsFiniteSet(1..n)
    BY <1>1, LastTakes, TakesLast
  <2> HIDE DEF G, c
  <2> QED BY <1>3, <1>4, <2>1, FoldInduction
<1>6. HearLinks(U, site, base, links) = v[1..n]
  BY <1>1, HearLinksIsHearing DEF v
<1>7. Knows(U, v[1..n], now(1..n))
  BY <1>5
<1> QED BY <1>1, <1>6, <1>7

\* What a record says of a page.
SaidBy(U, record, url) ==
  LET source == HostOf(record.final.host)
  IN  IF source = <<>> THEN {} ELSE SaidIn(U, RegistrableDomain(source), record.links, DOMAIN record.links, url)

\* What some records say of it.
SaidOf(U, rs, s, url) == UNION {SaidBy(U, rs[i], url) : i \in s}

\* A site has a name.
LEMMA SiteIsName ==
  ASSUME HostsAssumption, NEW host \in Names
  PROVE  RegistrableDomain(host) \in Names
<1>1. \A i \in DOMAIN host : Candidate(host, i) \in Names
  BY DEF Candidate, Names
<1>2. CASE host = <<>> \/ host \in Addresses
  BY <1>2 DEF RegistrableDomain
<1>3. CASE host # <<>> /\ host \notin Addresses
  <2> DEFINE X == {i \in DOMAIN host : Candidate(host, i) \in Exception}
             k == SuffixAt(host)
             R == {i \in DOMAIN host : \/ Candidate(host, i) \in Ordinary
                                       \/ i < Len(host) /\ Candidate(host, i + 1) \in Wildcard}
  <2>1. Len(host) \in Nat /\ DOMAIN host = 1..Len(host) /\ Len(host) # 0
    BY <1>3 DEF Names
  <2>2. X \in SUBSET Nat /\ R \in SUBSET Nat /\ X \subseteq DOMAIN host /\ R \subseteq DOMAIN host
    BY <2>1
  <2>3. X # {} => Min(X) \in X
    <3> HIDE DEF X
    <3> QED BY <2>2, LeastNat
  <2>4. k \in DOMAIN host
    <3>1. R # {} => Min(R) \in R
      <4> HIDE DEF R
      <4> QED BY <2>2, LeastNat
    <3>2. CASE R = {}
      <4>1. k = Len(host)
        BY <3>2 DEF SuffixAt
      <4> HIDE DEF k
      <4> QED BY <2>1, <4>1
    <3>3. CASE R # {}
      <4>1. k = Min(R)
        BY <3>3 DEF SuffixAt
      <4> HIDE DEF k, R
      <4> QED BY <2>2, <3>1, <3>3, <4>1
    <3> QED BY <3>2, <3>3
  <2>5. RegistrableDomain(host) = IF X # {} THEN Candidate(host, Min(X)) ELSE IF k = 1 THEN host ELSE Candidate(host, k - 1)
    BY <1>3 DEF RegistrableDomain
  <2>6. k # 1 => k - 1 \in DOMAIN host
    <3> HIDE DEF k
    <3> QED BY <2>1, <2>4
  <2> HIDE DEF X, k, R
  <2> QED BY <1>1, <2>2, <2>3, <2>5, <2>6
<1> QED BY <1>2, <1>3

\* What is said is phrases.
LEMMA SaidType ==
  ASSUME NEW U, NEW record, AreLinks(record.links), NEW url
  PROVE  SaidBy(U, record, url) \in SUBSET Nat
BY AnchorsAssumption DEF SaidBy, SaidIn, AreLinks, IsLink

\* A record is heard when its host is one.
LEMMA RecordIsHeard ==
  ASSUME HostsAssumption, NEW U, NEW said, \A url \in U : said[url] \in SUBSET Nat,
         NEW base, Knows(U, base, said), NEW record, IsUrl(record.final), AreLinks(record.links),
         NEW now, \A url \in U : now[url] = said[url] \cup SaidBy(U, record, url)
  PROVE  Knows(U, HearRecord(U, base, record), now)
<1> DEFINE source == HostOf(record.final.host)
           site == RegistrableDomain(source)
           n == HearRecord(U, base, record)
<1>1. source \in Names /\ site \in Names
  BY HostOfType, SiteIsName DEF IsUrl, Names
<1> HIDE DEF source
<1>2. CASE source = <<>>
  <2>1. n = base /\ \A url \in U : now[url] = said[url]
    BY <1>2 DEF HearRecord, SaidBy, source
  <2> QED BY <2>1 DEF Knows
<1>3. CASE source # <<>>
  <2>1. n = HearLinks(U, site, base, record.links)
    BY <1>3 DEF HearRecord, source
  <2>2. \A url \in U : now[url] = said[url] \cup SaidIn(U, site, record.links, DOMAIN record.links, url)
    BY <1>3 DEF SaidBy, source
  <2> DEFINE links == record.links
             after == [url \in U |-> said[url] \cup SaidIn(U, site, links, DOMAIN links, url)]
  <2>3. AreLinks(links)
    OBVIOUS
  <2>4. \A url \in U : now[url] = after[url]
    BY <2>2
  <2>5. Knows(U, HearLinks(U, site, base, links), after)
    <3> HIDE DEF links, site
    <3> QED BY <1>1, <2>3, LinksAreHeard
  <2> HIDE DEF after, n
  <2> QED BY <2>1, <2>4, <2>5 DEF Knows, n
<1> QED BY <1>2, <1>3

\* The fold behind Collect.
IsCollecting(v, U, rs, base) ==
  v = [s \in SUBSET DOMAIN rs |-> IF s = {} THEN base ELSE HearRecord(U, v[s \ {Max(s)}], rs[Max(s)])]

Collecting(U, rs, base) == CHOOSE v : IsCollecting(v, U, rs, base)

\* Collect is that fold at all records.
LEMMA CollectIsCollecting ==
  ASSUME NEW rs
  PROVE  Collect(rs) = Collecting(Crawled(rs), rs, NoAnchors)[DOMAIN rs]
BY DEF Collect, FoldLeft, MapThenFoldSet, Collecting, IsCollecting

\* A record's links leave anchors anchors.
LEMMA TellingsStay ==
  ASSUME HostsAssumption, NEW U, NEW a \in Tellings(U), NEW record, IsUrl(record.final), AreLinks(record.links)
  PROVE  HearRecord(U, a, record) \in Tellings(U)
<1> DEFINE source == HostOf(record.final.host)
           site == RegistrableDomain(source)
           links == record.links
           n == Len(links)
           v == Hearing(U, site, links, a)
           c == [s \in SUBSET (1..n) |-> Max(s)]
           G == {s \in SUBSET (1..n) : v[s] \in Tellings(U)}
<1>1. site \in Names
  BY HostOfType, SiteIsName DEF IsUrl, Names
<1>2. n \in Nat /\ DOMAIN links = 1..n /\ \A i \in 1..n : IsLink(links[i])
  BY DEF AreLinks
<1> HIDE DEF site
<1>3. \A s \in SUBSET (1..n) : v[s] = IF s = {} THEN a ELSE HearLink(U, site, v[s \ {Max(s)}], links[Max(s)])
  <2>1. IsHearing(v, U, site, links, a)
    BY <1>1, HearingExists
  <2> HIDE DEF v
  <2> QED BY <1>2, <2>1 DEF IsHearing
<1> HIDE DEF v
<1>4. {} \in G
  BY <1>3
<1>5. ASSUME NEW s \in SUBSET (1..n), s # {}, s \ {c[s]} \in G PROVE s \in G
  <2> DEFINE m == Max(s)
             r == s \ {m}
             link == links[m]
  <2>1. m \in 1..n /\ c[s] = m
    BY <1>2, <1>5, TakesLast
  <2>2. v[r] \in Tellings(U)
    <3> HIDE DEF c, m
    <3> QED BY <1>5, <2>1
  <2>3. v[s] = HearLink(U, site, v[r], link) /\ IsLink(link)
    BY <1>2, <1>3, <1>5, <2>1
  <2> HIDE DEF m, r, link
  <2> QED BY <1>1, <2>2, <2>3, LinkIsHeard
<1>6. 1..n \in G
  <2>1. Takes(c, 1..n) /\ IsFiniteSet(1..n)
    BY <1>2, LastTakes, TakesLast
  <2> HIDE DEF G, c
  <2> QED BY <1>4, <1>5, <2>1, FoldInduction
<1>7. HearLinks(U, site, a, links) = v[1..n]
  BY <1>2, HearLinksIsHearing DEF v
<1>8. HearRecord(U, a, record) = a \/ HearRecord(U, a, record) = HearLinks(U, site, a, links)
  BY DEF HearRecord, site
<1> QED BY <1>6, <1>7, <1>8

\* There is such a fold.
LEMMA CollectingExists ==
  ASSUME HostsAssumption, NEW U, NEW rs, AreRecords(rs), NEW base \in Tellings(U)
  PROVE  IsCollecting(Collecting(U, rs, base), U, rs, base)
<1> DEFINE n == Len(rs)
           c == [s \in SUBSET (1..n) |-> Max(s)]
           States == Tellings(U)
           step == [i \in 1..n |-> [a \in States |-> HearRecord(U, a, rs[i])]]
<1>1. n \in Nat /\ DOMAIN rs = 1..n /\ \A i \in 1..n : IsUrl(rs[i].final) /\ AreLinks(rs[i].links)
  BY DEF AreRecords
<1>2. step \in [1..n -> [States -> States]]
  <2>1. ASSUME NEW i \in 1..n, NEW a \in States PROVE HearRecord(U, a, rs[i]) \in States
    BY <1>1, TellingsStay
  <2> HIDE DEF States
  <2> QED BY <2>1
<1>3. PICK v \in [SUBSET (1..n) -> States] : IsFold(v, 1..n, c, base, step)
  <2>1. Takes(c, 1..n) /\ IsFiniteSet(1..n) /\ base \in States
    BY <1>1, LastTakes, TakesLast
  <2> HIDE DEF c, step, States
  <2> QED BY <1>2, <2>1, FoldExists
<1>4. ASSUME NEW s \in SUBSET (1..n)
      PROVE  v[s] = IF s = {} THEN base ELSE HearRecord(U, v[s \ {Max(s)}], rs[Max(s)])
  <2>1. v[s] = IF s = {} THEN base ELSE step[c[s]][v[s \ {c[s]}]]
    BY <1>3 DEF IsFold
  <2>2. CASE s # {}
    <3>1. Max(s) \in 1..n /\ c[s] = Max(s) /\ s \ {Max(s)} \in SUBSET (1..n)
      BY <1>1, <2>2, TakesLast
    <3>2. v[s \ {Max(s)}] \in States
      BY <3>1
    <3>3. step[Max(s)][v[s \ {Max(s)}]] = HearRecord(U, v[s \ {Max(s)}], rs[Max(s)])
      <4> HIDE DEF States
      <4> QED BY <3>1, <3>2
    <3> HIDE DEF c, step, States
    <3> QED BY <2>1, <2>2, <3>1, <3>3
  <2> QED BY <2>1, <2>2
<1>5. IsCollecting(v, U, rs, base)
  BY <1>1, <1>4 DEF IsCollecting
<1> QED BY <1>5 DEF Collecting

\* Of every page the anchors have heard what the records say of it.
LEMMA RecordsAreHeard ==
  ASSUME HostsAssumption, NEW rs, AreRecords(rs)
  PROVE  LET U == Crawled(rs)
         IN  Knows(U, Collect(rs), [url \in U |-> SaidOf(U, rs, DOMAIN rs, url)])
<1> DEFINE n == Len(rs)
           U == Crawled(rs)
           v == Collecting(U, rs, NoAnchors)
           c == [s \in SUBSET (1..n) |-> Max(s)]
           now(s) == [url \in U |-> SaidOf(U, rs, s, url)]
           G == {s \in SUBSET (1..n) : Knows(U, v[s], now(s))}
<1>1. n \in Nat /\ DOMAIN rs = 1..n /\ \A i \in 1..n : IsUrl(rs[i].final) /\ AreLinks(rs[i].links)
  BY DEF AreRecords
<1> HIDE DEF U
<1>2. NoAnchors \in Tellings(U) /\ \A url : Target(NoAnchors, url) = NoTarget
  <2>1. DOMAIN <<>> = {} /\ <<>> \in [{} -> Heard]
    BY EmptyMap
  <2>2. NoAnchors.targets = <<>>
    BY DEF NoAnchors
  <2>3. NoAnchors \in Tellings(U)
    <3>1. DOMAIN NoAnchors.targets \in SUBSET U /\ NoAnchors.targets \in [DOMAIN NoAnchors.targets -> Heard]
      BY <2>1, <2>2
    <3>2. /\ NoAnchors.nofollow = 0 /\ NoAnchors.uncrawled = 0 /\ NoAnchors.sameSite = 0
          /\ NoAnchors.tooLong = 0 /\ NoAnchors.repeated = 0
      BY DEF NoAnchors
    <3>3. NoAnchors = [targets |-> NoAnchors.targets, nofollow |-> 0, uncrawled |-> 0, sameSite |-> 0,
                       tooLong |-> 0, repeated |-> 0]
      BY <2>2 DEF NoAnchors
    <3> QED BY <3>1, <3>2, <3>3, TellingParts
  <2> QED BY <2>1, <2>2, <2>3 DEF Target
<1>3. \A s \in SUBSET (1..n) : v[s] = IF s = {} THEN NoAnchors ELSE HearRecord(U, v[s \ {Max(s)}], rs[Max(s)])
  <2>1. IsCollecting(v, U, rs, NoAnchors)
    BY <1>2, CollectingExists
  <2> HIDE DEF v
  <2> QED BY <1>1, <2>1 DEF IsCollecting
<1> HIDE DEF v
<1>4. {} \in G
  <2>1. v[{}] = NoAnchors /\ {} \in SUBSET (1..n)
    BY <1>3
  <2>2. \A url \in U : now({})[url] = {}
    BY DEF SaidOf
  <2> HIDE DEF now
  <2>3. Knows(U, NoAnchors, now({}))
    BY <1>2, <2>2, NothingHeard DEF Knows
  <2> QED BY <2>1, <2>3
<1>5. ASSUME NEW s \in SUBSET (1..n), s # {}, s \ {c[s]} \in G PROVE s \in G
  <2> DEFINE m == Max(s)
             r == s \ {m}
             record == rs[m]
  <2>1. m \in s /\ m \in 1..n /\ c[s] = m
    BY <1>1, <1>5, TakesLast
  <2>2. r \in SUBSET (1..n) /\ Knows(U, v[r], now(r))
    <3> HIDE DEF now, c, m
    <3> QED BY <1>5, <2>1
  <2>3. v[s] = HearRecord(U, v[r], record)
    BY <1>3, <1>5
  <2>4. IsUrl(record.final) /\ AreLinks(record.links)
    BY <1>1, <2>1
  <2> HIDE DEF m
  <2>5. \A url \in U : /\ now(r)[url] \in SUBSET Nat
                       /\ now(s)[url] = now(r)[url] \cup SaidBy(U, record, url)
    <3> SUFFICES ASSUME NEW url \in U
                 PROVE  /\ now(r)[url] \in SUBSET Nat
                        /\ now(s)[url] = now(r)[url] \cup SaidBy(U, record, url)
      OBVIOUS
    <3>1. \A k \in 1..n : SaidBy(U, rs[k], url) \in SUBSET Nat
      BY <1>1, SaidType
    <3>2. now(r)[url] = SaidOf(U, rs, r, url) /\ now(s)[url] = SaidOf(U, rs, s, url)
      OBVIOUS
    <3> HIDE DEF now, record
    <3>3. SaidOf(U, rs, r, url) \in SUBSET Nat
      <4>1. \A k \in r : SaidBy(U, rs[k], url) \in SUBSET Nat
        BY <2>2, <3>1
      <4> QED BY <4>1 DEF SaidOf
    <3>4. SaidOf(U, rs, s, url) = SaidOf(U, rs, r, url) \cup SaidBy(U, rs[m], url)
      BY <2>1 DEF SaidOf
    <3> QED BY <3>2, <3>3, <3>4 DEF record
  <2> HIDE DEF now, r, record
  <2> DEFINE before == now(r)
             after == now(s)
  <2>6. /\ \A url \in U : before[url] \in SUBSET Nat
        /\ \A url \in U : after[url] = before[url] \cup SaidBy(U, record, url)
        /\ Knows(U, v[r], before)
    BY <2>2, <2>5
  <2> HIDE DEF before, after
  <2>7. Knows(U, HearRecord(U, v[r], record), after)
    BY <2>4, <2>6, RecordIsHeard
  <2> QED BY <2>3, <2>7 DEF after
<1>6. 1..n \in G
  <2>1. Takes(c, 1..n) /\ IsFiniteSet(1..n)
    BY <1>1, LastTakes, TakesLast
  <2> HIDE DEF G, c
  <2> QED BY <1>4, <1>5, <2>1, FoldInduction
<1>7. Collect(rs) = v[1..n]
  BY <1>1, CollectIsCollecting DEF v, U
<1>8. Knows(U, v[1..n], now(1..n))
  BY <1>6
<1> QED BY <1>1, <1>7, <1>8 DEF U

\* What the records say of a page is what is counted of what they call it.
LEMMA SaidIsFitting ==
  ASSUME HostsAssumption, AreRecords(records), NEW url \in Crawled(records)
  PROVE  SaidOf(Crawled(records), records, DOMAIN records, url) = CountedFitting(url)
<1> DEFINE U == Crawled(records)
           from(i) == HostOf(records[i].final.host)
           Fit(phrase) == phrase # NoPhrase /\ Chars[phrase] <= MaxPhraseChars
           Is(i, link, phrase) == link.url = url /\ IsCounted(records[i], link) /\ phrase = Tidy[link.anchor] /\ Fit(phrase)
<1>1. ASSUME NEW phrase
      PROVE  phrase \in SaidOf(U, records, DOMAIN records, url)
               <=> \E i \in DOMAIN records : from(i) # <<>> /\ \E k \in DOMAIN records[i].links :
                     Says(U, RegistrableDomain(from(i)), records[i].links[k], url) /\ phrase = Tidy[records[i].links[k].anchor]
  BY DEF SaidOf, SaidBy, SaidIn
<1>2. ASSUME NEW i \in DOMAIN records, from(i) # <<>>, NEW k \in DOMAIN records[i].links, NEW phrase
      PROVE  (Says(U, RegistrableDomain(from(i)), records[i].links[k], url) /\ phrase = Tidy[records[i].links[k].anchor])
               <=> Is(i, records[i].links[k], phrase)
  <2>1. IsLink(records[i].links[k]) /\ IsUrl(records[i].final)
    BY DEF AreRecords, AreLinks
  <2> SUFFICES ASSUME NEW link, link = records[i].links[k]
               PROVE  (Says(U, RegistrableDomain(from(i)), link, url) /\ phrase = Tidy[link.anchor]) <=> Is(i, link, phrase)
    OBVIOUS
  <2> DEFINE to == HostOf(link.url.host)
  <2>2. from(i) \in Names /\ to \in Names
    BY <2>1, HostOfType DEF IsLink, IsUrl, Names
  <2>3. RegistrableDomain(from(i)) = Owner(from(i)) /\ RegistrableDomain(to) = Owner(to)
    BY <2>2, OwnerIsRegistrable
  <2>4. IsCounted(records[i], link) <=> to # <<>> /\ ~link.nofollow /\ Owner(from(i)) # Owner(to)
    BY <1>2 DEF IsCounted
  <2>5. CASE link.url = url
    <3>1. HostOf(url.host) = to /\ url \in U
      BY <2>5
    <3> HIDE DEF to, from, U
    <3> QED BY <2>3, <2>4, <2>5, <3>1 DEF Says
  <2>6. CASE link.url # url
    <3> HIDE DEF to, from, U
    <3> QED BY <2>6 DEF Says
  <2> QED BY <2>5, <2>6
<1>3. ASSUME NEW i \in DOMAIN records, from(i) = <<>>, NEW link, NEW phrase PROVE ~Is(i, link, phrase)
  BY <1>3 DEF IsCounted
<1>4. ASSUME NEW phrase
      PROVE  phrase \in CountedFitting(url) <=> \E i \in DOMAIN records : \E k \in DOMAIN records[i].links : Is(i, records[i].links[k], phrase)
  <2>1. phrase \in CountedFitting(url) <=> Fit(phrase) /\ \E i \in DOMAIN records : \E link \in ToSet(records[i].links) :
                                      link.url = url /\ IsCounted(records[i], link) /\ phrase = Tidy[link.anchor]
    BY DEF CountedFitting, CountedCalled
  <2> DEFINE Has(i, link) == link.url = url /\ IsCounted(records[i], link) /\ phrase = Tidy[link.anchor]
  <2>2. \A i : (\E link \in ToSet(records[i].links) : Has(i, link)) <=> \E k \in DOMAIN records[i].links : Has(i, records[i].links[k])
    BY DEF ToSet
  <2>3. \A i, link : Is(i, link, phrase) <=> Has(i, link) /\ Fit(phrase)
    OBVIOUS
  <2> HIDE DEF Fit, Is
  <2>4. phrase \in CountedFitting(url) <=> Fit(phrase) /\ \E i \in DOMAIN records : \E link \in ToSet(records[i].links) : Has(i, link)
    BY <2>1
  <2> HIDE DEF Has
  <2> QED BY <2>2, <2>3, <2>4
<1> HIDE DEF Is, Fit, U, from
<1>5. ASSUME NEW phrase PROVE phrase \in SaidOf(U, records, DOMAIN records, url) <=> phrase \in CountedFitting(url)
  <2>1. ASSUME NEW i \in DOMAIN records
        PROVE  (from(i) # <<>> /\ \E k \in DOMAIN records[i].links :
                     Says(U, RegistrableDomain(from(i)), records[i].links[k], url) /\ phrase = Tidy[records[i].links[k].anchor])
                 <=> \E k \in DOMAIN records[i].links : Is(i, records[i].links[k], phrase)
    <3>1. CASE from(i) = <<>>
      BY <3>1, <1>3
    <3>2. CASE from(i) # <<>>
      <4> DEFINE A(k) == Says(U, RegistrableDomain(from(i)), records[i].links[k], url) /\ phrase = Tidy[records[i].links[k].anchor]
                 B(k) == Is(i, records[i].links[k], phrase)
      <4>1. \A k \in DOMAIN records[i].links : A(k) <=> B(k)
        BY <3>2, <1>2
      <4> HIDE DEF A, B
      <4>2. (\E k \in DOMAIN records[i].links : A(k)) <=> \E k \in DOMAIN records[i].links : B(k)
        BY <4>1
      <4> QED BY <3>2, <4>2 DEF A, B
    <3> QED BY <3>1, <3>2
  <2> DEFINE A(i) == from(i) # <<>> /\ \E k \in DOMAIN records[i].links :
                     Says(U, RegistrableDomain(from(i)), records[i].links[k], url) /\ phrase = Tidy[records[i].links[k].anchor]
             B(i) == \E k \in DOMAIN records[i].links : Is(i, records[i].links[k], phrase)
  <2>2. \A i \in DOMAIN records : A(i) <=> B(i)
    BY <2>1
  <2>3. phrase \in SaidOf(U, records, DOMAIN records, url) <=> \E i \in DOMAIN records : A(i)
    BY <1>1
  <2>4. phrase \in CountedFitting(url) <=> \E i \in DOMAIN records : B(i)
    BY <1>4
  <2> HIDE DEF A, B
  <2> QED BY <2>2, <2>3, <2>4
<1> QED BY <1>5 DEF U

\* A page of the crawl is named by what is said of it.
LEMMA PagesAreNamed ==
  ASSUME HostsAssumption, AreRecords(records), NEW url \in Crawled(records)
  PROVE  HasHeard(Target(Collect(records), url), CountedFitting(url)) /\ Collect(records) \in Tellings(Crawled(records))
<1> DEFINE U == Crawled(records)
           a == Collect(records)
           said == [u \in U |-> SaidOf(U, records, DOMAIN records, u)]
<1>1. Knows(U, a, said)
  BY RecordsAreHeard
<1>2. said[url] = CountedFitting(url)
  BY SaidIsFitting
<1> HIDE DEF said, a
<1>3. HasHeard(Target(a, url), CountedFitting(url)) /\ a \in Tellings(U)
  BY <1>1, <1>2 DEF Knows
<1> QED BY <1>3 DEF a

\* The phrases that fit a page are finitely many, and have a length.
LEMMA FittingIsFinite ==
  ASSUME AreRecords(records), NEW url
  PROVE  IsFiniteSet(CountedFitting(url)) /\ CountedFitting(url) \in SUBSET Nat /\ \A p \in CountedFitting(url) : PhraseBytes[p] \in Nat
<1>1. ASSUME NEW i \in DOMAIN records, NEW link \in ToSet(records[i].links)
      PROVE  Tidy[link.anchor] \in Nat /\ (Tidy[link.anchor] # NoPhrase => PhraseBytes[Tidy[link.anchor]] \in Nat)
  <2>1. IsLink(link)
    BY DEF AreRecords, AreLinks, ToSet
  <2> QED BY <2>1, AnchorsAssumption DEF IsLink
<1>2. CountedFitting(url) \in SUBSET Nat /\ \A p \in CountedFitting(url) : PhraseBytes[p] \in Nat
  BY <1>1 DEF CountedFitting, CountedCalled
<1>3. IsFiniteSet(CountedFitting(url))
  <2> DEFINE L(i) == {l \in ToSet(records[i].links) : l.url = url /\ IsCounted(records[i], l)}
             A == {L(i) : i \in DOMAIN records}
  <2>1. \A i \in DOMAIN records : IsFiniteSet(L(i))
    <3> SUFFICES ASSUME NEW i \in DOMAIN records PROVE IsFiniteSet(L(i))
      OBVIOUS
    <3> DEFINE links == records[i].links
               T == {links[k] : k \in DOMAIN links}
    <3>1. Len(links) \in Nat /\ DOMAIN links = 1..Len(links)
      BY DEF AreRecords, AreLinks
    <3>2. IsFiniteSet(DOMAIN links)
      BY <3>1, FS_Interval
    <3>3. IsFiniteSet(T)
      <4> HIDE DEF links
      <4> QED BY <3>2, ImageIsFinite
    <3>4. L(i) \in SUBSET T
      BY DEF ToSet
    <3> HIDE DEF L, T
    <3> QED BY <3>3, <3>4, FS_Subset
  <2>2. IsFiniteSet(DOMAIN records)
    <3>1. Len(records) \in Nat /\ DOMAIN records = 1..Len(records)
      BY DEF AreRecords
    <3> QED BY <3>1, FS_Interval
  <2>3. IsFiniteSet(A) /\ \A x \in A : IsFiniteSet(x)
    <3> DEFINE f == [i \in DOMAIN records |-> L(i)]
    <3>1. A = {f[i] : i \in DOMAIN records}
      <4> HIDE DEF L
      <4> QED OBVIOUS
    <3>2. IsFiniteSet({f[i] : i \in DOMAIN records})
      <4> HIDE DEF f
      <4> QED BY <2>2, ImageIsFinite
    <3> HIDE DEF L
    <3> QED BY <2>1, <3>1, <3>2
  <2>4. IsFiniteSet(UNION A)
    <3> HIDE DEF A
    <3> QED BY <2>3, FS_UNION
  <2> DEFINE B == UNION A
             C == {Tidy[l.anchor] : l \in B}
  <2>5. CountedFitting(url) \in SUBSET C
    BY DEF CountedFitting, CountedCalled
  <2>6. IsFiniteSet(C)
    <3> HIDE DEF B
    <3> DEFINE f == [l \in B |-> Tidy[l.anchor]]
    <3>1. IsFiniteSet(B)
      BY <2>4 DEF B
    <3>2. C = {f[l] : l \in B}
      OBVIOUS
    <3>3. IsFiniteSet({f[l] : l \in B})
      <4> HIDE DEF f
      <4> QED BY <3>1, ImageIsFinite
    <3> QED BY <3>2, <3>3
  <2> HIDE DEF C
  <2> QED BY <2>5, <2>6, FS_Subset
<1> QED BY <1>2, <1>3

\* What a page is called is what others call it, up to the limit.
LEMMA AnchorsTrue ==
  ASSUME HostsAssumption, AreRecords(records)
  PROVE  AnchorsAreCounted
<1> SUFFICES ASSUME NEW url \in Crawled(records)
             PROVE  LET phrases == Target(Collect(records), url).phrases
                    IN  /\ phrases \subseteq CountedFitting(url)
                        /\ Cardinality(phrases) = Min({MaxPhrases, Cardinality(CountedFitting(url))})
  BY DEF AnchorsAreCounted
<1> DEFINE t == Target(Collect(records), url)
           P == t.phrases
           F == CountedFitting(url)
<1>1. HasHeard(t, F)
  BY PagesAreNamed
<1>2. IsFiniteSet(F)
  BY FittingIsFinite
<1> HIDE DEF t, F
<1>3. IsFiniteSet(P) /\ P \subseteq F /\ Cardinality(P) <= MaxPhrases /\ (Cardinality(P) < MaxPhrases => P = F)
  BY <1>1 DEF HasHeard
<1> HIDE DEF P
<1>4. Cardinality(P) \in Nat /\ Cardinality(F) \in Nat /\ Cardinality(P) <= Cardinality(F) /\ MaxPhrases \in Nat
  BY <1>2, <1>3, FS_CardinalityType, FS_Subset, AnchorsAssumption
<1>5. Cardinality(P) = Min({MaxPhrases, Cardinality(F)})
  <2>1. Min({MaxPhrases, Cardinality(F)}) = IF MaxPhrases <= Cardinality(F) THEN MaxPhrases ELSE Cardinality(F)
    BY <1>4, LeastOfTwo
  <2> QED BY <1>3, <1>4, <2>1
<1> QED BY <1>3, <1>5 DEF P, F, t

\* Whoever calls a page something votes for its host.
LEMMA CallersVote ==
  ASSUME AreRecords(records), NEW url, NEW phrase \in CountedFitting(url)
  PROVE  \E i \in DOMAIN records : Votes(records[i], HostOf(records[i].final.host), HostOf(url.host))
<1>0. PICK i \in DOMAIN records : \E link \in ToSet(records[i].links) : link.url = url /\ IsCounted(records[i], link)
  BY DEF CountedFitting, CountedCalled
<1>1. PICK link \in ToSet(records[i].links) : link.url = url /\ IsCounted(records[i], link)
  BY <1>0
<1> DEFINE record == records[i]
           from == HostOf(record.final.host)
           to == HostOf(url.host)
<1>2. PICK k \in DOMAIN record.links : link = record.links[k]
  BY DEF ToSet
<1>3. HostOf(link.url.host) = to
  BY <1>1
<1>4. from # <<>> /\ IsVote(from, link)
  BY <1>1 DEF IsCounted, IsVote
<1>5. to \in Targets(record)
  <2>1. IsVote(HostOf(record.final.host), record.links[k]) /\ HostOf(record.links[k].url.host) = to
    BY <1>2, <1>3, <1>4
  <2> HIDE DEF record, from, to
  <2> QED BY <2>1 DEF Targets
<1>6. Votes(record, from, to)
  <2> HIDE DEF to
  <2> QED BY <1>4, <1>5 DEF Votes
<1> QED BY <1>6

\* A page that is described has a host that is voted for.
LEMMA AnchorsTellVotes ==
  ASSUME HostsAssumption, CorpusAssumption, CorpusTypeOK
  PROVE  AnchorsAreVotes
<1> DEFINE a == Collect(records)
           g == Graph(records, <<>>)
           U == Crawled(records)
<1>1. AreRecords(records) /\ AreSeeds(<<>>) /\ IsFiniteSet(DOMAIN records)
  <2>1. AreRecords(records) /\ Len(records) \in Nat /\ DOMAIN records = 1..Len(records)
    BY RecordsAreRecords
  <2> QED BY <2>1, SeedsAreSeeds, FS_Interval
<1>2. /\ g \in Graphs
      /\ HostsOf(g) = SeedHosts(<<>>) \cup UNION {Named(records[i]) : i \in DOMAIN records}
      /\ \A x, y : Got(g, x, y) = Cardinality(Voters(records, DOMAIN records, x, y))
  BY <1>1, GraphSays
<1> HIDE DEF g
<1>3. ASSUME NEW url \in DOMAIN a.targets, a.targets[url].phrases # {}
      PROVE  InDegree(g, HostOf(url.host)) > 0
  <2> DEFINE to == HostOf(url.host)
  <2>1. url \in U
    <3>1. a \in Tellings(U)
      <4>1. Knows(U, a, [u \in U |-> SaidOf(U, records, DOMAIN records, u)])
        BY <1>1, RecordsAreHeard
      <4> HIDE DEF a, U
      <4> QED BY <4>1 DEF Knows
    <3> HIDE DEF a, U
    <3>2. DOMAIN a.targets \in SUBSET U
      BY <3>1, TellingParts
    <3> QED BY <3>2, <1>3
  <2>2. a.targets[url].phrases \subseteq CountedFitting(url)
    <3>1. HasHeard(Target(a, url), CountedFitting(url))
      BY <1>1, <2>1, PagesAreNamed
    <3> HIDE DEF a
    <3>2. Target(a, url) = a.targets[url]
      BY <1>3 DEF Target
    <3> QED BY <3>1, <3>2 DEF HasHeard
  <2>3. PICK phrase : phrase \in CountedFitting(url)
    BY <1>3, <2>2
  <2>4. PICK i \in DOMAIN records : Votes(records[i], HostOf(records[i].final.host), to)
    BY <1>1, <2>3, CallersVote
  <2> DEFINE from == HostOf(records[i].final.host)
  <2> HIDE DEF to
  <2>5. from # <<>> /\ to \in Targets(records[i])
    BY <2>4 DEF Votes
  <2>6. to \in HostsOf(g)
    <3>1. to \in Named(records[i])
      BY <2>5 DEF Named
    <3> QED BY <1>2, <3>1
  <2>7. Got(g, from, to) # 0
    <3> DEFINE V == Voters(records, DOMAIN records, from, to)
    <3>1. i \in V /\ V \in SUBSET DOMAIN records
      BY <2>4 DEF Voters
    <3>2. Got(g, from, to) = Cardinality(V)
      BY <1>2
    <3> HIDE DEF V
    <3>3. IsFiniteSet(V)
      BY <1>1, <3>1, FS_Subset
    <3> QED BY <3>1, <3>2, <3>3, FS_EmptySet
  <2> HIDE DEF from
  <2>8. from \in DOMAIN g.incoming[to]
    BY <1>2, <2>6, <2>7, EdgesAreVotes
  <2>9. IsFiniteSet(DOMAIN g.incoming[to])
    BY <1>2, <2>6, AtHost
  <2> DEFINE D == DOMAIN g.incoming[to]
  <2>10. Cardinality(D) \in Nat /\ Cardinality(D) # 0
    <3> HIDE DEF D
    <3>1. from \in D /\ IsFiniteSet(D)
      BY <2>8, <2>9 DEF D
    <3> QED BY <3>1, FS_CardinalityType, FS_EmptySet
  <2>11. InDegree(g, to) = Cardinality(D)
    BY DEF InDegree
  <2> QED BY <2>10, <2>11 DEF to
<1> QED BY <1>3 DEF AnchorsAreVotes, g

\* The phrases in order are phrases of the target.
LEMMA PhrasesAreTheirs ==
  ASSUME NEW a, NEW url, IsFiniteSet(Target(a, url).phrases), Target(a, url).phrases \in SUBSET Nat
  PROVE  Phrases(a, url) \in Seq(Target(a, url).phrases)
<1> DEFINE S == Target(a, url).phrases
           n == Cardinality(S)
           at(i) == CHOOSE p \in S : Cardinality({q \in S : q < p}) = i - 1
<1>1. n \in Nat
  BY FS_CardinalityType
<1>2. \A i \in 1..n : \E p \in S : Cardinality({q \in S : q < p}) = i - 1
  BY RanksExist
<1>3. Phrases(a, url) = [i \in 1..n |-> at(i)]
  BY DEF Phrases
<1> HIDE DEF S, n
<1>4. \A i \in 1..n : at(i) \in S
  BY <1>2
<1> HIDE DEF at
<1> QED BY <1>1, <1>3, <1>4 DEF S, n

\* What a phrase adds to the text before it.
Adds(n, phrase) == n + PhraseBytes[phrase] + (IF n = 0 THEN 0 ELSE 1)

\* The fold behind Written.
IsWriting(g, text) ==
  g = [s \in SUBSET DOMAIN text |-> IF s = {} THEN 0 ELSE Adds(g[s \ {Max(s)}], text[Max(s)])]

Writing(text) == CHOOSE g : IsWriting(g, text)

\* Written is that fold at the whole text.
LEMMA WrittenIsWriting ==
  ASSUME NEW text
  PROVE  Written(text) = Writing(text)[DOMAIN text]
BY DEF Written, FoldLeft, MapThenFoldSet, Writing, IsWriting, Adds

\* A text of phrases that have a length.
AreReadable(text) == text \in Seq(Nat) /\ \A i \in DOMAIN text : PhraseBytes[text[i]] \in Nat

\* There is such a fold, of numbers.
LEMMA WritingExists ==
  ASSUME NEW text, AreReadable(text)
  PROVE  Writing(text) \in [SUBSET DOMAIN text -> Nat] /\ IsWriting(Writing(text), text)
<1> DEFINE n == Len(text)
           c == [s \in SUBSET (1..n) |-> Max(s)]
           step == [i \in 1..n |-> [k \in Nat |-> Adds(k, text[i])]]
<1>1. n \in Nat /\ DOMAIN text = 1..n /\ \A i \in 1..n : PhraseBytes[text[i]] \in Nat
  BY DEF AreReadable
<1>2. step \in [1..n -> [Nat -> Nat]]
  <2>1. ASSUME NEW i \in 1..n, NEW k \in Nat PROVE Adds(k, text[i]) \in Nat
    BY <1>1 DEF Adds
  <2> QED BY <2>1
<1>3. PICK g \in [SUBSET (1..n) -> Nat] : IsFold(g, 1..n, c, 0, step)
  <2>1. Takes(c, 1..n) /\ IsFiniteSet(1..n) /\ 0 \in Nat
    BY <1>1, LastTakes, TakesLast
  <2> HIDE DEF c, step
  <2> QED BY <1>2, <2>1, FoldExists
<1>4. ASSUME NEW s \in SUBSET (1..n)
      PROVE  g[s] = IF s = {} THEN 0 ELSE Adds(g[s \ {Max(s)}], text[Max(s)])
  <2>1. g[s] = IF s = {} THEN 0 ELSE step[c[s]][g[s \ {c[s]}]]
    BY <1>3 DEF IsFold
  <2>2. CASE s # {}
    <3>1. Max(s) \in 1..n /\ c[s] = Max(s) /\ s \ {Max(s)} \in SUBSET (1..n)
      BY <1>1, <2>2, TakesLast
    <3>2. g[s \ {Max(s)}] \in Nat
      BY <3>1
    <3>3. step[Max(s)][g[s \ {Max(s)}]] = Adds(g[s \ {Max(s)}], text[Max(s)])
      BY <3>1, <3>2
    <3> HIDE DEF c, step
    <3> QED BY <2>1, <2>2, <3>1, <3>3
  <2> QED BY <2>1, <2>2
<1>5. IsWriting(g, text)
  BY <1>1, <1>4 DEF IsWriting
<1>6. IsWriting(Writing(text), text)
  BY <1>5 DEF Writing
<1> DEFINE w == Writing(text)
<1>7. \A s \in SUBSET (1..n) : w[s] = IF s = {} THEN 0 ELSE Adds(w[s \ {Max(s)}], text[Max(s)])
  <2> HIDE DEF w
  <2>1. IsWriting(w, text)
    BY <1>6 DEF w
  <2> QED BY <1>1, <2>1 DEF IsWriting
<1> HIDE DEF w
<1> DEFINE G == {s \in SUBSET (1..n) : w[s] \in Nat}
<1>8. \A s \in SUBSET (1..n) : s \in G
  <2>1. ASSUME NEW s \in SUBSET (1..n), \A r \in SUBSET s : r # s => r \in G PROVE s \in G
    <3>1. CASE s = {}
      <4>1. w[s] = 0
        BY <1>7, <3>1
      <4> QED BY <4>1
    <3>2. CASE s # {}
      <4>1. Max(s) \in s /\ Max(s) \in 1..n
        BY <1>1, <3>2, TakesLast
      <4>2. w[s \ {Max(s)}] \in Nat
        BY <2>1, <4>1
      <4> DEFINE k == w[s \ {Max(s)}]
                 m == Max(s)
      <4>3. w[s] = Adds(k, text[m])
        BY <1>7, <3>2
      <4> HIDE DEF k, m
      <4>4. Adds(k, text[m]) \in Nat
        BY <1>1, <4>1, <4>2 DEF Adds, k, m
      <4> QED BY <4>3, <4>4
    <3> QED BY <3>1, <3>2
  <2>2. IsFiniteSet(1..n)
    BY <1>1, TakesLast
  <2> HIDE DEF G
  <2> QED BY <2>1, <2>2, BySubset
<1>9. \A s \in SUBSET (1..n) : w[s] \in Nat
  BY <1>8
<1>10. w = [s \in SUBSET (1..n) |-> w[s]]
  <2>1. IsWriting(w, text)
    BY <1>6 DEF w
  <2> QED BY <1>1, <2>1 DEF IsWriting
<1> QED BY <1>1, <1>6, <1>9, <1>10 DEF w

\* A text is written phrase by phrase.
LEMMA WrittenStep ==
  ASSUME NEW text, AreReadable(text)
  PROVE  /\ Written(SubSeq(text, 1, 0)) = 0
         /\ \A k \in 1..Len(text) :
              /\ Written(SubSeq(text, 1, k)) = Adds(Written(SubSeq(text, 1, k - 1)), text[k])
              /\ Written(SubSeq(text, 1, k - 1)) \in Nat
<1> DEFINE n == Len(text)
           w == Writing(text)
<1>1. n \in Nat /\ DOMAIN text = 1..n /\ text \in Seq(Nat)
  BY DEF AreReadable
<1>2. /\ \A s \in SUBSET (1..n) : w[s] = IF s = {} THEN 0 ELSE Adds(w[s \ {Max(s)}], text[Max(s)])
      /\ w \in [SUBSET (1..n) -> Nat]
  <2>1. IsWriting(w, text) /\ w \in [SUBSET DOMAIN text -> Nat]
    BY WritingExists
  <2> HIDE DEF w
  <2> QED BY <1>1, <2>1 DEF IsWriting
<1> HIDE DEF w
<1>3. ASSUME NEW k \in 0..n PROVE Written(SubSeq(text, 1, k)) = w[1..k]
  <2> DEFINE t == SubSeq(text, 1, k)
             v == Writing(t)
             G == {s \in SUBSET (1..k) : v[s] = w[s]}
  <2>1. t \in Seq(Nat) /\ Len(t) = k /\ DOMAIN t = 1..k /\ \A i \in 1..k : t[i] = text[i]
    BY <1>1
  <2>2. AreReadable(t)
    <3> HIDE DEF t
    <3>1. \A i \in 1..k : PhraseBytes[text[i]] \in Nat
      BY <1>1 DEF AreReadable
    <3> QED BY <2>1, <3>1 DEF AreReadable
  <2>3. \A s \in SUBSET (1..k) : v[s] = IF s = {} THEN 0 ELSE Adds(v[s \ {Max(s)}], t[Max(s)])
    <3> HIDE DEF t
    <3>1. IsWriting(v, t)
      BY <2>2, WritingExists
    <3> HIDE DEF v
    <3> QED BY <2>1, <3>1 DEF IsWriting
  <2>4. Written(t) = v[1..k]
    <3> HIDE DEF t
    <3>1. Written(t) = Writing(t)[DOMAIN t]
      BY WrittenIsWriting
    <3> QED BY <2>1, <3>1
  <2> HIDE DEF v, t
  <2>5. \A s \in SUBSET (1..k) : s \in G
    <3>1. ASSUME NEW s \in SUBSET (1..k), \A r \in SUBSET s : r # s => r \in G PROVE s \in G
      <4>1. s \in SUBSET (1..n)
        BY <1>1
      <4>2. CASE s = {}
        BY <1>2, <2>3, <4>1, <4>2
      <4>3. CASE s # {}
        <5>1. Max(s) \in s /\ Max(s) \in 1..k
          <6>1. k \in Nat
            OBVIOUS
          <6> QED BY <4>3, <6>1, TakesLast
        <5>2. v[s \ {Max(s)}] = w[s \ {Max(s)}]
          BY <3>1, <5>1
        <5>3. t[Max(s)] = text[Max(s)]
          BY <2>1, <5>1
        <5>4. v[s] = Adds(v[s \ {Max(s)}], t[Max(s)])
          BY <2>3, <4>3
        <5>5. w[s] = Adds(w[s \ {Max(s)}], text[Max(s)])
          BY <1>2, <4>1, <4>3
        <5> QED BY <5>2, <5>3, <5>4, <5>5
      <4> QED BY <4>2, <4>3
    <3>2. IsFiniteSet(1..k)
      <4>1. k \in Nat
        OBVIOUS
      <4> QED BY <4>1, TakesLast
    <3> HIDE DEF G
    <3> QED BY <3>1, <3>2, BySubset
  <2>6. v[1..k] = w[1..k]
    BY <2>5
  <2> QED BY <2>4, <2>6 DEF t
<1>4. w[1..0] = 0
  <2>1. 1..0 = {} /\ {} \in SUBSET (1..n)
    OBVIOUS
  <2> QED BY <1>2, <2>1
<1>5. ASSUME NEW k \in 1..n PROVE w[1..k] = Adds(w[1..(k - 1)], text[k]) /\ w[1..(k - 1)] \in Nat
  <2>1. 1..k \in SUBSET (1..n) /\ 1..k # {} /\ (1..k) \ {k} = 1..(k - 1) /\ 1..(k - 1) \in SUBSET (1..n)
    <3>1. k \in Nat /\ k >= 1 /\ k <= n
      BY <1>1
    <3>2. ASSUME NEW i PROVE i \in (1..k) \ {k} <=> i \in 1..(k - 1)
      BY <3>1
    <3> QED BY <1>1, <3>1, <3>2
  <2>2. Max(1..k) = k
    BY <1>1, TakesLast
  <2> QED BY <1>2, <2>1, <2>2
<1>6. 0 \in 0..n /\ \A k \in 1..n : k \in 0..n /\ k - 1 \in 0..n
  BY <1>1
<1> QED BY <1>3, <1>4, <1>5, <1>6

\* What is written of a text up to a phrase that fits, fits.
LEMMA WhatFitsIsShort ==
  ASSUME NEW text, AreReadable(text), NEW k \in 0..Len(text),
         k # 0 => Fits(SubSeq(text, 1, k - 1), text[k])
  PROVE  Written(SubSeq(text, 1, k)) <= MaxTotalChars
<1>1. Len(text) \in Nat /\ MaxTotalChars \in Nat
  BY AnchorsAssumption DEF AreReadable
<1>2. CASE k = 0
  <2>1. Written(SubSeq(text, 1, k)) = 0
    BY <1>2, WrittenStep
  <2> QED BY <1>1, <2>1
<1>3. CASE k # 0
  <2> DEFINE t == SubSeq(text, 1, k - 1)
             w == Written(t)
             c == PhraseBytes[text[k]]
  <2>1. k \in 1..Len(text)
    BY <1>1, <1>3
  <2>2. Written(SubSeq(text, 1, k)) = Adds(w, text[k]) /\ w \in Nat
    BY <2>1, WrittenStep
  <2>3. c \in Nat
    BY <2>1 DEF AreReadable
  <2>4. w + c + 1 <= MaxTotalChars
    <3>1. Fits(t, text[k])
      BY <1>3
    <3> HIDE DEF t
    <3> QED BY <3>1 DEF Fits
  <2>5. Written(SubSeq(text, 1, k)) = w + c + (IF w = 0 THEN 0 ELSE 1)
    BY <2>2 DEF Adds
  <2> HIDE DEF w, c
  <2> QED BY <1>1, <2>2, <2>3, <2>4, <2>5
<1> QED BY <1>2, <1>3

\* The part of some phrases that is written fits, and is of them.
LEMMA CutFits ==
  ASSUME NEW all, AreReadable(all), NEW text,
         LET unfit == {i \in DOMAIN all : ~Fits(SubSeq(all, 1, i - 1), all[i])}
         IN  text = IF unfit = {} THEN all ELSE SubSeq(all, 1, Min(unfit) - 1)
  PROVE  Written(text) <= MaxTotalChars /\ ToSet(text) \subseteq ToSet(all)
<1> DEFINE n == Len(all)
           unfit == {i \in DOMAIN all : ~Fits(SubSeq(all, 1, i - 1), all[i])}
<1>1. n \in Nat /\ DOMAIN all = 1..n /\ all \in Seq(Nat)
  BY DEF AreReadable
<1>2. CASE unfit = {}
  <2>1. text = SubSeq(all, 1, n)
    <3>1. text = all
      BY <1>2
    <3>2. all = SubSeq(all, 1, n)
      BY <1>1
    <3> QED BY <3>1, <3>2
  <2>2. n # 0 => Fits(SubSeq(all, 1, n - 1), all[n])
    BY <1>1, <1>2
  <2>3. n \in 0..n
    BY <1>1
  <2>4. Written(SubSeq(all, 1, n)) <= MaxTotalChars
    BY <2>2, <2>3, WhatFitsIsShort
  <2> QED BY <1>2, <2>1, <2>4
<1>3. CASE unfit # {}
  <2> DEFINE m == Min(unfit)
  <2>1. m \in unfit /\ \A i \in unfit : m <= i
    <3>1. unfit \in SUBSET Nat
      BY <1>1
    <3> HIDE DEF unfit
    <3> QED BY <1>3, <3>1, LeastNat
  <2>2. text = SubSeq(all, 1, m - 1)
    BY <1>3
  <2>3. m \in 1..n
    BY <1>1, <2>1
  <2> DEFINE k == m - 1
  <2>4. k \in 0..n /\ k < m /\ k \in Nat
    <3> HIDE DEF m
    <3> QED BY <1>1, <2>3
  <2>5. k # 0 => Fits(SubSeq(all, 1, k - 1), all[k])
    <3> SUFFICES ASSUME k # 0 PROVE Fits(SubSeq(all, 1, k - 1), all[k])
      OBVIOUS
    <3>1. k \in DOMAIN all
      <4>1. k \in 1..n
        <5>1. k \in 0..n /\ k # 0 /\ n \in Nat
          BY <1>1, <2>4
        <5> HIDE DEF k, n
        <5> QED BY <5>1
      <4> QED BY <1>1, <4>1
    <3>2. k \notin unfit
      <4>1. m \in Nat
        BY <1>1, <2>3
      <4> HIDE DEF unfit, m
      <4>2. k = m - 1
        OBVIOUS
      <4> QED BY <2>1, <2>4, <4>1, <4>2
    <3> HIDE DEF k
    <3> QED BY <3>1, <3>2
  <2> HIDE DEF m
  <2>6. Written(SubSeq(all, 1, k)) <= MaxTotalChars
    <3> HIDE DEF k
    <3> QED BY <2>4, <2>5, WhatFitsIsShort
  <2>7. ToSet(SubSeq(all, 1, k)) \subseteq ToSet(all)
    <3> HIDE DEF k
    <3>1. DOMAIN SubSeq(all, 1, k) = 1..k /\ \A i \in 1..k : SubSeq(all, 1, k)[i] = all[i] /\ i \in DOMAIN all
      BY <1>1, <2>4
    <3> QED BY <3>1 DEF ToSet
  <2> QED BY <2>2, <2>6, <2>7 DEF k
<1> QED BY <1>2, <1>3

\* What describes a document fits and is of its two URLs.
LEMMA DescriptionTrue ==
  ASSUME HostsAssumption, AreRecords(records)
  PROVE  DescriptionIsCounted
<1> DEFINE a == Collect(records)
<1>1. ASSUME NEW u \in Crawled(records)
      PROVE  Phrases(a, u) \in Seq(CountedFitting(u)) /\ CountedFitting(u) \in SUBSET Nat /\ \A p \in CountedFitting(u) : PhraseBytes[p] \in Nat
  <2>1. HasHeard(Target(a, u), CountedFitting(u))
    BY PagesAreNamed
  <2> HIDE DEF a
  <2>2. CountedFitting(u) \in SUBSET Nat /\ \A p \in CountedFitting(u) : PhraseBytes[p] \in Nat
    BY FittingIsFinite
  <2> DEFINE S == Target(a, u).phrases
  <2>3. IsFiniteSet(S) /\ S \subseteq CountedFitting(u) /\ S \in SUBSET Nat
    BY <2>1, <2>2 DEF HasHeard
  <2>4. Phrases(a, u) \in Seq(S)
    BY <2>3, PhrasesAreTheirs
  <2> DEFINE F == CountedFitting(u)
             p == Phrases(a, u)
  <2>5. S \subseteq F /\ p \in Seq(S)
    BY <2>3, <2>4
  <2> HIDE DEF S, F, p
  <2>6. p \in Seq(F)
    BY <2>5
  <2> QED BY <2>2, <2>6 DEF F, p
<1> HIDE DEF a
<1>2. ASSUME NEW i \in DOMAIN records
      PROVE  LET text == TextFor(a, records[i].url, records[i].final)
             IN  /\ Written(text) <= MaxTotalChars
                 /\ ToSet(text) \subseteq CountedFitting(records[i].url) \cup CountedFitting(records[i].final)
  <2> DEFINE url == records[i].url
             final == records[i].final
             text == TextFor(a, url, final)
             all == Phrases(a, url) \o (IF url = final THEN <<>> ELSE Phrases(a, final))
             F == CountedFitting(url) \cup CountedFitting(final)
  <2>1. url \in Crawled(records) /\ final \in Crawled(records)
    BY DEF Crawled
  <2>2. F \in SUBSET Nat /\ \A p \in F : PhraseBytes[p] \in Nat
    BY <1>1, <2>1
  <2>3. all \in Seq(F)
    <3>1. Phrases(a, url) \in Seq(CountedFitting(url)) /\ Phrases(a, final) \in Seq(CountedFitting(final))
      BY <1>1, <2>1
    <3>2. Phrases(a, url) \in Seq(F) /\ (IF url = final THEN <<>> ELSE Phrases(a, final)) \in Seq(F)
      <4> HIDE DEF url, final
      <4> QED BY <3>1
    <3> HIDE DEF F, url, final
    <3> QED BY <3>2
  <2>4. text = IF {k \in DOMAIN all : ~Fits(SubSeq(all, 1, k - 1), all[k])} = {} THEN all
               ELSE SubSeq(all, 1, Min({k \in DOMAIN all : ~Fits(SubSeq(all, 1, k - 1), all[k])}) - 1)
    BY DEF TextFor
  <2> HIDE DEF all, F, text
  <2>5. AreReadable(all) /\ ToSet(all) \subseteq F
    <3>0. Len(all) \in Nat /\ DOMAIN all = 1..Len(all) /\ all = [k \in 1..Len(all) |-> all[k]]
      BY <2>3
    <3>1. all \in Seq(Nat) /\ \A k \in DOMAIN all : all[k] \in F
      <4>1. \A k \in 1..Len(all) : all[k] \in F
        BY <2>3
      <4>2. \A k \in 1..Len(all) : all[k] \in Nat
        BY <2>2, <4>1
      <4> QED BY <3>0, <4>1, <4>2
    <3>2. \A k \in DOMAIN all : PhraseBytes[all[k]] \in Nat
      BY <2>2, <3>1
    <3>3. ToSet(all) \subseteq F
      BY <3>1 DEF ToSet
    <3> QED BY <3>1, <3>2, <3>3 DEF AreReadable
  <2>6. Written(text) <= MaxTotalChars /\ ToSet(text) \subseteq ToSet(all)
    BY <2>4, <2>5, CutFits
  <2> QED BY <2>5, <2>6 DEF text, F
<1> QED BY <1>2 DEF DescriptionIsCounted, a

\* Names are others', whatever records there are.
LEMMA NamesAreOthersWhen ==
  ASSUME HostsAssumption, CorpusAssumption, CorpusTypeOK
  PROVE  NamesAreOthers
<1>1. AreRecords(records)
  BY RecordsAreRecords
<1>2. ASSUME OwnNames PROVE \A url : CountedFitting(url) = Fitting(url)
  BY <1>2, NamesMatter
<1>3. AnchorsAreCounted /\ DescriptionIsCounted
  BY <1>1, AnchorsTrue, DescriptionTrue
<1> HIDE DEF CountedFitting, Fitting, OwnNames
<1>4. AnchorsAreOthers
  BY <1>2, <1>3 DEF AnchorsAreOthers, AnchorsAreCounted
<1>5. DescriptionFits
  BY <1>2, <1>3 DEF DescriptionFits, DescriptionIsCounted
<1> QED BY <1>1, <1>4, <1>5, AnchorsTellVotes DEF NamesAreOthers

-----------------------------------------------------------------------------
(***************************************************************************)
(* Authority.  Trust is counted in parts, Parts(roots, Rounds) of them to  *)
(* a root, and Degrees is a common multiple of the out-degrees: after n    *)
(* rounds all scores are multiples of Parts(roots, Rounds - n)             *)
(* (TrustIsEven), so that every division of the next round comes out even. *)
(* A round then neither makes nor loses trust (RoundSums), gives it to     *)
(* whom links lead to (RoundTrusts), and at most halves how far scores are *)
(* apart (RoundSettles), and the rounds are followed one after the other.  *)
(***************************************************************************)

\* Dividing what comes out even.
LEMMA EvenDivision ==
  ASSUME NEW m \in Nat, NEW d \in Nat \ {0}
  PROVE  (m * d) \div d = m
OBVIOUS

\* What is a multiple divides evenly.
LEMMA MultipleOf ==
  ASSUME NEW n \in Nat, NEW d \in Nat \ {0}, n % d = 0
  PROVE  \E k \in Nat : n = k * d
<1> DEFINE k == n \div d
<1>1. k \in Int /\ 0 <= n - d * k /\ n - d * k < d
  OBVIOUS
<1>2. n % d = n - d * k
  OBVIOUS
<1> HIDE DEF k
<1>3. n = k * d
  BY <1>1, <1>2
<1>4. k >= 0
  BY <1>1
<1> QED BY <1>1, <1>3, <1>4

\* Half of what is even.
LEMMA HalfDivision ==
  ASSUME NEW m \in Nat, NEW r \in Nat \ {0}
  PROVE  ((m * (2 * r)) \div 2) \div r = m
<1>1. m * (2 * r) = (m * r) * 2
  OBVIOUS
<1>2. ((m * r) * 2) \div 2 = m * r
  <2> DEFINE x == m * r
  <2>1. x \in Nat
    OBVIOUS
  <2> HIDE DEF x
  <2> QED BY <2>1 DEF x
<1> QED BY <1>1, <1>2, EvenDivision

-----------------------------------------------------------------------------
\* What is counted over a set of hosts is a sum.
LEMMA AllOfIsSum ==
  ASSUME NEW S, NEW f
  PROVE  AllOf(S, LAMBDA h : f[h]) = SumOf(f, S)
BY DEF AllOf, FoldSet, MapThenFoldSet, SumOf, SumsOver, First

\* An edge that goes out of a host comes in at another.
Matched(g) == \A a, b \in HostsOf(g) : a \in DOMAIN g.incoming[b] <=> b \in DOMAIN g.out[a]

\* What a host sends along each of its links.
ShareOf(g, scores) ==
  [h \in HostsOf(g) |-> IF OutDegree(g, h) = 0 THEN 0 ELSE scores[h] \div (2 * OutDegree(g, h))]

\* What each host receives.
FlowsOf(g, scores) == [h \in HostsOf(g) |-> SumOf(ShareOf(g, scores), DOMAIN g.incoming[h])]

\* A host links to a number of hosts.
LEMMA DegreeType ==
  ASSUME NEW g \in Graphs, NEW h \in HostsOf(g)
  PROVE  OutDegree(g, h) \in Nat /\ (OutDegree(g, h) = 0 <=> DOMAIN g.out[h] = {})
<1> DEFINE D == DOMAIN g.out[h]
<1>1. IsFiniteSet(D)
  BY AtHost
<1> HIDE DEF D
<1>2. Cardinality(D) \in Nat /\ (Cardinality(D) = 0 <=> D = {})
  BY <1>1, FS_CardinalityType, FS_EmptySet
<1> QED BY <1>2 DEF D, OutDegree

\* What a host receives is the sum of the shares.
LEMMA ReceivedIsShares ==
  ASSUME NEW g \in Graphs, Matched(g), NEW scores, NEW host \in HostsOf(g)
  PROVE  Received(g, scores, host) = FlowsOf(g, scores)[host]
<1> DEFINE S == DOMAIN g.incoming[host]
           share == ShareOf(g, scores)
           P(v) == v = [s \in SUBSET S |-> IF s = {} THEN 0 ELSE (scores[First(s)] \div (2 * OutDegree(g, First(s)))) + v[s \ {First(s)}]]
           Q(v) == v = [s \in SUBSET S |-> IF s = {} THEN 0 ELSE share[First(s)] + v[s \ {First(s)}]]
<1>1. Received(g, scores, host) = (CHOOSE v : P(v))[S]
  BY DEF Received, AllOf, FoldSet, MapThenFoldSet, First
<1>2. SumOf(share, S) = (CHOOSE v : Q(v))[S]
  BY DEF SumOf, SumsOver
<1>3. ASSUME NEW v PROVE P(v) <=> Q(v)
  <2>1. ASSUME NEW s \in SUBSET S, s # {} PROVE scores[First(s)] \div (2 * OutDegree(g, First(s))) = share[First(s)]
    <3> DEFINE x == First(s)
    <3>1. x \in S
      BY <2>1 DEF First
    <3> HIDE DEF x
    <3>2. x \in HostsOf(g)
      BY <3>1, AtHost
    <3>3. OutDegree(g, x) # 0
      <4>1. host \in DOMAIN g.out[x]
        BY <3>1, <3>2 DEF Matched
      <4> QED BY <3>2, <4>1, DegreeType
    <3>4. share[x] = scores[x] \div (2 * OutDegree(g, x))
      BY <3>2, <3>3 DEF ShareOf
    <3> QED BY <3>4 DEF x
  <2> HIDE DEF share, S
  <2> QED BY <2>1
<1> HIDE DEF P, Q
<1>4. (CHOOSE v : P(v)) = (CHOOSE v : Q(v))
  BY <1>3
<1> HIDE DEF share
<1>5. FlowsOf(g, scores)[host] = SumOf(share, S)
  BY DEF FlowsOf, share
<1> QED BY <1>1, <1>2, <1>4, <1>5

-----------------------------------------------------------------------------
\* Hosts without links.
Ends(g) == {h \in HostsOf(g) : OutDegree(g, h) = 0}

\* How many trust is spread over.
NumRoots(g) == Cardinality(Roots(g))

\* Scores that every division of a round comes out even for.
Even(g, scores) ==
  /\ scores \in [HostsOf(g) -> Nat]
  /\ \A h \in HostsOf(g) : OutDegree(g, h) # 0 => \E m \in Nat : scores[h] = m * (2 * OutDegree(g, h))
  /\ \E m \in Nat : SumOf(scores, Ends(g)) = m * (2 * NumRoots(g))
  /\ \E m \in Nat : Unit(g) = m * (2 * NumRoots(g))

\* What is spread over the roots, for every one of them.
FromUnit(g) == (Unit(g) \div 2) \div NumRoots(g)

\* What hosts without links have, spread over the roots, for every one of them.
FromEnds(g, scores) == (SumOf(scores, Ends(g)) \div 2) \div NumRoots(g)

\* The roots of a graph that has hosts.
LEMMA RootsType ==
  ASSUME NEW g \in Graphs
  PROVE  /\ Roots(g) \in SUBSET HostsOf(g) /\ IsFiniteSet(Roots(g)) /\ NumRoots(g) \in Nat
         /\ HostsOf(g) # {} => NumRoots(g) > 0
<1>1. g.seeds \subseteq HostsOf(g) /\ IsFiniteSet(HostsOf(g))
  BY GraphParts
<1>2. Roots(g) \in SUBSET HostsOf(g) /\ (HostsOf(g) # {} => Roots(g) # {})
  BY <1>1 DEF Roots
<1>3. IsFiniteSet(Roots(g))
  BY <1>1, <1>2, FS_Subset
<1>4. NumRoots(g) \in Nat /\ (NumRoots(g) = 0 => Roots(g) = {})
  BY <1>3, FS_CardinalityType, FS_EmptySet DEF NumRoots
<1> QED BY <1>2, <1>3, <1>4

\* A round, whatever comes out even.
LEMMA RoundIs ==
  ASSUME NEW g \in Graphs, Matched(g), NEW scores
  PROVE  Round(g, scores) =
           [h \in HostsOf(g) |-> (IF h \in Roots(g) THEN FromUnit(g) ELSE 0) + FlowsOf(g, scores)[h]
                                 + (IF h \in Roots(g) THEN FromEnds(g, scores) ELSE 0)]
<1>1. Dangling(g, scores) = SumOf(scores, Ends(g))
  <2>1. Dangling(g, scores) = AllOf(Ends(g), LAMBDA h : scores[h])
    BY DEF Dangling, Ends
  <2> QED BY <2>1, AllOfIsSum
<1> DEFINE A(h) == Teleport(g, Unit(g) \div 2, h) + Received(g, scores, h) + Teleport(g, Dangling(g, scores) \div 2, h)
           B(h) == (IF h \in Roots(g) THEN FromUnit(g) ELSE 0) + FlowsOf(g, scores)[h] + (IF h \in Roots(g) THEN FromEnds(g, scores) ELSE 0)
<1>2. ASSUME NEW h \in HostsOf(g) PROVE A(h) = B(h)
  <2>1. Received(g, scores, h) = FlowsOf(g, scores)[h]
    BY ReceivedIsShares
  <2>2. Teleport(g, Unit(g) \div 2, h) = IF h \in Roots(g) THEN FromUnit(g) ELSE 0
    BY DEF Teleport, FromUnit, NumRoots
  <2>3. Teleport(g, Dangling(g, scores) \div 2, h) = IF h \in Roots(g) THEN FromEnds(g, scores) ELSE 0
    BY <1>1 DEF Teleport, FromEnds, NumRoots
  <2> QED BY <2>1, <2>2, <2>3
<1>3. Round(g, scores) = [h \in HostsOf(g) |-> A(h)]
  BY DEF Round
<1> HIDE DEF A, B
<1>4. Round(g, scores) = [h \in HostsOf(g) |-> B(h)]
  BY <1>2, <1>3
<1> QED BY <1>4 DEF B

\* What is shared of even scores.
LEMMA SharesType ==
  ASSUME NEW g \in Graphs, NEW scores \in [HostsOf(g) -> Nat]
  PROVE  /\ \A h \in HostsOf(g) : ShareOf(g, scores)[h] \in Nat
         /\ \A h \in HostsOf(g) : FlowsOf(g, scores)[h] \in Nat
         /\ SumOf(scores, Ends(g)) \in Nat
<1> DEFINE share == ShareOf(g, scores)
           H == HostsOf(g)
<1>0. IsFiniteSet(H)
  BY GraphParts
<1>1. ASSUME NEW h \in H PROVE share[h] \in Nat
  <2>1. CASE OutDegree(g, h) = 0
    BY <2>1 DEF ShareOf
  <2>2. CASE OutDegree(g, h) # 0
    <3>1. OutDegree(g, h) \in Nat \ {0} /\ scores[h] \in Nat
      BY <2>2, DegreeType
    <3>2. share[h] = scores[h] \div (2 * OutDegree(g, h))
      BY <2>2 DEF ShareOf
    <3> HIDE DEF share, H
    <3>3. \A n \in Nat, d \in Nat \ {0} : n \div (2 * d) \in Nat
      OBVIOUS
    <3> QED BY <3>1, <3>2, <3>3
  <2> QED BY <2>1, <2>2
<1> HIDE DEF share, H
<1>2. ASSUME NEW h \in H PROVE FlowsOf(g, scores)[h] \in Nat
  <2> DEFINE S == DOMAIN g.incoming[h]
  <2>1. IsFiniteSet(S) /\ S \subseteq H
    BY AtHost DEF H
  <2> HIDE DEF S
  <2>2. \A x \in S : share[x] \in Nat
    BY <1>1, <2>1
  <2>3. SumOf(share, S) \in Nat
    BY <2>1, <2>2, SumPositive
  <2> QED BY <2>3 DEF FlowsOf, share, S, H
<1>3. SumOf(scores, Ends(g)) \in Nat
  <2>1. Ends(g) \subseteq H /\ IsFiniteSet(Ends(g)) /\ \A h \in Ends(g) : scores[h] \in Nat
    BY <1>0, FS_Subset DEF Ends, H
  <2> DEFINE S == Ends(g)
  <2> HIDE DEF S
  <2>2. IsFiniteSet(S) /\ \A h \in S : scores[h] \in Nat
    BY <2>1 DEF S
  <2>3. SumOf(scores, S) \in Nat
    BY <2>2, SumPositive
  <2> QED BY <2>3 DEF S
<1> QED BY <1>1, <1>2, <1>3 DEF share, H

\* Even scores are shared without a rest.
LEMMA EvenShares ==
  ASSUME NEW g \in Graphs, NEW scores, Even(g, scores), HostsOf(g) # {}
  PROVE  /\ \A h \in HostsOf(g) : 2 * (OutDegree(g, h) * ShareOf(g, scores)[h]) = IF OutDegree(g, h) = 0 THEN 0 ELSE scores[h]
         /\ FromUnit(g) \in Nat /\ FromEnds(g, scores) \in Nat
         /\ 2 * (NumRoots(g) * FromUnit(g)) = Unit(g)
         /\ 2 * (NumRoots(g) * FromEnds(g, scores)) = SumOf(scores, Ends(g))
<1>1. NumRoots(g) \in Nat \ {0}
  BY RootsType
<1>2. ASSUME NEW n \in Nat, NEW m \in Nat, n = m * (2 * NumRoots(g))
      PROVE  (n \div 2) \div NumRoots(g) = m /\ 2 * (NumRoots(g) * m) = n
  <2>1. ((m * (2 * NumRoots(g))) \div 2) \div NumRoots(g) = m
    BY <1>1, HalfDivision
  <2>2. 2 * (NumRoots(g) * m) = m * (2 * NumRoots(g))
    BY <1>1
  <2> QED BY <1>2, <2>1, <2>2
<1>3. FromUnit(g) \in Nat /\ 2 * (NumRoots(g) * FromUnit(g)) = Unit(g)
  <2>1. PICK m \in Nat : Unit(g) = m * (2 * NumRoots(g))
    BY DEF Even
  <2>2. Unit(g) \in Nat
    BY <1>1, <2>1
  <2> QED BY <1>2, <2>1, <2>2 DEF FromUnit
<1>4. FromEnds(g, scores) \in Nat /\ 2 * (NumRoots(g) * FromEnds(g, scores)) = SumOf(scores, Ends(g))
  <2>1. PICK m \in Nat : SumOf(scores, Ends(g)) = m * (2 * NumRoots(g))
    BY DEF Even
  <2>2. SumOf(scores, Ends(g)) \in Nat
    BY <1>1, <2>1
  <2> QED BY <1>2, <2>1, <2>2 DEF FromEnds
<1>5. ASSUME NEW h \in HostsOf(g)
      PROVE  2 * (OutDegree(g, h) * ShareOf(g, scores)[h]) = IF OutDegree(g, h) = 0 THEN 0 ELSE scores[h]
  <2>1. CASE OutDegree(g, h) = 0
    <3>1. ShareOf(g, scores)[h] = 0
      BY <2>1 DEF ShareOf
    <3> QED BY <2>1, <3>1
  <2>2. CASE OutDegree(g, h) # 0
    <3> DEFINE d == OutDegree(g, h)
    <3>1. d \in Nat \ {0}
      BY <2>2, DegreeType
    <3>2. PICK m \in Nat : scores[h] = m * (2 * d)
      BY <2>2 DEF Even
    <3>3. ShareOf(g, scores)[h] = scores[h] \div (2 * d)
      BY <2>2 DEF ShareOf
    <3> HIDE DEF d
    <3>4. (m * (2 * d)) \div (2 * d) = m
      <4>1. 2 * d \in Nat \ {0}
        BY <3>1
      <4> QED BY <4>1, EvenDivision
    <3>5. 2 * (d * m) = m * (2 * d)
      BY <3>1
    <3> QED BY <2>2, <3>2, <3>3, <3>4, <3>5 DEF d
  <2> QED BY <2>1, <2>2
<1> QED BY <1>3, <1>4, <1>5

\* What the roots get together.
LEMMA RootsGet ==
  ASSUME NEW g \in Graphs, NEW c \in Int, NEW e, \A h \in HostsOf(g) : e[h] = IF h \in Roots(g) THEN c ELSE 0
  PROVE  SumOf(e, HostsOf(g)) = NumRoots(g) * c
<1> DEFINE H == HostsOf(g)
           R == Roots(g)
           f == [h \in R |-> c]
<1>1. IsFiniteSet(H) /\ R \in SUBSET H /\ IsFiniteSet(R)
  BY GraphParts, RootsType
<1>2. \A h \in R : f[h] = c
  OBVIOUS
<1>3. \A h \in H : e[h] = IF h \in R THEN f[h] ELSE 0
  OBVIOUS
<1> HIDE DEF H, R, f
<1>4. SumOf(e, H) = SumOf(f, R)
  <2>1. \A h \in R : f[h] \in Int
    BY <1>2
  <2> QED BY <1>1, <1>3, <2>1, SumOverPart
<1>5. SumOf(f, R) = Cardinality(R) * c
  BY <1>1, <1>2, SumConst
<1> QED BY <1>4, <1>5 DEF H, R, NumRoots

\* The sum of what hosts without links have.
LEMMA EndsHave ==
  ASSUME NEW g \in Graphs, NEW f, \A h \in HostsOf(g) : f[h] \in Int,
         NEW e, \A h \in HostsOf(g) : e[h] = IF OutDegree(g, h) = 0 THEN f[h] ELSE 0
  PROVE  SumOf(e, HostsOf(g)) = SumOf(f, Ends(g))
<1> DEFINE H == HostsOf(g)
           R == Ends(g)
<1>1. IsFiniteSet(H) /\ R \in SUBSET H
  BY GraphParts DEF Ends
<1>2. \A h \in R : f[h] \in Int
  BY <1>1
<1>3. \A h \in H : e[h] = IF h \in R THEN f[h] ELSE 0
  BY DEF Ends
<1> HIDE DEF H, R
<1>4. SumOf(e, H) = SumOf(f, R)
  BY <1>1, <1>2, <1>3, SumOverPart
<1> QED BY <1>4 DEF H, R

\* What is received is what is sent.
LEMMA ReceivedIsSent ==
  ASSUME NEW g \in Graphs, Matched(g), NEW f, \A h \in HostsOf(g) : f[h] \in Int,
         NEW gets, \A h \in HostsOf(g) : gets[h] = SumOf(f, DOMAIN g.incoming[h]),
         NEW gives, \A h \in HostsOf(g) : gives[h] = OutDegree(g, h) * f[h]
  PROVE  SumOf(gets, HostsOf(g)) = SumOf(gives, HostsOf(g))
<1> DEFINE H == HostsOf(g)
           in == [h \in H |-> DOMAIN g.incoming[h]]
           out == [h \in H |-> DOMAIN g.out[h]]
<1>1. IsFiniteSet(H)
  BY GraphParts
<1>2. \A h \in H : in[h] \in SUBSET H /\ out[h] \in SUBSET H
  BY AtHost
<1>3. \A a, b \in H : a \in in[b] <=> b \in out[a]
  BY DEF Matched
<1>4. \A h \in H : gets[h] = SumOf(f, in[h])
  OBVIOUS
<1>5. \A h \in H : gives[h] = Cardinality(out[h]) * f[h]
  BY DEF OutDegree
<1>6. \A h \in H : f[h] \in Int
  OBVIOUS
<1> HIDE DEF H, in, out
<1>7. SumOf(gets, H) = SumOf(gives, H)
  BY <1>1, <1>2, <1>3, <1>4, <1>5, <1>6, CountBothWays
<1> QED BY <1>7 DEF H

\* In a round trust is neither made nor lost.
LEMMA RoundSums ==
  ASSUME NEW g \in Graphs, Matched(g), NEW scores, Even(g, scores), HostsOf(g) # {}
  PROVE  2 * SumOf(Round(g, scores), HostsOf(g)) = Unit(g) + SumOf(scores, HostsOf(g))
<1> DEFINE H == HostsOf(g)
           u == FromUnit(g)
           d == FromEnds(g, scores)
           share == ShareOf(g, scores)
           gets == FlowsOf(g, scores)
           gives == [h \in H |-> OutDegree(g, h) * share[h]]
           tele == [h \in H |-> IF h \in Roots(g) THEN u + d ELSE 0]
           ends == [h \in H |-> IF OutDegree(g, h) = 0 THEN scores[h] ELSE 0]
           next == Round(g, scores)
           r == NumRoots(g)
           D == SumOf(scores, Ends(g))
<1>1. scores \in [H -> Nat] /\ IsFiniteSet(H) /\ r \in Nat
  BY GraphParts, RootsType DEF Even
<1>2. /\ \A h \in H : 2 * (OutDegree(g, h) * share[h]) = IF OutDegree(g, h) = 0 THEN 0 ELSE scores[h]
      /\ u \in Nat /\ d \in Nat /\ 2 * (r * u) = Unit(g) /\ 2 * (r * d) = D
  BY EvenShares
<1>3. (\A h \in H : share[h] \in Nat) /\ (\A h \in H : gets[h] \in Nat) /\ D \in Nat
  BY <1>1, SharesType
<1>4. \A h \in H : next[h] = (IF h \in Roots(g) THEN u ELSE 0) + gets[h] + (IF h \in Roots(g) THEN d ELSE 0)
  BY RoundIs
<1>5. \A h \in H : OutDegree(g, h) \in Nat
  BY DegreeType
<1> HIDE DEF H, u, d, share, gets, next, r, D
<1>6. \A h \in H : tele[h] \in Int /\ gets[h] \in Int /\ next[h] = 1 * tele[h] + 1 * gets[h]
  BY <1>2, <1>3, <1>4
<1>7. \A h \in H : gives[h] \in Int /\ ends[h] \in Int /\ scores[h] = 2 * gives[h] + 1 * ends[h]
  <2> SUFFICES ASSUME NEW h \in H PROVE gives[h] \in Int /\ ends[h] \in Int /\ scores[h] = 2 * gives[h] + 1 * ends[h]
    OBVIOUS
  <2>1. gives[h] = OutDegree(g, h) * share[h] /\ ends[h] = (IF OutDegree(g, h) = 0 THEN scores[h] ELSE 0) /\ scores[h] \in Nat
    BY <1>1
  <2>2. OutDegree(g, h) \in Nat /\ share[h] \in Nat
    BY <1>3, <1>5
  <2>3. gives[h] \in Int /\ 2 * gives[h] = IF OutDegree(g, h) = 0 THEN 0 ELSE scores[h]
    BY <1>2, <2>1, <2>2
  <2> HIDE DEF gives, ends
  <2>4. CASE OutDegree(g, h) = 0
    BY <2>1, <2>3, <2>4
  <2>5. CASE OutDegree(g, h) # 0
    BY <2>1, <2>3, <2>5
  <2> QED BY <2>4, <2>5
<1>8. SumOf(tele, H) = r * (u + d)
  <2>1. u + d \in Int
    BY <1>2
  <2>2. \A h \in HostsOf(g) : tele[h] = IF h \in Roots(g) THEN u + d ELSE 0
    BY DEF H
  <2> HIDE DEF tele
  <2> QED BY <2>1, <2>2, RootsGet DEF H, r
<1>9. SumOf(gets, H) = SumOf(gives, H)
  <2>1. \A h \in HostsOf(g) : share[h] \in Int
    BY <1>3 DEF H
  <2>2. \A h \in HostsOf(g) : gets[h] = SumOf(share, DOMAIN g.incoming[h])
    BY DEF gets, share, FlowsOf
  <2>3. \A h \in HostsOf(g) : gives[h] = OutDegree(g, h) * share[h]
    BY DEF H
  <2> HIDE DEF gives
  <2> QED BY <2>1, <2>2, <2>3, ReceivedIsSent DEF H
<1>10. SumOf(ends, H) = D
  <2>1. \A h \in HostsOf(g) : scores[h] \in Int
    BY <1>1 DEF H
  <2>2. \A h \in HostsOf(g) : ends[h] = IF OutDegree(g, h) = 0 THEN scores[h] ELSE 0
    BY DEF H
  <2> HIDE DEF ends
  <2> QED BY <2>1, <2>2, EndsHave DEF H, D
<1> HIDE DEF tele, gives, ends
<1>11. SumOf(next, H) = 1 * SumOf(tele, H) + 1 * SumOf(gets, H)
  BY <1>1, <1>6, SumLinear
<1>12. SumOf(scores, H) = 2 * SumOf(gives, H) + 1 * SumOf(ends, H)
  BY <1>1, <1>7, SumLinear
<1>13. SumOf(gives, H) \in Int
  BY <1>1, <1>7, SumSteps
<1>14. 2 * (r * (u + d)) = 2 * (r * u) + 2 * (r * d)
  BY <1>1, <1>2
<1>15. 2 * SumOf(next, H) = Unit(g) + SumOf(scores, H)
  <2> DEFINE x == r * (u + d)
  <2>1. x \in Int /\ 2 * x = Unit(g) + D
    BY <1>1, <1>2, <1>14
  <2>2. SumOf(next, H) = x + SumOf(gives, H) /\ SumOf(scores, H) = 2 * SumOf(gives, H) + D
    BY <1>3, <1>8, <1>9, <1>10, <1>11, <1>12, <1>13, <2>1
  <2>3. Unit(g) \in Int
    BY <1>3, <2>1, <1>1, <1>2
  <2> HIDE DEF x
  <2> QED BY <1>3, <1>13, <2>1, <2>2, <2>3
<1> QED BY <1>15 DEF next, H

\* After a round those have trust that are roots or that such as had it link to.
LEMMA RoundTrusts ==
  ASSUME NEW g \in Graphs, Matched(g), NEW scores, Even(g, scores), NEW h \in HostsOf(g), Unit(g) > 0
  PROVE  Round(g, scores)[h] > 0 <=> h \in Roots(g) \/ \E a \in DOMAIN g.incoming[h] : scores[a] > 0
<1> DEFINE S == DOMAIN g.incoming[h]
           u == FromUnit(g)
           d == FromEnds(g, scores)
           share == ShareOf(g, scores)
<1>1. S \subseteq HostsOf(g) /\ IsFiniteSet(S) /\ scores \in [HostsOf(g) -> Nat] /\ HostsOf(g) # {}
  BY AtHost DEF Even
<1>2. (\A x \in HostsOf(g) : share[x] \in Nat) /\ FlowsOf(g, scores)[h] \in Nat
  BY <1>1, SharesType
<1>3. u \in Nat /\ d \in Nat /\ 2 * (NumRoots(g) * u) = Unit(g) /\ NumRoots(g) \in Nat
  BY <1>1, EvenShares, RootsType
<1>4. u > 0
  BY <1>3
<1>5. ASSUME NEW x \in S PROVE share[x] > 0 <=> scores[x] > 0
  <2>1. x \in HostsOf(g)
    BY <1>1
  <2>2. OutDegree(g, x) \in Nat /\ OutDegree(g, x) # 0
    <3>1. h \in DOMAIN g.out[x]
      BY <2>1 DEF Matched
    <3> QED BY <2>1, <3>1, DegreeType
  <2>3. 2 * (OutDegree(g, x) * share[x]) = scores[x]
    BY <1>1, <2>1, <2>2, EvenShares
  <2>4. share[x] \in Nat /\ scores[x] \in Nat
    BY <1>1, <1>2, <2>1
  <2> DEFINE k == OutDegree(g, x)
             y == share[x]
             z == scores[x]
  <2>5. k \in Nat \ {0} /\ y \in Nat /\ z \in Nat /\ 2 * (k * y) = z
    BY <2>2, <2>3, <2>4
  <2> HIDE DEF k, y, z
  <2>6. y > 0 => k * y > 0
    BY <2>5
  <2>7. y = 0 => k * y = 0
    BY <2>5
  <2>8. y > 0 <=> z > 0
    BY <2>5, <2>6, <2>7
  <2> QED BY <2>8 DEF y, z
<1> HIDE DEF S, share, u, d
<1>6. SumOf(share, S) \in Nat /\ (SumOf(share, S) > 0 <=> \E x \in S : share[x] > 0)
  <2>1. \A x \in S : share[x] \in Nat
    BY <1>1, <1>2
  <2> QED BY <1>1, <2>1, SumPositive
<1>7. FlowsOf(g, scores)[h] = SumOf(share, S)
  BY DEF FlowsOf, share, S
<1>8. Round(g, scores)[h] = (IF h \in Roots(g) THEN u ELSE 0) + SumOf(share, S) + (IF h \in Roots(g) THEN d ELSE 0)
  <2>1. Round(g, scores)[h] = (IF h \in Roots(g) THEN u ELSE 0) + FlowsOf(g, scores)[h] + (IF h \in Roots(g) THEN d ELSE 0)
    BY RoundIs DEF u, d
  <2> QED BY <1>7, <2>1
<1>9. Round(g, scores)[h] > 0 <=> h \in Roots(g) \/ SumOf(share, S) > 0
  BY <1>3, <1>4, <1>6, <1>8
<1> QED BY <1>5, <1>6, <1>9 DEF S

\* How far the scores of a host have moved.
GapOf(g, before, after) ==
  [h \in HostsOf(g) |-> IF after[h] > before[h] THEN after[h] - before[h] ELSE before[h] - after[h]]

\* The residual is the sum of the gaps.
LEMMA ResidualIsGap ==
  ASSUME NEW g, NEW before, NEW after
  PROVE  Residual(g, before, after) = SumOf(GapOf(g, before, after), HostsOf(g))
<1> DEFINE S == HostsOf(g)
           gap == GapOf(g, before, after)
           F(h) == IF after[h] > before[h] THEN after[h] - before[h] ELSE before[h] - after[h]
           P(v) == v = [s \in SUBSET S |-> IF s = {} THEN 0 ELSE F(First(s)) + v[s \ {First(s)}]]
           Q(v) == v = [s \in SUBSET S |-> IF s = {} THEN 0 ELSE gap[First(s)] + v[s \ {First(s)}]]
<1>1. Residual(g, before, after) = (CHOOSE v : P(v))[S]
  BY DEF Residual, AllOf, FoldSet, MapThenFoldSet, First
<1>2. SumOf(gap, S) = (CHOOSE v : Q(v))[S]
  BY DEF SumOf, SumsOver
<1>3. ASSUME NEW v PROVE P(v) <=> Q(v)
  <2>1. ASSUME NEW s \in SUBSET S, s # {} PROVE F(First(s)) = gap[First(s)]
    <3> DEFINE x == First(s)
    <3>1. x \in S
      BY <2>1 DEF First
    <3> HIDE DEF x
    <3>2. F(x) = gap[x]
      BY <3>1 DEF GapOf
    <3> QED BY <3>2 DEF x
  <2> HIDE DEF gap, S, F
  <2> QED BY <2>1
<1> HIDE DEF P, Q
<1>4. (CHOOSE v : P(v)) = (CHOOSE v : Q(v))
  BY <1>3
<1> QED BY <1>1, <1>2, <1>4

\* In the first round at most all the trust there is moves.
LEMMA FirstRoundMoves ==
  ASSUME NEW g \in Graphs, Matched(g), NEW scores, Even(g, scores), HostsOf(g) # {},
         \A h \in HostsOf(g) : scores[h] = Teleport(g, Unit(g), h)
  PROVE  2 * Residual(g, scores, Round(g, scores)) <= Unit(g) + SumOf(scores, HostsOf(g))
<1> DEFINE H == HostsOf(g)
           u == FromUnit(g)
           d == FromEnds(g, scores)
           gets == FlowsOf(g, scores)
           next == Round(g, scores)
           gap == GapOf(g, scores, next)
           r == NumRoots(g)
<1>1. scores \in [H -> Nat] /\ IsFiniteSet(H) /\ r \in Nat \ {0}
  BY GraphParts, RootsType DEF Even
<1>2. u \in Nat /\ d \in Nat /\ 2 * (r * u) = Unit(g)
  BY EvenShares
<1>3. \A h \in H : gets[h] \in Nat
  BY <1>1, SharesType
<1>4. \A h \in H : next[h] = (IF h \in Roots(g) THEN u ELSE 0) + gets[h] + (IF h \in Roots(g) THEN d ELSE 0)
  BY RoundIs
<1>5. \A h \in H : gap[h] = IF next[h] > scores[h] THEN next[h] - scores[h] ELSE scores[h] - next[h]
  BY DEF GapOf
<1>6. \A h \in H : scores[h] = IF h \in Roots(g) THEN Unit(g) \div r ELSE 0
  BY DEF Teleport, NumRoots
<1>7. 2 * SumOf(next, H) = Unit(g) + SumOf(scores, H)
  BY RoundSums
<1>8. Unit(g) \div r = 2 * u
  <2> HIDE DEF u, r
  <2>1. Unit(g) = (2 * u) * r
    BY <1>1, <1>2
  <2>2. ((2 * u) * r) \div r = 2 * u
    <3>1. 2 * u \in Nat
      BY <1>2
    <3> QED BY <1>1, <3>1, EvenDivision
  <2> QED BY <2>1, <2>2
<1> HIDE DEF H, u, d, gets, next, r, gap
<1>9. \A h \in H : gap[h] \in Int /\ next[h] \in Int /\ gap[h] <= next[h]
  <2> SUFFICES ASSUME NEW h \in H PROVE gap[h] \in Int /\ next[h] \in Int /\ gap[h] <= next[h]
    OBVIOUS
  <2>1. CASE h \in Roots(g)
    <3>1. next[h] = u + gets[h] + d /\ gets[h] \in Nat /\ scores[h] = 2 * u
      BY <1>3, <1>4, <1>6, <1>8, <2>1
    <3> QED BY <1>2, <1>5, <3>1
  <2>2. CASE h \notin Roots(g)
    <3>1. next[h] = 0 + gets[h] + 0 /\ gets[h] \in Nat /\ scores[h] = 0
      BY <1>3, <1>4, <1>6, <2>2
    <3> QED BY <1>5, <3>1
  <2> QED BY <2>1, <2>2
<1>10. SumOf(gap, H) <= SumOf(next, H) /\ SumOf(gap, H) \in Int /\ SumOf(next, H) \in Int
  <2>1. SumOf(gap, H) <= SumOf(next, H)
    BY <1>1, <1>9, SumMono
  <2>2. HasSums(gap, H) /\ HasSums(next, H)
    <3>1. (\A h \in H : gap[h] \in Int) /\ (\A h \in H : next[h] \in Int)
      BY <1>9
    <3> QED BY <1>1, <3>1, SumParts
  <2> QED BY <2>1, <2>2 DEF HasSums
<1>11. 2 * SumOf(gap, H) <= 2 * SumOf(next, H)
  BY <1>10
<1>12. Residual(g, scores, next) = SumOf(gap, H)
  BY ResidualIsGap DEF gap, H
<1> QED BY <1>7, <1>11, <1>12 DEF H, next

\* A round moves scores apart by at most half of what they were apart.
LEMMA RoundSettles ==
  ASSUME NEW g \in Graphs, Matched(g), NEW s, Even(g, s), NEW t, Even(g, t), HostsOf(g) # {}
  PROVE  2 * Residual(g, Round(g, s), Round(g, t)) <= Residual(g, s, t)
<1> DEFINE H == HostsOf(g)
           E == Ends(g)
           r == NumRoots(g)
           u == FromUnit(g)
           ds == FromEnds(g, s)
           dt == FromEnds(g, t)
           dd == IF dt > ds THEN dt - ds ELSE ds - dt
           shareS == ShareOf(g, s)
           shareT == ShareOf(g, t)
           more == [h \in H |-> shareT[h] - shareS[h]]
           apart == GapOf(g, shareS, shareT)
           flowS == FlowsOf(g, s)
           flowT == FlowsOf(g, t)
           nextS == Round(g, s)
           nextT == Round(g, t)
           gap == GapOf(g, s, t)
           nextGap == GapOf(g, nextS, nextT)
           gets == [h \in H |-> SumOf(apart, DOMAIN g.incoming[h])]
           gives == [h \in H |-> OutDegree(g, h) * apart[h]]
           tele == [h \in H |-> IF h \in Roots(g) THEN dd ELSE 0]
           most == [h \in H |-> 1 * tele[h] + 1 * gets[h]]
           ends == [h \in H |-> IF OutDegree(g, h) = 0 THEN gap[h] ELSE 0]
           diff == [h \in H |-> t[h] - s[h]]
<1>1. s \in [H -> Nat] /\ t \in [H -> Nat] /\ IsFiniteSet(H) /\ r \in Nat /\ E \subseteq H /\ IsFiniteSet(E)
  <2>1. IsFiniteSet(HostsOf(g)) /\ Ends(g) \subseteq HostsOf(g)
    BY GraphParts DEF Ends
  <2>2. IsFiniteSet(Ends(g))
    BY <2>1, FS_Subset
  <2> QED BY <2>1, <2>2, RootsType DEF Even
<1>2. /\ \A h \in H : 2 * (OutDegree(g, h) * shareS[h]) = IF OutDegree(g, h) = 0 THEN 0 ELSE s[h]
      /\ \A h \in H : 2 * (OutDegree(g, h) * shareT[h]) = IF OutDegree(g, h) = 0 THEN 0 ELSE t[h]
      /\ u \in Nat /\ ds \in Nat /\ dt \in Nat
      /\ 2 * (r * ds) = SumOf(s, E) /\ 2 * (r * dt) = SumOf(t, E)
  BY EvenShares
<1>3. /\ \A h \in H : shareS[h] \in Nat /\ shareT[h] \in Nat
      /\ \A h \in H : flowS[h] \in Nat /\ flowT[h] \in Nat
  BY <1>1, SharesType
<1>4. \A h \in H : /\ nextS[h] = (IF h \in Roots(g) THEN u ELSE 0) + flowS[h] + (IF h \in Roots(g) THEN ds ELSE 0)
                   /\ nextT[h] = (IF h \in Roots(g) THEN u ELSE 0) + flowT[h] + (IF h \in Roots(g) THEN dt ELSE 0)
  BY RoundIs
<1>5. \A h \in H : OutDegree(g, h) \in Nat
  BY DegreeType
<1>6. /\ \A h \in H : gap[h] = IF t[h] > s[h] THEN t[h] - s[h] ELSE s[h] - t[h]
      /\ \A h \in H : nextGap[h] = IF nextT[h] > nextS[h] THEN nextT[h] - nextS[h] ELSE nextS[h] - nextT[h]
      /\ \A h \in H : apart[h] = IF shareT[h] > shareS[h] THEN shareT[h] - shareS[h] ELSE shareS[h] - shareT[h]
  BY DEF GapOf
<1>7. \A h \in H : flowS[h] = SumOf(shareS, DOMAIN g.incoming[h]) /\ flowT[h] = SumOf(shareT, DOMAIN g.incoming[h])
  BY DEF FlowsOf
<1>8. \A h \in H : DOMAIN g.incoming[h] \subseteq H /\ IsFiniteSet(DOMAIN g.incoming[h])
  BY AtHost
<1>9. Residual(g, s, t) = SumOf(gap, H) /\ Residual(g, nextS, nextT) = SumOf(nextGap, H)
  BY ResidualIsGap
<1> HIDE DEF H, E, u, r, ds, dt, shareS, shareT, apart, flowS, flowT, nextS, nextT, gap, nextGap
<1>10. \A h \in H : gap[h] \in Nat /\ apart[h] \in Nat /\ nextGap[h] \in Int
  BY <1>1, <1>2, <1>3, <1>4, <1>6
<1>11. dd \in Nat
  BY <1>2
<1>12. \A h \in H : gets[h] \in Nat /\ flowT[h] - flowS[h] <= gets[h] /\ flowS[h] - flowT[h] <= gets[h]
  <2> SUFFICES ASSUME NEW h \in H
               PROVE  gets[h] \in Nat /\ flowT[h] - flowS[h] <= gets[h] /\ flowS[h] - flowT[h] <= gets[h]
    OBVIOUS
  <2> DEFINE S == DOMAIN g.incoming[h]
  <2>0. gets[h] = SumOf(apart, S)
    OBVIOUS
  <2>1. S \subseteq H /\ IsFiniteSet(S)
    BY <1>8
  <2>2. \A x \in S : shareS[x] \in Int /\ shareT[x] \in Int /\ more[x] = 1 * shareT[x] + (-1) * shareS[x]
    BY <1>3, <2>1
  <2>3. \A x \in S : more[x] \in Int /\ apart[x] = (IF more[x] > 0 THEN more[x] ELSE -more[x]) /\ apart[x] \in Nat
    <3> SUFFICES ASSUME NEW x \in S PROVE more[x] \in Int /\ apart[x] = (IF more[x] > 0 THEN more[x] ELSE -more[x]) /\ apart[x] \in Nat
      OBVIOUS
    <3>1. more[x] = shareT[x] - shareS[x] /\ shareS[x] \in Nat /\ shareT[x] \in Nat
      BY <1>3, <2>1
    <3>2. apart[x] = IF shareT[x] > shareS[x] THEN shareT[x] - shareS[x] ELSE shareS[x] - shareT[x]
      BY <1>6, <2>1
    <3> QED BY <3>1, <3>2
  <2>4. flowS[h] = SumOf(shareS, S) /\ flowT[h] = SumOf(shareT, S) /\ flowS[h] \in Nat /\ flowT[h] \in Nat
    BY <1>3, <1>7
  <2> HIDE DEF S, more, gets
  <2>5. SumOf(more, S) = 1 * SumOf(shareT, S) + (-1) * SumOf(shareS, S)
    <3>1. -1 \in Int /\ 1 \in Int
      OBVIOUS
    <3> QED BY <2>1, <2>2, <3>1, SumLinear
  <2>6. SumOf(more, S) <= SumOf(apart, S) /\ -SumOf(more, S) <= SumOf(apart, S)
    BY <2>1, <2>3, SumAbs
  <2>7. SumOf(apart, S) \in Nat
    BY <2>1, <2>3, SumPositive
  <2> QED BY <2>0, <2>4, <2>5, <2>6, <2>7
<1>13. \A h \in H : most[h] \in Int /\ tele[h] \in Int /\ gets[h] \in Int /\ most[h] = 1 * tele[h] + 1 * gets[h] /\ nextGap[h] <= most[h]
  <2> SUFFICES ASSUME NEW h \in H
               PROVE  most[h] \in Int /\ tele[h] \in Int /\ gets[h] \in Int /\ most[h] = 1 * tele[h] + 1 * gets[h] /\ nextGap[h] <= most[h]
    OBVIOUS
  <2>1. gets[h] \in Nat /\ flowT[h] - flowS[h] <= gets[h] /\ flowS[h] - flowT[h] <= gets[h] /\ flowS[h] \in Nat /\ flowT[h] \in Nat
    BY <1>3, <1>12
  <2>2. tele[h] = (IF h \in Roots(g) THEN dd ELSE 0) /\ most[h] = 1 * tele[h] + 1 * gets[h]
    OBVIOUS
  <2>3. nextGap[h] = IF nextT[h] > nextS[h] THEN nextT[h] - nextS[h] ELSE nextS[h] - nextT[h]
    BY <1>6
  <2> HIDE DEF gets, tele, most
  <2>4. CASE h \in Roots(g)
    <3>1. nextS[h] = u + flowS[h] + ds /\ nextT[h] = u + flowT[h] + dt /\ tele[h] = dd
      BY <1>4, <2>2, <2>4
    <3> QED BY <1>2, <2>1, <2>2, <2>3, <3>1
  <2>5. CASE h \notin Roots(g)
    <3>1. nextS[h] = 0 + flowS[h] + 0 /\ nextT[h] = 0 + flowT[h] + 0 /\ tele[h] = 0
      BY <1>4, <2>2, <2>5
    <3> QED BY <2>1, <2>2, <2>3, <3>1
  <2> QED BY <2>4, <2>5
<1>14. \A h \in H : gives[h] \in Int /\ ends[h] \in Int /\ gap[h] = 2 * gives[h] + 1 * ends[h]
  <2> SUFFICES ASSUME NEW h \in H PROVE gives[h] \in Int /\ ends[h] \in Int /\ gap[h] = 2 * gives[h] + 1 * ends[h]
    OBVIOUS
  <2> DEFINE k == OutDegree(g, h)
             a == shareS[h]
             b == shareT[h]
  <2>1. gives[h] = k * apart[h] /\ ends[h] = (IF k = 0 THEN gap[h] ELSE 0)
    OBVIOUS
  <2>2. k \in Nat /\ a \in Nat /\ b \in Nat /\ gap[h] \in Nat /\ apart[h] \in Nat
        /\ 2 * (k * a) = (IF k = 0 THEN 0 ELSE s[h]) /\ 2 * (k * b) = (IF k = 0 THEN 0 ELSE t[h])
        /\ apart[h] = (IF b > a THEN b - a ELSE a - b)
        /\ gap[h] = (IF t[h] > s[h] THEN t[h] - s[h] ELSE s[h] - t[h]) /\ s[h] \in Nat /\ t[h] \in Nat
    BY <1>1, <1>2, <1>3, <1>5, <1>6, <1>10
  <2> HIDE DEF k, a, b, gives, ends
  <2>3. CASE k = 0
    <3>1. gives[h] = 0
      BY <2>1, <2>2, <2>3
    <3> QED BY <2>1, <2>2, <2>3, <3>1
  <2>4. CASE k # 0
    <3>0. k \in Nat \ {0} /\ ends[h] = 0 /\ 2 * (k * a) = s[h] /\ 2 * (k * b) = t[h] /\ k * a \in Nat /\ k * b \in Nat
      BY <2>1, <2>2, <2>4
    <3>1. CASE b > a
      <4>1. k * (b - a) = k * b - k * a /\ b - a \in Nat
        BY <2>2, <3>1
      <4>2. k * (b - a) > 0
        BY <2>2, <3>0, <3>1
      <4> QED BY <2>1, <2>2, <3>0, <3>1, <4>1, <4>2
    <3>2. CASE ~(b > a)
      <4>1. k * (a - b) = k * a - k * b /\ a - b \in Nat
        BY <2>2, <3>2
      <4>2. k * (a - b) >= 0
        BY <2>2, <3>0, <4>1
      <4> QED BY <2>1, <2>2, <3>0, <3>2, <4>1, <4>2
    <3> QED BY <3>1, <3>2
  <2> QED BY <2>3, <2>4
<1>15. SumOf(tele, H) = r * dd
  <2>1. \A h \in HostsOf(g) : tele[h] = IF h \in Roots(g) THEN dd ELSE 0
    BY DEF H
  <2>2. dd \in Int
    BY <1>11
  <2> HIDE DEF tele, dd
  <2> QED BY <2>1, <2>2, RootsGet DEF H, r
<1>16. SumOf(gets, H) = SumOf(gives, H)
  <2>1. \A h \in HostsOf(g) : apart[h] \in Int
    BY <1>10 DEF H
  <2>2. \A h \in HostsOf(g) : gets[h] = SumOf(apart, DOMAIN g.incoming[h])
    BY DEF H
  <2>3. \A h \in HostsOf(g) : gives[h] = OutDegree(g, h) * apart[h]
    BY DEF H
  <2> HIDE DEF gets, gives
  <2> QED BY <2>1, <2>2, <2>3, ReceivedIsSent DEF H
<1>17. SumOf(ends, H) = SumOf(gap, E)
  <2>1. \A h \in HostsOf(g) : gap[h] \in Int
    BY <1>10 DEF H
  <2>2. \A h \in HostsOf(g) : ends[h] = IF OutDegree(g, h) = 0 THEN gap[h] ELSE 0
    BY DEF H
  <2> HIDE DEF ends
  <2> QED BY <2>1, <2>2, EndsHave DEF H, E
<1>18. SumOf(t, E) - SumOf(s, E) <= SumOf(gap, E) /\ SumOf(s, E) - SumOf(t, E) <= SumOf(gap, E)
       /\ SumOf(t, E) \in Int /\ SumOf(s, E) \in Int /\ SumOf(gap, E) \in Int
  <2>1. \A x \in E : s[x] \in Int /\ t[x] \in Int /\ diff[x] = 1 * t[x] + (-1) * s[x]
    BY <1>1
  <2>2. \A x \in E : diff[x] \in Int /\ gap[x] = (IF diff[x] > 0 THEN diff[x] ELSE -diff[x])
    <3> SUFFICES ASSUME NEW x \in E PROVE diff[x] \in Int /\ gap[x] = (IF diff[x] > 0 THEN diff[x] ELSE -diff[x])
      OBVIOUS
    <3>1. diff[x] = t[x] - s[x] /\ s[x] \in Nat /\ t[x] \in Nat
      BY <1>1
    <3>2. gap[x] = IF t[x] > s[x] THEN t[x] - s[x] ELSE s[x] - t[x]
      BY <1>1, <1>6
    <3> QED BY <3>1, <3>2
  <2> HIDE DEF diff
  <2>3. SumOf(diff, E) = 1 * SumOf(t, E) + (-1) * SumOf(s, E)
    <3>1. -1 \in Int /\ 1 \in Int
      OBVIOUS
    <3> QED BY <1>1, <2>1, <3>1, SumLinear
  <2>4. SumOf(diff, E) <= SumOf(gap, E) /\ -SumOf(diff, E) <= SumOf(gap, E) /\ SumOf(gap, E) \in Int
    BY <1>1, <2>2, SumAbs
  <2>5. SumOf(t, E) \in Int /\ SumOf(s, E) \in Int
    <3>1. (\A x \in E : s[x] \in Int) /\ (\A x \in E : t[x] \in Int)
      BY <2>1
    <3>2. HasSums(s, E) /\ HasSums(t, E)
      BY <1>1, <3>1, SumParts
    <3> QED BY <3>2 DEF HasSums
  <2> QED BY <2>3, <2>4, <2>5
<1>19. 2 * (r * dd) <= SumOf(gap, E)
  <2>1. r * ds \in Int /\ r * dt \in Int /\ 2 * (r * ds) = SumOf(s, E) /\ 2 * (r * dt) = SumOf(t, E)
    BY <1>1, <1>2
  <2>2. CASE dt > ds
    <3>1. r * dd = r * dt - r * ds
      BY <1>1, <1>2, <2>2
    <3> QED BY <1>18, <2>1, <3>1
  <2>3. CASE ~(dt > ds)
    <3>1. r * dd = r * ds - r * dt
      BY <1>1, <1>2, <2>3
    <3> QED BY <1>18, <2>1, <3>1
  <2> QED BY <2>2, <2>3
<1> HIDE DEF gets, gives, tele, most, ends, dd, diff, more
<1>20. SumOf(nextGap, H) <= SumOf(most, H)
  <2>1. \A h \in H : nextGap[h] \in Int /\ most[h] \in Int /\ nextGap[h] <= most[h]
    BY <1>10, <1>13
  <2> QED BY <1>1, <2>1, SumMono
<1>21. SumOf(most, H) = 1 * SumOf(tele, H) + 1 * SumOf(gets, H)
  <2>1. \A h \in H : tele[h] \in Int /\ gets[h] \in Int
    BY <1>13
  <2>2. \A h \in H : most[h] = 1 * tele[h] + 1 * gets[h]
    BY <1>13
  <2>3. 1 \in Int
    OBVIOUS
  <2> QED BY <1>1, <2>1, <2>2, <2>3, SumLinear
<1>22. SumOf(gap, H) = 2 * SumOf(gives, H) + 1 * SumOf(ends, H)
  <2>1. \A h \in H : gives[h] \in Int /\ ends[h] \in Int
    BY <1>14
  <2>2. \A h \in H : gap[h] = 2 * gives[h] + 1 * ends[h]
    BY <1>14
  <2>3. 1 \in Int /\ 2 \in Int
    OBVIOUS
  <2> QED BY <1>1, <2>1, <2>2, <2>3, SumLinear
<1>23. SumOf(gives, H) \in Int /\ SumOf(nextGap, H) \in Int
  <2>1. (\A h \in H : gives[h] \in Int) /\ (\A h \in H : nextGap[h] \in Int)
    BY <1>10, <1>14
  <2>2. HasSums(gives, H) /\ HasSums(nextGap, H)
    BY <1>1, <2>1, SumParts
  <2> QED BY <2>2 DEF HasSums
<1>24. 2 * SumOf(nextGap, H) <= SumOf(gap, H)
  <2> DEFINE x == r * dd
  <2>1. x \in Int
    BY <1>1, <1>11 DEF dd
  <2>2. 2 * x <= SumOf(gap, E) /\ SumOf(tele, H) = x
    BY <1>15, <1>19
  <2> HIDE DEF x
  <2>3. SumOf(nextGap, H) <= x + SumOf(gives, H)
    BY <1>16, <1>20, <1>21, <1>23, <2>1, <2>2
  <2>4. SumOf(gap, H) = 2 * SumOf(gives, H) + SumOf(gap, E)
    BY <1>17, <1>18, <1>22, <1>23
  <2> QED BY <1>18, <1>23, <2>1, <2>2, <2>3, <2>4
<1> QED BY <1>9, <1>24 DEF nextS, nextT

\* The parts of trust, one number of rounds after the other.
LEMMA PartsSteps ==
  ASSUME NEW roots \in Nat, Degrees \in Nat
  PROVE  /\ Parts(roots, 0) = 1
         /\ \A n \in Nat : Parts(roots, n) \in Nat /\ Parts(roots, n + 1) = 2 * Degrees * roots * Parts(roots, n)
<1> DEFINE F(x) == 2 * Degrees * roots * x
           step == [x \in Nat |-> F(x)]
           P(v, n) == v = [s \in SUBSET (1..n) |-> IF s = {} THEN 1 ELSE F(v[s \ {Max(s)}])]
           w == [n \in Nat |-> CHOOSE v : P(v, n)]
<1>0. step \in [Nat -> Nat] /\ 1 \in Nat
  <2>1. \A x \in Nat : F(x) \in Nat
    <3> DEFINE c == 2 * Degrees * roots
    <3>1. c \in Nat
      OBVIOUS
    <3> HIDE DEF c
    <3>2. \A x \in Nat : c * x \in Nat
      BY <3>1
    <3> QED BY <3>2 DEF c
  <2> HIDE DEF F
  <2> QED BY <2>1
<1>1. ASSUME NEW n \in Nat PROVE Parts(roots, n) = w[n][1..n]
  <2>1. DOMAIN [k \in 1..n |-> k] = 1..n
    OBVIOUS
  <2>2. Parts(roots, n) = (CHOOSE v : P(v, n))[1..n]
    BY <2>1 DEF Parts, FoldLeft, MapThenFoldSet
  <2> QED BY <2>2
<1> HIDE DEF F
<1>2. ASSUME NEW n \in Nat PROVE IsIterating(w[n], n, 1, step)
  <2>1. PICK v \in [SUBSET (1..n) -> Nat] : IsIterating(v, n, 1, step)
    <3> HIDE DEF step
    <3> QED BY <1>0, IteratingExists
  <2>2. P(v, n)
    <3>1. \A s \in SUBSET (1..n) : s # {} => step[v[s \ {Max(s)}]] = F(v[s \ {Max(s)}])
      <4> SUFFICES ASSUME NEW s \in SUBSET (1..n), s # {} PROVE step[v[s \ {Max(s)}]] = F(v[s \ {Max(s)}])
        OBVIOUS
      <4>1. s \ {Max(s)} \in SUBSET (1..n)
        OBVIOUS
      <4>2. v[s \ {Max(s)}] \in Nat
        BY <4>1
      <4> QED BY <4>2
    <3> HIDE DEF step
    <3> QED BY <2>1, <3>1 DEF IsIterating
  <2> DEFINE u == w[n]
             f == [s \in SUBSET (1..n) |-> F(u[s \ {Max(s)}])]
  <2>3. P(u, n)
    <3>1. u = CHOOSE x : P(x, n)
      OBVIOUS
    <3> HIDE DEF P, u
    <3> QED BY <2>2, <3>1
  <2> HIDE DEF u
  <2>4. u = [s \in SUBSET (1..n) |-> IF s = {} THEN 1 ELSE f[s]]
    BY <2>3
  <2>5. \A s \in SUBSET (1..n) : s # {} /\ u[s \ {Max(s)}] \in Nat => f[s] = step[u[s \ {Max(s)}]]
    OBVIOUS
  <2> HIDE DEF f, step
  <2>6. ComesTo(u, f, n, 1) /\ StepsTo(u, f, n, Nat, step)
    BY <2>4, <2>5 DEF ComesTo, StepsTo
  <2>7. IsIterating(u, n, 1, step)
    BY <1>0, <2>6, IteratingIs, Zenon
  <2> QED BY <2>7 DEF u
<1> HIDE DEF w, step
<1>3. w[0][1..0] = 1 /\ \A n \in Nat : w[n][1..n] \in Nat /\ w[n + 1][1..(n + 1)] = step[w[n][1..n]]
  <2>1. Iterates(w, Nat, 1, step)
    BY <1>0, <1>2, IterationSteps, Zenon
  <2> QED BY <2>1 DEF Iterates
<1>4. \A n \in Nat : step[w[n][1..n]] = F(w[n][1..n])
  BY <1>3 DEF step
<1>5. 0 \in Nat /\ \A n \in Nat : n + 1 \in Nat
  OBVIOUS
<1> QED BY <1>1, <1>3, <1>4, <1>5, ZenonT(40) DEF F

\* The trust there is, and its first spread.
LEMMA UnitType ==
  ASSUME AuthorityAssumption, NEW g \in Graphs
  PROVE  /\ Unit(g) \in Nat /\ Unit(g) = NumRoots(g) * Parts(NumRoots(g), Rounds)
         /\ \A h \in HostsOf(g) : Teleport(g, Unit(g), h) \in Nat
<1> DEFINE r == NumRoots(g)
           p == Parts(r, Rounds)
<1>1. r \in Nat /\ (HostsOf(g) # {} => r > 0)
  BY RootsType
<1>2. p \in Nat
  <2>1. Degrees \in Nat /\ Rounds \in Nat
    BY DEF AuthorityAssumption
  <2> HIDE DEF r
  <2> QED BY <1>1, <2>1, PartsSteps
<1>3. Unit(g) = r * p
  BY DEF Unit, NumRoots
<1> HIDE DEF r, p
<1>4. Unit(g) \in Nat
  BY <1>1, <1>2, <1>3
<1>5. ASSUME NEW h \in HostsOf(g) PROVE Teleport(g, Unit(g), h) \in Nat
  <2> DEFINE n == Unit(g)
  <2>1. n \in Nat /\ r \in Nat \ {0}
    BY <1>1, <1>4
  <2> HIDE DEF n
  <2>2. n \div r \in Nat
    BY <2>1
  <2>3. Teleport(g, n, h) = IF h \in Roots(g) THEN n \div r ELSE 0
    BY DEF Teleport, NumRoots, r
  <2>4. Teleport(g, n, h) \in Nat
    BY <2>2, <2>3
  <2> QED BY <2>4 DEF n
<1> QED BY <1>3, <1>4, <1>5 DEF r, p

\* A round gives every host a score.
LEMMA RoundType ==
  ASSUME AuthorityAssumption, NEW g \in Graphs, Matched(g), NEW scores \in [HostsOf(g) -> Nat]
  PROVE  Round(g, scores) \in [HostsOf(g) -> Nat]
<1> DEFINE u == FromUnit(g)
           d == FromEnds(g, scores)
           f == FlowsOf(g, scores)
<1>1. ASSUME NEW h \in HostsOf(g)
      PROVE  (IF h \in Roots(g) THEN u ELSE 0) + f[h] + (IF h \in Roots(g) THEN d ELSE 0) \in Nat
  <2>1. f[h] \in Nat /\ SumOf(scores, Ends(g)) \in Nat
    BY SharesType
  <2>2. Unit(g) \in Nat /\ NumRoots(g) \in Nat \ {0}
    BY UnitType, RootsType
  <2>3. \A n \in Nat, k \in Nat \ {0} : (n \div 2) \div k \in Nat
    OBVIOUS
  <2>4. u \in Nat /\ d \in Nat
    BY <2>1, <2>2, <2>3 DEF FromUnit, FromEnds
  <2> HIDE DEF u, d, f
  <2> QED BY <2>1, <2>4
<1>2. Round(g, scores) = [h \in HostsOf(g) |-> (IF h \in Roots(g) THEN u ELSE 0) + f[h] + (IF h \in Roots(g) THEN d ELSE 0)]
  BY RoundIs
<1> HIDE DEF u, d, f
<1> QED BY <1>1, <1>2

\* Trust goes from round to round.
LEMMA TrustSteps ==
  ASSUME AuthorityAssumption, NEW g \in Graphs, Matched(g)
  PROVE  /\ Trust(g, 0) = [h \in HostsOf(g) |-> Teleport(g, Unit(g), h)]
         /\ \A n \in Nat : Trust(g, n) \in [HostsOf(g) -> Nat] /\ Trust(g, n + 1) = Round(g, Trust(g, n))
<1> DEFINE States == [HostsOf(g) -> Nat]
           base == [h \in HostsOf(g) |-> Teleport(g, Unit(g), h)]
           step == [x \in States |-> Round(g, x)]
           P(v, n) == v = [s \in SUBSET (1..n) |-> IF s = {} THEN base ELSE Round(g, v[s \ {Max(s)}])]
           w == [n \in Nat |-> CHOOSE v : P(v, n)]
<1>0. step \in [States -> States] /\ base \in States
  <2>1. \A x \in States : Round(g, x) \in States
    BY RoundType
  <2>2. base \in States
    BY UnitType
  <2> HIDE DEF States, base
  <2> QED BY <2>1, <2>2
<1>1. ASSUME NEW n \in Nat PROVE Trust(g, n) = w[n][1..n]
  <2>1. DOMAIN [k \in 1..n |-> k] = 1..n
    OBVIOUS
  <2>2. Trust(g, n) = (CHOOSE v : P(v, n))[1..n]
    BY <2>1 DEF Trust, FoldLeft, MapThenFoldSet
  <2> QED BY <2>2
<1> HIDE DEF States, base
<1>2. ASSUME NEW n \in Nat PROVE IsIterating(w[n], n, base, step)
  <2>1. PICK v \in [SUBSET (1..n) -> States] : IsIterating(v, n, base, step)
    <3> HIDE DEF step
    <3> QED BY <1>0, IteratingExists
  <2>2. P(v, n)
    <3>1. \A s \in SUBSET (1..n) : s # {} => step[v[s \ {Max(s)}]] = Round(g, v[s \ {Max(s)}])
      <4> SUFFICES ASSUME NEW s \in SUBSET (1..n), s # {} PROVE step[v[s \ {Max(s)}]] = Round(g, v[s \ {Max(s)}])
        OBVIOUS
      <4>1. s \ {Max(s)} \in SUBSET (1..n)
        OBVIOUS
      <4>2. v[s \ {Max(s)}] \in States
        BY <4>1
      <4> QED BY <4>2
    <3> HIDE DEF step
    <3> QED BY <2>1, <3>1 DEF IsIterating
  <2> DEFINE u == w[n]
             f == [s \in SUBSET (1..n) |-> Round(g, u[s \ {Max(s)}])]
  <2>3. P(u, n)
    <3>1. u = CHOOSE x : P(x, n)
      OBVIOUS
    <3> HIDE DEF P, u
    <3> QED BY <2>2, <3>1
  <2> HIDE DEF u
  <2>4. u = [s \in SUBSET (1..n) |-> IF s = {} THEN base ELSE f[s]]
    BY <2>3
  <2>5. \A s \in SUBSET (1..n) : s # {} /\ u[s \ {Max(s)}] \in States => f[s] = step[u[s \ {Max(s)}]]
    OBVIOUS
  <2> HIDE DEF f, step
  <2>6. ComesTo(u, f, n, base) /\ StepsTo(u, f, n, States, step)
    BY <2>4, <2>5 DEF ComesTo, StepsTo
  <2>7. IsIterating(u, n, base, step)
    BY <1>0, <2>6, IteratingIs, Zenon
  <2> QED BY <2>7 DEF u
<1> HIDE DEF w, step
<1>3. w[0][1..0] = base /\ \A n \in Nat : w[n][1..n] \in States /\ w[n + 1][1..(n + 1)] = step[w[n][1..n]]
  <2>1. Iterates(w, States, base, step)
    BY <1>0, <1>2, IterationSteps, Zenon
  <2> QED BY <2>1 DEF Iterates
<1>4. \A n \in Nat : step[w[n][1..n]] = Round(g, w[n][1..n])
  BY <1>3 DEF step
<1>5. 0 \in Nat /\ \A n \in Nat : n + 1 \in Nat
  OBVIOUS
<1>6. Trust(g, 0) = base /\ \A n \in Nat : Trust(g, n) \in States /\ Trust(g, n + 1) = Round(g, Trust(g, n))
  BY <1>1, <1>3, <1>4, <1>5
<1> QED BY <1>6 DEF States, base

\* The hosts that some hosts link to.
Followed(g, hosts) == hosts \cup UNION {DOMAIN g.out[h] : h \in hosts}

\* The hosts that links lead to, one link after the other.
LEMMA ReachedSteps ==
  ASSUME NEW g \in Graphs
  PROVE  /\ Reached(g, 0) = Roots(g)
         /\ \A n \in Nat : Reached(g, n) \in SUBSET HostsOf(g) /\ Reached(g, n + 1) = Followed(g, Reached(g, n))
<1> DEFINE States == SUBSET HostsOf(g)
           base == Roots(g)
           step == [x \in States |-> Followed(g, x)]
           P(v, n) == v = [s \in SUBSET (1..n) |-> IF s = {} THEN base ELSE Followed(g, v[s \ {Max(s)}])]
           w == [n \in Nat |-> CHOOSE v : P(v, n)]
<1>0. step \in [States -> States] /\ base \in States
  <2>1. \A x \in States : Followed(g, x) \in States
    <3>1. \A h \in HostsOf(g) : DOMAIN g.out[h] \subseteq HostsOf(g)
      BY AtHost
    <3> QED BY <3>1 DEF Followed
  <2>2. base \in States
    BY RootsType
  <2> HIDE DEF States, base
  <2> QED BY <2>1, <2>2
<1>1. ASSUME NEW n \in Nat PROVE Reached(g, n) = w[n][1..n]
  <2>1. DOMAIN [k \in 1..n |-> k] = 1..n
    OBVIOUS
  <2>2. Reached(g, n) = (CHOOSE v : P(v, n))[1..n]
    BY <2>1 DEF Reached, FoldLeft, MapThenFoldSet, Followed
  <2> QED BY <2>2
<1> HIDE DEF States, base
<1>2. ASSUME NEW n \in Nat PROVE IsIterating(w[n], n, base, step)
  <2>1. PICK v \in [SUBSET (1..n) -> States] : IsIterating(v, n, base, step)
    <3> HIDE DEF step
    <3> QED BY <1>0, IteratingExists
  <2>2. P(v, n)
    <3>1. \A s \in SUBSET (1..n) : s # {} => step[v[s \ {Max(s)}]] = Followed(g, v[s \ {Max(s)}])
      <4> SUFFICES ASSUME NEW s \in SUBSET (1..n), s # {} PROVE step[v[s \ {Max(s)}]] = Followed(g, v[s \ {Max(s)}])
        OBVIOUS
      <4>1. s \ {Max(s)} \in SUBSET (1..n)
        OBVIOUS
      <4>2. v[s \ {Max(s)}] \in States
        BY <4>1
      <4> QED BY <4>2
    <3> HIDE DEF step
    <3> QED BY <2>1, <3>1 DEF IsIterating
  <2> DEFINE u == w[n]
             f == [s \in SUBSET (1..n) |-> Followed(g, u[s \ {Max(s)}])]
  <2>3. P(u, n)
    <3>1. u = CHOOSE x : P(x, n)
      OBVIOUS
    <3> HIDE DEF P, u
    <3> QED BY <2>2, <3>1
  <2> HIDE DEF u
  <2>4. u = [s \in SUBSET (1..n) |-> IF s = {} THEN base ELSE f[s]]
    BY <2>3
  <2>5. \A s \in SUBSET (1..n) : s # {} /\ u[s \ {Max(s)}] \in States => f[s] = step[u[s \ {Max(s)}]]
    OBVIOUS
  <2> HIDE DEF f, step
  <2>6. ComesTo(u, f, n, base) /\ StepsTo(u, f, n, States, step)
    BY <2>4, <2>5 DEF ComesTo, StepsTo
  <2>7. IsIterating(u, n, base, step)
    BY <1>0, <2>6, IteratingIs, Zenon
  <2> QED BY <2>7 DEF u
<1> HIDE DEF w, step
<1>3. w[0][1..0] = base /\ \A n \in Nat : w[n][1..n] \in States /\ w[n + 1][1..(n + 1)] = step[w[n][1..n]]
  <2>1. Iterates(w, States, base, step)
    BY <1>0, <1>2, IterationSteps, Zenon
  <2> QED BY <2>1 DEF Iterates
<1>4. \A n \in Nat : step[w[n][1..n]] = Followed(g, w[n][1..n])
  BY <1>3 DEF step
<1>5. 0 \in Nat /\ \A n \in Nat : n + 1 \in Nat
  OBVIOUS
<1>6. Reached(g, 0) = base /\ \A n \in Nat : Reached(g, n) \in States /\ Reached(g, n + 1) = Followed(g, Reached(g, n))
  BY <1>1, <1>3, <1>4, <1>5
<1> QED BY <1>6 DEF States, base

\* Degrees is a multiple of the number of links that any host has.
EvenDegrees(g) == \A h \in HostsOf(g) : OutDegree(g, h) # 0 => \E k \in Nat : Degrees = k * OutDegree(g, h)

\* Scores that are all multiples of a number.
Multiples(g, scores, q) ==
  scores \in [HostsOf(g) -> Nat] /\ \A h \in HostsOf(g) : \E m \in Nat : scores[h] = m * q

\* What one round more divides by.
Divisor(g, q) == 2 * Degrees * NumRoots(g) * q

\* Scores of multiples of what a round divides by are even, and after the round
\* the scores are multiples still.
LEMMA RoundIsEven ==
  ASSUME AuthorityAssumption, NEW g \in Graphs, Matched(g), EvenDegrees(g), HostsOf(g) # {}, NEW q \in Nat,
         NEW scores, Multiples(g, scores, Divisor(g, q)), \E c \in Nat : Unit(g) = NumRoots(g) * (c * Divisor(g, q))
  PROVE  Even(g, scores) /\ Multiples(g, Round(g, scores), q)
<1> DEFINE H == HostsOf(g)
           r == NumRoots(g)
           E == Ends(g)
           share == ShareOf(g, scores)
           flow == FlowsOf(g, scores)
           u == FromUnit(g)
           d == FromEnds(g, scores)
           next == Round(g, scores)
<1>1. r \in Nat \ {0} /\ Degrees \in Nat \ {0} /\ scores \in [H -> Nat] /\ IsFiniteSet(H)
  BY RootsType, GraphParts DEF AuthorityAssumption, Multiples
<1>2. Divisor(g, q) \in Nat /\ \A m \in Nat : m * Divisor(g, q) = (m * Degrees * q) * (2 * r)
  <2>1. Divisor(g, q) = 2 * Degrees * r * q
    BY DEF Divisor
  <2> HIDE DEF r
  <2>2. Divisor(g, q) \in Nat
    BY <1>1, <2>1
  <2>3. ASSUME NEW m \in Nat PROVE m * Divisor(g, q) = (m * Degrees * q) * (2 * r)
    BY <1>1, <2>1
  <2> QED BY <2>2, <2>3
<1>3. ASSUME NEW h \in H, OutDegree(g, h) # 0
      PROVE  \E m \in Nat : scores[h] = (m * q) * (2 * OutDegree(g, h))
  <2> DEFINE k == OutDegree(g, h)
  <2>1. k \in Nat
    BY DegreeType
  <2>2. PICK j \in Nat : Degrees = j * k
    BY <1>3 DEF EvenDegrees
  <2>3. PICK m \in Nat : scores[h] = m * Divisor(g, q)
    BY DEF Multiples
  <2>4. Divisor(g, q) = 2 * Degrees * r * q
    BY DEF Divisor
  <2> HIDE DEF k, r
  <2>5. scores[h] = m * (2 * (j * k) * r * q)
    BY <2>2, <2>3, <2>4
  <2>6. m * (2 * (j * k) * r * q) = ((m * j * r) * q) * (2 * k)
    BY <1>1, <2>1
  <2>7. m * j * r \in Nat
    BY <1>1
  <2> QED BY <2>5, <2>6, <2>7 DEF k
<1>4. \E m \in Nat : SumOf(scores, E) = m * Divisor(g, q)
  <2>1. E \subseteq H /\ IsFiniteSet(E)
    <3>1. E \subseteq H
      BY DEF Ends
    <3> QED BY <1>1, <3>1, FS_Subset
  <2>2. \A h \in E : \E m \in Nat : scores[h] = m * Divisor(g, q)
    BY <2>1 DEF Multiples
  <2> DEFINE D == Divisor(g, q)
  <2>3. D \in Nat /\ \A h \in E : \E m \in Nat : scores[h] = m * D
    BY <1>2, <2>2
  <2> HIDE DEF E, D
  <2>4. \E m \in Nat : SumOf(scores, E) = m * D
    BY <2>1, <2>3, SumMultiple
  <2> QED BY <2>4 DEF D
<1>5. PICK e \in Nat : SumOf(scores, E) = e * Divisor(g, q)
  BY <1>4
<1>6. PICK c \in Nat : Unit(g) = r * (c * Divisor(g, q))
  OBVIOUS
<1>7. Unit(g) = ((r * c * Degrees) * q) * (2 * r)
  <2>1. c * Divisor(g, q) = (c * Degrees * q) * (2 * r)
    BY <1>2
  <2> HIDE DEF r
  <2>2. r * ((c * Degrees * q) * (2 * r)) = ((r * c * Degrees) * q) * (2 * r)
    BY <1>1
  <2> QED BY <1>6, <2>1, <2>2
<1>8. SumOf(scores, E) = ((e * Degrees) * q) * (2 * r)
  <2>1. e * Divisor(g, q) = (e * Degrees * q) * (2 * r)
    BY <1>2
  <2> QED BY <1>5, <2>1
<1>9. r * c * Degrees \in Nat /\ e * Degrees \in Nat
  <2> HIDE DEF r
  <2> QED BY <1>1
<1>10. (r * c * Degrees) * q \in Nat /\ (e * Degrees) * q \in Nat
  <2> DEFINE x == r * c * Degrees
             y == e * Degrees
  <2>1. x \in Nat /\ y \in Nat
    BY <1>9
  <2> HIDE DEF x, y
  <2>2. x * q \in Nat /\ y * q \in Nat
    BY <2>1
  <2> QED BY <2>2 DEF x, y
<1>11. Even(g, scores)
  <2>1. ASSUME NEW h \in H, OutDegree(g, h) # 0 PROVE \E m \in Nat : scores[h] = m * (2 * OutDegree(g, h))
    <3>1. PICK m \in Nat : scores[h] = (m * q) * (2 * OutDegree(g, h))
      BY <1>3, <2>1
    <3>2. m * q \in Nat
      OBVIOUS
    <3> QED BY <3>1, <3>2
  <2>2. \E m \in Nat : SumOf(scores, E) = m * (2 * r)
    BY <1>8, <1>10
  <2>3. \E m \in Nat : Unit(g) = m * (2 * r)
    BY <1>7, <1>10
  <2> QED BY <1>1, <2>1, <2>2, <2>3 DEF Even
<1>12. u = (r * c * Degrees) * q /\ d = (e * Degrees) * q
  <2> DEFINE x == (r * c * Degrees) * q
             y == (e * Degrees) * q
  <2>1. x \in Nat /\ y \in Nat /\ Unit(g) = x * (2 * r) /\ SumOf(scores, E) = y * (2 * r)
    BY <1>7, <1>8, <1>10
  <2>2. u = (Unit(g) \div 2) \div r /\ d = (SumOf(scores, E) \div 2) \div r
    BY DEF FromUnit, FromEnds
  <2> HIDE DEF x, y, r, u, d
  <2>3. ((x * (2 * r)) \div 2) \div r = x /\ ((y * (2 * r)) \div 2) \div r = y
    BY <1>1, <2>1, HalfDivision
  <2>4. u = x /\ d = y
    BY <2>1, <2>2, <2>3
  <2> QED BY <2>4 DEF x, y
<1>13. ASSUME NEW h \in H PROVE \E m \in Nat : share[h] = m * q
  <2>1. CASE OutDegree(g, h) = 0
    <3>1. share[h] = 0 * q
      BY <2>1 DEF ShareOf
    <3> QED BY <3>1
  <2>2. CASE OutDegree(g, h) # 0
    <3> DEFINE k == 2 * OutDegree(g, h)
    <3>1. k \in Nat \ {0}
      BY <2>2, DegreeType
    <3>2. PICK m \in Nat : scores[h] = (m * q) * k
      BY <1>3, <2>2
    <3>3. share[h] = scores[h] \div k
      BY <2>2 DEF ShareOf
    <3> HIDE DEF k, share
    <3>4. m * q \in Nat
      OBVIOUS
    <3>5. ((m * q) * k) \div k = m * q
      BY <3>1, <3>4, EvenDivision
    <3> QED BY <3>2, <3>3, <3>5
  <2> QED BY <2>1, <2>2
<1>14. ASSUME NEW h \in H PROVE \E m \in Nat : flow[h] = m * q
  <2> DEFINE S == DOMAIN g.incoming[h]
  <2>1. IsFiniteSet(S) /\ S \subseteq H
    BY AtHost
  <2>2. \A x \in S : \E m \in Nat : share[x] = m * q
    BY <1>13, <2>1
  <2>3. flow[h] = SumOf(share, S)
    BY DEF FlowsOf
  <2> HIDE DEF S, share, flow
  <2>4. \E m \in Nat : SumOf(share, S) = m * q
    BY <2>1, <2>2, SumMultiple
  <2> QED BY <2>3, <2>4
<1>15. ASSUME NEW h \in H PROVE \E m \in Nat : next[h] = m * q
  <2>1. PICK m \in Nat : flow[h] = m * q
    BY <1>14
  <2>2. next[h] = (IF h \in Roots(g) THEN u ELSE 0) + flow[h] + (IF h \in Roots(g) THEN d ELSE 0)
    BY RoundIs
  <2> DEFINE x == r * c * Degrees
             y == e * Degrees
  <2>3. x \in Nat /\ y \in Nat /\ u = x * q /\ d = y * q
    BY <1>9, <1>12
  <2> HIDE DEF x, y, u, d, flow, next
  <2>4. CASE h \in Roots(g)
    <3>1. next[h] = x * q + m * q + y * q
      BY <2>1, <2>2, <2>3, <2>4
    <3>2. x * q + m * q + y * q = (x + m + y) * q /\ x + m + y \in Nat
      BY <2>3
    <3> QED BY <3>1, <3>2
  <2>5. CASE h \notin Roots(g)
    <3>1. next[h] = 0 + m * q + 0 /\ m * q \in Nat
      BY <2>1, <2>2, <2>5
    <3>2. next[h] = m * q
      BY <3>1
    <3> QED BY <3>2
  <2> QED BY <2>4, <2>5
<1>16. next \in [H -> Nat]
  BY <1>1, RoundType
<1> QED BY <1>11, <1>15, <1>16 DEF Multiples

\* All the parts are multiples of the parts for fewer rounds.
LEMMA PartsDivide ==
  ASSUME NEW r \in Nat, AuthorityAssumption
  PROVE  /\ \A n \in 0..Rounds : \E c \in Nat : Parts(r, Rounds) = c * Parts(r, Rounds - n)
         /\ r > 0 => \A n \in Nat : Parts(r, n) > 0
<1>1. Degrees \in Nat \ {0} /\ Rounds \in Nat
  BY DEF AuthorityAssumption
<1>2. Parts(r, 0) = 1 /\ \A n \in Nat : Parts(r, n) \in Nat /\ Parts(r, n + 1) = 2 * Degrees * r * Parts(r, n)
  BY <1>1, PartsSteps
<1> DEFINE G == {n \in Nat : n <= Rounds => \E c \in Nat : Parts(r, Rounds) = c * Parts(r, Rounds - n)}
<1>3. 0 \in G
  <2>1. Parts(r, Rounds) = 1 * Parts(r, Rounds - 0)
    <3>1. Rounds - 0 = Rounds /\ Parts(r, Rounds) \in Nat
      BY <1>1, <1>2
    <3> QED BY <3>1
  <2> QED BY <2>1
<1>4. ASSUME NEW n \in Nat, n \in G PROVE n + 1 \in G
  <2> SUFFICES ASSUME n + 1 <= Rounds PROVE \E c \in Nat : Parts(r, Rounds) = c * Parts(r, Rounds - (n + 1))
    OBVIOUS
  <2>1. PICK c \in Nat : Parts(r, Rounds) = c * Parts(r, Rounds - n)
    BY <1>1, <1>4
  <2> DEFINE k == Rounds - (n + 1)
  <2>2. k \in Nat /\ k + 1 = Rounds - n
    BY <1>1
  <2> HIDE DEF k
  <2>3. Parts(r, Rounds - n) = 2 * Degrees * r * Parts(r, k) /\ Parts(r, k) \in Nat
    BY <1>2, <2>2
  <2> DEFINE p == Parts(r, k)
             q == Parts(r, Rounds)
             x == Parts(r, Rounds - n)
  <2>4. p \in Nat /\ q = c * x /\ x = 2 * Degrees * r * p
    BY <2>1, <2>3
  <2> HIDE DEF p, q, x
  <2>5. c * (2 * Degrees * r * p) = (c * (2 * Degrees * r)) * p
    BY <1>1, <2>4
  <2>6. c * (2 * Degrees * r) \in Nat
    BY <1>1
  <2>7. q = (c * (2 * Degrees * r)) * p
    BY <2>4, <2>5
  <2> QED BY <2>6, <2>7 DEF p, q, k
<1>5. \A n \in Nat : n \in G
  <2> HIDE DEF G
  <2> QED BY <1>3, <1>4, ByNumber
<1>6. \A n \in 0..Rounds : \E c \in Nat : Parts(r, Rounds) = c * Parts(r, Rounds - n)
  BY <1>1, <1>5
<1>7. ASSUME r > 0 PROVE \A n \in Nat : Parts(r, n) > 0
  <2> DEFINE F == {n \in Nat : Parts(r, n) > 0}
  <2>1. 0 \in F
    BY <1>2
  <2>2. ASSUME NEW n \in Nat, n \in F PROVE n + 1 \in F
    <3> DEFINE p == Parts(r, n)
               x == 2 * Degrees * r
    <3>1. p \in Nat \ {0} /\ Parts(r, n + 1) = x * p
      BY <1>2, <2>2
    <3>2. x \in Nat \ {0}
      BY <1>1, <1>7
    <3> HIDE DEF p, x
    <3>3. x * p > 0
      BY <3>1, <3>2
    <3> QED BY <3>1, <3>3
  <2>3. \A n \in Nat : n \in F
    <3> HIDE DEF F
    <3> QED BY <2>1, <2>2, ByNumber
  <2> QED BY <2>3
<1> QED BY <1>6, <1>7

\* A graph for which the rounds come out even.
Fair(g) == g \in Graphs /\ Matched(g) /\ EvenDegrees(g)

\* The scores before a round are even.
LEMMA TrustIsEven ==
  ASSUME AuthorityAssumption, NEW g, Fair(g), HostsOf(g) # {}
  PROVE  \A n \in 0..(Rounds - 1) : Even(g, Trust(g, n))
<1> DEFINE r == NumRoots(g)
           q(n) == Parts(r, Rounds - n)
           G == {n \in Nat : n <= Rounds => Multiples(g, Trust(g, n), q(n))}
<1>0. g \in Graphs /\ Matched(g) /\ EvenDegrees(g)
  BY DEF Fair
<1>1. r \in Nat \ {0} /\ Degrees \in Nat \ {0} /\ Rounds \in Nat \ {0}
  BY <1>0, RootsType DEF AuthorityAssumption
<1>2. \A n \in Nat : Parts(r, n) \in Nat /\ Parts(r, n + 1) = 2 * Degrees * r * Parts(r, n)
  BY <1>1, PartsSteps
<1>3. Unit(g) = r * Parts(r, Rounds)
  BY <1>0, UnitType
<1>4. 0 \in G
  <2>1. Trust(g, 0) = [h \in HostsOf(g) |-> Teleport(g, Unit(g), h)]
    BY <1>0, TrustSteps
  <2> DEFINE p == Parts(r, Rounds)
  <2>2. p \in Nat /\ Unit(g) = p * r
    BY <1>1, <1>2, <1>3
  <2>3. \A h \in HostsOf(g) : Trust(g, 0)[h] = IF h \in Roots(g) THEN Unit(g) \div r ELSE 0
    BY <2>1 DEF Teleport, NumRoots
  <2> HIDE DEF p, r
  <2>4. Unit(g) \div r = p
    BY <1>1, <2>2, EvenDivision
  <2>5. ASSUME NEW h \in HostsOf(g) PROVE \E m \in Nat : Trust(g, 0)[h] = m * p
    <3>1. CASE h \in Roots(g)
      <4>1. Trust(g, 0)[h] = 1 * p
        BY <2>2, <2>3, <2>4, <3>1
      <4> QED BY <4>1
    <3>2. CASE h \notin Roots(g)
      <4>1. Trust(g, 0)[h] = 0 * p
        BY <2>2, <2>3, <3>2
      <4> QED BY <4>1
    <3> QED BY <3>1, <3>2
  <2>6. Trust(g, 0) \in [HostsOf(g) -> Nat]
    <3>1. 0 \in Nat
      OBVIOUS
    <3> QED BY <1>0, <3>1, TrustSteps
  <2>7. Rounds - 0 = Rounds
    BY <1>1
  <2> QED BY <2>5, <2>6, <2>7 DEF Multiples, p
<1>5. ASSUME NEW n \in Nat, n \in G, n < Rounds
      PROVE  Even(g, Trust(g, n)) /\ Multiples(g, Trust(g, n + 1), q(n + 1))
  <2> DEFINE k == Rounds - (n + 1)
             x == Parts(r, k)
             s == Trust(g, n)
  <2>1. k \in Nat /\ k + 1 = Rounds - n
    BY <1>1, <1>5
  <2>2. Multiples(g, s, Parts(r, Rounds - n))
    BY <1>1, <1>5
  <2>3. x \in Nat /\ Parts(r, Rounds - n) = Divisor(g, x)
    <3> HIDE DEF k
    <3>1. Parts(r, k + 1) = 2 * Degrees * r * Parts(r, k) /\ Parts(r, k) \in Nat
      BY <1>2, <2>1
    <3> QED BY <2>1, <3>1 DEF Divisor
  <2>4. \E c \in Nat : Unit(g) = r * (c * Divisor(g, x))
    <3>1. \E c \in Nat : Parts(r, Rounds) = c * Parts(r, Rounds - n)
      <4>1. n \in 0..Rounds
        BY <1>1, <1>5
      <4> HIDE DEF r
      <4> QED BY <1>1, <4>1, PartsDivide
    <3> QED BY <1>3, <2>3, <3>1
  <2>5. Trust(g, n + 1) = Round(g, s)
    BY <1>0, TrustSteps
  <2> HIDE DEF x, s
  <2>6. Even(g, s) /\ Multiples(g, Round(g, s), x)
    BY <1>0, <2>2, <2>3, <2>4, RoundIsEven
  <2> QED BY <2>5, <2>6 DEF x, s
<1>6. \A n \in Nat : n \in G
  <2>1. ASSUME NEW n \in Nat, n \in G PROVE n + 1 \in G
    <3> SUFFICES ASSUME n + 1 <= Rounds PROVE Multiples(g, Trust(g, n + 1), q(n + 1))
      OBVIOUS
    <3>1. n < Rounds
      BY <1>1
    <3> HIDE DEF G, q
    <3> QED BY <1>5, <2>1, <3>1
  <2> HIDE DEF G
  <2> QED BY <1>4, <2>1, ByNumber
<1>7. ASSUME NEW n \in 0..(Rounds - 1) PROVE Even(g, Trust(g, n))
  <2>1. n \in Nat /\ n < Rounds
    BY <1>1
  <2> HIDE DEF G, q
  <2> QED BY <1>5, <1>6, <2>1
<1> QED BY <1>7

\* The trust of all hosts together stays what it was.
LEMMA SharedWhen ==
  ASSUME AuthorityAssumption, NEW g, Fair(g), HostsOf(g) # {}
  PROVE  \A n \in 0..Rounds : SumOf(Trust(g, n), HostsOf(g)) = Unit(g)
<1> DEFINE r == NumRoots(g)
           G == {n \in Nat : n <= Rounds => SumOf(Trust(g, n), HostsOf(g)) = Unit(g)}
<1>0. g \in Graphs /\ Matched(g) /\ Rounds \in Nat /\ Degrees \in Nat
  BY DEF Fair, AuthorityAssumption
<1>1. r \in Nat \ {0}
  BY <1>0, RootsType
<1>2. Unit(g) \in Nat /\ Unit(g) = r * Parts(r, Rounds) /\ Parts(r, Rounds) \in Nat
  BY <1>0, <1>1, UnitType, PartsSteps
<1>3. 0 \in G
  <2> DEFINE p == Parts(r, Rounds)
             t == Trust(g, 0)
  <2>1. t = [h \in HostsOf(g) |-> Teleport(g, Unit(g), h)]
    BY <1>0, TrustSteps
  <2>2. \A h \in HostsOf(g) : t[h] = IF h \in Roots(g) THEN Unit(g) \div r ELSE 0
    BY <2>1 DEF Teleport, NumRoots
  <2> HIDE DEF p, r
  <2>3. p \in Nat /\ Unit(g) = p * r
    BY <1>1, <1>2 DEF p
  <2>4. Unit(g) \div r = p
    BY <1>1, <2>3, EvenDivision
  <2> HIDE DEF t
  <2>5. SumOf(t, HostsOf(g)) = NumRoots(g) * p
    <3>1. p \in Int /\ \A h \in HostsOf(g) : t[h] = IF h \in Roots(g) THEN p ELSE 0
      BY <2>2, <2>3, <2>4
    <3> QED BY <1>0, <3>1, RootsGet
  <2> QED BY <1>2, <2>5 DEF r, p, t
<1>4. ASSUME NEW n \in Nat, n \in G PROVE n + 1 \in G
  <2> SUFFICES ASSUME n + 1 <= Rounds PROVE SumOf(Trust(g, n + 1), HostsOf(g)) = Unit(g)
    OBVIOUS
  <2>1. n \in 0..(Rounds - 1) /\ n <= Rounds
    BY <1>0
  <2>2. Even(g, Trust(g, n))
    BY <2>1, TrustIsEven
  <2>3. Trust(g, n + 1) = Round(g, Trust(g, n)) /\ Trust(g, n + 1) \in [HostsOf(g) -> Nat]
    <3>1. n + 1 \in Nat
      OBVIOUS
    <3> QED BY <1>0, <3>1, TrustSteps
  <2>4. SumOf(Trust(g, n), HostsOf(g)) = Unit(g)
    BY <1>4, <2>1
  <2> DEFINE s == Trust(g, n)
             t == Trust(g, n + 1)
             H == HostsOf(g)
  <2>5. 2 * SumOf(t, H) = Unit(g) + SumOf(s, H)
    <3> HIDE DEF s
    <3>1. 2 * SumOf(Round(g, s), HostsOf(g)) = Unit(g) + SumOf(s, HostsOf(g))
      BY <1>0, <2>2, RoundSums DEF s
    <3> QED BY <2>3, <3>1 DEF s
  <2>6. SumOf(t, H) \in Nat
    <3>1. IsFiniteSet(H) /\ \A h \in H : t[h] \in Nat
      BY <1>0, <2>3, GraphParts
    <3> HIDE DEF t, H
    <3> QED BY <3>1, SumPositive
  <2> HIDE DEF s, t, H
  <2>7. SumOf(t, H) = Unit(g)
    BY <1>2, <2>4, <2>5, <2>6 DEF s, H
  <2> QED BY <2>7 DEF t, H
<1>5. \A n \in Nat : n \in G
  <2> HIDE DEF G
  <2> QED BY <1>3, <1>4, ByNumber
<1> QED BY <1>0, <1>5

\* Trust goes where links lead.
LEMMA FollowsWhen ==
  ASSUME AuthorityAssumption, NEW g, Fair(g), HostsOf(g) # {}
  PROVE  \A n \in 0..Rounds : \A h \in HostsOf(g) : Trust(g, n)[h] > 0 <=> h \in Reached(g, n)
<1> DEFINE H == HostsOf(g)
           Before(n) == \A h \in Reached(g, n) : h \in Roots(g) \/ \E a \in Reached(g, n) : h \in DOMAIN g.out[a]
           Right(n) == /\ Roots(g) \subseteq Reached(g, n) /\ Before(n)
                       /\ n <= Rounds => \A h \in H : Trust(g, n)[h] > 0 <=> h \in Reached(g, n)
           G == {n \in Nat : Right(n)}
<1>0. g \in Graphs /\ Matched(g) /\ Rounds \in Nat /\ Degrees \in Nat
  BY DEF Fair, AuthorityAssumption
<1>1. NumRoots(g) \in Nat \ {0} /\ Roots(g) \in SUBSET H
  BY <1>0, RootsType
<1>2. Unit(g) \in Nat /\ Unit(g) > 0 /\ Unit(g) \div NumRoots(g) > 0
  <2> DEFINE r == NumRoots(g)
             p == Parts(r, Rounds)
  <2>1. r \in Nat \ {0} /\ p \in Nat /\ p > 0 /\ Unit(g) = r * p
    <3>1. r \in Nat \ {0}
      BY <1>1
    <3> HIDE DEF r
    <3>2. p \in Nat /\ p > 0
      <4>1. p \in Nat
        BY <1>0, <3>1, PartsSteps
      <4>2. r \in Nat /\ r > 0
        BY <3>1
      <4>3. \A n \in Nat : Parts(r, n) > 0
        BY <4>2, PartsDivide
      <4> QED BY <1>0, <4>1, <4>3
    <3>3. Unit(g) = r * p
      BY <1>0, UnitType DEF r
    <3> QED BY <3>1, <3>2, <3>3
  <2> HIDE DEF r, p
  <2>2. r * p \in Nat /\ r * p > 0 /\ (p * r) \div r = p /\ p * r = r * p
    BY <2>1, EvenDivision
  <2>3. Unit(g) \in Nat /\ Unit(g) > 0 /\ Unit(g) \div r > 0
    BY <2>1, <2>2
  <2> QED BY <2>3 DEF r
<1>3. 0 \in G
  <2>1. Trust(g, 0) = [h \in H |-> Teleport(g, Unit(g), h)] /\ Reached(g, 0) = Roots(g)
    BY <1>0, TrustSteps, ReachedSteps
  <2>2. \A h \in H : Trust(g, 0)[h] > 0 <=> h \in Roots(g)
    <3> SUFFICES ASSUME NEW h \in H PROVE Trust(g, 0)[h] > 0 <=> h \in Roots(g)
      OBVIOUS
    <3>1. Trust(g, 0)[h] = IF h \in Roots(g) THEN Unit(g) \div NumRoots(g) ELSE 0
      BY <2>1 DEF Teleport, NumRoots
    <3> QED BY <1>2, <3>1
  <2>3. Right(0)
    BY <2>1, <2>2
  <2> QED BY <2>3
<1>4. ASSUME NEW n \in Nat, n \in G PROVE n + 1 \in G
  <2> DEFINE old == Reached(g, n)
             new == Reached(g, n + 1)
  <2>1. new = old \cup UNION {DOMAIN g.out[h] : h \in old} /\ old \in SUBSET H
    BY <1>0, ReachedSteps DEF Followed
  <2>2. Roots(g) \subseteq old /\ \A h \in old : h \in Roots(g) \/ \E a \in old : h \in DOMAIN g.out[a]
    BY <1>4
  <2>3. n <= Rounds => \A h \in H : Trust(g, n)[h] > 0 <=> h \in old
    BY <1>4
  <2>4. n + 1 <= Rounds => n \in 0..(Rounds - 1) /\ n <= Rounds
    BY <1>0
  <2> HIDE DEF old, new
  <2>5. \A h : h \in new <=> h \in Roots(g) \/ \E a \in old : h \in DOMAIN g.out[a]
    BY <2>1, <2>2
  <2>6. Roots(g) \subseteq new /\ \A h \in new : h \in Roots(g) \/ \E a \in new : h \in DOMAIN g.out[a]
    BY <2>1, <2>5
  <2>7. ASSUME n + 1 <= Rounds, NEW h \in H PROVE Trust(g, n + 1)[h] > 0 <=> h \in new
    <3> DEFINE s == Trust(g, n)
    <3>1. Even(g, s)
      BY <2>4, <2>7, TrustIsEven
    <3>2. Trust(g, n + 1) = Round(g, s)
      BY <1>0, TrustSteps
    <3> HIDE DEF s
    <3>3. Round(g, s)[h] > 0 <=> h \in Roots(g) \/ \E a \in DOMAIN g.incoming[h] : s[a] > 0
      BY <1>0, <1>2, <3>1, RoundTrusts
    <3>4. \A a \in H : s[a] > 0 <=> a \in old
      BY <2>3, <2>4, <2>7 DEF s
    <3>5. DOMAIN g.incoming[h] \subseteq H /\ \A a \in H : a \in DOMAIN g.incoming[h] <=> h \in DOMAIN g.out[a]
      BY <1>0, AtHost DEF Matched
    <3>6. (\E a \in DOMAIN g.incoming[h] : s[a] > 0) <=> \E a \in old : h \in DOMAIN g.out[a]
      BY <2>1, <3>4, <3>5
    <3> QED BY <2>5, <3>2, <3>3, <3>6
  <2>8. Right(n + 1)
    <3>1. n + 1 <= Rounds => \A h \in H : Trust(g, n + 1)[h] > 0 <=> h \in new
      BY <2>7
    <3> QED BY <2>6, <3>1 DEF new
  <2> HIDE DEF Right
  <2> QED BY <2>8
<1>5. \A n \in Nat : n \in G
  <2> HIDE DEF G
  <2> QED BY <1>3, <1>4, ByNumber
<1> QED BY <1>0, <1>5

\* Rounds move scores by less and less.
LEMMA SettlesWhen ==
  ASSUME AuthorityAssumption, NEW g, Fair(g), HostsOf(g) # {}
  PROVE  /\ Residual(g, Trust(g, 0), Trust(g, 1)) <= Unit(g)
         /\ \A n \in 2..Rounds : 2 * Residual(g, Trust(g, n - 1), Trust(g, n)) <= Residual(g, Trust(g, n - 2), Trust(g, n - 1))
<1>0. g \in Graphs /\ Matched(g) /\ Rounds \in Nat \ {0} /\ Unit(g) \in Nat
  BY UnitType DEF Fair, AuthorityAssumption
<1>1. /\ Trust(g, 0) = [h \in HostsOf(g) |-> Teleport(g, Unit(g), h)]
      /\ \A n \in Nat : Trust(g, n) \in [HostsOf(g) -> Nat] /\ Trust(g, n + 1) = Round(g, Trust(g, n))
  BY <1>0, TrustSteps
<1>2. Residual(g, Trust(g, 0), Trust(g, 1)) <= Unit(g)
  <2> DEFINE s == Trust(g, 0)
             t == Trust(g, 1)
  <2>1. Even(g, s) /\ SumOf(s, HostsOf(g)) = Unit(g)
    <3>1. 0 \in 0..(Rounds - 1) /\ 0 \in 0..Rounds
      BY <1>0
    <3> QED BY <3>1, TrustIsEven, SharedWhen
  <2>2. t = Round(g, s)
    <3>1. 0 \in Nat /\ 0 + 1 = 1
      OBVIOUS
    <3> QED BY <1>1, <3>1
  <2>3. (\A h \in HostsOf(g) : s[h] = Teleport(g, Unit(g), h)) /\ s \in [HostsOf(g) -> Nat] /\ t \in [HostsOf(g) -> Nat]
    <3>1. 0 \in Nat /\ 1 \in Nat
      OBVIOUS
    <3> QED BY <1>1, <3>1
  <2> HIDE DEF s, t
  <2>4. 2 * Residual(g, s, Round(g, s)) <= Unit(g) + SumOf(s, HostsOf(g))
    BY <1>0, <2>1, <2>3, FirstRoundMoves
  <2>5. Residual(g, s, t) \in Nat
    <3> DEFINE gap == GapOf(g, s, t)
               H == HostsOf(g)
    <3>1. IsFiniteSet(H) /\ \A h \in H : gap[h] \in Nat
      <4>1. \A h \in H : s[h] \in Nat /\ t[h] \in Nat
        BY <2>3
      <4>2. \A h \in H : gap[h] = IF t[h] > s[h] THEN t[h] - s[h] ELSE s[h] - t[h]
        BY DEF GapOf
      <4> HIDE DEF gap
      <4>3. \A h \in H : gap[h] \in Nat
        BY <4>1, <4>2
      <4> QED BY <1>0, <4>3, GraphParts
    <3>2. Residual(g, s, t) = SumOf(gap, H)
      BY ResidualIsGap
    <3> HIDE DEF gap, H
    <3> QED BY <3>1, <3>2, SumPositive
  <2>6. Residual(g, s, t) <= Unit(g)
    BY <1>0, <2>1, <2>2, <2>4, <2>5
  <2> QED BY <2>6 DEF s, t
<1>3. ASSUME NEW n \in 2..Rounds
      PROVE  2 * Residual(g, Trust(g, n - 1), Trust(g, n)) <= Residual(g, Trust(g, n - 2), Trust(g, n - 1))
  <2> DEFINE s == Trust(g, n - 2)
             t == Trust(g, n - 1)
  <2>1. n - 2 \in 0..(Rounds - 1) /\ n - 1 \in 0..(Rounds - 1) /\ n - 2 \in Nat /\ n - 1 \in Nat
        /\ (n - 2) + 1 = n - 1 /\ (n - 1) + 1 = n
    BY <1>0
  <2>2. Even(g, s) /\ Even(g, t)
    BY <2>1, TrustIsEven
  <2>3. t = Round(g, s)
    BY <1>1, <2>1
  <2>4. Trust(g, n) = Round(g, t)
    BY <1>1, <2>1
  <2> HIDE DEF s, t
  <2>5. 2 * Residual(g, Round(g, s), Round(g, t)) <= Residual(g, s, t)
    BY <1>0, <2>2, RoundSettles
  <2>6. 2 * Residual(g, t, Trust(g, n)) <= Residual(g, s, t)
    BY <2>3, <2>4, <2>5
  <2> QED BY <2>6 DEF s, t
<1> QED BY <1>2, <1>3

\* The records that a page of those made.
PagesOf(host) == {page \in ToSet(fetched) : RecordOf(page) \in ToSet(records) /\ HostOf(RecordOf(page).final.host) = host}

\* The graph of the records is one that the rounds come out even for.
LEMMA GraphIsFair ==
  ASSUME HostsAssumption, CorpusAssumption, AuthorityAssumption, CorpusTypeOK, NEW seeds, AreSeeds(seeds)
  PROVE  Fair(Graph(records, seeds))
<1> DEFINE g == Graph(records, seeds)
           V(a, b) == Voters(records, DOMAIN records, a, b)
<1>1. AreRecords(records) /\ Len(records) \in Nat /\ DOMAIN records = 1..Len(records)
  BY RecordsAreRecords
<1>2. g \in Graphs /\ \A a, b : Sent(g, a, b) = Cardinality(V(a, b)) /\ Got(g, a, b) = Cardinality(V(a, b))
  BY <1>1, GraphSays
<1>3. \A a, b : V(a, b) = CountedVoting(a, b)
  BY <1>1, VotingIsVotes
<1> HIDE DEF g, V
<1>4. Matched(g)
  <2>1. ASSUME NEW a \in HostsOf(g), NEW b \in HostsOf(g)
        PROVE  a \in DOMAIN g.incoming[b] <=> b \in DOMAIN g.out[a]
    <3>1. b \in DOMAIN g.out[a] <=> Sent(g, a, b) # 0
      BY <1>2, EdgesAreVotes
    <3>2. a \in DOMAIN g.incoming[b] <=> Got(g, a, b) # 0
      BY <1>2, EdgesAreVotes
    <3> QED BY <1>2, <3>1, <3>2
  <2> QED BY <2>1 DEF Matched
<1>5. ASSUME NEW h \in HostsOf(g), OutDegree(g, h) # 0 PROVE \E k \in Nat : Degrees = k * OutDegree(g, h)
  <2> DEFINE kept == PagesOf(h)
  <2>0. fetched \in Seq(Pages) /\ Len(fetched) <= MaxPages /\ MaxPages \in Nat
        /\ records \in Seq({RecordOf(page) : page \in ToSet(fetched)})
    BY DEF CorpusTypeOK, CorpusAssumption
  <2>1. kept \in SUBSET Pages /\ IsFiniteSet(kept) /\ Cardinality(kept) <= MaxPages
    <3> DEFINE f == [i \in 1..Len(fetched) |-> fetched[i]]
               T == ToSet(fetched)
    <3>1. T \in SUBSET Pages /\ Len(fetched) \in Nat
      BY <2>0 DEF ToSet
    <3>2. f \in Surjection(1..Len(fetched), T)
      BY <2>0 DEF Surjection, ToSet
    <3>3. IsFiniteSet(1..Len(fetched)) /\ Cardinality(1..Len(fetched)) = Len(fetched)
      <4> DEFINE n == Len(fetched)
      <4>1. n \in Nat /\ n \in Int /\ 1 \in Int
        BY <3>1
      <4> HIDE DEF n
      <4>2. IsFiniteSet(1..n) /\ Cardinality(1..n) = IF 1 > n THEN 0 ELSE n - 1 + 1
        BY <4>1, FS_Interval
      <4>3. Cardinality(1..n) = n
        BY <4>1, <4>2
      <4> QED BY <4>2, <4>3 DEF n
    <3> HIDE DEF f, T
    <3>4. IsFiniteSet(T) /\ Cardinality(T) <= Len(fetched)
      BY <3>2, <3>3, FS_Surjection
    <3>5. kept \subseteq T
      BY DEF PagesOf, T
    <3> HIDE DEF kept
    <3>6. IsFiniteSet(kept) /\ Cardinality(kept) <= Cardinality(T)
      BY <3>4, <3>5, FS_Subset
    <3>7. Cardinality(kept) \in Nat /\ Cardinality(T) \in Nat
      BY <3>4, <3>6, FS_CardinalityType
    <3> QED BY <2>0, <3>1, <3>4, <3>5, <3>6, <3>7
  <2>2. \A page, other \in kept : HostOf(RecordOf(page).final.host) = HostOf(RecordOf(other).final.host)
    BY DEF PagesOf
  <2>3. ASSUME NEW x PROVE x \in LinkedBy(kept) <=> CountedVoting(h, x) # {}
    <3>1. x \in LinkedBy(kept) <=> \E page \in kept : \E link \in ToSet(page.links) : IsCounted(RecordOf(page), link) /\ HostOf(link.url.host) = x
      BY DEF LinkedBy
    <3>2. CountedVoting(h, x) # {} <=> \E i \in DOMAIN records : /\ HostOf(records[i].final.host) = h
                                 /\ \E link \in ToSet(records[i].links) : IsCounted(records[i], link) /\ HostOf(link.url.host) = x
      BY DEF CountedVoting
    <3>3. \A page : RecordOf(page).links = page.links
      BY DEF RecordOf
    <3>4. ASSUME NEW i \in DOMAIN records PROVE \E page \in ToSet(fetched) : records[i] = RecordOf(page)
      BY <2>0
    <3>5. \A i \in DOMAIN records : records[i] \in ToSet(records)
      BY DEF ToSet
    <3>6. \A page \in kept : \E i \in DOMAIN records : records[i] = RecordOf(page)
      BY DEF PagesOf, ToSet
    <3>7. \A page \in kept : HostOf(RecordOf(page).final.host) = h
      BY DEF PagesOf
    <3>8. \A page \in ToSet(fetched) : RecordOf(page) \in ToSet(records) /\ HostOf(RecordOf(page).final.host) = h => page \in kept
      BY DEF PagesOf
    <3> HIDE DEF kept
    <3>9. ASSUME x \in LinkedBy(kept) PROVE CountedVoting(h, x) # {}
      <4>1. PICK page \in kept : \E link \in ToSet(page.links) : IsCounted(RecordOf(page), link) /\ HostOf(link.url.host) = x
        BY <3>1, <3>9
      <4>2. PICK i \in DOMAIN records : records[i] = RecordOf(page)
        BY <3>6
      <4>3. ToSet(records[i].links) = ToSet(page.links) /\ HostOf(records[i].final.host) = h
        BY <3>3, <3>7, <4>2
      <4>4. \E link \in ToSet(records[i].links) : IsCounted(records[i], link) /\ HostOf(link.url.host) = x
        BY <4>1, <4>2, <4>3
      <4> QED BY <3>2, <4>3, <4>4
    <3>10. ASSUME CountedVoting(h, x) # {} PROVE x \in LinkedBy(kept)
      <4>1. PICK i \in DOMAIN records : /\ HostOf(records[i].final.host) = h
                                 /\ \E link \in ToSet(records[i].links) : IsCounted(records[i], link) /\ HostOf(link.url.host) = x
        BY <3>2, <3>10
      <4>2. PICK page \in ToSet(fetched) : records[i] = RecordOf(page)
        BY <3>4
      <4>3. page \in kept
        BY <3>5, <3>8, <4>1, <4>2
      <4>4. ToSet(records[i].links) = ToSet(page.links)
        BY <3>3, <4>2
      <4>5. \E link \in ToSet(page.links) : IsCounted(RecordOf(page), link) /\ HostOf(link.url.host) = x
        BY <4>1, <4>2, <4>4
      <4> QED BY <3>1, <4>3, <4>5
    <3> QED BY <3>9, <3>10
  <2>4. ASSUME NEW x PROVE x \in DOMAIN g.out[h] <=> CountedVoting(h, x) # {}
    <3>1. x \in DOMAIN g.out[h] <=> Sent(g, h, x) # 0
      BY <1>2, EdgesAreVotes
    <3>2. Sent(g, h, x) = Cardinality(CountedVoting(h, x))
      BY <1>2, <1>3
    <3>3. IsFiniteSet(CountedVoting(h, x))
      <4>1. CountedVoting(h, x) \subseteq 1..Len(records) /\ IsFiniteSet(1..Len(records))
        BY <1>1, FS_Interval DEF CountedVoting
      <4> QED BY <4>1, FS_Subset
    <3>4. Cardinality(CountedVoting(h, x)) = 0 <=> CountedVoting(h, x) = {}
      BY <3>3, FS_EmptySet
    <3> QED BY <3>1, <3>2, <3>4
  <2>5. LinkedBy(kept) = DOMAIN g.out[h]
    <3> HIDE DEF kept
    <3> QED BY <2>3, <2>4
  <2>6. OutDegree(g, h) = Cardinality(LinkedBy(kept)) /\ OutDegree(g, h) \in Nat \ {0} /\ DOMAIN g.out[h] # {}
    BY <1>2, <1>5, <2>5, DegreeType DEF OutDegree
  <2>7. Degrees % OutDegree(g, h) = 0
    <3> HIDE DEF kept
    <3> QED BY <2>1, <2>2, <2>5, <2>6 DEF AuthorityAssumption
  <2> DEFINE k == OutDegree(g, h)
  <2>8. k \in Nat \ {0} /\ Degrees % k = 0 /\ Degrees \in Nat
    BY <2>6, <2>7 DEF AuthorityAssumption
  <2> HIDE DEF k
  <2>9. \E j \in Nat : Degrees = j * k
    BY <2>8, MultipleOf
  <2> QED BY <2>9 DEF k
<1> QED BY <1>2, <1>4, <1>5 DEF Fair, EvenDegrees, g

\* A host scores the number of hosts with a link that is counted for it.
LEMMA ScoresCounted ==
  ASSUME HostsAssumption, CorpusAssumption, CorpusTypeOK
  PROVE  ScoreIsCounted
<1> DEFINE g == Graph(records, <<>>)
<1>1. AreRecords(records) /\ AreSeeds(<<>>) /\ Len(records) \in Nat /\ DOMAIN records = 1..Len(records)
  BY RecordsAreRecords, SeedsAreSeeds
<1>2. /\ g \in Graphs /\ HostsOf(g) = SeedHosts(<<>>) \cup UNION {Named(records[i]) : i \in DOMAIN records}
      /\ \A a, b : Got(g, a, b) = Cardinality(Voters(records, DOMAIN records, a, b))
  BY <1>1, GraphSays
<1>3. \A a, b : Voters(records, DOMAIN records, a, b) = CountedVoting(a, b)
  BY <1>1, VotingIsVotes
<1> HIDE DEF g
<1>4. ASSUME NEW i \in DOMAIN records
      PROVE  LET host == records[i].final.host
             IN  AuthorityScore(g, host) = Cardinality({from \in HostsOf(g) : CountedVoting(from, HostOf(host)) # {}})
  <2> DEFINE h == HostOf(records[i].final.host)
             S == Entry(g, records[i].final.host)
             F == {from \in HostsOf(g) : CountedVoting(from, h) # {}}
             deg == [x \in S |-> InDegree(g, x)]
  <2>1. S = {x \in HostsOf(g) : x = h}
    BY DEF Entry
  <2>2. AuthorityScore(g, records[i].final.host) = SumOf(deg, S)
    <3> DEFINE P(v) == v = [s \in SUBSET S |-> IF s = {} THEN 0 ELSE InDegree(g, First(s)) + v[s \ {First(s)}]]
               Q(v) == v = [s \in SUBSET S |-> IF s = {} THEN 0 ELSE deg[First(s)] + v[s \ {First(s)}]]
    <3>1. AuthorityScore(g, records[i].final.host) = (CHOOSE v : P(v))[S]
      BY DEF AuthorityScore, AllOf, FoldSet, MapThenFoldSet, First
    <3>2. SumOf(deg, S) = (CHOOSE v : Q(v))[S]
      BY DEF SumOf, SumsOver
    <3>3. ASSUME NEW v PROVE P(v) <=> Q(v)
      <4>1. ASSUME NEW s \in SUBSET S, s # {} PROVE deg[First(s)] = InDegree(g, First(s))
        <5>1. First(s) \in S
          BY <4>1 DEF First
        <5> QED BY <5>1
      <4> HIDE DEF deg, S
      <4> QED BY <4>1
    <3> HIDE DEF P, Q
    <3>4. (CHOOSE v : P(v)) = (CHOOSE v : Q(v))
      BY <3>3
    <3> QED BY <3>1, <3>2, <3>4
  <2>3. CASE h = <<>>
    <3>1. h \notin HostsOf(g)
      <4>1. \A j \in DOMAIN records : <<>> \notin Named(records[j])
        BY DEF Named, Targets, IsVote
      <4>2. <<>> \notin SeedHosts(<<>>)
        BY DEF SeedHosts
      <4> QED BY <1>2, <2>3, <4>1, <4>2
    <3>2. S = {}
      BY <2>1, <3>1
    <3>3. F = {}
      BY <2>3 DEF CountedVoting, IsCounted
    <3>4. SumOf(deg, S) = 0 /\ Cardinality(F) = 0
      <4>1. IsFiniteSet(S) /\ \A x \in S : deg[x] \in Int
        BY <3>2, FS_EmptySet
      <4> HIDE DEF deg, S, F
      <4>2. SumOf(deg, {}) = 0
        BY <4>1, SumLaws
      <4> QED BY <3>2, <3>3, <4>2, FS_EmptySet
    <3> QED BY <2>2, <3>4
  <2>4. CASE h # <<>>
    <3>1. h \in HostsOf(g)
      BY <1>2, <2>4 DEF Named
    <3>2. S = {h}
      BY <2>1, <3>1
    <3> DEFINE D == DOMAIN g.incoming[h]
    <3>3. IsFiniteSet(D) /\ D \subseteq HostsOf(g)
      BY <1>2, <3>1, AtHost
    <3>4. D = F
      <4>1. ASSUME NEW x PROVE x \in D <=> CountedVoting(x, h) # {}
        <5>1. x \in D <=> Got(g, x, h) # 0
          BY <1>2, <3>1, EdgesAreVotes
        <5>2. Got(g, x, h) = Cardinality(CountedVoting(x, h))
          BY <1>2, <1>3
        <5>3. IsFiniteSet(CountedVoting(x, h))
          <6>1. CountedVoting(x, h) \subseteq 1..Len(records) /\ IsFiniteSet(1..Len(records))
            BY <1>1, FS_Interval DEF CountedVoting
          <6> QED BY <6>1, FS_Subset
        <5>4. Cardinality(CountedVoting(x, h)) = 0 <=> CountedVoting(x, h) = {}
          BY <5>3, FS_EmptySet
        <5> QED BY <5>1, <5>2, <5>4
      <4> HIDE DEF D, h
      <4> QED BY <3>3, <4>1
    <3>5. Cardinality(D) \in Nat /\ InDegree(g, h) = Cardinality(D)
      BY <3>3, FS_CardinalityType DEF InDegree
    <3>6. SumOf(deg, S) = 1 * Cardinality(D)
      <4>1. deg[h] = Cardinality(D)
        BY <3>2, <3>5
      <4> HIDE DEF deg, S, D, h
      <4>2. IsFiniteSet({h}) /\ Cardinality({h}) = 1
        BY FS_Singleton
      <4>3. Cardinality(D) \in Int /\ \A x \in S : deg[x] = Cardinality(D)
        BY <3>2, <3>5, <4>1
      <4>4. SumOf(deg, S) = Cardinality(S) * Cardinality(D)
        BY <3>2, <4>2, <4>3, SumConst
      <4> QED BY <3>2, <4>2, <4>4
    <3> HIDE DEF deg, S, D, F
    <3>7. SumOf(deg, S) = Cardinality(F)
      BY <3>4, <3>5, <3>6
    <3> QED BY <2>2, <3>7 DEF F
  <2> QED BY <2>3, <2>4
<1> QED BY <1>4 DEF ScoreIsCounted, g

\* It is the number of those of other sites, if pages are called by their own.
LEMMA ScoresEarned ==
  ASSUME HostsAssumption, CorpusAssumption, CorpusTypeOK
  PROVE  ScoreIsVoters
<1>1. ASSUME OwnNames PROVE \A from, to : CountedVoting(from, to) = Voting(from, to)
  BY <1>1, NamesMatter
<1>2. ScoreIsCounted
  BY ScoresCounted
<1> HIDE DEF CountedVoting, Voting, OwnNames
<1> QED BY <1>1, <1>2 DEF ScoreIsVoters, ScoreIsCounted

\* What is promised of trust, of any seeds.
LEMMA TrustEarned ==
  ASSUME HostsAssumption, CorpusAssumption, AuthorityAssumption, CorpusTypeOK
  PROVE  TrustIsShared /\ TrustFollowsLinks /\ TrustSettles
<1>0. Rounds \in Nat \ {0}
  BY DEF AuthorityAssumption
<1>1. ASSUME NEW seeds \in Seeds PROVE Fair(Graph(records, seeds))
  BY GraphIsFair, SeedsAreSeeds
<1>2. ASSUME NEW seeds \in Seeds, NEW n \in 0..Rounds, HostsOf(Graph(records, seeds)) # {}
      PROVE  AllOf(HostsOf(Graph(records, seeds)), LAMBDA h : Trust(Graph(records, seeds), n)[h]) = Unit(Graph(records, seeds))
  <2> DEFINE g == Graph(records, seeds)
             t == Trust(g, n)
             H == HostsOf(g)
  <2>1. Fair(g) /\ H # {}
    BY <1>1, <1>2
  <2> HIDE DEF g
  <2>2. SumOf(t, H) = Unit(g)
    BY <2>1, SharedWhen
  <2>3. AllOf(H, LAMBDA h : t[h]) = SumOf(t, H)
    <3> HIDE DEF t, H
    <3> QED BY AllOfIsSum
  <2>4. AllOf(HostsOf(g), LAMBDA h : Trust(g, n)[h]) = Unit(g)
    BY <2>2, <2>3
  <2> QED BY <2>4 DEF g
<1>3. TrustIsShared
  BY <1>2 DEF TrustIsShared
<1>4. ASSUME NEW seeds \in Seeds, NEW h \in HostsOf(Graph(records, seeds))
      PROVE  Trust(Graph(records, seeds), Rounds)[h] > 0 <=> h \in Reached(Graph(records, seeds), Rounds)
  <2> DEFINE g == Graph(records, seeds)
  <2>1. Fair(g) /\ HostsOf(g) # {} /\ h \in HostsOf(g)
    BY <1>1, <1>4
  <2>2. Rounds \in 0..Rounds
    BY <1>0
  <2> HIDE DEF g
  <2>3. Trust(g, Rounds)[h] > 0 <=> h \in Reached(g, Rounds)
    BY <2>1, <2>2, FollowsWhen
  <2> QED BY <2>3 DEF g
<1>5. TrustFollowsLinks
  BY <1>4 DEF TrustFollowsLinks
<1>6. ASSUME NEW seeds \in Seeds
      PROVE  LET g == Graph(records, seeds) IN
             /\ Residual(g, Trust(g, 1 - 1), Trust(g, 1)) <= Unit(g)
             /\ \A n \in 2..Rounds : 2 * Residual(g, Trust(g, n - 1), Trust(g, n)) <= Residual(g, Trust(g, (n - 1) - 1), Trust(g, n - 1))
  <2> DEFINE g == Graph(records, seeds)
  <2>0. Fair(g)
    BY <1>1
  <2> HIDE DEF g
  <2>1. CASE HostsOf(g) # {}
    <3>1. 1 - 1 = 0 /\ \A n \in 2..Rounds : (n - 1) - 1 = n - 2
      BY <1>0
    <3>2. /\ Residual(g, Trust(g, 0), Trust(g, 1)) <= Unit(g)
          /\ \A n \in 2..Rounds : 2 * Residual(g, Trust(g, n - 1), Trust(g, n)) <= Residual(g, Trust(g, n - 2), Trust(g, n - 1))
      BY <2>0, <2>1, SettlesWhen
    <3> QED BY <3>1, <3>2 DEF g
  <2>2. CASE HostsOf(g) = {}
    <3>1. ASSUME NEW a, NEW b PROVE Residual(g, a, b) = 0
      <4> DEFINE gap == GapOf(g, a, b)
      <4>1. Residual(g, a, b) = SumOf(gap, {})
        BY <2>2, ResidualIsGap
      <4>2. IsFiniteSet({}) /\ \A x \in {} : gap[x] \in Int
        BY FS_EmptySet
      <4> HIDE DEF gap
      <4>3. SumOf(gap, {}) = 0
        BY <4>2, SumLaws
      <4> QED BY <4>1, <4>3
    <3>2. Unit(g) \in Nat
      BY <2>0, UnitType DEF Fair
    <3> QED BY <3>1, <3>2 DEF g
  <2> QED BY <2>1, <2>2
<1>7. TrustSettles
  BY <1>6 DEF TrustSettles
<1> QED BY <1>3, <1>5, <1>7

-----------------------------------------------------------------------------
(* The crawl as a whole *)

\* A vote is one site's for another's host: if every page is called by a name of
\* the site that served it, both ends of every edge count the pages of one host
\* that vouch for the other, each once.  Every other link is among those dropped,
\* and a page that repeats the links of another of its host changes no trust
\* (graph.rs).
THEOREM VotesAreAlwaysFair == CorpusSpec => []VotesAreFair
<1>1. CorpusTypeOK => VotesAreFair
  BY HostsAssumption, CorpusAssumption, VotesAreFairWhen
<1> QED BY <1>1, CorpusTypes, PTL

\* What a page is called is what sites that vote for it call it, all of it up to
\* the limit, whether they were crawled before it or after it, if every page is
\* called by a name of the site that served it; and what is indexed of it fits
\* (anchors.rs).
THEOREM NamesAreAlwaysOthers == CorpusSpec => []NamesAreOthers
<1>1. CorpusTypeOK => NamesAreOthers
  BY HostsAssumption, CorpusAssumption, NamesAreOthersWhen
<1> QED BY <1>1, CorpusTypes, PTL

\* Authority comes from other sites and from the seeds, by way of links: a host
\* scores the number of hosts of other sites that vouch for it, if every page is
\* called by a name of the site that served it, and trust is
\* neither made nor lost, is held by the hosts that links lead to and by no
\* other, and moves by at most half as much from round to round (authority.rs).
THEOREM AuthorityIsAlwaysEarned == CorpusSpec => []AuthorityIsEarned
<1>1. CorpusTypeOK => AuthorityIsEarned
  BY HostsAssumption, CorpusAssumption, AuthorityAssumption, ScoresEarned, TrustEarned DEF AuthorityIsEarned
<1> QED BY <1>1, CorpusTypes, PTL
=============================================================================
