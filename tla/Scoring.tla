------------------------------- MODULE Scoring -------------------------------
(***************************************************************************)
(* What a document scores for a query (score.rs).  Numbers are in fixed    *)
(* point, Unit to one, rounded down where the code rounds.  A document's   *)
(* counts of each term and its lengths are functions of its fields.        *)
(***************************************************************************)
EXTENDS Integers, SequencesExt

CONSTANTS ScoredFields,   \* fields of a document
          Unit,           \* one
          K1, B,          \* BM25F's saturation, and per field its length normalisation
          FieldWeight,    \* per field
          Average,        \* tokens that a document has of each field
          Documents,      \* in the corpus
          ProximityWeight, AuthorityWeight, QualityWeight,
          Log(_)          \* the logarithm

By(a, b)  == (a * b) \div Unit
Per(a, b) == (a * Unit) \div b

Clamp(a, low, high) == IF a < low THEN low ELSE IF a > high THEN high ELSE a

\* One more than the odds against a term that n documents have.
Odds(n) == Unit + Per((Documents - n) * 2 + 1, n * 2 + 1)

Idf(frequency) == Log(Odds(Clamp(frequency, 0, Documents)))

\* Length normalisation is a share, a field has a length or no statistics, and
\* the unit is fine enough for the odds against the commonest term, for its
\* logarithm and for the bonus of what is near.
ASSUME ScoringAssumption ==
  /\ IsFiniteSet(ScoredFields) /\ Documents \in Nat \ {0}
  /\ K1 \in Nat \ {0} /\ B \in [ScoredFields -> 0..Unit]
  /\ FieldWeight \in [ScoredFields -> Nat] /\ Average \in [ScoredFields -> Nat]
  /\ AuthorityWeight \in Nat /\ QualityWeight \in Nat
  /\ Unit \in Nat /\ Unit > 2 * Documents /\ ProximityWeight \in Nat /\ ProximityWeight > 1
  /\ \A n \in 1..Documents : Odds(n) > Unit => Log(Odds(n)) \in Nat \ {0}

\* Occurrences in a field, fewer the longer it is.
Normalised(field, counts, lengths) ==
  IF Average[field] = 0 THEN counts[field] * Unit
  ELSE (counts[field] * Unit * Unit * Average[field])
         \div ((Unit - B[field]) * Average[field] + B[field] * lengths[field])

PseudoFrequency(counts, lengths) ==
  FoldSet(LAMBDA field, sum : By(FieldWeight[field], Normalised(field, counts, lengths)) + sum,
          0, {field \in ScoredFields : counts[field] # 0})

\* A bug: each field is saturated on its own.
ContributionPerField(frequency, counts, lengths) ==
  FoldLeft(LAMBDA sum, field :
             LET alone  == [f \in ScoredFields |-> IF f = field THEN counts[f] ELSE 0]
                 pseudo == PseudoFrequency(alone, lengths)
             IN  sum + (Idf(frequency) * pseudo) \div (K1 + pseudo),
           0, SetToSeq(ScoredFields))

\* What a term adds: saturated once, over all fields.
Contribution(frequency, counts, lengths) ==
  LET pseudo == PseudoFrequency(counts, lengths)
  IN  (Idf(frequency) * pseudo) \div (K1 + pseudo)

ProximityBonus(span, terms) ==
  IF terms < 2 THEN 0
  ELSE (ProximityWeight * terms) \div (1 + Clamp(span - (terms - 1), 0, span))

\* Much text, few of its words in links, and few scripts.
QualityFactor(quality) ==
  LET text    == 2 * Clamp(quality.textRatio, 0, Unit \div 2)
      links   == Unit - Clamp(quality.linkDensity, 0, Unit)
      scripts == (Unit * 15) \div (15 + quality.scripts)
  IN  By(By(text, links), scripts)

\* The authority of a host, if there is a table.
Standing(authority) == IF authority = {} THEN 0 ELSE Clamp(CHOOSE a \in authority : TRUE, 0, Unit)

\* The first phase, over every candidate.
ScoreWithoutProximity(frequencies, counts, lengths, quality, authority) ==
  FoldLeft(LAMBDA sum, t :
             LET pseudo == PseudoFrequency(counts[t], lengths)
             IN  sum + (Idf(frequencies[t]) * pseudo) \div (K1 + pseudo),
           0, [t \in DOMAIN counts |-> t])
    + By(AuthorityWeight, Standing(authority)) + By(QualityWeight, QualityFactor(quality))

\* The second, over those that are left; a span where there is one.
Explain(frequencies, counts, lengths, quality, spans, authority) ==
  LET terms == [t \in DOMAIN counts |-> Contribution(frequencies[t], counts[t], lengths)]
      text  == FoldLeft(LAMBDA sum, n : sum + n, 0, terms)
      near  == IF spans = {} THEN 0 ELSE ProximityBonus(CHOOSE span \in spans : TRUE, Len(terms))
      standing == By(AuthorityWeight, Standing(authority))
      fine     == By(QualityWeight, QualityFactor(quality))
  IN  [total |-> text + near + standing + fine, text |-> text, proximity |-> near, authority |-> standing, quality |-> fine]
=============================================================================
