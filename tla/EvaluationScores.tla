-------------------------- MODULE EvaluationScores --------------------------
(***************************************************************************)
(* How a ranking is scored against the evidence of a case                  *)
(* (stage11_evaluation.py): a passage may match several pieces of evidence *)
(* and a piece of evidence several passages, but each is gained once.      *)
(*                                                                         *)
(* A passage is a set of blocks, and evidence blocks with a relevance; the *)
(* document they are of is part of the block.  Reciprocal logarithms are   *)
(* Discount, decreasing integers.  Answers and their citations are not     *)
(* modelled.                                                               *)
(***************************************************************************)
EXTENDS Integers, Sequences, FiniteSets, SequencesExt, FiniteSetsExt

CONSTANTS
  Blocks,
  MaxEvidence, MaxRanked,   \* bounds on a case and, as 10 in the code, on a ranking
  HitK, RecallK,            \* 3 and 5
  Discount                  \* 1 / log2(rank + 1), by rank

(* What the theorems assume of the parameters: later ranks count less, and *)
(* any rank counts.                                                        *)
ConstantsAssumption ==
  /\ IsFiniteSet(Blocks)
  /\ MaxEvidence \in Nat /\ MaxRanked \in Nat /\ HitK \in Nat \ {0} /\ RecallK \in Nat
  /\ HitK <= RecallK
  /\ Discount \in [1..MaxRanked -> Nat \ {0}]
  /\ \A j, k \in 1..MaxRanked : j < k => Discount[k] < Discount[j]

VARIABLES
  evidence,   \* the gold evidence of the case: blocks and relevance
  ranked,     \* the candidates, the best first
  score       \* the metrics, or NoScore

vars == <<evidence, ranked, score>>

NoScore == [scored |-> FALSE]
Evidence == [blocks : SUBSET Blocks \ {{}}, relevance : 0..2]

Init == evidence = <<>> /\ ranked = <<>> /\ score = NoScore

(* _parse_evidence: nothing twice, and something of relevance.             *)
LoadCase ==
  /\ evidence = <<>>
  /\ \E n \in 1..MaxEvidence : evidence' \in [1..n -> Evidence]
  /\ \A m, n \in DOMAIN evidence' : evidence'[m].blocks = evidence'[n].blocks => m = n
  /\ \E m \in DOMAIN evidence' : evidence'[m].relevance > 0
  /\ UNCHANGED <<ranked, score>>

Retrieve ==
  /\ evidence # <<>> /\ ranked = <<>>
  /\ \E n \in 1..MaxRanked : ranked' \in [1..n -> SUBSET Blocks]
  /\ UNCHANGED <<evidence, score>>

-----------------------------------------------------------------------------
Relevant == {m \in DOMAIN evidence : evidence[m].relevance > 0}

(* _matching_evidence.                                                     *)
Matches(rank) == {m \in Relevant : evidence[m].blocks \cap ranked[rank] # {}}

Best(ms) == Max({evidence[m].relevance : m \in ms} \cup {0})

\* Fault: evidence is gained again by every passage that matches it.
GainsAgain == [rank \in DOMAIN ranked |-> Best(Matches(rank))]

(* The evidence that no earlier passage has claimed counts, at its best.   *)
Gains ==
  [rank \in DOMAIN ranked |-> Best(Matches(rank) \ UNION {Matches(k) : k \in 1..(rank - 1)})]

(* The relevant evidence, the most relevant first.                         *)
ByRelevance ==
  CHOOSE s \in [1..Cardinality(Relevant) -> Relevant] :
    \A j, k \in 1..Cardinality(Relevant) :
      j < k => s[j] # s[k] /\ evidence[s[j]].relevance >= evidence[s[k]].relevance

IdealGrades ==
  [k \in 1..Min({Cardinality(Relevant), MaxRanked}) |-> evidence[ByRelevance[k]].relevance]

Worth(grade) == 2 ^ grade - 1

DiscountedSum(grades) ==
  LET sum[n \in 0..Len(grades)] ==
        IF n = 0 THEN 0 ELSE sum[n - 1] + Worth(grades[n]) * Discount[n]
  IN sum[Len(grades)]

Hit(k) == \E rank \in DOMAIN ranked : rank <= k /\ Matches(rank) # {}

Found(k) == UNION {Matches(rank) : rank \in {j \in DOMAIN ranked : j <= k}}

(* The rank of the first match, of which mrr_at_10 is the reciprocal.      *)
FirstRelevant ==
  IF Hit(MaxRanked) THEN Min({rank \in DOMAIN ranked : Matches(rank) # {}}) ELSE 0

(* evaluate_stable_ranking.                                                *)
Score ==
  /\ ranked # <<>> /\ score = NoScore
  /\ score' = [scored |-> TRUE, hit1 |-> Hit(1), hit3 |-> Hit(HitK),
               recall |-> Cardinality(Found(RecallK)), total |-> Cardinality(Relevant),
               first |-> FirstRelevant, matched |-> Found(MaxRanked),
               dcg |-> DiscountedSum(Gains), ideal |-> DiscountedSum(IdealGrades)]
  /\ UNCHANGED <<evidence, ranked>>

Next == LoadCase \/ Retrieve \/ Score

Spec == Init /\ [][Next]_vars

-----------------------------------------------------------------------------
(* Whatever passages overlap with whatever evidence, no ranking is scored  *)
(* above the ideal one, and none as ideal that leaves evidence out of the  *)
(* ranks that the ideal one would fill with it.                            *)
NdcgIsAShare ==
  score.scored =>
    /\ score.dcg <= score.ideal
    /\ score.dcg = score.ideal =>
         \A k \in DOMAIN IdealGrades : k <= Len(ranked) /\ Gains[k] = IdealGrades[k]

(* The metrics of one ranking do not contradict each other: the hits and   *)
(* the recall of its head follow from the first match, and there is a gain *)
(* exactly if there is a match, whose evidence is in the report.           *)
MetricsAgree ==
  NdcgIsAShare /\ (score.scored =>
    /\ score.recall <= Cardinality(score.matched) /\ Cardinality(score.matched) <= score.total
    /\ score.hit1 <=> score.first = 1
    /\ score.hit3 <=> score.first \in 1..HitK
    /\ score.recall > 0 <=> score.first \in 1..RecallK
    /\ score.dcg > 0 <=> score.first > 0
    /\ score.matched = {} <=> score.first = 0)

-----------------------------------------------------------------------------
(* The inductive invariant: only a loaded case is ranked, only a ranked one*)
(* is scored.                                                              *)
IInv ==
  /\ \/ evidence = <<>> /\ ranked = <<>>
     \/ /\ \E n \in 1..MaxEvidence : evidence \in [1..n -> Evidence]
        /\ \A m, n \in DOMAIN evidence : evidence[m].blocks = evidence[n].blocks => m = n
        /\ Relevant # {}
  /\ ranked = <<>> \/ \E n \in 1..MaxRanked : ranked \in [1..n -> SUBSET Blocks]
  /\ score = NoScore \/ (score.scored /\ ranked # <<>>)
  /\ MetricsAgree
=============================================================================
