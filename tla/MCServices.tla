----------------------------- MODULE MCServices -----------------------------
(* A small instance of each part for TLC.                                  *)
EXTENDS Services, TLC

CONSTANTS r1, r2, k1, k2, k3, q1, q2, q3, a1, a2, c1, c2, c3

TwoRequests   == {r1, r2}
ThreeKeys     == {k1, k2, k3}
ThreeRequests == {q1, q2, q3}
TwoClients    == {a1, a2}
ThreeCases    == {c1, c2, c3}
OneDocument   == {c1}
OneEditor     == {q1}
OneNearPair   == {{c1, c2}}
ThreeBlocks   == 1..3

(* Vector score, keyword score, parent and lengths.                        *)
TestPassages ==
  {[vec |-> v, kw |-> k, parent |-> t[1], child |-> t[2], whole |-> t[3]] :
     v \in 0..2, k \in 0..1, t \in {<<0, 1, 1>>, <<1, 1, 4>>, <<1, 3, 4>>}}

Configured(mode, fusion, rerank, top_k, budget) ==
  [mode |-> mode, fusion |-> fusion, rerank |-> rerank, top_k |-> top_k, threshold |-> 1,
   vector_k |-> 2, keyword_k |-> 2, rrf_k |-> 1, rerank_k |-> 2, weight |-> 5,
   budget |-> budget]

TestConfigurations ==
  {Configured("HYBRID", "RRF", TRUE, 1, 12), Configured("HYBRID", "RRF", FALSE, 1, 5),
   Configured("HYBRID", "WEIGHTED", FALSE, 1, 5), Configured("VECTOR", "WEIGHTED", FALSE, 2, 12)}

(* All documents of up to four lines, and longer ones of four kinds.       *)
TestDocuments ==
  (UNION {[1..n -> {"blank", "h1", "h2", "fence", "bar", "rule", "item", "quote", "text"}] :
            n \in 1..4})
    \cup [1..6 -> {"text", "item", "fence", "h1"}]

TestOptions ==
  [strategy : {"PARENT"}, parent : {4, 9}, target : {2, 3}, overlap : 0..1, preserve : BOOLEAN]
    \cup [strategy : {"LEGACY"}, parent : {4}, target : {4}, overlap : {1}, preserve : {TRUE}]

Logarithms == <<100, 63, 50>>

Symmetry == Permutations(TwoRequests) \cup Permutations(ThreeKeys)
=============================================================================
