--------------------------- MODULE MCApplications ---------------------------
(* Instances of Applications for TLC.                                      *)
EXTENDS Applications, TLC

CONSTANTS q1, q2, k1, k2, c1, c2

OneRequest   == {q1}
TwoRequests  == {q1, q2}
OneBase      == {k1}
TwoBases     == {k1, k2}
TwoContents  == {c1, c2}

Symmetry == Permutations(Requests) \cup Permutations(KnowledgeBases)
=============================================================================
