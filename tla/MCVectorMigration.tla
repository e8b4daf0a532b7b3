-------------------------- MODULE MCVectorMigration --------------------------
(* Small instances of VectorMigration for TLC.                             *)
EXTENDS VectorMigration, TLC

CONSTANTS m1, m2, w1, w2, c1

OneRun == {m1}
TwoRuns == {m1, m2}
TwoWorkers == {w1, w2}
OneClient == {c1}

Three == 1..3
Two == 1..2
OneAndThree == {1, 3}
First == {1}
None == {}

AllFaults == {"crash", "error", "slow"}
QuickFaults == {"crash", "error"}
SlowBatches == {"slow"}

Symmetry == Permutations(Workers) \cup Permutations(Clients) \cup Permutations(Runs)

=============================================================================
