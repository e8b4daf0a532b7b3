---------------------------- MODULE MCGovernance ----------------------------
(***************************************************************************)
(* Small instances of Governance.                                          *)
(***************************************************************************)
EXTENDS Governance, TLC

CONSTANTS u1, u2, i1, i2, q1, q2

TwoUsers == {u1, u2}
OneInvitation == {i1}
TwoInvitations == {i1, i2}
OneRequest == {q1}
TwoRequests == {q1, q2}

Symmetry ==
  Permutations(Users) \cup Permutations(Invitations) \cup Permutations(Requests)
=============================================================================
