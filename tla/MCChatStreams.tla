---------------------------- MODULE MCChatStreams ----------------------------
(* Instances of ChatStreams for TLC.                                       *)
EXTENDS ChatStreams, TLC

CONSTANTS q1, q2, c1, t1, t2

OneRequest      == {q1}
TwoRequests     == {q1, q2}
OneConversation == {c1}
TwoTools        == {t1, t2}
OneTool         == {t1}
Symmetry        == Permutations(Requests)
=============================================================================
