------------------------------- MODULE MCMsgQ -------------------------------
(* Instances of MsgQ for TLC *)
EXTENDS MsgQ, TLC

Symmetry == Permutations(Peers)
=============================================================================
