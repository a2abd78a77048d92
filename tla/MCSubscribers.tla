--------------------------- MODULE MCSubscribers ---------------------------
(* Instances of Subscribers for TLC *)
EXTENDS Subscribers, TLC

Symmetry == Permutations(Users \ {Owner}) \cup Permutations(Nodes)
=============================================================================
