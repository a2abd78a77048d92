------------------------------ MODULE MCFeeds ------------------------------
(* Instances of Feeds for TLC *)
EXTENDS Feeds, TLC

Symmetry == Permutations(Names)
=============================================================================
