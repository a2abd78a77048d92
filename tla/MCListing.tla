----------------------------- MODULE MCListing -----------------------------
(* Instances of Listing for TLC *)
EXTENDS Listing
=============================================================================
