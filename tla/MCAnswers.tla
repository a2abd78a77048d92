----------------------------- MODULE MCAnswers -----------------------------
(* Instances of Answers for TLC *)
EXTENDS Answers
=============================================================================
