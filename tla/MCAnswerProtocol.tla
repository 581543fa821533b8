--------------------------- MODULE MCAnswerProtocol ---------------------------
(* Instances of AnswerProtocol for TLC. *)
EXTENDS AnswerProtocol, TLC

\* Tabs and answer values are interchangeable.
Symmetry == Permutations(Tabs) \cup Permutations(Answers)
=============================================================================
