---------------------------- MODULE MCExamRuntime ----------------------------
(***************************************************************************)
(* Model-checking instances of ExamRuntime.  The start requests of a       *)
(* candidate are interchangeable, and so are the graders.                  *)
(***************************************************************************)
EXTENDS ExamRuntime, TLC

Symmetry == Permutations(Tabs) \cup Permutations(Graders)
=============================================================================
