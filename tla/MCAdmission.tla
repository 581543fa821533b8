----------------------------- MODULE MCAdmission -----------------------------
(***************************************************************************)
(* Model-checking instances of Admission: the first candidate has two tabs *)
(* open, the second one.                                                   *)
(***************************************************************************)
EXTENDS Admission, TLC

CONSTANTS c1, c2, t1, t2, t3

\* The first candidate has two tabs, the second one.
TwoTabsAndOne == [t \in {t1, t2, t3} |-> IF t = t3 THEN c2 ELSE c1]

OneTabEach == [t \in {t1, t3} |-> IF t = t3 THEN c2 ELSE c1]

TabSymmetry == Permutations({t1, t2})
=============================================================================
