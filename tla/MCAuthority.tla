----------------------------- MODULE MCAuthority -----------------------------
(* Small instances of Authority for TLC. *)
EXTENDS Authority, TLC

CONSTANTS ann, bob

OneAdmin == (ann :> "Admin") @@ (bob :> None)

RequestSymmetry == Permutations(Requests)
=============================================================================
