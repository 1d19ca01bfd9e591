----------------------------- MODULE MCHandler ------------------------------
(* TLC instances of JITHandler: AMX addresses are alike. *)
EXTENDS JITHandler, TLC

Symmetry == Permutations(Amxs)
=============================================================================
