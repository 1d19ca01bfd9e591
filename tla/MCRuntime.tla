----------------------------- MODULE MCRuntime ------------------------------
(* TLC instances of AMXRuntime: call sites and data values are alike. *)
EXTENDS AMXRuntime, TLC

Symmetry == Permutations(Sites) \cup Permutations(Values)
=============================================================================
