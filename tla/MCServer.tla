------------------------------ MODULE MCServer ------------------------------
(* Constants and symmetry for the model checking of Server. *)
EXTENDS Server, TLC

PoolSymmetry == Permutations(Workers) \cup Permutations(Clients)
=============================================================================
