------------------------- MODULE MCBlockfileBackend -------------------------
(* Instances of BlockfileBackend for TLC. *)
EXTENDS BlockfileBackend

BackendSymmetry == Permutations(Keys)
=============================================================================
