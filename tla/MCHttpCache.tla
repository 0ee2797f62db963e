---------------------------- MODULE MCHttpCache ----------------------------
(* Instances of HttpCacheTransaction for TLC. *)
EXTENDS HttpCacheTransaction, TLC

CacheSymmetry == Permutations(Trans)
=============================================================================
