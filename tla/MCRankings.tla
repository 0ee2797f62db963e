----------------------------- MODULE MCRankings -----------------------------
(* Instances of Rankings for TLC. *)
EXTENDS Rankings, TLC

RankingsSymmetry == Permutations(Nodes) \cup Permutations(Lists)
=============================================================================
