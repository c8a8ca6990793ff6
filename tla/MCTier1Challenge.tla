-------------------------- MODULE MCTier1Challenge --------------------------
(***************************************************************************)
(* Tier1Challenge for TLC.  Domains and requests are interchangeable.      *)
(***************************************************************************)
EXTENDS Tier1Challenge, TLC

Symmetry == Permutations(Domains) \cup Permutations(Requests)
=============================================================================
