--------------------------- MODULE MCTier3Gateway ---------------------------
(***************************************************************************)
(* Tier3Gateway for TLC.  Actions and strangers are interchangeable names. *)
(***************************************************************************)
EXTENDS Tier3Gateway, TLC

Symmetry == Permutations(Actions) \cup Permutations(Strangers) \cup Permutations(Clients)
=============================================================================
