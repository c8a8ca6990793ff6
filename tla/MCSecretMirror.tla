--------------------------- MODULE MCSecretMirror ---------------------------
(***************************************************************************)
(* SecretMirror for TLC: one clientId besides the built-in one.  Calls of  *)
(* one kind are interchangeable names.                                     *)
(***************************************************************************)
EXTENDS SecretMirror, TLC

Symmetry == Permutations(Creators) \cup Permutations(Regenerators)
=============================================================================
