---------------------------- MODULE MCRateLimit ----------------------------
(* RateLimit for TLC: one caller, one bucket the administrator can change  *)
(* and one it cannot.                                                      *)
EXTENDS RateLimit, TLC

MCLimits  == {[max |-> 1, window |-> 2], [max |-> 2, window |-> 2], [max |-> 1, window |-> 1]}
MCDefault == [b \in Buckets |-> [max |-> 2, window |-> 2]]
Symmetry  == Permutations(Requests)
=============================================================================
