----------------------------- MODULE MCRetention -----------------------------
(* A small instance of RetentionHelper.                                    *)
EXTENDS RetentionHelper, TLC

Symmetry ==
  Permutations(Files \ Links) \cup Permutations(Quarantines) \cup Permutations(Purges)
=============================================================================
