------------------------------ MODULE MCStaging ------------------------------
(* A small instance of MediaStaging.                                       *)
EXTENDS MediaStaging, TLC

Symmetry == Permutations(Uploads) \cup Permutations(Suffixes)
=============================================================================
