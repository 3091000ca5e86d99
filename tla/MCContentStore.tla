--------------------------- MODULE MCContentStore ---------------------------
(* Instances of ContentStore for TLC. *)
EXTENDS ContentStore, TLC

Symmetry == Permutations(Puts) \cup Permutations(Contents)
=============================================================================
