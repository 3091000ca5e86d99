---------------------------- MODULE MCCatalog ----------------------------
(* Instances of Catalog for TLC. *)
EXTENDS Catalog, TLC

Symmetric == Permutations(Requests) \cup Permutations(Projects)
                 \cup Permutations(Names)
=============================================================================
