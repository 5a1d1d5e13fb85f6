------------------------------ MODULE MCCatalog ------------------------------
(* Values for checking Catalog with TLC. *)
EXTENDS Catalog, TLC

Symmetry == Permutations(Calls)

=============================================================================
