----------------------------- MODULE MCCatalog ------------------------------
(***************************************************************************)
(* The catalogue for TLC: one product, so that all requests meet on it.    *)
(***************************************************************************)
EXTENDS Catalog, TLC

CONSTANT p1

OneProduct == [v \in Variant |-> p1]

Symmetry == Permutations(Clerk) \cup Permutations(File) \cup Permutations(Variant)
=============================================================================
