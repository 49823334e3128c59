---------------------------- MODULE MCDownloads -----------------------------
(* Instances of Downloads for TLC: the lines are of one order.             *)
EXTENDS Downloads, TLC

CONSTANTS o1, l1

OneOrder == [l \in Line |-> o1]

Symmetry == Permutations(Link) \cup Permutations(Visitor) \cup Permutations(Confirmer)
=============================================================================
