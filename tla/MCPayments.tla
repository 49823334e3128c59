---------------------------- MODULE MCPayments -----------------------------
(* Instances of Payments for TLC. *)
EXTENDS Payments, TLC

CONSTANTS p1, p2

Symmetry == Permutations(Pass)
=============================================================================
