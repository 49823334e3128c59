----------------------------- MODULE MCSessions -----------------------------
(* Instances of Sessions for TLC: two tabs share a device, another is alone. *)
EXTENDS Sessions, TLC

CONSTANTS d1, d2, r1, r2, r3

Owner == [r \in Tab |-> IF r = r3 THEN d2 ELSE d1]

Symmetry == Permutations(Token) \cup Permutations({r1, r2})
=============================================================================
