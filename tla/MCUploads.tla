----------------------------- MODULE MCUploads ------------------------------
(* Instances of Uploads for TLC. *)
EXTENDS Uploads, TLC

Symmetry == Permutations(Upload) \cup Permutations(Clerk)
=============================================================================
