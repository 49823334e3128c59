----------------------------- MODULE MCOutbox -------------------------------
(* Instances of Outbox for TLC.                                            *)
EXTENDS OutboxInvariant

CONSTANTS o1, o2, c1, i1, i2
=============================================================================
