--------------------------- MODULE MCDirectCalls ---------------------------
(* Instances of DirectCalls for TLC. *)
EXTENDS DirectCalls

CONSTANTS u1, u2

Dispute12 == {<<u1, u2>>}
============================================================================
