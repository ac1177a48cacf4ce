--------------------------- MODULE MCConnections ---------------------------
(* The instance of Connections for TLC: two attempts of one user, one slot.   *)
EXTENDS Connections, TLC

CONSTANTS u1, s1

Owners == s1 :> u1
Countries == u1 :> "DE"
Ceilings == [c \in {"DE"} |-> 1]
============================================================================
