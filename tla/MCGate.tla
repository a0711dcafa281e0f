------------------------------- MODULE MCGate -------------------------------
(* Gate with one visitor, on the network of the second of two connections.  *)
EXTENDS Gate

CONSTANTS c1, c2, v1, u1, u2, i1
MCUserOf == [v \in Visitor |-> u1]
MCIpOf == [v \in Visitor |-> i1]
MCHomeOf == [c \in Conn |-> IF c = c2 THEN i1 ELSE None]
=============================================================================
