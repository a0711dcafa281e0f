--------------------------- MODULE MCTunnelServer ---------------------------
(* TunnelServer on a small instance; connections are interchangeable.      *)
EXTENDS TunnelServer, TLC

Symmetry == Permutations(Conn)
=============================================================================
