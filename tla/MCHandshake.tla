---------------------------- MODULE MCHandshake ----------------------------
(* Handshake with a few disturbances.                                      *)
EXTENDS Handshake
=============================================================================
