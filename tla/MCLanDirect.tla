---------------------------- MODULE MCLanDirect ----------------------------
(* LanDirect on a small instance: one subdomain, whose handlers contend.   *)
(* Connections and addresses are interchangeable where no liveness         *)
(* property is checked.                                                    *)
EXTENDS LanDirect, TLC

Symmetry == Permutations(Conn) \cup Permutations(IP)
=============================================================================
