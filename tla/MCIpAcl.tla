------------------------------ MODULE MCIpAcl ------------------------------
(* IpAcl on a small instance: an address, a network around it, a visitor    *)
(* that the network covers under an address with a zone, a tunnel with a    *)
(* name of its own and one called "global".                                 *)
EXTENDS IpAcl

CONSTANTS one, net, here, near, zoned

EntryCovers == [e \in Entry |-> IF e = one THEN {here} ELSE {here, near, zoned}]
=============================================================================
