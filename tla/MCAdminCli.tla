----------------------------- MODULE MCAdminCli -----------------------------
(* AdminCli with two users of the same name; one has a passkey.             *)
EXTENDS AdminCli, TLC

CONSTANTS u1, u2, k1, alice
MCNameOf == [u \in User |-> alice]
MCOwnerOf == k1 :> u1
Symmetry == Permutations(Cli)
=============================================================================
