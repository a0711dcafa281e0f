------------------------------ MODULE MCAccess ------------------------------
(* Access on a small instance; browsers, admin requests, users and passkeys  *)
(* are interchangeable.                                                      *)
EXTENDS Access, TLC

Symmetry ==
  Permutations(Browser) \cup Permutations(Admin) \cup Permutations(User)
    \cup Permutations(Cred)
=============================================================================
