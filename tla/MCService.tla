------------------------------ MODULE MCService ------------------------------
(* Service with two names and two ways to install each.                      *)
EXTENDS Service, TLC

Symmetry == Permutations(Name) \cup Permutations(Setting)
=============================================================================
