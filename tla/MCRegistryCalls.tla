-------------------------- MODULE MCRegistryCalls --------------------------
(* RegistryCalls for TLC: the adapters are not told apart.                 *)
EXTENDS RegistryCalls, TLC

Symmetry == Permutations(Adapters)
=============================================================================
