---------------------------- MODULE MCLazyVault ----------------------------
(* Instances of LazyVault for TLC. *)
EXTENDS LazyVault, TLC

Symmetric == Permutations(Ids) \cup Permutations(Clients)
=============================================================================
