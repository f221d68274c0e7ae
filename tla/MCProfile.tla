----------------------------- MODULE MCProfile -----------------------------
(* An instance of Profile for TLC. *)
EXTENDS Profile, TLC

Symmetric == Permutations(Servers) \cup Permutations(Procs)
=============================================================================
