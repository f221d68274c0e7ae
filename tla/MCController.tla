---------------------------- MODULE MCController ----------------------------
(* An instance of Controller for TLC. *)
EXTENDS Controller, TLC

Symmetric == Permutations(Nodes) \cup Permutations(Paths) \cup Permutations(Workers)
=============================================================================
