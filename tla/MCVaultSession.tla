--------------------------- MODULE MCVaultSession ---------------------------
(* An instance of VaultSession for TLC: vaults of one base name, and so with *)
(* one plain folder, each with one file of two; callers are alike.          *)
EXTENDS VaultSession, TLC

OneFolder == [v \in Vaults |-> CHOOSE n \in Folders : TRUE]
OneStored == [v \in Vaults |-> [f \in Files |-> IF f = "f" THEN "c0" ELSE Absent]]
Alike     == Permutations(Callers)
=============================================================================
