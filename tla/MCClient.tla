------------------------------ MODULE MCClient ------------------------------
(* An instance of Client for TLC: two goroutines that send files.  *)
EXTENDS Client

Goroutines == {"a", "b"}
FileBlocks == [c \in Goroutines |-> IF c = "a" THEN 2 ELSE 1]
=============================================================================
