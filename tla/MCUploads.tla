----------------------------- MODULE MCUploads -----------------------------
(* An instance of Uploads for TLC: a file of two chunks, and an empty one. *)
EXTENDS Uploads

TheFiles   == {"f", "g"}
Goroutines == TheFiles \cup {"walk"}
NoBlocks   == [c \in Goroutines |-> 0]
FileChunks == [f \in TheFiles |-> IF f = "f" THEN 2 ELSE 0]
=============================================================================
