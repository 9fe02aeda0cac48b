--------------------------- MODULE MCCustomIngest ---------------------------
(* Instances of CustomIngest: two contents that share a chunk. *)
EXTENDS CustomIngest

CONSTANTS a, b, x, y, w1, w2

MCChunksOf == [e \in Entries |-> CASE e = a -> {x} [] e = b -> {x, y} [] OTHER -> {}]
=============================================================================
