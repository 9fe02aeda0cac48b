-------------------------- MODULE MCIngestionQueue --------------------------
(* Small instances of IngestionQueue for TLC. *)
EXTENDS IngestionQueue, TLC

CONSTANTS s1, e1, l1, l2

(* Claim loops are interchangeable: sound for the runs without liveness. *)
WorkerSymmetry == Permutations({l1, l2})
=============================================================================
