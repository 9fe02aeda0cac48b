-------------------------- MODULE MCSessionDeletion --------------------------
(* Small instances of SessionDeletion for TLC. *)
EXTENDS SessionDeletion

CONSTANTS k1, k2, w1, w2, r1, r2

=============================================================================
