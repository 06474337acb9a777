------------------------ MODULE MCIdempotencyMemory ------------------------
(* Small instances of IdempotencyMemory for TLC. *)
EXTENDS IdempotencyMemory, TLC

CONSTANTS r1, r2, r3
=============================================================================
