------------------------- MODULE MCServerLifecycle -------------------------
(* Small instances of ServerLifecycle for TLC. *)
EXTENDS ServerLifecycle, TLC

CONSTANTS c1, c2
=============================================================================
