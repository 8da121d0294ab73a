------------------------- MODULE MCServerLifecycle -------------------------
(* An instance of ServerLifecycle for TLC. *)
EXTENDS ServerLifecycle

CONSTANTS c1, c2
=============================================================================
