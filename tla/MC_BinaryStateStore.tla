------------------------- MODULE MC_BinaryStateStore -------------------------
(* Instances of BinaryStateStore for TLC. *)
EXTENDS BinaryStateStore

CONSTANTS a, b, c
=============================================================================
