--------------------------- MODULE MC_OfflineQueue ---------------------------
(* Instances of OfflineQueue for TLC. *)
EXTENDS OfflineQueue

CONSTANTS loop, transport, m1, m2, m3
=============================================================================
