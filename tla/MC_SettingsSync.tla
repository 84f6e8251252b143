--------------------------- MODULE MC_SettingsSync ---------------------------
(* Instances of SettingsSync for TLC. *)
EXTENDS SettingsSync

CONSTANTS m1, r1
=============================================================================
