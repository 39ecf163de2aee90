----------------------------- MODULE MCKillSwitch -----------------------------
(* Instances of KillSwitch for TLC. *)
EXTENDS KillSwitch

CONSTANTS old, new, o1, o2, o3
===============================================================================
