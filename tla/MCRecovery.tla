----------------------------- MODULE MCRecovery ------------------------------
(* A small instance of RepairViews for TLC. *)
EXTENDS RepairViews

CONSTANTS a, b

\* Only a watchdog on both devices, or a shell that reacts on the joiner's.
AtMostJoiner == {{}, {Joiner}}
=============================================================================
