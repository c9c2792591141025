--------------------------- MODULE MCLogTransfer ---------------------------
(* Two runs of the script for one log that is at its limit after one append. *)
EXTENDS LogTransfer, TLC
============================================================================
