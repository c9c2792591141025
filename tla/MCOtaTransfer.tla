--------------------------- MODULE MCOtaTransfer ---------------------------
(* A file of a few bytes in chunks that do not divide it. *)
EXTENDS OtaTransfer
============================================================================
