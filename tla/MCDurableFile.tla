--------------------------- MODULE MCDurableFile ---------------------------
(* Three documents: the one live, the one in the backup and the one being  *)
(* written can all differ.                                                  *)
EXTENDS DurableFile
============================================================================
