---------------------------- MODULE AtomicCell ----------------------------
(***************************************************************************)
(* What a writer of a small configuration or state document is promised by *)
(* cpynodus_ii/core/filesystem.py: a request to replace the document, or   *)
(* to clear it, takes effect at one instant or not at all.  A reader sees  *)
(* the value before that instant or the value after it, never a mixture    *)
(* and never nothing; a request that returned without an error has taken   *)
(* effect and no later reset undoes it.                                    *)
(***************************************************************************)
CONSTANTS
  Docs,      \* the documents that can be stored
  NoDoc,     \* what a reader sees when there is no document
  NoRequest  \* no write or clear is in progress

VARIABLES
  val,       \* the document a reader sees now
  req,       \* the requested value: a document, NoDoc for a clear, or NoRequest
  ret        \* how the last request ended: "none", "ok", "error" or "reset"

vars == <<val, req, ret>>

Init ==
  /\ val \in Docs \cup {NoDoc}
  /\ req = NoRequest
  /\ ret = "none"

Request(r) ==
  /\ req = NoRequest
  /\ req' = r
  /\ ret' = "none"
  /\ UNCHANGED val

(* The instant at which the request becomes visible. *)
TakeEffect ==
  /\ req # NoRequest
  /\ val' = req
  /\ UNCHANGED <<req, ret>>

(* Success may only be reported for a request that has taken effect. *)
ReturnOk ==
  /\ req # NoRequest
  /\ val = req
  /\ req' = NoRequest
  /\ ret' = "ok"
  /\ UNCHANGED val

(* An error says nothing about whether the request took effect. *)
ReturnError ==
  /\ req # NoRequest
  /\ req' = NoRequest
  /\ ret' = "error"
  /\ UNCHANGED val

Reset ==
  /\ req' = NoRequest
  /\ ret' = "reset"
  /\ UNCHANGED val

Next ==
  \/ \E r \in Docs \cup {NoDoc} : Request(r)
  \/ TakeEffect
  \/ ReturnOk
  \/ ReturnError
  \/ Reset

Spec == Init /\ [][Next]_vars
===========================================================================
