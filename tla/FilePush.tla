------------------------------ MODULE FilePush ------------------------------
(***************************************************************************)
(* What pushing one file promises the rest of the update: the staged copy  *)
(* may be anything until the client has its answer, an accepted file is    *)
(* whole and is not touched again, and a failed one is never committed.    *)
(***************************************************************************)
VARIABLES outcome, copy

Init == outcome = "none" /\ copy = "torn"

Write == outcome = "none" /\ UNCHANGED outcome /\ copy' \in {"torn", "whole"}
Accept == outcome = "none" /\ outcome' = "accepted" /\ copy' = "whole"
Fail == outcome = "none" /\ outcome' = "failed" /\ copy' \in {"torn", "whole"}
Clean == outcome = "failed" /\ UNCHANGED outcome /\ copy' \in {"torn", "whole"}

Next == Write \/ Accept \/ Fail \/ Clean
Spec == Init /\ [][Next]_<<outcome, copy>>
=============================================================================
