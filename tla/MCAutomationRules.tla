------------------------- MODULE MCAutomationRules -------------------------
(* Two rules that may drive the same two channels, never both at a time.   *)
(* The first script is accepted, but refused by the next boot.             *)
EXTENDS AutomationRules, TLC

CONSTANTS r1, r2, c1, c2, hot, late

On(c, delay) == [chan |-> c, set |-> TRUE, revert |-> TRUE, delay |-> delay]
Off(c) == [chan |-> c, set |-> FALSE, revert |-> FALSE, delay |-> 0]

MCGroups == (hot :> {{"sensor"}}) @@ (late :> {{"clock"}, {"sensor"}})
MCActions == (hot :> <<On(c1, 0)>>) @@ (late :> <<On(c2, 1), Off(c1)>>)
============================================================================
