------------------------- MODULE MCWeewxAutomation -------------------------
(* Two rules for one channel, one saved in the other's place. *)
EXTENDS WeewxAutomation, TLC

CONSTANTS fan, lamp

AFan == [name |-> fan, state |-> TRUE, falseAction |-> "opposite", stale |-> "off",
         delay |-> 0, minOn |-> 1, minOff |-> 0, retry |-> 1, groups |-> {{"metric", "window"}}]
ALamp == [name |-> lamp, state |-> TRUE, falseAction |-> "previous_state", stale |-> "hold",
          delay |-> 1, minOn |-> 0, minOff |-> 0, retry |-> 1, groups |-> {{"metric"}, {"window"}}]
MCBooks == {AFan, ALamp, NoRule}
\* The restoring rule alone, and nothing but the weather changes.
LateBooks == {[ALamp EXCEPT !.delay = 0, !.groups = {{"window"}}]}
============================================================================
