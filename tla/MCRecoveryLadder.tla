-------------------------- MODULE MCRecoveryLadder --------------------------
(* Small instances of RecoveryLadder for TLC: the counters of the code,    *)
(* but fewer memory failures, and its time-outs in their order.            *)
EXTENDS RecoveryLadder

Counting == {"connack", "progress", "alloc", "session"}
Uncounting == {"plain", "alloc", "memory", "session"}
Restarting == {"session", "hard_fault", "safe_mode", "power", "poison"}
Unlinked == {"session", "ap", "link"}

MCScenarios == {Counting, Uncounting, Restarting, Unlinked}
MCMixed == {{"plain", "connack"}}
=============================================================================
