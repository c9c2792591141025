------------------------------ MODULE ClockSync -----------------------------
(***************************************************************************)
(* Network time of a running device (maybe_sync_ntp in core/ntp.py and its *)
(* call in main): a window of failures, a cooldown, a last window, and no  *)
(* tries until a restart or a forced resync.                               *)
(*                                                                         *)
(* Abstractions.  A try asks all of its targets.  The waits between tries  *)
(* and for the end of the cooldown have no clock: the next try may be at   *)
(* any time.  tried is a history variable.                                 *)
(***************************************************************************)
EXTENDS StationLink

CONSTANTS
  MaxDnsFailures, \* DEFAULT_NTP_MAX_DNS_FAILURES
  MaxResyncs      \* bound: forced resyncs

ASSUME ClockAssumption == MaxDnsFailures \in Nat \ {0} /\ MaxResyncs \in Nat

VARIABLES
  ntp,     \* ntp_state: phase, failure_count, failure_window
  tried,   \* failed tries since the start, the last sync or forced resync
  resyncs

clockVars == <<ntp, tried, resyncs>>

Untried == [phase |-> "idle", count |-> 0, window |-> 1]

(* What a try asks of network_stack: sockets, not that the link is up.     *)
Due == /\ Looping
       /\ stack.phase = "ready" /\ stack.sockets # "none"
       /\ ntp.phase # "disabled"

Synced ==
  /\ Due
  /\ linked
  /\ ntp' = [phase |-> "synced", count |-> 0, window |-> 1]
  /\ tried' = 0
  /\ UNCHANGED <<vars, resyncs>>

(* Bug: the end of the cooldown forgets that there was one.                *)
ForgetsWindow(state) == IF state.phase = "cooldown" THEN Untried ELSE state
AfterCooldown(state) ==
  IF state.phase = "cooldown" THEN [phase |-> "idle", count |-> 0, window |-> 2] ELSE state

FailedTry(state) ==
  LET count == state.count + 1
  IN  IF count < MaxDnsFailures
      THEN [phase |-> "deferred", count |-> count, window |-> state.window]
      ELSE IF state.window = 1 THEN [phase |-> "cooldown", count |-> 0, window |-> 2]
      ELSE [phase |-> "disabled", count |-> count, window |-> 2]

NotSynced ==
  /\ Due
  /\ ntp' = FailedTry(AfterCooldown(ntp))
  /\ tried' = tried + 1
  /\ UNCHANGED <<vars, resyncs>>

(* _ntp_state_forced_resync, for an MQTT command that changed [Time]       *)
ForcedResync ==
  /\ Looping
  /\ cfg.profile = "mqtt"
  /\ resyncs < MaxResyncs
  /\ ntp' = Untried
  /\ tried' = 0
  /\ resyncs' = resyncs + 1
  /\ UNCHANGED vars

ClockStops == ntp' = Untried /\ tried' = 0 /\ UNCHANGED resyncs

-----------------------------------------------------------------------------
ClockTypeOK ==
  /\ ntp \in [phase : {"idle", "deferred", "synced", "cooldown", "disabled"},
              count : 0..MaxDnsFailures, window : {1, 2}]
  /\ tried \in Nat
  /\ resyncs \in 0..MaxResyncs

(* A device that cannot reach a time server stops asking after its second  *)
(* window of failures (docs/configuration.md:473-476).                     *)
AsksTwoWindows == tried <= 2 * MaxDnsFailures

=============================================================================
