--------------------------- MODULE FirmwareTrial ---------------------------
(***************************************************************************)
(* What a device owner is promised of a firmware update: the device runs   *)
(* one whole version; an installed version gets one trial run, and unless  *)
(* it is confirmed during that run the next start is the confirmed version *)
(* again.  A trial also ends when the running program is asked for the     *)
(* next update: what runs is then what a failed update falls back to.      *)
(***************************************************************************)
CONSTANTS
  Versions,
  Down,     \* the device is booting, updating or off
  NoTrial

VARIABLES
  running,   \* the version in normal operation, or Down
  confirmed, \* the version to fall back to
  trial      \* an installed version waiting for its trial run, or NoTrial

vars == <<running, confirmed, trial>>

Init ==
  /\ running \in Versions
  /\ confirmed = running
  /\ trial = NoTrial

Stop == running' = Down /\ UNCHANGED <<confirmed, trial>>

Install(v) == running = Down /\ trial' = v /\ UNCHANGED <<running, confirmed>>

DropTrial == running = Down /\ trial' = NoTrial /\ UNCHANGED <<running, confirmed>>

StartConfirmed ==
  /\ running = Down /\ trial = NoTrial
  /\ running' = confirmed
  /\ UNCHANGED <<confirmed, trial>>

StartTrial ==
  /\ running = Down /\ trial # NoTrial
  /\ running' = trial
  /\ trial' = NoTrial
  /\ UNCHANGED confirmed

Confirm == running # Down /\ confirmed' = running /\ UNCHANGED <<running, trial>>

Next ==
  \/ Stop \/ (\E v \in Versions : Install(v)) \/ DropTrial
  \/ StartConfirmed \/ StartTrial \/ Confirm

Spec == Init /\ [][Next]_vars
===========================================================================
