------------------------- MODULE ChannelOwnership -------------------------
(***************************************************************************)
(* What docs/automations.md promises of a relay channel that a local rule  *)
(* may drive: at most one owner at a time, the owner decides the state,    *)
(* nobody else changes an owned channel, and when the owner lets go the    *)
(* channel is back in the state that preceded it.  The promise lasts until *)
(* the first fault (a failed write, a reset inside a handler, a relay that *)
(* cannot be set back, an accepted rule that the next boot refuses); after *)
(* that nothing is promised here.                                          *)
(***************************************************************************)
CONSTANTS Channels, Owners, Nobody

VARIABLES
  state,    \* what each relay is set to
  base,     \* what it is set to when nobody owns it
  owner,    \* who owns it
  trusted   \* no fault so far

vars == <<state, base, owner, trusted>>

Init ==
  /\ state \in [Channels -> BOOLEAN]
  /\ base = state
  /\ owner = [c \in Channels |-> Nobody]
  /\ trusted = TRUE

(* By hand, or by an action that leaves its state behind ("do_nothing").   *)
SetFree(c, s) ==
  /\ owner[c] = Nobody
  /\ state' = [state EXCEPT ![c] = s]
  /\ base' = [base EXCEPT ![c] = s]
  /\ UNCHANGED <<owner, trusted>>

Take(c, o, s) ==
  /\ owner[c] = Nobody
  /\ owner' = [owner EXCEPT ![c] = o]
  /\ state' = [state EXCEPT ![c] = s]
  /\ UNCHANGED <<base, trusted>>

Give(c) ==
  /\ owner[c] # Nobody
  /\ owner' = [owner EXCEPT ![c] = Nobody]
  /\ state' = [state EXCEPT ![c] = base[c]]
  /\ UNCHANGED <<base, trusted>>

Fault == trusted' = FALSE

Next ==
  \/ \E c \in Channels, s \in BOOLEAN : SetFree(c, s)
  \/ \E c \in Channels, o \in Owners, s \in BOOLEAN : Take(c, o, s)
  \/ \E c \in Channels : Give(c)
  \/ Fault

Spec == Init /\ [][Next]_vars
===========================================================================
