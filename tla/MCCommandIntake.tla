-------------------------- MODULE MCCommandIntake --------------------------
(* Thirteen commands: three that write one setting - the base topic, one   *)
(* that is applied, a relay's -, one that writes two, the first of which   *)
(* is only stored, one whose value is fatal, the offset and the session    *)
(* that compete for Ph, and one of each other kind.                        *)
EXTENDS CommandIntake, TLC

CONSTANTS restart, setup, tune, both, broken, state, halt, offset, start, cancel, relay, prepare, logs,
          broker, ssid, topic, zone, ph, lamp

MCKind == (restart :> "config") @@ (setup :> "config") @@ (tune :> "config") @@ (both :> "config")
  @@ (broken :> "config") @@ (state :> "config") @@ (halt :> "halt") @@ (offset :> "offset")
  @@ (start :> "start") @@ (cancel :> "cancel") @@ (relay :> "switch") @@ (prepare :> "prepare")
  @@ (logs :> "logs")
MCId == [m \in Messages |-> IF m = relay THEN NoId ELSE m]
MCUpdates == (restart :> <<>>) @@ (setup :> <<<<topic, 1>>>>) @@ (tune :> <<<<zone, 1>>>>)
  @@ (both :> <<<<ssid, 2>>, <<zone, 2>>>>) @@ (broken :> <<<<broker, Poison>>>>) @@ (state :> <<<<lamp, 2>>>>)
  @@ (halt :> <<>>) @@ (offset :> <<<<ph, 2>>>>) @@ (start :> <<>>) @@ (cancel :> <<>>)
  @@ (relay :> <<<<lamp, 1>>>>) @@ (prepare :> <<>>) @@ (logs :> <<>>)
MCOnlyStored == [p \in {"light", "heavy"} |-> {ssid, lamp}]
============================================================================
