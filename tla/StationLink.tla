----------------------------- MODULE StationLink -----------------------------
(***************************************************************************)
(* The Wi-Fi link of a running device: joining at start-up, the setup AP   *)
(* it falls back to, what the main loop does about a link that is lost,    *)
(* and new credentials saved through its web pages (core/network.py,       *)
(* core/recovery.py, main in app.py, features/web_services.py).            *)
(*                                                                         *)
(* Abstractions.  The attempts of one _connect_station are one step, which *)
(* ends as the last of them does.  Time is the age of the recovery phase   *)
(* in ticks, each the time up to the next of its deadlines.  The MQTT      *)
(* session is RecoveryLadder's; here it works while the link does.  A      *)
(* password is missing, right or wrong with its SSID.  Every reboot leaves *)
(* the radio as after power-on: a reset clears it, and a reload consumes   *)
(* the marker that has main clear it (_cycle_wifi_radio_for_warm_start).   *)
(***************************************************************************)
EXTENDS FactoryFiles

CONSTANTS
  ResetCount,    \* WIFI_AFTER_READY_, WIFI_BEFORE_READY_STATION_RESET_FAILURES
  RebootCount,   \* WIFI_AFTER_READY_REBOOT_MIN_FAILURES
  \* ages, in ticks
  Backoff,       \* wifi_backoff_after_s
  AfterReady,    \* WIFI_AFTER_READY_REBOOT_S
  ApIdle,        \* ap_timeout_s
  GiveUp,        \* wifi_timeout_s
  MaxOutages,    \* bound: how often the router goes away
  MaxSaves       \* bound: how often credentials are saved

ASSUME LinkAssumption ==
  /\ {ResetCount, RebootCount, Backoff, AfterReady, ApIdle, GiveUp} \subseteq Nat \ {0}
  /\ ResetCount <= RebootCount
  /\ Backoff <= AfterReady /\ AfterReady <= GiveUp /\ ApIdle <= GiveUp
  /\ MaxOutages \in Nat /\ MaxSaves \in Nat

VARIABLES
  router,    \* the saved network can be joined
  outages,
  linked,    \* the radio has an address on it
  stack,     \* network_stack: phase, errors as a signature, socket artifacts
  phase,     \* recovery_state
  wasReady,  \* wifi_was_ready
  failures,  \* last_wifi_failure_signature and the two counts kept with it
  onboarded, \* onboarding_state.json is there
  pending,   \* a restart has been asked for
  saves

linkVars == <<router, outages, linked, stack, phase, wasReady, failures, onboarded,
              pending, saves>>
vars == <<fileVars, cfg, faults, linkVars>>

Errors == {"none", "auth", "subnet", "not_connected", "missed", "unknown", "no_ssid"}
NoStack == [phase |-> "none", error |-> "none", sockets |-> "none"]
Idle == [name |-> "idle", age |-> 0]
NoFailures == [last |-> "none", same |-> 0, after |-> 0]

Running == boot = "up" /\ todo = <<>>
Atmost(n, bound) == IF n <= bound THEN n ELSE bound

(* network_link_is_ready *)
LinkReady == stack.phase = "ready" /\ linked

-----------------------------------------------------------------------------
(* Joining (_connect_station): how the last attempt ends.  Where the       *)
(* network can be joined everything but joining it is a fault.             *)
Joined == [error |-> "none", address |-> TRUE]
Ends ==
  [error : {"none", "not_connected"}, address : BOOLEAN]
  \cup [error : {"auth", "subnet", "missed", "unknown"}, address : {FALSE}]
NoSsid == [error |-> "no_ssid", address |-> FALSE]

CanJoin == router /\ cfg.ssid = "right"
EndsWithout ==
  [error : IF router THEN {"auth", "unknown", "missed"} ELSE {"missed", "unknown", "not_connected"},
   address : {FALSE}]
Joins(end) ==
  \/ CanJoin /\ end = Joined /\ UNCHANGED faults
  \/ CanJoin /\ end # Joined /\ Fails
  \/ ~CanJoin /\ cfg.ssid # "none" /\ end \in EndsWithout /\ UNCHANGED faults

(* _should_fallback_to_ap.  A station that failed but has an address on    *)
(* the network goes on as a station.                                       *)
FallsBack(end) ==
  \/ cfg.ssid = "none"
  \/ cfg.profile = "nodusweb" /\ end.error # "none" /\ ~end.address

(* build_network_stack, with ap_mode (_enter_ap_recovery_mode) ...         *)
AsAp ==
  /\ cfg' = [cfg EXCEPT !.profile = "nodusweb", !.ap_mode = TRUE]
  /\ stack' = [phase |-> "ap", error |-> "none", sockets |-> "fresh"]
  /\ phase' = [name |-> "ap", age |-> 0]
  /\ linked' = FALSE
  /\ wasReady' = FALSE
(* ... and without                                                         *)
AsStation(end) ==
  /\ stack' = [phase |-> IF end.error = "none" THEN "ready" ELSE "error",
               error |-> end.error,
               sockets |-> IF end.error = "none" THEN "fresh" ELSE "none"]
  /\ phase' = Idle
  /\ linked' = end.address
  /\ wasReady' = (end = Joined)
  /\ UNCHANGED cfg

StartNetwork ==
  /\ At("network")
  /\ \E end \in Ends \cup {NoSsid} :
       /\ \/ Joins(end)
          \/ cfg.ssid = "none" /\ end = NoSsid /\ UNCHANGED faults
       /\ IF FallsBack(end) THEN AsAp ELSE AsStation(end)
  /\ boot' = "up"
  /\ failures' = NoFailures
  /\ UNCHANGED <<hw, disk, torn, todo, writable, router, outages, onboarded, pending, saves>>

-----------------------------------------------------------------------------
(* A reset or a reload ends the program, and a power loss, which may also  *)
(* interrupt a write.  After a reload main clears the radio itself         *)
(* (_cycle_wifi_radio_for_warm_start).                                     *)
RadioCleared == linked' = FALSE /\ stack' = NoStack
Leaves ==
  /\ Stopped
  /\ RadioCleared
  /\ phase' = Idle
  /\ wasReady' = FALSE
  /\ failures' = NoFailures
  /\ pending' = "none"
  /\ UNCHANGED <<router, outages, onboarded, saves>>

Restart == Leaves /\ UNCHANGED <<torn, faults>>
PowerLoss == boot # "off" /\ Fails /\ Interrupted /\ Leaves

-----------------------------------------------------------------------------
(* The loop of main: recovery (advance_recovery_state and what follows).   *)
(* The request of /itaot-init is answered within one pass.                 *)
Looping == Running /\ pending # "token"

LinkHolds ==
  /\ Looping
  /\ LinkReady
  /\ phase' = Idle
  /\ wasReady' = TRUE
  /\ failures' = NoFailures
  /\ UNCHANGED <<fileVars, cfg, faults, router, outages, linked, stack, onboarded, pending,
                 saves>>

(* Bug: the setup AP is kept for as long as nobody ends it.                *)
ApStays == FALSE
ApTimesOut == phase.name = "ap" /\ phase.age >= ApIdle
ApPass ==
  /\ Looping
  /\ stack.phase = "ap"
  /\ IF ApTimesOut THEN Restart ELSE UNCHANGED vars

(* network_error_signature, at the end of a failed attempt                 *)
AfterReadyErrors == {"missed_after_ready", "unknown_after_ready"}
Signature(error) ==
  IF ~wasReady THEN error
  ELSE CASE error = "missed" -> "missed_after_ready"
         [] error = "unknown" -> "unknown_after_ready"
         [] OTHER -> error
Failed(error) ==
  LET sign == Signature(error)
  IN  [last |-> sign,
       same |-> IF sign = failures.last THEN Atmost(failures.same + 1, ResetCount) ELSE 1,
       after |-> IF sign \in AfterReadyErrors THEN Atmost(failures.after + 1, RebootCount)
                 ELSE 0]

(* _should_fast_reset_wifi_station, _should_reset_wifi_station_before_ready *)
ResetsStation(age) ==
  \/ failures.last \in AfterReadyErrors /\ failures.after >= ResetCount
  \/ ~wasReady /\ failures.last \in {"missed", "unknown"} /\ failures.same >= ResetCount
  \/ age >= Backoff

(* reconnect_network_stack is asked to rebuild what a station reset        *)
(* invalidates.                                                            *)
(* Bug: socket artifacts are kept whenever there are any.                  *)
Keeps(reset) == FALSE
Rebuilds(reset) == reset

Reconnected(reset, error) ==
  LET kept == IF Rebuilds(reset) THEN "none"
              ELSE IF reset /\ stack.sockets # "none" THEN "stale" ELSE stack.sockets
  IN  [phase |-> IF error = "none" THEN "ready" ELSE "error", error |-> error,
       sockets |-> IF error = "none" /\ kept = "none" THEN "fresh" ELSE kept]

(* _should_fast_reboot_wifi_after_ready                                    *)
RebootsAfterReady(age, end) ==
  /\ age >= AfterReady
  /\ Signature(end.error) \in AfterReadyErrors
  /\ Failed(end.error).after >= RebootCount

InWifiPhase == IF phase.name = "wifi" THEN phase ELSE [name |-> "wifi", age |-> 0]

LinkPass ==
  /\ Looping
  /\ stack.phase # "ap"
  /\ ~LinkReady
  /\ InWifiPhase.age < GiveUp
  /\ \E end \in Ends :
       /\ Joins(end)
       /\ IF RebootsAfterReady(InWifiPhase.age, end)
          THEN Leaves /\ UNCHANGED torn
          ELSE /\ linked' = end.address
               /\ stack' = Reconnected(ResetsStation(InWifiPhase.age), end.error)
               /\ phase' = InWifiPhase
               /\ wasReady' = (wasReady \/ end = Joined)
               /\ failures' = IF end = Joined THEN NoFailures ELSE Failed(end.error)
               /\ UNCHANGED <<fileVars, cfg, router, outages, onboarded, pending, saves>>

(* MQTT fails over a link that looks ready, however often: what            *)
(* verify_station_connectivity finds decides between a station reset and   *)
(* new socket artifacts.                                                   *)
MqttEnabled == cfg.profile = "mqtt"
MqttRebuild(reset) ==
  /\ Looping
  /\ MqttEnabled /\ LinkReady
  /\ IF reset
     THEN \E end \in Ends :
            /\ Joins(end)
            /\ linked' = end.address
            /\ stack' = Reconnected(TRUE, end.error)
     ELSE /\ stack' = [stack EXCEPT !.sockets = "fresh"]
          /\ UNCHANGED <<faults, linked>>
  /\ UNCHANGED <<fileVars, cfg, router, outages, phase, wasReady, failures, onboarded, pending,
                 saves>>

(* The broker has another address: settings.toml is written once MQTT has  *)
(* connected to it (_persist_broker_ip_after_mqtt_connect).                *)
BrokerMoved ==
  /\ Looping
  /\ MqttEnabled /\ LinkReady /\ writable
  /\ todo' = <<Putting("settings", Read("settings"))>>
  /\ UNCHANGED <<hw, disk, torn, boot, writable, cfg, faults, linkVars>>

RecoveryTimesOut ==
  /\ Looping
  /\ stack.phase # "ap" /\ ~LinkReady
  /\ InWifiPhase.age >= GiveUp
  /\ Restart

Tick ==
  /\ Looping
  /\ \/ phase.name = "wifi" /\ phase.age < GiveUp
     \/ phase.name = "ap" /\ phase.age < ApIdle
  /\ phase' = [phase EXCEPT !.age = @ + 1]
  /\ UNCHANGED <<fileVars, cfg, faults, router, outages, linked, stack, wasReady, failures,
                 onboarded, pending, saves>>

-----------------------------------------------------------------------------
(* The network outside.                                                    *)
Device == <<fileVars, cfg, stack, phase, wasReady, failures, onboarded, pending, saves>>

RouterGoes ==
  /\ router /\ outages < MaxOutages
  /\ router' = FALSE /\ linked' = FALSE /\ outages' = outages + 1
  /\ UNCHANGED <<Device, faults>>
RouterReturns ==
  /\ ~router
  /\ router' = TRUE
  /\ UNCHANGED <<Device, faults, linked, outages>>
LinkLost == linked /\ Fails /\ linked' = FALSE /\ UNCHANGED <<Device, router, outages>>
(* The radio finds its way back by itself.                                 *)
LinkReturns ==
  /\ stack.phase = "ready" /\ ~linked /\ router
  /\ linked' = TRUE
  /\ UNCHANGED <<Device, faults, router, outages>>

-----------------------------------------------------------------------------
(* Credentials saved through the device's own pages (web_enabled).         *)
WebEnabled == cfg.ap_mode \/ cfg.profile = "nodusweb"
Saving(settings) ==
  /\ Looping
  /\ writable
  /\ saves < MaxSaves
  /\ todo' = <<Putting("settings", settings)>>
  /\ saves' = saves + 1
  /\ UNCHANGED <<hw, disk, torn, boot, writable, cfg, faults, router, outages, linked,
                 stack, phase, wasReady, failures, onboarded>>

(* apply_web_config_updates: a page saves its own fields; they wait for a  *)
(* restart.                                                                *)
SaveNetwork(ssid) ==
  /\ WebEnabled
  /\ Saving([Read("settings") EXCEPT !.ssid = ssid])
  /\ UNCHANGED pending
SaveProfile(profile) ==
  /\ WebEnabled
  /\ Saving([Read("settings") EXCEPT !.profile = profile])
  /\ UNCHANGED pending

(* _restart, of a browser that has saved something                         *)
SavedDiffers == \/ Read("settings").ssid # cfg.ssid
                \/ Read("settings").profile # cfg.profile
AskRestart == Looping /\ WebEnabled /\ SavedDiffers /\ Restart

(* apply_itaot_init_payload, served while bootstrap_routes_enabled: the    *)
(* settings, then the onboarding state, then a restart after the answer;   *)
(* no second request comes between the two.                                *)
ItaotInit(ssid) ==
  /\ cfg.ap_mode
  /\ pending = "none"
  /\ Saving([Read("settings") EXCEPT !.ssid = ssid, !.host = Chosen, !.profile = "mqtt"])
  /\ pending' = "token"
Answered(next) ==
  /\ Running /\ pending = "token"
  /\ pending' = next
  /\ UNCHANGED <<fileVars, cfg, router, outages, linked, stack, phase, wasReady, failures,
                 saves>>
ItaotAccepted == Answered("restart") /\ onboarded' = TRUE /\ UNCHANGED faults
(* The token cannot be saved: the answer is 503, the settings stay.        *)
ItaotRefused == Answered("none") /\ Fails /\ UNCHANGED onboarded
(* _run_pending_reboot                                                     *)
ItaotRestart == Looping /\ pending = "restart" /\ Restart

=============================================================================
