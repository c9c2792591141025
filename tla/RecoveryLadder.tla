--------------------------- MODULE RecoveryLadder ---------------------------
(***************************************************************************)
(* How a device that cannot reach its broker escalates: rebuilt client,    *)
(* station reset, warm reload, hard reset, and how the reset counters in   *)
(* NVM bound that across reboots.                                          *)
(*                                                                         *)
(* The actors are the main loop of app.py with core/recovery.py, boot.py   *)
(* and safemode.py, which see each other only through microcontroller.nvm, *)
(* and their environment: the Wi-Fi link, the broker, power, hard faults.  *)
(* A pass of the loop runs the stages                                      *)
(*    top -> rebuild -> connect -> probe -> handshake -> session -> top    *)
(* and leaves them early where the code says `continue`.                   *)
(*                                                                         *)
(* Abstractions.  Time is a tick of about 30 s; a pass takes at most one,  *)
(* and a pass in which no retry is due is a stutter.  A time stamp is kept *)
(* as its age; ages and counts stop growing at the largest number they are *)
(* compared with.  Which error text an operation reports is the            *)
(* environment's choice, as is whether                                     *)
(* _verify_station_reset_needed_for_mqtt finds the station broken.  The    *)
(* session itself is MqttSession; here it drains, fails or is lost.        *)
(***************************************************************************)
EXTENDS Integers

CONSTANTS
  Scenarios,    \* sets of kinds of failure; a behaviour has those of one set
  MaxWarm,      \* MQTT_WARM_RECOVERY_MAX_ATTEMPTS
  MaxFault,     \* HARD_FAULT_RECOVERY_MAX_ATTEMPTS
  FastCount,    \* MQTT_REPEATED_CONNECT_FAILURE_MIN_COUNT
  MemoryCount,  \* MQTT_MEMORY_FAILURE_REBOOT_MIN_COUNT
  StationCount, \* MQTT_SUBSCRIPTION_STATION_RESET_COUNT
  WarmCount,    \* MQTT_SUBSCRIPTION_WARM_RELOAD_COUNT
  \* ages, in ticks
  RebuildEvery, \* mqtt_rebuild_interval_s
  MemoryWait,   \* MQTT_MEMORY_FAILURE_REBOOT_S
  Gate,         \* MQTT_REPEATED_CONNECT_FAILURE_REBOOT_S
  Stable,       \* HARD_FAULT_RECOVERY_STABLE_S
  AfterReady,   \* WIFI_AFTER_READY_REBOOT_S
  ApTimeout,    \* ap_timeout_s
  Long,         \* wifi_timeout_s and MQTT_LONG_RECOVERY_REBOOT_S
  OutageCap     \* bound: outages are counted up to here

FaultKinds == {"plain", "connack", "progress", "alloc", "memory", "session",
               "poison", "link", "ap", "hard_fault", "safe_mode", "power"}

ASSUME LadderAssumption ==
  /\ Scenarios \subseteq SUBSET FaultKinds
  /\ {MaxWarm, MaxFault, FastCount, MemoryCount, StationCount, WarmCount,
      RebuildEvery, MemoryWait, Gate, Stable, AfterReady, ApTimeout, Long,
      OutageCap} \subseteq Nat \ {0}
  /\ Gate <= Long /\ 1 < FastCount /\ FastCount <= WarmCount

VARIABLES
  \* the kinds of failure the environment causes in this behaviour
  faults,
  \* microcontroller.nvm, bytes 1 to 4
  nvm,
  \* what the MCU is running: boot.py after power or reset, code.py up to the
  \* loop, the loop, safemode.py, or nothing
  mode,
  \* app.py loop variables
  pc, up, link, conn, phase, wifiWasReady,
  fails,          \* repeated_mqtt_connect_failure_count, _started_at
  memory,         \* mqtt_client_memory_failure_count, _started_at
  subs,           \* mqtt_subscription_failure_count, _started_at
  stationReset,   \* last_mqtt_station_reset_at >= 0
  stationDone,    \* mqtt_subscription_station_reset_done
  connackPending, \* mqtt_connack_timeout_recovery_pending
  adapter,        \* mqtt_adapter.phase = "ready"
  ticked,         \* this pass has taken its tick
  \* the reason logged for the reboot under way
  reason,
  \* observed since the last checkpoint or power-on: warm reloads and hard
  \* resets for repeated failures within Gate of a start; automatic resets
  \* since the last stable run; ticks without a connection on a ready link
  reloads, fastResets, faultResets, outage

windows == <<fails, memory, subs>>
flags == <<stationReset, stationDone, connackPending, adapter>>
observed == <<reloads, fastResets, faultResets, outage>>
vars == <<faults, nvm, mode, pc, up, link, conn, phase, wifiWasReady, windows, flags,
          ticked, reason, observed>>

-----------------------------------------------------------------------------
(* Failure windows: how many failures, and the age of the first.           *)
None == -1
Closed == [count |-> 0, age |-> None]
Windows(most, oldest) == [count : 0..most, age : None..oldest]

Atmost(n, bound) == IF n <= bound THEN n ELSE bound
Older(age, oldest) == IF age = None THEN None ELSE Atmost(age + 1, oldest)
Aged(w, oldest) == [w EXCEPT !.age = Older(@, oldest)]

Counted(w, most) ==
  [count |-> Atmost(w.count + 1, most),
   age |-> IF w.count = 0 \/ w.age = None THEN 0 ELSE w.age]

(* _mqtt_repeated_failure_budget_exhausted *)
Exhausted(w) == w.age >= Gate

(* _mqtt_repeated_failure_reboot_gate_tripped *)
Tripped(w) == w.age # None /\ (w.count >= FastCount \/ w.age >= Gate)

(* Bug: the marker is not looked at. *)
NeverSuppressed(w) == FALSE

(* _recovery_hard_reset_marker_should_suppress *)
Suppressed(w) == nvm.hard /\ w.age < Gate

(* The largest age of a run that is compared with anything. *)
Settled == IF Gate > Stable THEN Gate ELSE Stable

(* Recovery phases of core/recovery.py. *)
Idle == [name |-> "idle", age |-> None, rebuild |-> None]
Started(name) == [name |-> name, age |-> 0, rebuild |-> None]
Phases == [name : {"idle", "ap", "wifi", "mqtt"},
           age : None..Long, rebuild : None..RebuildEvery]
Ensured(name) == IF phase.name = name THEN phase ELSE Started(name)

(* What a failed preconnect probe makes of the phase: it starts with the   *)
(* failure window, whenever the phase itself began.                        *)
PhaseOfWindow(w) == [name |-> "mqtt", age |-> w.age, rebuild |-> 0]
(* _mqtt_subscription_recovery_state *)
PhaseOfLadder == [Ensured("mqtt") EXCEPT !.rebuild = 0]

-----------------------------------------------------------------------------
(* Reboots.  Loop variables die with the VM; Start gives them new values.  *)
Rebooted(m, r) ==
  /\ mode' = m
  /\ reason' = r
  /\ pc' = "top"
  /\ outage' = 0
  /\ UNCHANGED <<up, link, wifiWasReady, ticked, faultResets>>

(* _mark_mqtt_subscription_recovery_requested, then _soft_reboot. *)
WarmLeft == nvm.warm < MaxWarm
WarmReload(r) ==
  /\ Rebooted("start", r)
  /\ nvm' = [nvm EXCEPT !.warm = @ + 1, !.cleanup = TRUE]
  /\ reloads' = reloads + 1
  /\ UNCHANGED fastResets

HardReset(r) ==
  /\ Rebooted("mcu_reset", r)
  /\ UNCHANGED <<nvm, reloads, fastResets>>

(* _mark_recovery_hard_reset_requested, then _hard_reboot. *)
MarkedHardReset(r) ==
  /\ Rebooted("mcu_reset", r)
  /\ nvm' = [nvm EXCEPT !.hard = TRUE]
  /\ fastResets' = fastResets + (IF up < Gate THEN 1 ELSE 0)
  /\ UNCHANGED reloads

(* _mqtt_preoperational_reboot_plan *)
PlannedReboot(r) == IF WarmLeft THEN WarmReload(r) ELSE HardReset(r)

Runs(next) ==
  /\ pc' = next
  /\ UNCHANGED <<nvm, mode, up, link, wifiWasReady, ticked, reason, observed>>

(* _maybe_reboot_for_mqtt_failure_budget: "none" also when suppressed. *)
BudgetReboots(w) == Tripped(w) /\ (WarmLeft \/ ~Suppressed(w))
BudgetReboot ==
  IF WarmLeft THEN WarmReload("mqtt_repeated_connect_failures")
              ELSE MarkedHardReset("mqtt_repeated_connect_failures")
Budget(w, next) == IF BudgetReboots(w) THEN BudgetReboot ELSE Runs(next)

MemoryReboots(w) ==
  w.count >= MemoryCount /\ w.age # None /\ w.age >= MemoryWait

At(stage) == mode = "running" /\ pc = stage

-----------------------------------------------------------------------------
(* advance_recovery_state, and the reboots it asks for.                    *)
Advanced ==
  IF link = "ap" THEN Ensured("ap")
  ELSE IF link = "down" THEN Ensured("wifi")
  ELSE IF conn = "operational" THEN Idle
  ELSE LET p == Ensured("mqtt")
       IN IF p.rebuild = None \/ p.rebuild >= RebuildEvery
          THEN [p EXCEPT !.rebuild = 0] ELSE p

RebuildDue ==
  link = "ready" /\ conn # "operational" /\ Advanced.rebuild = 0
    /\ Ensured("mqtt").rebuild # 0

(* Bug: the MQTT phase has no time-out. *)
TimedOutOffline ==
  \/ link = "ap" /\ Advanced.age >= ApTimeout
  \/ link = "down" /\ Advanced.age >= Long

TimedOut ==
  \/ link = "ap" /\ Advanced.age >= ApTimeout
  \/ link = "down" /\ Advanced.age >= Long
  \/ link = "ready" /\ conn = "down" /\ Advanced.age >= Long

TimeoutReboot ==
  IF link = "ap" THEN HardReset("ap_idle_timeout")
  ELSE IF link = "down" THEN HardReset("wifi_recovery_timeout")
  ELSE PlannedReboot("mqtt_recovery_timeout")

AfterTop ==
  IF link # "ready" THEN "session"
  ELSE IF RebuildDue THEN "rebuild"
  ELSE IF conn = "down" THEN "connect" ELSE "session"

Top ==
  /\ At("top")
  /\ phase' = Advanced
  /\ conn' = IF link = "down" THEN "down" ELSE conn
  /\ UNCHANGED <<windows, flags>>
  /\ \/ TimedOut /\ TimeoutReboot
     \/ /\ ~TimedOut
        /\ pc' = AfterTop
        /\ ticked' = FALSE
        /\ wifiWasReady' = (wifiWasReady \/ link = "ready")
        /\ UNCHANGED <<nvm, mode, up, link, reason, observed>>

(* _should_fast_reboot_wifi_after_ready, in the pass's reconnect attempt. *)
WifiAfterReadyFails ==
  /\ At("session")
  /\ link = "down"
  /\ wifiWasReady
  /\ phase.name = "wifi"
  /\ phase.age >= AfterReady
  /\ HardReset("wifi_after_ready_failure")
  /\ UNCHANGED <<conn, phase, windows, flags>>

-----------------------------------------------------------------------------
(* The rebuild of the MQTT client, every RebuildEvery of the mqtt phase.   *)
Builds == {TRUE} \cup {"memory" \notin faults}
(* _update_mqtt_memory_failure_window; some builds leave the window alone. *)
WindowAfter(built) == IF built THEN Closed ELSE Counted(memory, MemoryCount)
BuiltUnwatched == adapter' \in Builds

MemoryBudget(built, next) ==
  IF MemoryReboots(WindowAfter(built))
  THEN PlannedReboot("mqtt_memory_allocation_failures") ELSE Runs(next)

(* verify_before_rebuild and hold_rebuild *)
RebuildHeld ==
  /\ At("rebuild")
  /\ ~connackPending
  /\ Runs(IF conn = "down" THEN "connect" ELSE "session")
  /\ UNCHANGED <<conn, phase, windows, flags>>

(* Without a CONNACK time-out pending: a plain rebuild, or one with a      *)
(* station reset; also what is left of a pending one found unnecessary.    *)
Rebuild ==
  /\ At("rebuild")
  /\ conn' = "down"
  /\ connackPending' = FALSE
  /\ stationReset' \in {stationReset, stationReset \/ ~connackPending}
  /\ UNCHANGED <<phase, fails, subs, stationDone>>
  /\ \E built \in Builds :
       /\ adapter' = built
       /\ memory' = WindowAfter(built)
       /\ MemoryBudget(built, "connect")

(* A pending CONNACK time-out whose station reset is confirmed.  Once the  *)
(* failure window is older than Gate the device is hard reset, whether or  *)
(* not warm reloads are left; otherwise the client is built once more.     *)
RebuildAfterConnackTimeout ==
  /\ At("rebuild")
  /\ connackPending
  /\ conn' = "down"
  /\ connackPending' = FALSE
  /\ stationReset' = TRUE
  /\ BuiltUnwatched
  /\ UNCHANGED <<phase, fails, subs, stationDone>>
  /\ \E built \in Builds :
       /\ memory' = WindowAfter(built)
       /\ IF fails.age >= Gate
          THEN MarkedHardReset("mqtt_repeated_connect_failures")
          ELSE MemoryBudget(built, "connect")

-----------------------------------------------------------------------------
(* A connection attempt: build, budget, probe, CONNECT.                    *)
BuildFails ==
  /\ At("connect")
  /\ ~adapter
  /\ FALSE \in Builds
  /\ adapter' = FALSE
  /\ memory' = WindowAfter(FALSE)
  /\ MemoryBudget(FALSE, "top")
  /\ UNCHANGED <<conn, phase, fails, subs, stationReset, stationDone,
                 connackPending>>

(* Bug: the station reset is staged every time. *)
StagedAgain(w) == Tripped(w)

(* _should_stage_mqtt_station_reset_before_reboot *)
Staged(w) == Tripped(w) /\ ~stationReset
StageStationReset ==
  /\ fails' = Closed
  /\ connackPending' = FALSE
  /\ stationReset' = TRUE
  /\ BuiltUnwatched
  /\ Runs("top")

Connect ==
  /\ At("connect")
  /\ IF adapter THEN UNCHANGED memory ELSE memory' = Closed
  /\ UNCHANGED <<conn, phase, subs, stationDone>>
  /\ \/ Staged(fails) /\ StageStationReset
     \/ /\ ~Staged(fails)
        /\ adapter' = TRUE
        /\ UNCHANGED <<fails, connackPending, stationReset>>
        /\ Budget(fails, "probe")

(* Neither probe pattern: CONNECT is tried. *)
ProbePasses ==
  /\ At("probe")
  /\ Runs("handshake")
  /\ UNCHANGED <<conn, phase, windows, flags>>

(* A failure that ends the attempt and counts as pending time-out. *)
ProbeFails(w) ==
  /\ fails' = w
  /\ connackPending' = TRUE
  /\ phase' = PhaseOfWindow(w)
  /\ Budget(w, "top")

(* The first CONNACK time-out: client rebuilt at once, probed again. *)
FirstConnackTimeout ==
  /\ At("probe")
  /\ "connack" \in faults
  /\ fails.count = 0
  /\ stationReset' \in {stationReset, TRUE}
  /\ BuiltUnwatched
  /\ UNCHANGED <<conn, memory, subs, stationDone>>
  /\ LET first == Counted(fails, FastCount)
     IN \/ ProbeFails(Counted(first, FastCount))
        \/ /\ fails' = first
           /\ UNCHANGED <<connackPending, phase>>
           /\ Runs("retried")

ConnackTimeout ==
  /\ At("probe")
  /\ "connack" \in faults
  /\ fails.count > 0
  /\ ProbeFails(Counted(fails, FastCount))
  /\ UNCHANGED <<conn, memory, subs, stationReset, stationDone, adapter>>

(* errno 119: budget, client rebuilt, probed again. *)
SocketProgress ==
  /\ At("probe")
  /\ "progress" \in faults
  /\ UNCHANGED <<conn, memory, subs, stationDone>>
  /\ LET w == Counted(fails, FastCount)
     IN IF BudgetReboots(w)
        THEN /\ fails' = w
             /\ BudgetReboot
             /\ UNCHANGED <<connackPending, phase, stationReset, adapter>>
        ELSE /\ stationReset' \in {stationReset, TRUE}
             /\ BuiltUnwatched
             /\ \/ ProbeFails(Counted(w, FastCount))
                \/ /\ fails' = w
                   /\ UNCHANGED <<connackPending, phase>>
                   /\ Runs("handshake")

InHandshake == At("handshake") \/ At("retried")

ConnectOk ==
  /\ InHandshake
  /\ link = "ready"
  /\ conn' = "draining"
  /\ pc' = "session"
  /\ outage' = 0
  /\ UNCHANGED <<nvm, mode, up, link, phase, wifiWasReady, windows, flags,
                 ticked, reason, reloads, fastResets, faultResets>>

(* Any other connect error forgets the failures counted so far. *)
ConnectFailsPlainly ==
  /\ InHandshake
  /\ "plain" \in faults
  /\ fails' = Closed
  /\ Runs("session")
  /\ UNCHANGED <<conn, phase, memory, subs, flags>>

(* A time-out of CONNECT itself: only the age of the window is asked for,  *)
(* so that the third one within Gate is left to the next attempt.          *)
ConnectTimesOut ==
  /\ InHandshake
  /\ "connack" \in faults
  /\ UNCHANGED <<conn, phase, memory, subs, stationDone>>
  /\ LET w == IF pc = "retried" THEN fails ELSE Counted(fails, FastCount)
     IN \/ Exhausted(w) /\ Staged(w) /\ StageStationReset
        \/ /\ ~Exhausted(w) \/ ~Staged(w)
           /\ fails' = w
           /\ connackPending' = TRUE
           /\ UNCHANGED <<stationReset, adapter>>
           /\ IF Exhausted(w) THEN Budget(w, "session") ELSE Runs("session")

-----------------------------------------------------------------------------
(* _handle_mqtt_subscription_failure: rebuild, station reset, warm reload, *)
(* hard reset.                                                             *)
LadderReboots(w) ==
  w.count >= WarmCount /\ (WarmLeft \/ BudgetReboots(w))

Ladder ==
  LET w == Counted(subs, WarmCount)
  IN /\ subs' = w
     /\ phase' = PhaseOfLadder
     /\ conn' = "down"
     /\ BuiltUnwatched
     /\ stationDone' =
          (stationDone \/ (w.count >= StationCount /\ w.count < WarmCount))
     /\ IF ~LadderReboots(w) THEN Runs("top")
        ELSE IF WarmLeft THEN WarmReload("mqtt_startup_not_operational")
        ELSE MarkedHardReset("mqtt_repeated_connect_failures")
     /\ UNCHANGED <<fails, memory, stationReset, connackPending>>

ConnectFailsForMemory == InHandshake /\ "alloc" \in faults /\ Ladder

(* A classified failure of sync_transport_to_client; an operational        *)
(* generation is not told apart, see MqttSession.                          *)
SessionFails ==
  /\ At("session")
  /\ conn # "down"
  /\ "session" \in faults
  /\ Ladder

(* A stalled publish whose socket turns out not to be managed any more. *)
SocketPoisoned ==
  /\ At("session")
  /\ conn # "down"
  /\ "poison" \in faults
  /\ subs' = Counted(subs, WarmCount)
  /\ phase' = PhaseOfLadder
  /\ conn' = "down"
  /\ HardReset("mqtt_native_socket_poison")
  /\ UNCHANGED <<fails, memory, flags>>

(* A connection lost without a classified failure. *)
MayBeLost == conn = "operational" \/ "plain" \in faults

(* Bug: forgotten at once. *)
HousekeepingAtOnce == [nvm EXCEPT !.fault = 0]

(* The end of a pass: the hard-fault attempts are forgotten once the run   *)
(* has been stable.                                                        *)
Housekeeping ==
  IF up >= Stable THEN [nvm EXCEPT !.fault = 0] ELSE nvm
StableRun == faultResets' = IF up >= Stable THEN 0 ELSE faultResets

PassEnds ==
  /\ At("session")
  /\ nvm' = Housekeeping
  /\ StableRun
  /\ pc' = "top"
  /\ conn' \in {conn} \cup (IF MayBeLost THEN {"down"} ELSE {})
  /\ UNCHANGED <<mode, up, link, phase, wifiWasReady, windows, flags, ticked,
                 reason, reloads, fastResets, outage>>

(* _startup_subscription_recovery_drained: the generation is operational. *)
Checkpoint ==
  /\ At("session")
  /\ conn = "draining"
  /\ link = "ready"
  /\ conn' = "operational"
  /\ fails' = Closed /\ memory' = Closed /\ subs' = Closed
  /\ stationReset' = FALSE /\ stationDone' = FALSE /\ connackPending' = FALSE
  /\ nvm' = [Housekeeping EXCEPT !.warm = 0, !.hard = FALSE]
  /\ StableRun
  /\ pc' = "top"
  /\ reloads' = 0 /\ fastResets' = 0 /\ outage' = 0
  /\ UNCHANGED <<mode, up, link, phase, wifiWasReady, adapter, ticked, reason>>

-----------------------------------------------------------------------------
(* Startup: boot.py after power-on or reset, then code.py and main.        *)

(* Bug: the markers are cleared at every boot. *)
BootPyClears ==
  /\ mode \in {"power_on", "mcu_reset"}
  /\ mode' = "start"
  /\ nvm' = [hard |-> FALSE, cleanup |-> FALSE, warm |-> 0, fault |-> 0]
  /\ UNCHANGED <<pc, up, link, conn, phase, wifiWasReady, windows, flags,
                 ticked, reason, observed>>

BootPy ==
  /\ mode \in {"power_on", "mcu_reset"}
  /\ mode' = "start"
  /\ nvm' = IF mode = "power_on"
            THEN [hard |-> FALSE, cleanup |-> FALSE, warm |-> 0, fault |-> 0]
            ELSE nvm
  /\ UNCHANGED <<pc, up, link, conn, phase, wifiWasReady, windows, flags,
                 ticked, reason, observed>>

Links == {"ready"} \cup (IF "link" \in faults THEN {"down"} ELSE {})
                   \cup (IF "ap" \in faults THEN {"ap"} ELSE {})

Start ==
  /\ mode = "start"
  /\ mode' = "running"
  /\ nvm' = [nvm EXCEPT !.cleanup = FALSE]
  /\ pc' = "top"
  /\ up' = 0
  /\ link' \in Links
  /\ conn' = "down"
  /\ phase' = IF link' = "ap" THEN Started("ap") ELSE Idle
  /\ wifiWasReady' = (link' = "ready")
  /\ fails' = Closed /\ subs' = Closed
  /\ BuiltUnwatched
  /\ memory' = IF adapter' THEN Closed ELSE Counted(Closed, MemoryCount)
  /\ stationReset' = FALSE /\ stationDone' = FALSE /\ connackPending' = FALSE
  /\ ticked' = FALSE
  /\ reason' = "none"
  /\ UNCHANGED observed

(* safemode.py: the reason is a hard fault, or another one, which stops. *)
SafeModePy ==
  /\ mode \in {"hard_fault", "safe_mode"}
  /\ IF mode = "hard_fault" /\ nvm.fault < MaxFault
     THEN /\ nvm' = [nvm EXCEPT !.fault = @ + 1]
          /\ mode' = "mcu_reset"
          /\ faultResets' = faultResets + 1
     ELSE mode' = "stopped" /\ UNCHANGED <<nvm, faultResets>>
  /\ UNCHANGED <<pc, up, link, conn, phase, wifiWasReady, windows, flags,
                 ticked, reason, reloads, fastResets, outage>>

-----------------------------------------------------------------------------
(* The environment. *)
Faulted(m) ==
  /\ mode' = m
  /\ outage' = 0
  /\ UNCHANGED <<nvm, pc, up, link, conn, phase, wifiWasReady, windows, flags,
                 ticked, reason, reloads, fastResets, faultResets>>

HardFault ==
  mode \in {"start", "running"} /\ "hard_fault" \in faults
    /\ Faulted("hard_fault")
SafeModeEntered ==
  mode \in {"start", "running"} /\ "safe_mode" \in faults
    /\ Faulted("safe_mode")

PowerCycle ==
  /\ "power" \in faults
  /\ mode' = "power_on"
  /\ reloads' = 0 /\ fastResets' = 0 /\ faultResets' = 0 /\ outage' = 0
  /\ UNCHANGED <<nvm, pc, up, link, conn, phase, wifiWasReady, windows, flags,
                 ticked, reason>>

LinkLost ==
  /\ mode = "running"
  /\ "link" \in faults
  /\ link = "ready"
  /\ link' = "down"
  /\ outage' = 0
  /\ UNCHANGED <<nvm, mode, pc, up, conn, phase, wifiWasReady, windows, flags,
                 ticked, reason, reloads, fastResets, faultResets>>

LinkBack ==
  /\ At("top")
  /\ link = "down"
  /\ link' = "ready"
  /\ UNCHANGED <<nvm, mode, pc, up, conn, phase, wifiWasReady, windows, flags,
                 ticked, reason, observed>>

Tick ==
  /\ mode = "running"
  /\ ~ticked
  /\ ticked' = TRUE
  /\ up' = Older(up, Settled)
  /\ phase' = [phase EXCEPT !.age = Older(@, Long),
                            !.rebuild = Older(@, RebuildEvery)]
  /\ fails' = Aged(fails, Long)
  /\ memory' = Aged(memory, MemoryWait)
  /\ subs' = Aged(subs, Gate)
  /\ outage' = IF link = "ready" /\ conn = "down"
               THEN Atmost(outage + 1, OutageCap) ELSE outage
  /\ UNCHANGED <<nvm, mode, pc, link, conn, wifiWasReady, flags, reason,
                 reloads, fastResets, faultResets>>

-----------------------------------------------------------------------------
Init ==
  /\ faults \in Scenarios
  /\ nvm = [hard |-> FALSE, cleanup |-> FALSE, warm |-> 0, fault |-> 0]
  /\ mode = "power_on"
  /\ pc = "top" /\ up = 0 /\ link = "down" /\ conn = "down"
  /\ phase = Idle
  /\ wifiWasReady = FALSE
  /\ fails = Closed /\ memory = Closed /\ subs = Closed
  /\ stationReset = FALSE /\ stationDone = FALSE /\ connackPending = FALSE
  /\ adapter = FALSE
  /\ ticked = FALSE
  /\ reason = "none"
  /\ reloads = 0 /\ fastResets = 0 /\ faultResets = 0 /\ outage = 0

Attempt ==
  \/ BuildFails \/ Connect \/ ProbePasses \/ FirstConnackTimeout
  \/ ConnackTimeout \/ SocketProgress \/ ConnectOk \/ ConnectFailsPlainly
  \/ ConnectTimesOut \/ ConnectFailsForMemory

Session == SessionFails \/ SocketPoisoned \/ Checkpoint

Loop ==
  \/ Top \/ WifiAfterReadyFails
  \/ RebuildHeld \/ Rebuild \/ RebuildAfterConnackTimeout
  \/ Attempt \/ Session \/ PassEnds

Firmware == Loop \/ BootPy \/ Start \/ SafeModePy
Environment ==
  HardFault \/ SafeModeEntered \/ PowerCycle \/ LinkLost \/ LinkBack \/ Tick

Next == (Firmware \/ Environment) /\ UNCHANGED faults
Spec == Init /\ [][Next]_vars

(* The loop and the clock keep running, and a connection that keeps        *)
(* reaching the end of a pass drains or fails.                             *)
Fair(A) == A /\ UNCHANGED faults
LiveSpec ==
  Spec /\ WF_vars(Fair(Firmware)) /\ SF_vars(Fair(Tick))
       /\ SF_vars(Fair(Session))

-----------------------------------------------------------------------------
(* Properties.                                                             *)

Marks == [hard : BOOLEAN, cleanup : BOOLEAN,
          warm : 0..MaxWarm, fault : 0..MaxFault]
Stages == {"top", "rebuild", "connect", "probe", "handshake", "retried",
           "session"}

(* Every variable keeps its type: the NVM counters stay in the range their *)
(* readers expect, the ages and counts in the range of the comparisons.    *)
TypeOK ==
  /\ faults \in Scenarios
  /\ nvm \in Marks
  /\ mode \in {"power_on", "mcu_reset", "start", "running", "hard_fault",
               "safe_mode", "stopped"}
  /\ pc \in Stages
  /\ up \in 0..Settled
  /\ link \in {"ready", "down", "ap"}
  /\ conn \in {"down", "draining", "operational"}
  /\ phase \in Phases
  /\ fails \in Windows(FastCount, Long)
  /\ memory \in Windows(MemoryCount, MemoryWait)
  /\ subs \in Windows(WarmCount, Gate)
  /\ {wifiWasReady, stationReset, stationDone, connackPending, adapter,
      ticked} \subseteq BOOLEAN
  /\ {reloads, fastResets, faultResets, outage} \subseteq Nat

(* Between two operational checkpoints or power-ons the device reloads     *)
(* itself at most MaxWarm times, through resets, hard faults and failures  *)
(* of every kind: nothing else gives _mark_mqtt_subscription_recovery_     *)
(* requested its attempts back.                                            *)
WarmReloadsBounded == reloads <= MaxWarm

(* safemode.py and the loop agree about the attempts: between two stable   *)
(* runs or power-ons a hard fault restarts the device at most MaxFault     *)
(* times.                                                                  *)
SafeModeBounded == faultResets <= MaxFault

(* Past a threshold the device goes on only when the whole ladder is used  *)
(* up - no warm reload left, hard reset marked: it leaves the handler of a *)
(* subscription failure, and talks to the broker again after FastCount     *)
(* failed connections, whichever handler counted them.                     *)
Attempting == pc \in {"probe", "retried", "handshake"}
LadderUsedUp ==
  mode = "running" /\ (subs.count >= WarmCount \/ (Attempting /\ fails.count >= FastCount))
    => nvm.warm = MaxWarm /\ nvm.hard

(* No hard-reset loop: between two checkpoints the repeated-failure budget *)
(* resets the MCU at most once within Gate of a start.                     *)
FastResetOnce == fastResets <= 1

(* Every variable has its type - the NVM counters stay in range -, the     *)
(* ladder is climbed to its end, and its end is not a loop of resets       *)
(* (_maybe_reboot_for_mqtt_failure_budget and the marker it looks at).     *)
LadderSound == TypeOK /\ LadderUsedUp /\ FastResetOnce

(* A device on a ready link is not without a connection, run after         *)
(* checkpoint, for longer than OutageCap: it connects or reboots.          *)
OutageBounded == outage < OutageCap

(* The MQTT ladder hard-resets only when its warm reloads are used up.     *)
LadderReasons == {"mqtt_repeated_connect_failures", "mqtt_recovery_timeout",
                  "mqtt_memory_allocation_failures"}
HardAfterWarm ==
  [][Loop /\ mode' = "mcu_reset" /\ reason' \in LadderReasons
       => nvm.warm = MaxWarm]_vars

(* Unless power, hard faults or the link keep interrupting it, a device     *)
(* that is not operational becomes so or resets its MCU, again and again.   *)
Disturbed ==
  faults \cap {"power", "hard_fault", "safe_mode", "link", "ap"} # {}
NeverStuck ==
  []<>(conn = "operational" \/ mode = "mcu_reset" \/ Disturbed)

=============================================================================
