------------------------------- MODULE BringUp ------------------------------
(***************************************************************************)
(* A device from its first boot to a working link, and back to it after    *)
(* outages, restarts and losses of power: FactoryFiles, StationLink and    *)
(* ClockSync together.  cfg, what main loaded, is what they share; a       *)
(* restart of the program goes through all of the files again.             *)
(***************************************************************************)
EXTENDS ClockSync

allVars == <<vars, clockVars>>

Init ==
  /\ FilesInit
  /\ router \in BOOLEAN
  /\ outages = 0
  /\ linked = FALSE
  /\ stack = NoStack
  /\ phase = Idle
  /\ wasReady = FALSE
  /\ failures = NoFailures
  /\ onboarded = FALSE
  /\ pending = "none"
  /\ saves = 0
  /\ ntp = Untried /\ tried = 0 /\ resyncs = 0

(* What runs before the network leaves the link as it is.                  *)
Boots == (Starting \/ PinHeld \/ SensorNotHeard \/ Write) /\ UNCHANGED linkVars

Runs == \/ StartNetwork \/ LinkHolds \/ Tick \/ RouterGoes \/ RouterReturns
        \/ LinkLost \/ LinkReturns \/ BrokerMoved \/ ItaotAccepted \/ ItaotRefused
        \/ \E ssid \in {"right", "wrong"} : SaveNetwork(ssid) \/ ItaotInit(ssid)
        \/ \E profile \in Profiles : SaveProfile(profile)
        \/ \E reset \in BOOLEAN : MqttRebuild(reset)

(* The clock's state is lost with the program.                             *)
Leaving == PowerLoss \/ ApPass \/ RecoveryTimesOut \/ AskRestart \/ ItaotRestart

Next ==
  \/ Boots /\ UNCHANGED clockVars
  \/ Runs /\ UNCHANGED clockVars
  \/ Leaving /\ ClockStops
  \/ LinkPass /\ IF boot' = "off" THEN ClockStops ELSE UNCHANGED clockVars
  \/ Synced \/ NotSynced \/ ForcedResync

(* A powered device starts and goes round its loop; the clock of a phase   *)
(* advances; a scheduled restart comes.  Nothing outside it is fair: not   *)
(* the router, nor the radio's own return, nor whoever uses its pages.     *)
Fairness ==
  /\ WF_allVars((Starting /\ UNCHANGED linkVars) /\ UNCHANGED clockVars)
  /\ WF_allVars((Write /\ UNCHANGED linkVars) /\ UNCHANGED clockVars)
  /\ WF_allVars((StartNetwork \/ ItaotAccepted \/ ItaotRefused) /\ UNCHANGED clockVars)
  /\ WF_allVars(LinkPass /\ IF boot' = "off" THEN ClockStops ELSE UNCHANGED clockVars)
  /\ WF_allVars((ApPass \/ RecoveryTimesOut \/ ItaotRestart) /\ ClockStops)
  /\ WF_allVars(Tick /\ UNCHANGED clockVars)

Spec == Init /\ [][Next]_allVars
FairSpec == Spec /\ Fairness

-----------------------------------------------------------------------------
TypeOK ==
  /\ FilesTypeOK
  /\ ClockTypeOK
  /\ router \in BOOLEAN /\ linked \in BOOLEAN /\ wasReady \in BOOLEAN
  /\ outages \in 0..MaxOutages /\ saves \in 0..MaxSaves
  /\ stack \in [phase : {"none", "ap", "ready", "error"}, error : Errors,
                sockets : {"none", "fresh", "stale"}]
  /\ phase \in [name : {"idle", "ap", "wifi"}, age : 0..GiveUp]
  /\ failures \in [last : Errors \cup AfterReadyErrors, same : 0..ResetCount,
                   after : 0..RebootCount]
  /\ onboarded \in BOOLEAN
  /\ pending \in {"none", "token", "restart"}

(* Every variable has its type - NTP counts within its windows - and the   *)
(* files of a device agree on its serial suffix at every step of a start.  *)
IdentitySound == TypeOK /\ IdsAgree

(* A link that is ready has socket artifacts of the radio as it is now:    *)
(* none made before a station reset is handed to MQTT, web or NTP.         *)
UsableSockets == LinkReady => stack.sockets = "fresh"

(* Where the saved credentials are right, a device joins its network and   *)
(* stays on it once the network is there for good and faults end: from     *)
(* the setup AP, from a first boot cut short, from any recovery phase.     *)
EventuallyJoined ==
  <>[](router /\ Read("settings").ssid = "right") => <>[]LinkReady

(* "Using an incorrect network name or password will send the device back  *)
(* to AP mode" (docs/user_guide.md:168).                                   *)
WrongCredentialsReachAp ==
  (boot = "up" /\ cfg.ssid = "wrong")
    ~> (stack.phase = "ap" \/ Read("settings").ssid # "wrong")

=============================================================================
