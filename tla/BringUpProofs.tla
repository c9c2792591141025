--------------------------- MODULE BringUpProofs ----------------------------
(***************************************************************************)
(* The safety properties of a device that is being brought up, for every   *)
(* set of serial suffixes, every hardware, every threshold and number of   *)
(* faults.                                                                 *)
(***************************************************************************)
EXTENDS BringUp, SequenceTheorems, TLAPS

USE DEF allVars, vars, fileVars, linkVars, clockVars

-----------------------------------------------------------------------------
(* Sockets: whoever makes the link ready has made them after the last      *)
(* reset of the radio, whatever was there before.                          *)
Stacks == [phase : {"none", "ap", "ready", "error"}, error : Errors,
           sockets : {"none", "fresh"}]
StackSound == stack \in Stacks /\ (stack.phase = "ready" => stack.sockets = "fresh")

LEMMA ReconnectedSound ==
  ASSUME StackSound, NEW reset \in BOOLEAN, NEW end \in Ends
  PROVE  LET s == Reconnected(reset, end.error)
         IN  s \in Stacks /\ (s.phase = "ready" => s.sockets = "fresh")
BY DEF StackSound, Stacks, Reconnected, Rebuilds, Ends, Errors

LEMMA ResetsAreBoolean == \A age : ResetsStation(age) \in BOOLEAN
BY DEF ResetsStation

LEMMA StackKept == ASSUME StackSound, UNCHANGED stack PROVE StackSound'
BY DEF StackSound

LEMMA StackCleared == ASSUME Leaves PROVE StackSound'
BY DEF Leaves, RadioCleared, NoStack, StackSound, Stacks, Errors

LEMMA StackStep == ASSUME StackSound, Next PROVE StackSound'
<1>1. CASE Boots
  BY <1>1, StackKept DEF Boots
<1>2. CASE StartNetwork
  <2>1. PICK end \in Ends \cup {NoSsid} :
          /\ Joins(end) \/ (cfg.ssid = "none" /\ end = NoSsid)
          /\ IF FallsBack(end) THEN AsAp ELSE AsStation(end)
    BY <1>2 DEF StartNetwork
  <2>2. CASE FallsBack(end)
    BY <2>1, <2>2 DEF AsAp, StackSound, Stacks, Errors
  <2>3. CASE ~FallsBack(end)
    <3>1. AsStation(end)
      BY <2>1, <2>3
    <3>2. end.error \in Errors
      <4>1. CASE end \in Ends
        BY <4>1 DEF Ends, Errors
      <4>2. CASE end = NoSsid
        BY <4>2 DEF NoSsid, Errors
      <4> QED BY <4>1, <4>2
    <3> QED BY <3>1, <3>2 DEF AsStation, StackSound, Stacks, Errors
  <2> QED BY <2>2, <2>3
<1>3. CASE LinkPass
  <2>1. PICK end \in Ends :
          IF RebootsAfterReady(InWifiPhase.age, end) THEN Leaves
          ELSE stack' = Reconnected(ResetsStation(InWifiPhase.age), end.error)
    BY <1>3 DEF LinkPass
  <2> QED BY <2>1, StackCleared, ReconnectedSound, ResetsAreBoolean DEF StackSound
<1>4. ASSUME NEW reset \in BOOLEAN, MqttRebuild(reset) PROVE StackSound'
  <2>1. CASE reset
    <3>1. PICK end \in Ends : stack' = Reconnected(TRUE, end.error)
      BY <1>4, <2>1 DEF MqttRebuild
    <3> QED BY <3>1, ReconnectedSound DEF StackSound
  <2>2. CASE ~reset
    BY <1>4, <2>2 DEF MqttRebuild, StackSound, Stacks
  <2> QED BY <2>1, <2>2
<1>5. CASE \/ LinkHolds \/ Tick \/ RouterGoes \/ RouterReturns \/ LinkLost \/ LinkReturns
           \/ BrokerMoved \/ ItaotAccepted \/ ItaotRefused
  BY <1>5, StackKept
     DEF LinkHolds, Tick, RouterGoes, RouterReturns, LinkLost, LinkReturns, Device,
         BrokerMoved, ItaotAccepted, ItaotRefused, Answered
<1>6. ASSUME NEW ssid, SaveNetwork(ssid) \/ ItaotInit(ssid) PROVE StackSound'
  BY <1>6, StackKept DEF SaveNetwork, ItaotInit, Saving
<1>7. ASSUME NEW profile, SaveProfile(profile) PROVE StackSound'
  BY <1>7, StackKept DEF SaveProfile, Saving
<1>8. CASE Leaving
  BY <1>8, StackKept, StackCleared
     DEF Leaving, PowerLoss, ApPass, RecoveryTimesOut, AskRestart, ItaotRestart, Restart
<1>9. CASE Synced \/ NotSynced \/ ForcedResync
  BY <1>9, StackKept DEF Synced, NotSynced, ForcedResync
<1> QED BY <1>1, <1>2, <1>3, <1>4, <1>5, <1>6, <1>7, <1>8, <1>9 DEF Next, Runs

(* No link that is ready has socket artifacts from before a reset of the   *)
(* radio (reconnect_network_stack, verify_station_connectivity).           *)
THEOREM SocketsUsable == Spec => []UsableSockets
<1>1. Init => StackSound
  BY DEF Init, StackSound, Stacks, NoStack, Errors
<1>2. StackSound /\ [Next]_allVars => StackSound'
  BY StackStep, StackKept
<1>3. StackSound => UsableSockets
  BY DEF StackSound, UsableSockets, LinkReady
<1> QED BY <1>1, <1>2, <1>3, PTL DEF Spec

-----------------------------------------------------------------------------
(* Network time: the failures counted in the windows that are over and in  *)
(* this one are the tries, and a window that is full is over.              *)
ClockSound ==
  /\ ClockTypeOK
  /\ tried = ntp.count + IF ntp.window = 1 THEN 0 ELSE MaxDnsFailures
  /\ ntp.phase # "disabled" => ntp.count < MaxDnsFailures
  /\ ntp.phase = "cooldown" => ntp.count = 0 /\ ntp.window = 2

LEMMA UntriedSound == ASSUME ntp' = Untried, tried' = 0, resyncs' \in 0..MaxResyncs
                      PROVE  ClockSound'
BY ClockAssumption DEF Untried, ClockSound, ClockTypeOK

LEMMA TrySound ==
  ASSUME ClockSound, Due, ntp' = FailedTry(AfterCooldown(ntp)), tried' = tried + 1,
         UNCHANGED resyncs
  PROVE  ClockSound'
<1> DEFINE now == AfterCooldown(ntp)
<1>1. /\ now \in [phase : {"idle", "deferred", "synced", "cooldown", "disabled"},
                  count : 0..MaxDnsFailures, window : {1, 2}]
      /\ now.count = ntp.count /\ now.window = ntp.window /\ now.count < MaxDnsFailures
  BY ClockAssumption DEF AfterCooldown, ClockSound, ClockTypeOK, Due
<1>2. ntp' = FailedTry(now)
  OBVIOUS
<1> HIDE DEF now
<1>3. CASE now.count + 1 < MaxDnsFailures
  BY <1>1, <1>2, <1>3, ClockAssumption DEF FailedTry, ClockSound, ClockTypeOK
<1>4. CASE now.count + 1 >= MaxDnsFailures
  BY <1>1, <1>2, <1>4, ClockAssumption DEF FailedTry, ClockSound, ClockTypeOK
<1> QED BY <1>1, <1>3, <1>4, ClockAssumption

LEMMA ClockStep == ASSUME ClockSound, [Next]_allVars PROVE ClockSound'
<1>1. CASE UNCHANGED clockVars
  BY <1>1 DEF ClockSound, ClockTypeOK
<1>2. CASE ClockStops
  BY <1>2, UntriedSound DEF ClockStops, ClockSound, ClockTypeOK
<1>3. CASE Synced
  BY <1>3, ClockAssumption DEF Synced, ClockSound, ClockTypeOK
<1>4. CASE NotSynced
  BY <1>4, TrySound DEF NotSynced
<1>5. CASE ForcedResync
  BY <1>5, UntriedSound, ClockAssumption DEF ForcedResync, ClockSound, ClockTypeOK
<1> QED BY <1>1, <1>2, <1>3, <1>4, <1>5 DEF Next

LEMMA ClockInit == Init => ClockSound
BY ClockAssumption DEF Init, Untried, ClockSound, ClockTypeOK

(* After two windows of failures a device asks no more (maybe_sync_ntp).   *)
THEOREM TwoWindowsOnly == Spec => []AsksTwoWindows
<1>1. ClockSound => AsksTwoWindows
  BY ClockAssumption DEF ClockSound, ClockTypeOK, AsksTwoWindows
<1> QED BY <1>1, ClockInit, ClockStep, PTL DEF Spec

-----------------------------------------------------------------------------
(* Files: what is saved and what is about to be saved.                     *)
Puts == [file : {"settings"}, content : Settings]
        \cup [file : {"sensor"}, content : Sensor]
        \cup [file : {"switch"}, content : Switch]
FilesTyped ==
  /\ FilesTypeOK
  /\ disk \in [Files -> SUBSET (Settings \cup Sensor \cup Switch)]
  /\ \A file \in Files : \A c, d \in disk[file] : c = d
  /\ todo \in Seq(Puts)

Waiting == {todo[i] : i \in DOMAIN todo}
IdsOf(put) == Serials \cap
  (IF put.file = "settings" THEN {put.content.ap, put.content.host} ELSE {put.content.serial})
WaitingIds == UNION {IdsOf(put) : put \in Waiting}

(* One suffix, on flash or on its way there.                               *)
Agreed == \A a, b \in SavedIds \cup WaitingIds : a = b

(* A hostname was generated from a device that has the suffix too.         *)
DeviceIds == Saved(disk.sensor) \cup Saved(disk.switch)
DeviceIdWaits == \E put \in Waiting : put.file # "settings" /\ put.content.serial \in Serials
Backed ==
  /\ \A c \in disk.settings : c.host \in Serials => DeviceIds # {}
  /\ \A put \in Waiting : put.file = "settings" /\ put.content.host \in Serials
                          => DeviceIds # {} \/ DeviceIdWaits

(* No write takes away what is saved; settings.toml is written last.       *)
TakesNothing(put) ==
  IF put.file = "settings"
  THEN \A c \in disk.settings :
         /\ c.ap \in Serials => put.content.ap = c.ap
         /\ c.ssid # "none" => put.content.ssid # "none"
  ELSE put.content.serial \in Serials
       \/ /\ Saved(disk[put.file]) = {}
          /\ \A other \in Waiting : other.file = put.file => other.content.serial \notin Serials
Keeping ==
  /\ \A put \in Waiting : TakesNothing(put)
  /\ \A i \in DOMAIN todo : todo[i].file = "settings" => i = Len(todo)

(* What is not live when files are created was never saved.                *)
Whole == boot = "create" => torn = {}

Writes == Agreed /\ Backed /\ Keeping
FilesInv == FilesTyped /\ Writes /\ Whole

LEMMA Kinds ==
  /\ \A put \in Puts : put.file \in Files
  /\ \A put \in Puts : put.file = "settings" => put.content \in Settings
  /\ \A put \in Puts : put.file = "sensor" => put.content \in Sensor
  /\ \A put \in Puts : put.file = "switch" => put.content \in Switch
BY DEF Puts, Files

LEMMA MakesPut ==
  /\ \A c \in Settings : Putting("settings", c) \in Puts
  /\ \A c \in Sensor : Putting("sensor", c) \in Puts
  /\ \A c \in Switch : Putting("switch", c) \in Puts
BY DEF Puts, Putting

LEMMA ReadTyped ==
  ASSUME FilesTyped
  PROVE  /\ Read("settings") \in Settings
         /\ Read("sensor") \in Sensor
         /\ Read("switch") \in Switch
         /\ \A file \in Files : \A c \in disk[file] : Read(file) = c
<1>1. \A file \in Files : \A c \in disk[file] : Read(file) = c
  BY DEF FilesTyped, Read
<1>2. /\ Template.settings \in Settings /\ Template.sensor \in Sensor
      /\ Template.switch \in Switch
  BY DEF Template, Settings, Sensor, Switch, Identities, Profiles
<1>3. \A file \in Files : disk[file] = {} => Read(file) = Template[file]
  BY DEF Read
<1> QED BY <1>1, <1>2, <1>3 DEF FilesTyped, FilesTypeOK, Files

(* Nothing is waiting any more, or the same as before.                     *)
LEMMA NoWrites == ASSUME Writes, todo' = <<>>, UNCHANGED disk PROVE Writes'
<1>1. Waiting' = {} /\ WaitingIds' = {}
  BY DEF Waiting, WaitingIds
<1>2. SavedIds' = SavedIds /\ DeviceIds' = DeviceIds
  BY DEF SavedIds, Saved, DeviceIds
<1> QED BY <1>1, <1>2 DEF Writes, Agreed, Backed, Keeping

LEMMA SameWrites == ASSUME Writes, UNCHANGED <<disk, todo>> PROVE Writes'
BY DEF Writes, Agreed, Backed, Keeping, Waiting, WaitingIds, IdsOf, SavedIds, Saved,
       DeviceIds, DeviceIdWaits, TakesNothing

LEMMA OneSetting ==
  ASSUME FilesTyped, Agreed, Backed, UNCHANGED disk,
         NEW c \in Settings, todo' = <<Putting("settings", c)>>,
         {c.ap, c.host} \cap Serials \subseteq SavedIds,
         c.host \in Serials => DeviceIds # {},
         \A d \in disk.settings : (d.ap \in Serials => c.ap = d.ap)
                                /\ (d.ssid # "none" => c.ssid # "none")
  PROVE  Writes'
<1> DEFINE put == Putting("settings", c)
<1>1. Waiting' = {put} /\ DOMAIN todo' = {1} /\ Len(todo') = 1
  BY DEF Waiting
<1>2. put.file = "settings" /\ put.content = c
  BY DEF Putting
<1>3. SavedIds' = SavedIds /\ DeviceIds' = DeviceIds
  BY DEF SavedIds, Saved, DeviceIds
<1> HIDE DEF put
<1>4. WaitingIds' = {c.ap, c.host} \cap Serials
  BY <1>1, <1>2 DEF WaitingIds, IdsOf
<1>5. Agreed'
  BY <1>3, <1>4 DEF Agreed
<1>6. Backed'
  BY <1>1, <1>2, <1>3 DEF Backed
<1>7. Keeping'
  BY <1>1, <1>2 DEF Keeping, TakesNothing
<1> QED BY <1>5, <1>6, <1>7 DEF Writes

(* Whatever is written next was computed from what is saved.               *)
LEMMA WriteTyped == ASSUME FilesTyped, Write PROVE FilesTyped'
<1> DEFINE put == Head(todo)
<1>1. put \in Puts /\ put = todo[1] /\ Tail(todo) \in Seq(Puts)
  BY DEF FilesTyped, Write
<1>2. disk' = [disk EXCEPT ![put.file] = {put.content}] /\ torn' = torn \ {put.file}
  BY DEF Write
<1>3. todo' \in Seq(Puts) /\ UNCHANGED <<hw, boot, writable, cfg, faults>>
  BY <1>1 DEF Write
<1> HIDE DEF put
<1>4. put.content \in Settings \cup Sensor \cup Switch /\ put.file \in Files
  BY <1>1, Kinds DEF Files
<1>5. disk' \in [Files -> SUBSET (Settings \cup Sensor \cup Switch)]
  BY <1>2, <1>4 DEF FilesTyped
<1>6. \A file \in Files : \A c, d \in disk'[file] : c = d
  BY <1>2, <1>4 DEF FilesTyped
<1>7. /\ disk'.settings \in SUBSET Settings /\ disk'.sensor \in SUBSET Sensor
      /\ disk'.switch \in SUBSET Switch
  <2>1. CASE put.file = "settings"
    BY <2>1, <1>1, <1>2, Kinds DEF FilesTyped, FilesTypeOK, Files
  <2>2. CASE put.file = "sensor"
    BY <2>2, <1>1, <1>2, Kinds DEF FilesTyped, FilesTypeOK, Files
  <2>3. CASE put.file = "switch"
    BY <2>3, <1>1, <1>2, Kinds DEF FilesTyped, FilesTypeOK, Files
  <2> QED BY <2>1, <2>2, <2>3, <1>4 DEF Files
<1> QED BY <1>2, <1>3, <1>5, <1>6, <1>7 DEF FilesTyped, FilesTypeOK

LEMMA WriteKeeps ==
  ASSUME FilesTyped, Writes, Write
  PROVE  /\ Writes'
         /\ SavedIds \subseteq SavedIds'
         /\ \A c \in disk.settings : c.ssid # "none"
               => \A d \in disk'.settings : d.ssid # "none"
<1> DEFINE put == Head(todo)
<1>a. todo \in Seq(Puts) /\ todo # <<>> /\ todo' = Tail(todo)
  BY DEF FilesTyped, Write
<1>b. /\ Len(todo) \in Nat \ {0} /\ Len(todo') = Len(todo) - 1 /\ put = todo[1]
      /\ DOMAIN todo = 1..Len(todo) /\ DOMAIN todo' = 1..(Len(todo) - 1)
  BY <1>a
<1>c. \A i \in DOMAIN todo' : i + 1 \in DOMAIN todo /\ todo'[i] = todo[i + 1]
  BY <1>a, <1>b
<1>d. put \in Puts /\ put \in Waiting
  BY <1>a, <1>b DEF Waiting
<1>e. Waiting' \subseteq Waiting
  BY <1>c DEF Waiting
<1>f. Waiting \subseteq Waiting' \cup {put}
  <2> SUFFICES ASSUME NEW i \in DOMAIN todo, i # 1 PROVE todo[i] \in Waiting'
    BY <1>b DEF Waiting
  <2>1. i - 1 \in DOMAIN todo' /\ todo'[i - 1] = todo[i]
    BY <1>b, <1>c
  <2> QED BY <2>1 DEF Waiting
<1>1. /\ put \in Puts /\ put \in Waiting
      /\ Waiting' \subseteq Waiting /\ Waiting \subseteq Waiting' \cup {put}
  BY <1>d, <1>e, <1>f
<1>2. disk' = [disk EXCEPT ![put.file] = {put.content}]
  BY DEF Write
<1>3. put.file = "settings" => Waiting' = {}
  <2>1. put.file = "settings" => Len(todo) = 1
    BY <1>b DEF Writes, Keeping
  <2> QED BY <2>1, <1>b DEF Waiting
<1>4. TakesNothing(put)
  BY <1>1 DEF Writes, Keeping
<1> HIDE DEF put
<1>5. /\ put.file = "settings" => disk'.settings = {put.content} /\ disk'.sensor = disk.sensor
                                  /\ disk'.switch = disk.switch
      /\ put.file = "sensor" => disk'.sensor = {put.content} /\ disk'.settings = disk.settings
                                /\ disk'.switch = disk.switch
      /\ put.file = "switch" => disk'.switch = {put.content} /\ disk'.settings = disk.settings
                                /\ disk'.sensor = disk.sensor
      /\ put.file \in Files
  BY <1>1, <1>2, Kinds DEF FilesTyped, Files
<1>6. IdsOf(put) \subseteq WaitingIds /\ WaitingIds' \subseteq WaitingIds
  BY <1>1 DEF WaitingIds
<1>7. SavedIds' \subseteq SavedIds \cup IdsOf(put)
  BY <1>5 DEF SavedIds, Saved, IdsOf, Files
<1>8. Agreed'
  BY <1>6, <1>7 DEF Writes, Agreed
<1>9. DeviceIds \subseteq DeviceIds'
  <2> SUFFICES ASSUME NEW id \in DeviceIds, put.file # "settings" PROVE id \in DeviceIds'
    BY <1>5 DEF DeviceIds
  <2>1. CASE put.content.serial \in Serials
    <3>1. put.content.serial \in WaitingIds /\ id \in SavedIds
      BY <1>6, <2>1 DEF IdsOf, DeviceIds, SavedIds
    <3>2. id = put.content.serial
      BY <3>1 DEF Writes, Agreed
    <3> QED BY <1>5, <2>1, <3>2 DEF DeviceIds, Saved, Files
  <2>2. CASE put.content.serial \notin Serials
    <3>1. Saved(disk[put.file]) = {}
      BY <1>4, <2>2 DEF TakesNothing
    <3> QED BY <1>5, <3>1 DEF DeviceIds, Files
  <2> QED BY <2>1, <2>2
<1>10. SavedIds \subseteq SavedIds'
  <2>1. CASE put.file # "settings"
    BY <1>5, <1>9, <2>1 DEF SavedIds, DeviceIds, Files
  <2>2. CASE put.file = "settings"
    <3> SUFFICES ASSUME NEW id \in SavedIds PROVE id \in SavedIds'
      OBVIOUS
    <3>1. CASE DeviceIds # {}
      <4>1. PICK other \in DeviceIds : TRUE
        BY <3>1
      <4>2. other = id
        BY <4>1 DEF Writes, Agreed, SavedIds, DeviceIds
      <4> QED BY <1>9, <4>1, <4>2 DEF SavedIds, DeviceIds
    <3>2. CASE DeviceIds = {}
      <4>1. PICK c \in disk.settings : c.ap = id /\ c.ap \in Serials
        BY <3>2 DEF Writes, Backed, SavedIds, DeviceIds
      <4>2. put.content.ap = id
        BY <1>4, <2>2, <4>1 DEF TakesNothing
      <4> QED BY <1>5, <2>2, <4>1, <4>2 DEF SavedIds
    <3> QED BY <3>1, <3>2
  <2> QED BY <2>1, <2>2
<1>11. Backed'
  <2>1. CASE put.file = "settings"
    <3>1. \A c \in disk'.settings : c.host \in Serials => DeviceIds' # {}
      <4>1. put.content.host \in Serials => DeviceIds # {} \/ DeviceIdWaits
        BY <1>1, <2>1 DEF Writes, Backed
      <4>2. ~DeviceIdWaits
        BY <1>1, <1>3, <2>1 DEF DeviceIdWaits
      <4> QED BY <1>5, <1>9, <2>1, <4>1, <4>2
    <3> QED BY <1>3, <2>1, <3>1 DEF Backed
  <2>2. CASE put.file # "settings"
    <3>1. DeviceIdWaits => DeviceIds' # {} \/ DeviceIdWaits'
      <4> SUFFICES ASSUME DeviceIdWaits, ~DeviceIdWaits' PROVE DeviceIds' # {}
        OBVIOUS
      <4>1. put.content.serial \in Serials
        BY <1>1 DEF DeviceIdWaits
      <4> QED BY <1>5, <2>2, <4>1 DEF DeviceIds, Saved, Files
    <3> QED BY <1>1, <1>5, <1>9, <2>2, <3>1 DEF Writes, Backed, Files
  <2> QED BY <2>1, <2>2
<1>12. Keeping'
  <2>1. \A i \in DOMAIN todo' : todo'[i].file = "settings" => i = Len(todo')
    BY <1>b, <1>c DEF Writes, Keeping
  <2>2. ASSUME NEW next \in Waiting' PROVE TakesNothing(next)'
    <3>1. next \in Waiting /\ TakesNothing(next) /\ put.file # "settings"
      BY <1>1, <1>3, <2>2 DEF Writes, Keeping
    <3>2. next \in Puts
      BY <1>a, <3>1 DEF Waiting
    <3>3. CASE next.file = "settings"
      BY <1>5, <3>1, <3>3 DEF TakesNothing, Files
    <3>4. CASE next.file # "settings"
      <4>1. CASE next.content.serial \in Serials
        BY <3>4, <4>1 DEF TakesNothing
      <4>2. CASE next.content.serial \notin Serials
        <5>1. /\ Saved(disk[next.file]) = {}
              /\ \A other \in Waiting : other.file = next.file => other.content.serial \notin Serials
          BY <3>1, <3>4, <4>2 DEF TakesNothing
        <5>2. Saved(disk'[next.file]) = {}
          <6>1. CASE put.file = next.file
            BY <1>1, <1>5, <3>4, <5>1, <6>1 DEF Saved, Files
          <6>2. CASE put.file # next.file
            BY <1>5, <3>1, <3>2, <3>4, <5>1, <6>2, Kinds DEF Files
          <6> QED BY <6>1, <6>2
        <5> QED BY <1>1, <3>4, <5>1, <5>2 DEF TakesNothing
      <4> QED BY <4>1, <4>2
    <3> QED BY <3>3, <3>4
  <2> QED BY <2>1, <2>2 DEF Keeping
<1>13. \A c \in disk.settings : c.ssid # "none" => \A d \in disk'.settings : d.ssid # "none"
  <2>1. CASE put.file = "settings"
    BY <1>4, <1>5, <2>1 DEF TakesNothing
  <2>2. CASE put.file # "settings"
    BY <1>5, <2>2 DEF FilesTyped, Files
  <2> QED BY <2>1, <2>2
<1> QED BY <1>8, <1>10, <1>11, <1>12, <1>13 DEF Writes

(* What detection writes carries no suffix yet.                            *)
LEMMA DetectionKeeps ==
  ASSUME FilesTyped, Writes, todo = <<>>, FirstBootstrap, UNCHANGED disk,
         NEW device \in {"none", "i2c", "soil"}, todo' = FoundSensor(device) \o FoundSwitch
  PROVE  Writes' /\ todo' \in Seq(Puts)
<1> DEFINE Blanks == {put \in Puts : put.file # "settings" /\ put.content.serial = Unset}
<1>1. \A c \in Sensor : c.serial = Unset => Filled("sensor", c) \in Seq(Blanks)
  <2> SUFFICES ASSUME NEW c \in Sensor, c.serial = Unset PROVE Filled("sensor", c) \in Seq(Blanks)
    OBVIOUS
  <2>1. Template["sensor"] \in Sensor /\ Template["sensor"].serial = Unset
    BY DEF Template, Sensor, Identities
  <2>2. Putting("sensor", Template["sensor"]) \in Blanks /\ Putting("sensor", c) \in Blanks
    BY <2>1, MakesPut DEF Putting
  <2> QED BY <2>2 DEF Filled
<1>2. \A c \in Switch : c.serial = Unset => Filled("switch", c) \in Seq(Blanks)
  <2> SUFFICES ASSUME NEW c \in Switch, c.serial = Unset PROVE Filled("switch", c) \in Seq(Blanks)
    OBVIOUS
  <2>1. Template["switch"] \in Switch /\ Template["switch"].serial = Unset
    BY DEF Template, Switch, Identities
  <2>2. Putting("switch", Template["switch"]) \in Blanks /\ Putting("switch", c) \in Blanks
    BY <2>1, MakesPut DEF Putting
  <2> QED BY <2>2 DEF Filled
<1>3. FoundSensor(device) \in Seq(Blanks)
  <2>1. [device |-> device, serial |-> Unset] \in Sensor
    BY DEF Sensor, Identities
  <2> QED BY <1>1, <2>1 DEF FoundSensor
<1>4. FoundSwitch \in Seq(Blanks)
  <2>1. [pins |-> hw.pins, serial |-> Unset] \in Switch
    BY FactoryAssumption DEF Switch, Identities, FilesTyped, FilesTypeOK, Attachable
  <2> QED BY <1>2, <2>1 DEF FoundSwitch
<1>5. todo' \in Seq(Blanks)
  BY <1>3, <1>4
<1>6. \A i \in DOMAIN todo' : todo'[i] \in Puts /\ todo'[i].file # "settings"
                             /\ todo'[i].content.serial = Unset
  BY <1>5
<1>7. todo' \in Seq(Puts)
  BY <1>5
<1> HIDE DEF Blanks
<1>8. \A put \in Waiting' : put \in Puts /\ put.file # "settings" /\ put.content.serial \notin Serials
  BY <1>6, FactoryAssumption DEF Waiting
<1>9. WaitingIds' = {} /\ SavedIds' = SavedIds /\ DeviceIds' = DeviceIds
  BY <1>8 DEF WaitingIds, IdsOf, SavedIds, Saved, DeviceIds
<1>10. Agreed' /\ Backed'
  BY <1>8, <1>9 DEF Writes, Agreed, Backed
<1>11. \A put \in Waiting' : Saved(disk[put.file]) = {}
  <2>1. Saved({}) = {}
    BY DEF Saved
  <2> QED BY <1>8, <2>1, Kinds DEF FirstBootstrap, DeviceFiles, Files
<1>12. Keeping'
  BY <1>6, <1>8, <1>11 DEF Keeping, TakesNothing
<1> QED BY <1>7, <1>10, <1>12 DEF Writes

(* Seeding gives everything the suffix that something has, or a new one.   *)
LEMMA SuffixIsKnown ==
  ASSUME FilesTyped, Writes, NEW seed_ap \in BOOLEAN, NEW suffix \in Suffixes(seed_ap)
  PROVE  /\ SavedIds \subseteq {suffix}
         /\ suffix \in Identities
         /\ HasSensor \/ HasSwitch => suffix \in Serials
         /\ Read("sensor").serial \in {suffix, Unset}
         /\ Read("switch").serial \in {suffix, Unset}
         /\ Read("settings").ap \in {suffix, Unset}
         /\ Read("settings").host \in {suffix, Unset, Chosen}
<1> DEFINE s == Read("sensor").serial
           w == Read("switch").serial
           a == Read("settings").ap
           h == Read("settings").host
<1>1. {s, w, a} \subseteq Identities /\ h \in Identities \cup {Chosen}
  BY ReadTyped DEF Settings, Sensor, Switch
<1>2. /\ s \in Serials => s \in SavedIds /\ s \in DeviceIds
      /\ w \in Serials => w \in SavedIds /\ w \in DeviceIds
      /\ a \in Serials => a \in SavedIds
      /\ h \in Serials => h \in SavedIds
  <2>1. \A file \in Files : disk[file] # {} => Read(file) \in disk[file]
    BY DEF Read
  <2>2. \A file \in Files : disk[file] = {} => Read(file) = Template[file]
    BY DEF Read
  <2>3. s \in Serials => s \in Saved(disk.sensor)
    BY <2>1, <2>2, FactoryAssumption DEF Saved, Template, Files
  <2>4. w \in Serials => w \in Saved(disk.switch)
    BY <2>1, <2>2, FactoryAssumption DEF Saved, Template, Files
  <2>5. (a \in Serials \/ h \in Serials) => Read("settings") \in disk.settings
    BY <2>1, <2>2, FactoryAssumption DEF Template, Files
  <2> QED BY <2>3, <2>4, <2>5 DEF SavedIds, DeviceIds
<1>3. DeviceIds \subseteq {s, w}
  BY ReadTyped DEF DeviceIds, Saved, Files
<1>4. SavedIds \subseteq {s, w, a, h}
  BY ReadTyped DEF SavedIds, Saved, Files
<1>5. h \in Serials => DeviceIds # {}
  <2>1. disk["settings"] = {} => h = Unset
    BY DEF Read, Template
  <2>2. disk["settings"] # {} => Read("settings") \in disk["settings"]
    BY DEF Read
  <2> QED BY <2>1, <2>2, FactoryAssumption DEF Writes, Backed
<1>6. CASE Known # Unset
  <2>1. suffix = Known /\ Known \in {s, w, a} \cap Serials
    BY <1>1, <1>6 DEF Suffixes, Known, OrElse, Identities
  <2>2. suffix \in SavedIds
    BY <1>2, <2>1
  <2>3. SavedIds \subseteq {suffix}
    BY <2>2 DEF Writes, Agreed
  <2> HIDE DEF s, w, a, h
  <2>4. {s, w, a} \subseteq {suffix, Unset} /\ h \in {suffix, Unset, Chosen}
    BY <1>1, <1>2, <2>3 DEF Identities
  <2> QED BY <2>1, <2>3, <2>4 DEF Identities, s, w, a, h
<1>7. CASE Known = Unset
  <2>1. s = Unset /\ w = Unset /\ a = Unset
    BY <1>7 DEF Known, OrElse
  <2>2. DeviceIds = {}
    BY <1>3, <2>1, FactoryAssumption DEF DeviceIds, Saved
  <2>3. h \notin Serials /\ SavedIds = {}
    BY <1>4, <1>5, <2>1, <2>2, FactoryAssumption DEF SavedIds, Saved
  <2>4. suffix \in Identities /\ (HasSensor \/ HasSwitch => suffix \in Serials)
    BY <1>7 DEF Suffixes, Identities
  <2> QED BY <1>1, <2>1, <2>3, <2>4 DEF Identities
<1> QED BY <1>6, <1>7

LEMMA Joining ==
  ASSUME NEW S, NEW x \in S, NEW y \in S, NEW z \in S
  PROVE  /\ <<x>> \o <<y>> = <<x, y>> /\ <<x>> \o <<z>> = <<x, z>> /\ <<y>> \o <<z>> = <<y, z>>
         /\ <<x, y>> \o <<z>> = <<x, y, z>>
<1>1. ASSUME NEW s \in Seq(S), NEW t \in Seq(S), NEW u \in Seq(S), Len(u) = Len(s) + Len(t),
             \A i \in 1..Len(u) : u[i] = IF i <= Len(s) THEN s[i] ELSE t[i - Len(s)]
      PROVE  s \o t = u
  <2>1. s \o t \in Seq(S) /\ Len(s \o t) = Len(u)
        /\ \A i \in 1..Len(s \o t) : (s \o t)[i] = u[i]
    BY <1>1, ConcatProperties
  <2> DEFINE joined == s \o t
  <2> HIDE DEF joined
  <2>2. joined \in Seq(S) /\ Len(joined) = Len(u) /\ \A i \in 1..Len(joined) : joined[i] = u[i]
    BY <2>1 DEF joined
  <2>3. joined = u
    BY <2>2, SeqEqual
  <2> QED BY <2>3 DEF joined
<1>2. ASSUME NEW a \in S, NEW b \in S PROVE <<a>> \o <<b>> = <<a, b>>
  <2>1. <<a>> \in Seq(S) /\ <<b>> \in Seq(S) /\ <<a, b>> \in Seq(S)
    OBVIOUS
  <2>2. Len(<<a, b>>) = Len(<<a>>) + Len(<<b>>)
    OBVIOUS
  <2>3. \A i \in 1..Len(<<a, b>>) : <<a, b>>[i] = IF i <= Len(<<a>>) THEN <<a>>[i]
                                                ELSE <<b>>[i - Len(<<a>>)]
    OBVIOUS
  <2> QED BY <2>1, <2>2, <2>3, <1>1
<1>3. <<x, y>> \o <<z>> = <<x, y, z>>
  <2>1. <<x, y>> \in Seq(S) /\ <<z>> \in Seq(S) /\ <<x, y, z>> \in Seq(S)
    OBVIOUS
  <2>2. Len(<<x, y, z>>) = Len(<<x, y>>) + Len(<<z>>)
    OBVIOUS
  <2>3. \A i \in 1..Len(<<x, y, z>>) : <<x, y, z>>[i] = IF i <= Len(<<x, y>>) THEN <<x, y>>[i]
                                                   ELSE <<z>>[i - Len(<<x, y>>)]
    OBVIOUS
  <2> QED BY <2>1, <2>2, <2>3, <1>1
<1> QED BY <1>2, <1>3

LEMMA SeedingKeeps ==
  ASSUME FilesTyped, Writes, todo = <<>>, UNCHANGED disk,
         NEW seed_ap \in BOOLEAN, NEW suffix \in Suffixes(seed_ap),
         todo' = Seeded(suffix, seed_ap)
  PROVE  Writes' /\ todo' \in Seq(Puts)
<1> DEFINE sensor == [Read("sensor") EXCEPT !.serial = OrElse(@, suffix)]
           switch == [Read("switch") EXCEPT !.serial =
                        OrElse(@, IF HasSensor THEN sensor.serial ELSE suffix)]
           hostname == IF HasSensor THEN sensor.serial
                       ELSE IF HasSwitch THEN switch.serial ELSE Unset
           settings == [Read("settings") EXCEPT
                          !.ap = IF seed_ap THEN suffix ELSE @,
                          !.host = OrElse(@, hostname)]
           x == Putting("sensor", sensor)
           y == Putting("switch", switch)
           z == Putting("settings", settings)
<1>1. todo' = (IF HasSensor THEN <<x>> ELSE <<>>) \o (IF HasSwitch THEN <<y>> ELSE <<>>) \o <<z>>
  BY DEF Seeded
<1>2. /\ sensor \in Sensor /\ sensor.serial = suffix
  BY SuffixIsKnown, ReadTyped DEF Sensor, OrElse, Identities
<1>3. /\ switch \in Switch /\ switch.serial = suffix
  BY <1>2, SuffixIsKnown, ReadTyped DEF Switch, OrElse, Identities
<1>4. hostname \in {suffix, Unset}
      /\ (hostname = suffix => HasSensor \/ HasSwitch \/ suffix = Unset)
  BY <1>2, <1>3
<1> HIDE DEF sensor, switch, hostname
<1>5. /\ settings \in Settings
      /\ settings.ap = (IF seed_ap THEN suffix ELSE Read("settings").ap)
      /\ settings.host = OrElse(Read("settings").host, hostname)
      /\ settings.ssid = Read("settings").ssid
  <2> DEFINE ap == IF seed_ap THEN suffix ELSE Read("settings").ap
             host == OrElse(Read("settings").host, hostname)
  <2>1. settings = [Read("settings") EXCEPT !.ap = ap, !.host = host]
    OBVIOUS
  <2>2. Read("settings") \in Settings
    BY ReadTyped
  <2>3. ap \in Identities /\ host \in Identities \cup {Chosen}
    BY <1>4, <2>2, SuffixIsKnown DEF Settings, OrElse, Identities
  <2> HIDE DEF ap, host, settings
  <2>4. /\ settings \in Settings /\ settings.ap = ap /\ settings.host = host
        /\ settings.ssid = Read("settings").ssid
    BY <2>1, <2>2, <2>3 DEF Settings
  <2> QED BY <2>4 DEF ap, host
<1> HIDE DEF settings
<1>6. /\ x \in Puts /\ x.file = "sensor" /\ x.content.serial = suffix
      /\ y \in Puts /\ y.file = "switch" /\ y.content.serial = suffix
      /\ z \in Puts /\ z.file = "settings" /\ z.content = settings
  BY <1>2, <1>3, <1>5, MakesPut DEF Putting
<1> HIDE DEF x, y, z
<1>a. /\ <<x>> \in Seq(Puts) /\ <<y>> \in Seq(Puts) /\ <<z>> \in Seq(Puts)
      /\ <<>> \o <<y>> = <<y>> /\ <<x>> \o <<>> = <<x>> /\ <<>> \o <<>> = <<>> /\ <<>> \o <<z>> = <<z>>
  BY <1>6, ConcatEmptySeq
<1>b. /\ <<x>> \o <<y>> = <<x, y>> /\ <<x>> \o <<z>> = <<x, z>> /\ <<y>> \o <<z>> = <<y, z>>
      /\ <<x, y>> \o <<z>> = <<x, y, z>>
  BY <1>6, Joining
<1>7. /\ todo' \in Seq(Puts)
      /\ \A i \in DOMAIN todo' : todo'[i].file = "settings" => i = Len(todo')
      /\ Waiting' = {z} \cup (IF HasSensor THEN {x} ELSE {}) \cup (IF HasSwitch THEN {y} ELSE {})
  <2>1. CASE HasSensor /\ HasSwitch
    <3>1. todo' = <<x, y, z>>
      BY <1>1, <2>1, <1>a, <1>b
    <3> QED BY <1>6, <2>1, <3>1 DEF Waiting
  <2>2. CASE HasSensor /\ ~HasSwitch
    <3>1. todo' = <<x, z>>
      BY <1>1, <2>2, <1>a, <1>b
    <3> QED BY <1>6, <2>2, <3>1 DEF Waiting
  <2>3. CASE ~HasSensor /\ HasSwitch
    <3>1. todo' = <<y, z>>
      BY <1>1, <2>3, <1>a, <1>b
    <3> QED BY <1>6, <2>3, <3>1 DEF Waiting
  <2>4. CASE ~HasSensor /\ ~HasSwitch
    <3>1. todo' = <<z>>
      BY <1>1, <2>4, <1>a, <1>b
    <3> QED BY <1>6, <2>4, <3>1 DEF Waiting
  <2> QED BY <2>1, <2>2, <2>3, <2>4
<1>8. SavedIds' = SavedIds /\ DeviceIds' = DeviceIds
  BY DEF SavedIds, Saved, DeviceIds
<1>9. settings.ap \in {suffix, Unset} /\ settings.host \in {suffix, Unset, Chosen}
  BY <1>4, <1>5, SuffixIsKnown DEF OrElse
<1>10. WaitingIds' \subseteq {suffix}
  BY <1>6, <1>7, <1>9, FactoryAssumption DEF WaitingIds, IdsOf
<1>11. Agreed'
  BY <1>8, <1>10, SuffixIsKnown DEF Agreed
<1>12. Backed'
  <2>1. settings.host \in Serials => DeviceIds # {} \/ DeviceIdWaits'
    <3> SUFFICES ASSUME settings.host \in Serials PROVE DeviceIds # {} \/ DeviceIdWaits'
      OBVIOUS
    <3>1. CASE Read("settings").host = Unset
      <4>1. hostname = suffix /\ suffix \in Serials
        BY <1>4, <1>5, <3>1, FactoryAssumption DEF OrElse
      <4>2. HasSensor \/ HasSwitch
        BY <1>4, <4>1, FactoryAssumption
      <4> QED BY <1>6, <1>7, <4>1, <4>2 DEF DeviceIdWaits
    <3>2. CASE Read("settings").host # Unset
      <4>1. Read("settings").host \in Serials
        BY <1>5, <3>2 DEF OrElse
      <4>2. Read("settings") \in disk["settings"]
        BY <3>2 DEF Read, Template
      <4> QED BY <4>1, <4>2 DEF Writes, Backed
    <3> QED BY <3>1, <3>2
  <2> QED BY <1>6, <1>7, <1>8, <2>1 DEF Writes, Backed
<1>13. Keeping'
  <2>1. HasSensor \/ HasSwitch => suffix \in Serials
    BY SuffixIsKnown
  <2>2. \A c \in disk.settings : c.ap \in Serials => settings.ap = c.ap
    <3> SUFFICES ASSUME NEW c \in disk.settings, c.ap \in Serials PROVE settings.ap = c.ap
      OBVIOUS
    <3>1. Read("settings") = c
      BY ReadTyped DEF Files
    <3>2. c.ap = suffix
      BY SuffixIsKnown DEF SavedIds
    <3> QED BY <1>5, <3>1, <3>2
  <2>3. \A c \in disk.settings : c.ssid # "none" => settings.ssid # "none"
    BY <1>5, ReadTyped DEF Files
  <2>4. \A put \in Waiting' : TakesNothing(put)'
    BY <1>6, <1>7, <2>1, <2>2, <2>3 DEF TakesNothing
  <2> QED BY <1>7, <2>4 DEF Keeping
<1> QED BY <1>7, <1>11, <1>12, <1>13 DEF Writes

(* A setting changed by start-up, a page, /itaot-init or a moved broker is *)
(* the saved one with its identities, or with a hostname of one's own.     *)
LEMMA SettingChanged ==
  ASSUME FilesTyped, Writes, UNCHANGED disk,
         NEW c \in Settings, todo' = <<Putting("settings", c)>>,
         c.ap = Read("settings").ap, c.host \in {Read("settings").host, Chosen},
         Read("settings").ssid # "none" => c.ssid # "none"
  PROVE  Writes' /\ todo' \in Seq(Puts)
<1>1. todo' \in Seq(Puts)
  BY MakesPut
<1>2. CASE disk["settings"] = {}
  <2>1. c.ap = Unset /\ c.host \in {Unset, Chosen}
    BY <1>2 DEF Read, Template
  <2>2. {c.ap, c.host} \cap Serials = {}
    BY <2>1, FactoryAssumption
  <2> QED BY <1>1, <1>2, <2>2, OneSetting DEF Writes
<1>3. CASE disk["settings"] # {}
  <2>1. Read("settings") \in disk["settings"]
    BY <1>3 DEF Read
  <2>2. {c.ap, c.host} \cap Serials \subseteq SavedIds
    BY <2>1, FactoryAssumption DEF SavedIds
  <2>3. c.host \in Serials => DeviceIds # {}
    BY <2>1, FactoryAssumption DEF Writes, Backed
  <2>4. \A d \in disk.settings : (d.ap \in Serials => c.ap = d.ap)
                               /\ (d.ssid # "none" => c.ssid # "none")
    BY ReadTyped DEF Files
  <2> QED BY <1>1, <2>2, <2>3, <2>4, OneSetting DEF Writes
<1> QED BY <1>2, <1>3

BootParts == {"off", "pin", "reset", "restore", "create", "seed_ap", "detect", "seed",
              "load", "network", "up"}
Loaded == [profile : Profiles, ssid : {"none", "right", "wrong"}, ap_mode : BOOLEAN]

LEMMA FaultsTyped ==
  ASSUME FilesTyped, Fails \/ UNCHANGED faults PROVE faults' \in 0..MaxFaults
BY FactoryAssumption DEF FilesTyped, FilesTypeOK, Fails

LEMMA TypedKept ==
  ASSUME FilesTyped, UNCHANGED <<hw, disk>>, torn' \in SUBSET Files, todo' \in Seq(Puts),
         boot' \in BootParts, writable' \in BOOLEAN, cfg' \in Loaded, Fails \/ UNCHANGED faults
  PROVE  FilesTyped'
BY FaultsTyped DEF FilesTyped, FilesTypeOK, BootParts, Loaded

LEMMA FilesStay ==
  ASSUME FilesInv, UNCHANGED fileVars, cfg' \in Loaded, Fails \/ UNCHANGED faults
  PROVE  FilesInv'
<1>1. FilesTyped'
  BY TypedKept DEF FilesInv, FilesTyped, FilesTypeOK, BootParts
<1>2. Writes' /\ Whole'
  BY SameWrites DEF FilesInv, Whole
<1> QED BY <1>1, <1>2 DEF FilesInv

LEMMA StopKeeps ==
  ASSUME FilesInv, Stopped, Interrupted \/ UNCHANGED torn, Fails \/ UNCHANGED faults
  PROVE  FilesInv'
<1>1. NotLoaded \in Loaded
  BY DEF NotLoaded, Loaded, Profiles
<1>2. torn' \in SUBSET Files
  <2>1. todo # <<>> => Head(todo).file \in Files
    BY Kinds DEF FilesInv, FilesTyped
  <2> QED BY <2>1 DEF FilesInv, FilesTyped, FilesTypeOK, Interrupted
<1>3. FilesTyped'
  BY <1>1, <1>2, TypedKept DEF FilesInv, FilesTyped, FilesTypeOK, Stopped, BootParts
<1>4. Writes' /\ Whole'
  BY NoWrites DEF FilesInv, Stopped, Whole
<1> QED BY <1>3, <1>4 DEF FilesInv

(* Every part of a start-up.                                               *)
LEMMA BootKeeps ==
  ASSUME FilesInv, Boots, ~Write PROVE FilesInv' /\ UNCHANGED disk
<1>1. /\ FilesTyped /\ Writes /\ Whole
      /\ torn \in SUBSET Files /\ boot \in BootParts /\ writable \in BOOLEAN /\ cfg \in Loaded
      /\ todo \in Seq(Puts)
  BY DEF FilesInv, FilesTyped, FilesTypeOK, BootParts, Loaded
<1>2. CASE PowerOn \/ PinNotHeld \/ Restore \/ DetectedBefore \/ Load
  <2>1. CASE Load
    <3>1. cfg' \in Loaded
      BY <1>1, <2>1, ReadTyped DEF Load, Loaded, Settings
    <3> QED BY <1>1, <2>1, <3>1, TypedKept, SameWrites DEF Load, FilesInv, Whole, BootParts
  <2>2. CASE Restore
    BY <1>1, <2>2, TypedKept, SameWrites DEF Restore, Restored, FilesInv, Whole, BootParts
  <2>3. CASE PowerOn \/ PinNotHeld \/ DetectedBefore
    BY <1>1, <2>3, TypedKept, SameWrites
       DEF PowerOn, PinNotHeld, DetectedBefore, FilesInv, Whole, BootParts
  <2> QED BY <1>2, <2>1, <2>2, <2>3
<1>3. CASE ResetAfterPin
  BY <1>3, StopKeeps DEF ResetAfterPin, Stopped
<1>4. CASE CreateSettings
  <2>1. CASE Live("settings")
    BY <1>1, <1>4, <2>1, TypedKept, SameWrites DEF CreateSettings, FilesInv, Whole, BootParts
  <2>2. CASE ~Live("settings")
    <3>1. disk["settings"] = {} /\ UNCHANGED disk
      BY <1>1, <1>4, <2>2 DEF CreateSettings, At, Whole, Live
    <3>2. Read("settings") = Template.settings
      BY <3>1 DEF Read
    <3>3. Writes' /\ todo' \in Seq(Puts)
      BY <1>1, <1>4, <2>2, <3>1, <3>2, ReadTyped, SettingChanged DEF CreateSettings
    <3> QED BY <1>1, <1>4, <2>2, <3>3, TypedKept DEF CreateSettings, FilesInv, Whole, BootParts
  <2> QED BY <2>1, <2>2
<1>5. CASE PinHeld
  <2>1. CASE Live("settings")
    <3> DEFINE c == [Read("settings") EXCEPT !.profile = "nodusweb"]
    <3>1. /\ c \in Settings /\ c.ap = Read("settings").ap /\ c.host = Read("settings").host
          /\ c.ssid = Read("settings").ssid
      BY <1>1, ReadTyped DEF Settings, Profiles
    <3>2. todo' = <<Putting("settings", c)>> /\ UNCHANGED disk
      BY <1>5, <2>1 DEF PinHeld
    <3> HIDE DEF c
    <3>3. Writes' /\ todo' \in Seq(Puts)
      BY <1>1, <3>1, <3>2, SettingChanged
    <3> QED BY <1>1, <1>5, <2>1, <3>3, TypedKept DEF PinHeld, FilesInv, Whole, BootParts
  <2>2. CASE ~Live("settings")
    BY <1>1, <1>5, <2>2, TypedKept, SameWrites DEF PinHeld, FilesInv, Whole, BootParts
  <2> QED BY <2>1, <2>2
<1>6. ASSUME NEW seed_ap \in BOOLEAN, NEW part, NEW next \in {"detect", "load"},
             Seed(part, seed_ap, next)
      PROVE  FilesInv' /\ UNCHANGED disk
  <2>1. PICK suffix \in Suffixes(seed_ap) : todo' = Seeded(suffix, seed_ap)
    BY <1>6 DEF Seed
  <2>2. todo = <<>> /\ UNCHANGED disk
    BY <1>6 DEF Seed, At
  <2>3. Writes' /\ todo' \in Seq(Puts)
    BY <1>1, <2>1, <2>2, SeedingKeeps
  <2> QED BY <1>1, <1>6, <2>2, <2>3, TypedKept DEF Seed, FilesInv, Whole, BootParts
<1>7. ASSUME NEW device \in {"none", "i2c", "soil"}, Detect(device), Fails \/ UNCHANGED faults
      PROVE  FilesInv' /\ UNCHANGED disk
  <2>1. /\ todo = <<>> /\ FirstBootstrap /\ UNCHANGED disk
        /\ todo' = FoundSensor(device) \o FoundSwitch
    BY <1>7 DEF Detect, At
  <2>2. Writes' /\ todo' \in Seq(Puts)
    BY <1>1, <2>1, DetectionKeeps
  <2> QED BY <1>1, <1>7, <2>1, <2>2, TypedKept DEF Detect, FilesInv, Whole, BootParts
<1>8. CASE SeedSetupAp \/ SeedIds
  BY <1>6, <1>8 DEF SeedSetupAp, SeedIds
<1>9. CASE DetectHardware \/ SensorNotHeard
  <2>1. hw.sensor \in {"none", "i2c", "soil"}
    BY <1>1, FactoryAssumption DEF FilesTyped, FilesTypeOK, Attachable
  <2> QED BY <1>7, <1>9, <2>1 DEF DetectHardware, SensorNotHeard
<1> QED BY <1>2, <1>3, <1>4, <1>5, <1>8, <1>9 DEF Boots, Starting

-----------------------------------------------------------------------------
(* The other variables keep their types.                                   *)
Phases == [name : {"idle", "ap", "wifi"}, age : 0..GiveUp]
Failures == [last : Errors \cup AfterReadyErrors, same : 0..ResetCount, after : 0..RebootCount]
LinkTyped ==
  /\ router \in BOOLEAN /\ linked \in BOOLEAN /\ wasReady \in BOOLEAN
  /\ outages \in 0..MaxOutages /\ saves \in 0..MaxSaves
  /\ phase \in Phases
  /\ failures \in Failures
  /\ onboarded \in BOOLEAN
  /\ pending \in {"none", "token", "restart"}

LEMMA IdleTyped == Idle \in Phases /\ NoFailures \in Failures
BY LinkAssumption DEF Idle, Phases, NoFailures, Failures, Errors

LEMMA WifiTyped == ASSUME LinkTyped PROVE InWifiPhase \in Phases
BY LinkAssumption DEF LinkTyped, InWifiPhase, Phases

LEMMA FailedTyped == ASSUME LinkTyped, NEW end \in Ends PROVE Failed(end.error) \in Failures
<1> DEFINE sign == Signature(end.error)
<1>1. sign \in Errors \cup AfterReadyErrors
  BY DEF Signature, Ends, Errors, AfterReadyErrors
<1>2. Failed(end.error) =
        [last |-> sign,
         same |-> IF sign = failures.last THEN Atmost(failures.same + 1, ResetCount) ELSE 1,
         after |-> IF sign \in AfterReadyErrors THEN Atmost(failures.after + 1, RebootCount)
                   ELSE 0]
  BY DEF Failed
<1> HIDE DEF sign
<1>3. /\ Atmost(failures.same + 1, ResetCount) \in 0..ResetCount
      /\ Atmost(failures.after + 1, RebootCount) \in 0..RebootCount
      /\ 1 \in 0..ResetCount /\ 0 \in 0..RebootCount
  BY LinkAssumption DEF LinkTyped, Failures, Atmost
<1> QED BY <1>1, <1>2, <1>3 DEF Failures

LEMMA LeftTyped == ASSUME LinkTyped, Leaves PROVE LinkTyped'
BY IdleTyped DEF LinkTyped, Leaves, RadioCleared

LEMMA LinkStep == ASSUME LinkTyped, [Next]_allVars PROVE LinkTyped'
<1>1. CASE UNCHANGED linkVars
  BY <1>1 DEF LinkTyped
<1>2. CASE StartNetwork
  <2>1. PICK end \in Ends \cup {NoSsid} : IF FallsBack(end) THEN AsAp ELSE AsStation(end)
    BY <1>2 DEF StartNetwork
  <2>2. end.address \in BOOLEAN
    <3>1. CASE end \in Ends
      BY <3>1 DEF Ends
    <3>2. CASE end = NoSsid
      BY <3>2 DEF NoSsid
    <3> QED BY <3>1, <3>2
  <2>3. [name |-> "ap", age |-> 0] \in Phases
    BY LinkAssumption DEF Phases
  <2>4. phase' \in Phases /\ linked' \in BOOLEAN /\ wasReady' \in BOOLEAN
    BY <2>1, <2>2, <2>3, IdleTyped DEF AsAp, AsStation
  <2> QED BY <1>2, <2>4, IdleTyped DEF StartNetwork, LinkTyped
<1>3. CASE LinkPass
  <2>1. PICK end \in Ends :
          IF RebootsAfterReady(InWifiPhase.age, end) THEN Leaves
          ELSE /\ linked' = end.address
               /\ phase' = InWifiPhase
               /\ wasReady' = (wasReady \/ end = Joined)
               /\ failures' = IF end = Joined THEN NoFailures ELSE Failed(end.error)
               /\ UNCHANGED <<router, outages, onboarded, pending, saves>>
    BY <1>3 DEF LinkPass
  <2>2. end.address \in BOOLEAN
    BY DEF Ends
  <2> QED BY <2>1, <2>2, LeftTyped, WifiTyped, FailedTyped, IdleTyped DEF LinkTyped
<1>4. ASSUME NEW reset \in BOOLEAN, MqttRebuild(reset) PROVE LinkTyped'
  <2>1. linked' \in BOOLEAN
    BY <1>4 DEF MqttRebuild, LinkTyped, Ends
  <2> QED BY <1>4, <2>1 DEF MqttRebuild, LinkTyped
<1>5. CASE LinkHolds
  BY <1>5, IdleTyped DEF LinkHolds, LinkTyped
<1>6. CASE Tick
  <2>1. phase' \in Phases
    BY <1>6, LinkAssumption DEF Tick, LinkTyped, Phases
  <2> QED BY <1>6, <2>1 DEF Tick, LinkTyped
<1>7. CASE RouterGoes \/ RouterReturns \/ LinkLost \/ LinkReturns
  <2>1. outages' \in 0..MaxOutages
    BY <1>7, LinkAssumption
       DEF RouterGoes, RouterReturns, LinkLost, LinkReturns, LinkTyped
  <2>2. router' \in BOOLEAN /\ linked' \in BOOLEAN
    BY <1>7 DEF RouterGoes, RouterReturns, LinkLost, LinkReturns, LinkTyped
  <2>3. UNCHANGED <<phase, wasReady, failures, onboarded, pending, saves>>
    BY <1>7 DEF RouterGoes, RouterReturns, LinkLost, LinkReturns, Device
  <2> QED BY <2>1, <2>2, <2>3 DEF LinkTyped
<1>8. CASE BrokerMoved \/ ItaotAccepted \/ ItaotRefused
  BY <1>8 DEF BrokerMoved, ItaotAccepted, ItaotRefused, Answered, LinkTyped
<1>9. ASSUME NEW settings, Saving(settings), UNCHANGED pending \/ pending' = "token"
      PROVE  LinkTyped'
  BY <1>9, LinkAssumption DEF Saving, LinkTyped
<1>10. CASE Leaving
  BY <1>10, <1>1, LeftTyped
     DEF Leaving, PowerLoss, ApPass, RecoveryTimesOut, AskRestart, ItaotRestart, Restart
<1>11. ASSUME NEW ssid, SaveNetwork(ssid) \/ ItaotInit(ssid) PROVE LinkTyped'
  BY <1>9, <1>11 DEF SaveNetwork, ItaotInit
<1>12. ASSUME NEW profile, SaveProfile(profile) PROVE LinkTyped'
  BY <1>9, <1>12 DEF SaveProfile
<1>13. CASE Runs
  BY <1>2, <1>4, <1>5, <1>6, <1>7, <1>8, <1>11, <1>12, <1>13 DEF Runs
<1> QED BY <1>1, <1>3, <1>10, <1>13 DEF Next, Boots, Synced, NotSynced, ForcedResync

-----------------------------------------------------------------------------
(* What a running device writes, and every end of it.                      *)
LEMMA SavingKeeps ==
  ASSUME FilesInv, NEW c \in Settings, c.ap = Read("settings").ap,
         c.host \in {Read("settings").host, Chosen},
         Read("settings").ssid # "none" => c.ssid # "none",
         boot = "up", todo' = <<Putting("settings", c)>>,
         UNCHANGED <<hw, disk, torn, boot, writable, cfg, faults>>
  PROVE  FilesInv'
<1>1. Writes' /\ todo' \in Seq(Puts)
  BY SettingChanged DEF FilesInv
<1> QED BY <1>1, TypedKept DEF FilesInv, FilesTyped, FilesTypeOK, Whole, BootParts, Loaded

LEMMA RunKeeps ==
  ASSUME FilesInv, [Next]_allVars, ~Boots PROVE FilesInv' /\ UNCHANGED disk
<1>1. FilesTyped /\ cfg \in Loaded /\ Read("settings") \in Settings /\ torn \in SUBSET Files
  BY ReadTyped DEF FilesInv, FilesTyped, FilesTypeOK, Loaded
<1>2. CASE UNCHANGED vars
  BY <1>1, <1>2, FilesStay
<1>3. CASE StartNetwork
  <2>1. PICK end \in Ends \cup {NoSsid} :
          /\ Fails \/ UNCHANGED faults
          /\ IF FallsBack(end) THEN AsAp ELSE AsStation(end)
    BY <1>3 DEF StartNetwork, Joins
  <2>2. cfg' \in Loaded
    BY <1>1, <2>1 DEF AsAp, AsStation, Loaded, Profiles
  <2>3. FilesTyped'
    BY <1>1, <1>3, <2>1, <2>2, TypedKept DEF StartNetwork, FilesTyped, FilesTypeOK, BootParts
  <2>4. Writes'
    BY <1>3, SameWrites DEF StartNetwork, FilesInv
  <2> QED BY <1>3, <2>3, <2>4 DEF StartNetwork, FilesInv, Whole
<1>4. CASE Leaves /\ (Interrupted \/ UNCHANGED torn) /\ (Fails \/ UNCHANGED faults)
  BY <1>4, StopKeeps DEF Leaves, Stopped
<1>5. CASE Leaving
  BY <1>2, <1>4, <1>5
     DEF Leaving, PowerLoss, ApPass, RecoveryTimesOut, AskRestart, ItaotRestart, Restart
<1>6. CASE LinkPass
  <2>1. PICK end \in Ends :
          /\ Joins(end)
          /\ IF RebootsAfterReady(InWifiPhase.age, end) THEN Leaves /\ UNCHANGED torn
             ELSE UNCHANGED <<fileVars, cfg>>
    BY <1>6 DEF LinkPass
  <2>2. Fails \/ UNCHANGED faults
    BY <2>1 DEF Joins
  <2> QED BY <1>1, <1>4, <2>1, <2>2, FilesStay
<1>7. ASSUME NEW reset \in BOOLEAN, MqttRebuild(reset) PROVE FilesInv' /\ UNCHANGED disk
  <2>1. (Fails \/ UNCHANGED faults) /\ UNCHANGED <<fileVars, cfg>>
    BY <1>7 DEF MqttRebuild, Joins
  <2> QED BY <1>1, <2>1, FilesStay
<1>8. CASE LinkHolds \/ Tick \/ RouterGoes \/ RouterReturns \/ LinkLost \/ LinkReturns
           \/ ItaotAccepted \/ ItaotRefused
  BY <1>1, <1>8, FilesStay
     DEF LinkHolds, Tick, RouterGoes, RouterReturns, LinkLost, LinkReturns, Device,
         ItaotAccepted, ItaotRefused, Answered
<1>9. CASE BrokerMoved
  BY <1>1, <1>9, SavingKeeps DEF BrokerMoved, Looping, Running
<1>10. ASSUME NEW c \in Settings, Saving(c), c.ap = Read("settings").ap,
              c.host \in {Read("settings").host, Chosen},
              Read("settings").ssid # "none" => c.ssid # "none"
       PROVE  FilesInv' /\ UNCHANGED disk
  BY <1>10, SavingKeeps DEF Saving, Looping, Running
<1>11. ASSUME NEW ssid \in {"right", "wrong"}, SaveNetwork(ssid)
       PROVE  FilesInv' /\ UNCHANGED disk
  <2> DEFINE c == [Read("settings") EXCEPT !.ssid = ssid]
  <2>1. /\ c \in Settings /\ c.ap = Read("settings").ap /\ c.host = Read("settings").host
        /\ c.ssid = ssid
    BY <1>1 DEF Settings
  <2>2. Saving(c)
    BY <1>11 DEF SaveNetwork
  <2> HIDE DEF c
  <2> QED BY <2>1, <2>2, <1>10
<1>12. ASSUME NEW ssid \in {"right", "wrong"}, ItaotInit(ssid)
       PROVE  FilesInv' /\ UNCHANGED disk
  <2> DEFINE c == [Read("settings") EXCEPT !.ssid = ssid, !.host = Chosen, !.profile = "mqtt"]
  <2>1. /\ c \in Settings /\ c.ap = Read("settings").ap /\ c.host = Chosen /\ c.ssid = ssid
    BY <1>1 DEF Settings, Profiles
  <2>2. Saving(c)
    BY <1>12 DEF ItaotInit
  <2> HIDE DEF c
  <2> QED BY <2>1, <2>2, <1>10
<1>13. ASSUME NEW profile \in Profiles, SaveProfile(profile)
       PROVE  FilesInv' /\ UNCHANGED disk
  <2> DEFINE c == [Read("settings") EXCEPT !.profile = profile]
  <2>1. /\ c \in Settings /\ c.ap = Read("settings").ap /\ c.host = Read("settings").host
        /\ c.ssid = Read("settings").ssid
    BY <1>1 DEF Settings
  <2>2. Saving(c)
    BY <1>13 DEF SaveProfile
  <2> HIDE DEF c
  <2> QED BY <2>1, <2>2, <1>10
<1>14. CASE Runs
  BY <1>3, <1>7, <1>8, <1>9, <1>11, <1>12, <1>13, <1>14 DEF Runs
<1>15. CASE Synced \/ NotSynced \/ ForcedResync
  BY <1>2, <1>15 DEF Synced, NotSynced, ForcedResync
<1> QED BY <1>2, <1>5, <1>6, <1>14, <1>15 DEF Next

LEMMA FilesStep ==
  ASSUME FilesInv, [Next]_allVars
  PROVE  /\ FilesInv'
         /\ SavedIds \subseteq SavedIds'
         /\ Read("settings").ssid # "none" => (Read("settings").ssid # "none")'
<1>1. CASE UNCHANGED disk /\ FilesInv'
  BY <1>1 DEF SavedIds, Saved, Read
<1>2. CASE Write
  <2>1. FilesTyped' /\ Writes'
    BY <1>2, WriteTyped, WriteKeeps DEF FilesInv
  <2>2. Whole'
    BY <1>2 DEF Write, FilesInv, Whole
  <2>3. SavedIds \subseteq SavedIds'
    BY <1>2, WriteKeeps DEF FilesInv
  <2>4. ASSUME Read("settings").ssid # "none" PROVE (Read("settings").ssid # "none")'
    <3>1. Read("settings") \in disk["settings"]
      BY <2>4 DEF Read, Template
    <3>2. \A d \in disk'["settings"] : d.ssid # "none"
      BY <1>2, <2>4, <3>1, WriteKeeps DEF FilesInv
    <3>3. disk'["settings"] # {}
      <4>1. Head(todo).file \in Files /\ disk["settings"] # {}
        BY <1>2, <3>1, Kinds DEF FilesInv, FilesTyped, Write
      <4> QED BY <1>2, <4>1 DEF Write, FilesInv, FilesTyped, Files
    <3>4. Read("settings")' \in disk'["settings"]
      BY <3>3 DEF Read
    <3> QED BY <3>2, <3>4
  <2> QED BY <2>1, <2>2, <2>3, <2>4 DEF FilesInv
<1>3. CASE Boots /\ ~Write
  BY <1>1, <1>3, BootKeeps
<1>4. CASE ~Boots
  BY <1>1, <1>4, RunKeeps
<1> QED BY <1>2, <1>3, <1>4

LEMMA BringUpInit == Init => FilesInv /\ LinkTyped /\ StackSound /\ ClockSound
<1> SUFFICES ASSUME Init PROVE FilesInv /\ LinkTyped /\ StackSound /\ ClockSound
  OBVIOUS
<1>1. FilesTyped
  <2>1. /\ disk = [file \in Files |-> {}] /\ todo = <<>> /\ faults = 0 /\ hw \in Hardware
        /\ torn = {} /\ boot = "off" /\ writable = FALSE /\ cfg = NotLoaded
    BY DEF Init, FilesInit
  <2>2. disk.settings = {} /\ disk.sensor = {} /\ disk.switch = {}
    BY <2>1 DEF Files
  <2>3. disk \in [Files -> SUBSET (Settings \cup Sensor \cup Switch)]
    BY <2>1
  <2>4. NotLoaded \in [profile : Profiles, ssid : {"none", "right", "wrong"}, ap_mode : BOOLEAN]
    BY DEF NotLoaded, Profiles
  <2>5. FilesTypeOK
    <3>1. hw \in Hardware /\ torn \in SUBSET Files /\ writable \in BOOLEAN
      BY <2>1
    <3>2. faults \in 0..MaxFaults
      BY <2>1, FactoryAssumption
    <3>3. cfg \in [profile : Profiles, ssid : {"none", "right", "wrong"}, ap_mode : BOOLEAN]
      BY <2>1, <2>4
    <3> QED BY <2>1, <2>2, <3>1, <3>2, <3>3 DEF FilesTypeOK
  <2> QED BY <2>1, <2>3, <2>5 DEF FilesTyped
<1>2. Waiting = {} /\ WaitingIds = {} /\ SavedIds = {} /\ DOMAIN todo = {}
  BY DEF Init, FilesInit, Waiting, WaitingIds, SavedIds, Saved, Files
<1>3. Writes /\ Whole
  BY <1>2 DEF Init, FilesInit, Files, Writes, Agreed, Backed, Keeping, Whole
<1>4. LinkTyped
  <2>1. outages \in 0..MaxOutages /\ saves \in 0..MaxSaves
    BY LinkAssumption DEF Init
  <2> QED BY <2>1, IdleTyped DEF Init, LinkTyped
<1>5. StackSound
  BY DEF Init, StackSound, Stacks, NoStack, Errors
<1> QED BY <1>1, <1>3, <1>4, <1>5, ClockInit DEF FilesInv

BringUpInv == FilesInv /\ LinkTyped /\ StackSound /\ ClockSound

LEMMA BringUpInvHolds == Spec => []BringUpInv
<1>1. Init => BringUpInv
  BY BringUpInit DEF BringUpInv
<1>2. BringUpInv /\ [Next]_allVars => BringUpInv'
  BY FilesStep, LinkStep, StackStep, StackKept, ClockStep DEF BringUpInv
<1> QED BY <1>1, <1>2, PTL DEF Spec

(* Every variable has its type, and the setup AP, the sensor, the switch   *)
(* and the generated hostname have one serial suffix, wherever the power   *)
(* fails (_ensure_seeded_ids_and_hostname).                                *)
THEOREM OneIdentity == Spec => []IdentitySound
<1>1. BringUpInv => IdentitySound
  <2> SUFFICES ASSUME BringUpInv PROVE IdentitySound
    OBVIOUS
  <2>1. TypeOK
    BY DEF BringUpInv, FilesInv, FilesTyped, LinkTyped, Phases, Failures, StackSound, Stacks,
           ClockSound, TypeOK
  <2>2. IdsAgree
    BY DEF BringUpInv, FilesInv, Writes, Agreed, IdsAgree
  <2> QED BY <2>1, <2>2 DEF IdentitySound
<1> QED BY <1>1, BringUpInvHolds, PTL

(* Identities and credentials that were saved are never lost, by a torn    *)
(* write, a restart or a rewrite of the file they are in                   *)
(* (bootstrap_factory_defaults, _read_toml_file).                          *)
THEOREM SavedSurvives == Spec => NothingForgotten
<1>1. BringUpInv /\ [Next]_allVars
        => [/\ SavedIds \subseteq SavedIds'
            /\ Read("settings").ssid # "none" => (Read("settings").ssid # "none")']_disk
  BY FilesStep DEF BringUpInv
<1> QED BY <1>1, BringUpInvHolds, PTL DEF Spec, NothingForgotten

=============================================================================
