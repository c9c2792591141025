---------------------------- MODULE FactoryFiles ----------------------------
(***************************************************************************)
(* The TOML files of a device from its first boot on: factory detection,   *)
(* the serial suffix shared by all its identities, the factory-reset pin,  *)
(* and what a loss of power leaves of each write (core/settings.py,        *)
(* core/filesystem.py, the start of main in app.py).                       *)
(*                                                                         *)
(* Abstractions.  A file is {} (missing) or {content}; content is what     *)
(* bootstrap decides on: a serial suffix stands for every identity formed  *)
(* with it (SERIAL_NUM and SENSOR_ID, DEVICE_SERIAL_NUM, SWITCH_DEVICE_ID  *)
(* and the channel IDs, AP_SSID, HOSTNAME).  Of sensor_i2c.toml and        *)
(* sensor_soil.toml only the one bootstrap creates exists.  A write is     *)
(* DurableFile's: the old content, the new one, or - between its two       *)
(* renames - the old one in .bak and no live file, here "torn".  boot is   *)
(* the part of start-up that runs next; it waits until todo, the writes    *)
(* the part before has to make, is empty.                                  *)
(***************************************************************************)
EXTENDS Naturals, Sequences

CONSTANTS
  Serials,    \* what make_serial_number can return
  Unset,      \* an identity that is blank
  Chosen,     \* an identity the operator has chosen
  Hardware,   \* [sensor, pins]: what can be attached to a device
  MaxFaults   \* bound: losses of power, missed probes, pins held, failed joins

(* What the pins of a board can have attached to them.                     *)
Attachable == [sensor : {"none", "i2c", "soil"}, pins : SUBSET {1, 2}]

ASSUME FactoryAssumption ==
  /\ Unset \notin Serials /\ Chosen \notin Serials /\ Unset # Chosen
  /\ Hardware \subseteq Attachable
  /\ MaxFaults \in Nat

VARIABLES
  hw,       \* the hardware of this device
  disk,     \* the files' content, wherever it is held
  torn,     \* files whose content is held by .bak alone
  todo,     \* writes under way: sequence of [file, content]
  boot,     \* what runs next
  writable, \* filesystem_writable of this boot
  cfg,      \* runtime_config: what main loaded, and ap_mode
  faults    \* what has gone wrong so far

fileVars == <<hw, disk, torn, todo, boot, writable>>

Files == {"settings", "sensor", "switch"}
DeviceFiles == {"sensor", "switch"}
Profiles == {"nodusweb", "mqtt"}
Identities == Serials \cup {Unset}

Settings == [ap : Identities, host : Identities \cup {Chosen},
             profile : Profiles, ssid : {"none", "right", "wrong"}]
Sensor == [device : {"none", "i2c", "soil"}, serial : Identities]
Switch == [pins : SUBSET {1, 2}, serial : Identities]

(* The templates, which are also what a missing document reads as.         *)
Template ==
  [settings |-> [ap |-> Unset, host |-> Unset, profile |-> "nodusweb", ssid |-> "none"],
   sensor   |-> [device |-> "none", serial |-> Unset],
   switch   |-> [pins |-> {}, serial |-> Unset]]

(* _read_toml_file: the live file, or .bak when there is none.             *)
Read(file) == IF disk[file] = {} THEN Template[file]
              ELSE CHOOSE content \in disk[file] : TRUE

(* _path_exists of the live file *)
Live(file) == disk[file] # {} /\ file \notin torn

Putting(file, content) == [file |-> file, content |-> content]

-----------------------------------------------------------------------------
(* Writing.                                                                *)

(* _write_toml_file, _replace_toml_file and commit_file: the head of todo. *)
Write ==
  /\ todo # <<>>
  /\ LET put == Head(todo)
     IN  /\ disk' = [disk EXCEPT ![put.file] = {put.content}]
         /\ torn' = torn \ {put.file}
  /\ todo' = Tail(todo)
  /\ UNCHANGED <<hw, boot, writable, cfg, faults>>

(* What of the write under way is seen when power comes back.              *)
Interrupted ==
  \/ UNCHANGED torn
  \/ /\ todo # <<>>
     /\ Live(Head(todo).file)
     /\ torn' = torn \cup {Head(todo).file}

(* The program stops; flash stays.                                         *)
NotLoaded == [profile |-> "nodusweb", ssid |-> "none", ap_mode |-> FALSE]
Stopped == /\ boot' = "off"
           /\ todo' = <<>>
           /\ cfg' = NotLoaded
           /\ UNCHANGED <<hw, disk, writable>>

Fails == faults < MaxFaults /\ faults' = faults + 1

-----------------------------------------------------------------------------
(* Starting (_load_settings_for_startup).                                  *)
At(part) == boot = part /\ todo = <<>>

(* filesystem_writable: while USB has the drive, a boot writes nothing.    *)
PowerOn ==
  /\ At("off")
  /\ \E w \in BOOLEAN :
       /\ writable' = w
       /\ boot' = IF w THEN "pin" ELSE "load"
  /\ UNCHANGED <<hw, disk, torn, todo, cfg, faults>>

(* apply_factory_profile_reset_if_requested: the pin is not held ...       *)
PinNotHeld ==
  /\ At("pin")
  /\ boot' = "restore"
  /\ UNCHANGED <<hw, disk, torn, todo, writable, cfg, faults>>

(* ... or it is, which counts only where there is a live settings.toml;    *)
(* main then resets the MCU.                                               *)
PinHeld ==
  /\ At("pin")
  /\ Fails
  /\ IF Live("settings")
     THEN /\ todo' = <<Putting("settings", [Read("settings") EXCEPT !.profile = "nodusweb"])>>
          /\ boot' = "reset"
     ELSE /\ boot' = "restore"
          /\ UNCHANGED todo
  /\ UNCHANGED <<hw, disk, torn, writable, cfg>>

ResetAfterPin ==
  /\ At("reset")
  /\ Stopped
  /\ UNCHANGED <<torn, faults>>

(* bootstrap_factory_defaults, first loop: .bak becomes the live file.     *)
(* Bug: it is left to the readers of the files.                            *)
NotRestored == torn
Restored == {}
Restore ==
  /\ At("restore")
  /\ torn' = Restored
  /\ boot' = "create"
  /\ UNCHANGED <<hw, disk, todo, writable, cfg, faults>>

(* _ensure_file_from_def for settings.toml                                 *)
CreateSettings ==
  /\ At("create")
  /\ IF Live("settings")
     THEN boot' = "detect" /\ UNCHANGED todo
     ELSE /\ boot' = "seed_ap"
          /\ todo' = <<Putting("settings", Template.settings)>>
  /\ UNCHANGED <<hw, disk, torn, writable, cfg, faults>>

-----------------------------------------------------------------------------
(* _ensure_seeded_ids_and_hostname                                         *)
OrElse(id, other) == IF id # Unset THEN id ELSE other
(* Bug: the suffix already given to the setup AP is not looked for.        *)
KnownFromDevices == OrElse(Read("sensor").serial, Read("switch").serial)
Known == OrElse(Read("sensor").serial, OrElse(Read("switch").serial, Read("settings").ap))

HasSensor == Read("sensor").device # "none"
HasSwitch == Read("switch").pins # {}

Suffixes(seed_ap) ==
  IF Known # Unset THEN {Known}
  ELSE IF HasSensor \/ HasSwitch \/ seed_ap THEN Serials
  ELSE {Unset}

Seeded(suffix, seed_ap) ==
  LET sensor == [Read("sensor") EXCEPT !.serial = OrElse(@, suffix)]
      switch == [Read("switch") EXCEPT !.serial =
                   OrElse(@, IF HasSensor THEN sensor.serial ELSE suffix)]
      hostname == IF HasSensor THEN sensor.serial
                  ELSE IF HasSwitch THEN switch.serial ELSE Unset
      settings == [Read("settings") EXCEPT
                     !.ap = IF seed_ap THEN suffix ELSE @,
                     !.host = OrElse(@, hostname)]
  IN  (IF HasSensor THEN <<Putting("sensor", sensor)>> ELSE <<>>)
      \o (IF HasSwitch THEN <<Putting("switch", switch)>> ELSE <<>>)
      \o <<Putting("settings", settings)>>

Seed(part, seed_ap, next) ==
  /\ At(part)
  /\ \E suffix \in Suffixes(seed_ap) : todo' = Seeded(suffix, seed_ap)
  /\ boot' = next
  /\ UNCHANGED <<hw, disk, torn, writable, cfg, faults>>

SeedSetupAp == Seed("seed_ap", TRUE, "detect")
SeedIds == Seed("seed", FALSE, "load")

-----------------------------------------------------------------------------
(* _bootstrap_i2c_sensor, _bootstrap_soil_sensor, _bootstrap_switch: a     *)
(* copy of the template first, then the document filled in.                *)
Filled(file, content) == <<Putting(file, Template[file]), Putting(file, content)>>
FoundSensor(device) ==
  IF device = "none" THEN <<>>
  ELSE Filled("sensor", [device |-> device, serial |-> Unset])
FoundSwitch ==
  IF hw.pins = {} THEN <<>>
  ELSE Filled("switch", [pins |-> hw.pins, serial |-> Unset])

(* is_first_bootstrap: no device file exists.                              *)
FirstBootstrap == \A file \in DeviceFiles : disk[file] = {}

Detect(device) ==
  /\ At("detect")
  /\ FirstBootstrap
  /\ todo' = FoundSensor(device) \o FoundSwitch
  /\ boot' = "seed"
  /\ UNCHANGED <<hw, disk, torn, writable, cfg>>

DetectHardware == Detect(hw.sensor) /\ UNCHANGED faults
(* _detect_factory_sensor swallows what a bus raises.                      *)
SensorNotHeard == hw.sensor # "none" /\ Fails /\ Detect("none")

DetectedBefore ==
  /\ At("detect")
  /\ ~FirstBootstrap
  /\ boot' = "seed"
  /\ UNCHANGED <<hw, disk, torn, todo, writable, cfg, faults>>

(* from_working_directory, and settings.runtime_config()                   *)
Load ==
  /\ At("load")
  /\ cfg' = [profile |-> Read("settings").profile, ssid |-> Read("settings").ssid,
             ap_mode |-> FALSE]
  /\ boot' = "network"
  /\ UNCHANGED <<hw, disk, torn, todo, writable, faults>>

Starting == \/ PowerOn \/ PinNotHeld \/ ResetAfterPin \/ Restore \/ CreateSettings
            \/ SeedSetupAp \/ SeedIds \/ DetectHardware \/ DetectedBefore \/ Load

FilesInit ==
  /\ hw \in Hardware
  /\ disk = [file \in Files |-> {}]
  /\ torn = {}
  /\ todo = <<>>
  /\ boot = "off"
  /\ writable = FALSE
  /\ cfg = NotLoaded
  /\ faults = 0

-----------------------------------------------------------------------------
FilesTypeOK ==
  /\ hw \in Hardware
  /\ disk.settings \in SUBSET Settings
  /\ disk.sensor \in SUBSET Sensor
  /\ disk.switch \in SUBSET Switch
  /\ torn \in SUBSET Files
  /\ boot \in {"off", "pin", "reset", "restore", "create", "seed_ap", "detect", "seed",
               "load", "network", "up"}
  /\ writable \in BOOLEAN
  /\ cfg \in [profile : Profiles, ssid : {"none", "right", "wrong"}, ap_mode : BOOLEAN]
  /\ faults \in 0..MaxFaults

(* The identities saved on a device.                                       *)
Saved(contents) == {content.serial : content \in contents} \cap Serials
SavedIds ==
  Saved(disk.sensor) \cup Saved(disk.switch)
  \cup ({content.ap : content \in disk.settings} \cap Serials)
  \cup ({content.host : content \in disk.settings} \cap Serials)

(* The setup AP, the sensor, the switch and the generated hostname of a    *)
(* device have one suffix, wherever the power fails while they are seeded  *)
(* one file at a time (docs/configuration.md:95-102).                      *)
IdsAgree == \A a, b \in SavedIds : a = b

(* A saved identity, and the fact that credentials were saved, survive     *)
(* every restart, torn write and rewrite of the files at start-up          *)
(* (docs/configuration.md:106-124).                                        *)
NothingForgotten ==
  [][/\ SavedIds \subseteq SavedIds'
     /\ Read("settings").ssid # "none" => (Read("settings").ssid # "none")']_disk

=============================================================================
