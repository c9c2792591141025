# Formal specifications of cPyNodus_II

TLA+ models of the parts of the Nodus firmware, and of the host tools that talk
to it, whose correctness depends on the order in which things happen: resets,
lost messages, I/O errors, retries and time-outs. TLC checks each model on a
small instance; the `*Proofs` modules contain proofs, checked by TLAPS, that
hold for every value of the constants.

Contents: [the system](#the-system), [modules](#modules),
[runs](#runs), [fairness](#fairness), [proofs](#proofs),
[where code and documentation disagree](#where-code-and-documentation-disagree),
[abstractions](#abstractions), [what is not modelled](#what-is-not-modelled),
[plan](#plan).

## The system

A Nodus is a CircuitPython board (RP2350 or ESP32-S3) with a sensor, relay
channels or both. One process and one main loop; nothing is preemptive, so the
concurrency is between the loop, its own earlier selves (everything in RAM is
lost at a reset, and the board resets often), the broker, the LAN, and the host
tools.

| Component | State it keeps | Operations | Interacts through |
|---|---|---|---|
| Durable files (`core/filesystem.py`) | live file, `.bak`, `.tmp` | commit, clear, read | every writer of settings, rules and OTA state |
| OTA controller (`ota/http.py`, `ota/state.py`) | `_ota/state.json`, manifest, transaction journal, staging and backup trees, live files | begin, file, commit, rollback, abort, status, inactivity time-out | HTTP requests of the client; the saved phase is read by `code.py` at boot |
| OTA client (`scripts/ota_package.py`) | next request, offset, attempts | push, retry, resume by status, abort | HTTP |
| Boot (`boot.py`, `code.py`, `safemode.py`) | NVM counters, OTA phase | arm and confirm a first boot, roll back, reload, count hard faults | NVM bytes, `_ota/state.json` |
| MQTT transport (`core/mqtt.py`, `core/mqtt_client.py`) | publish queue, pending subscriptions, received messages, connection generation | connect, queue, sync one message, subscribe a batch, poll, disconnect | broker session, Will |
| Steady-state loop (`app.py`, `features/steady_state.py`, `features/publish_cycle.py`) | startup generation, deferred subscriptions, operational checkpoint | startup cycle, refresh, sample, commands, restart | transport queues |
| Recovery ladder (`app.py`, `core/recovery.py`) | three failure windows, recovery phase, NVM marks | rebuild, station reset, warm reload, hard reset, AP fallback | NVM, the network stack |
| Network stack (`core/network.py`, `core/recovery.py`) | station, setup AP, sockets, recovery phase | join, scan, reconnect, probe, fall back to the AP | radio; MQTT, web and NTP take its sockets |
| Command intake (`features/command_intake.py`, `command_handlers.py`) | handled message ids, received batch | config, calibration, switch, log and update commands, in a light pass and a heavy one | transport queue, settings files, switch service |
| Calibration (`features/calibration_*.py`) | a soil pH session, offsets | start, sample, cancel, accept | command handlers, sensor service |
| Log transfer (`features/log_transfer.py`, `scripts/nodus_getlogs.py`) | one session: path, offset | get, next chunk, end; the script assembles and verifies | transport, log files written meanwhile |
| Switch service (`features/switch_*.py`) | pins, persisted state per channel | apply, snapshot, restore at boot | command intake, web, automation |
| NodusWeb automation (`features/nodusweb_automation.py`) | rules, active actions, hysteresis, persisted ownership | evaluate, save, delete, load | switch service, web, two TOML files and one JSON file |
| Settings and bootstrap (`core/settings.py`) | TOML files per device kind | first-boot detection, seeding of identities, factory reset, load, save | durable files |
| NTP (`core/ntp.py`) | failure window and count | try, cool down, disable, resync | the link's sockets |
| Web runtime (`features/web_runtime.py`, `web_services.py`) | listener, routes, onboarding token | credentials, profile, restart, `/itaot-init`, rules, clicks | network stack, settings, automation |
| WeeWX automation (`integrations/weewx`) | pending commands, remembered previous states, retry times | evaluate, metadata, state, response, time-out, rule reload | broker; an MQTT thread, the packet thread and a watchdog share one lock |

What is hard, and what makes each part correct:

* *Durable files*: a reset or an error between any two of seven calls. A reader
  finds a whole old or a whole new document, always.
* *OTA*: a reset between any two steps of an apply, of its rollback, of the
  recovery of that rollback; a client that disappears or keeps sending; an I/O
  error anywhere. The device boots one whole image, a new image is confirmed or
  undone, and the device never stays in OTA mode.
* *File push*: requests and answers are lost, and requests that nobody waits
  for are carried out later. An accepted file is staged whole and stays so.
* *MQTT session*: a connection dies at any point of a queue being drained, and
  the queue is inherited by the next connection. An operational generation has
  all its subscriptions; what the broker retains is the current configuration.
* *Recovery ladder*: counters in NVM span reboots, windows in RAM do not. An
  outage ends in a reset, resets are not repeated for ever, and the order of the
  ladder is kept.
* *Command intake*: one batch is worked off by two modules with two copies of
  the configuration, with duplicates, writes that fail and memory that runs out.
  What is reported applied is in force; each command is answered once.
* *Log transfer*: a file is read by name and offset while it is appended to and
  trimmed, and sessions replace each other. What is stored is one file.
* *Automations*: three documents and an output change one after the other, and a
  rule, an edit and a click want the same relay. A channel has one owner, and is
  given back as it was.
* *WeeWX automation*: acknowledgement, result and state arrive on three topics,
  late, or never. No answer counts for another command, and the state to give
  back is neither lost nor dropped early.
* *First boot and link*: files are detected and seeded one at a time, and every
  path into the setup AP needs a path out of it. One device has one identity,
  and with the right credentials it joins.

## Modules

| Module | What it is |
|---|---|
| `AtomicCell` | abstract: an atomic, durable register |
| `DurableFile` | `commit_file`, `clear_file`, `readable_path` call by call; refines `AtomicCell` |
| `FirmwareTrial` | abstract: a confirmed image, or one new image on trial |
| `OtaUpdate` | device controller, client, boot code and reset of one update; refines `FirmwareTrial` |
| `FilePush` | abstract: what pushing one file promises to `OtaUpdate` |
| `OtaTransfer` | the chunk protocol of one file; refines `FilePush` |
| `MqttSession` | the stages of a loop pass, transport queues, broker session and retained state |
| `RecoveryLadder` | failure windows, NVM counters, resets, boot and safe mode |
| `ChannelOwnership` | abstract: a relay channel has at most one owner and is given back as it was |
| `AutomationRules` | local rules, the switch service, edits and resets; refines `ChannelOwnership` |
| `CommandIntake` | the light and the heavy pass over a batch of commands, settings, calibration |
| `LogTransfer` | device and host script of a log retrieval, logs that grow and are trimmed |
| `WeewxAutomation` | the automation of the WeeWX host against a device and a broker |
| `FactoryFiles`, `StationLink`, `ClockSync` | the files of a first boot; the Wi-Fi link and setup AP; NTP |
| `BringUp` | the composition of these three |
| `MC*` | instances for TLC |
| `FlashFilesProofs` | theorems about `DurableFile` and `LogTransfer` |
| `HostExchangeProofs` | theorems about `OtaTransfer` and `WeewxAutomation` |
| the other `*Proofs` | theorems about the module they are named after |

How they compose. `OtaUpdate` takes the three JSON documents of an update as
atomic, which is `DurableFile!AtomicDocument`, and the push of a file as one
step (`HandleFile`), which is `OtaTransfer!PushIsOneStep`. `FactoryFiles` takes
a TOML write as "old, new, or old in `.bak`", which is what `DurableFile` leaves
of an interrupted commit. `RecoveryLadder` takes an MQTT session as "drains,
fails or is lost", which `MqttSession` details; `MqttSession` takes the reset
ladder as "rebuilt client or reset"; `StationLink` takes both as what they do to
the link (`MqttRebuild`, `BrokerMoved`). `BringUp` composes start-up files, link
and clock: they share `cfg`, the configuration `main` loaded; a restart loses
link and clock and goes through all of the files again. `CommandIntake` details
what `MqttSession` calls a command and its result, and `AutomationRules` and
`CommandIntake` both contain the switch service, each with its own caller.

### DurableFile

One document under three names (`live`, `bak`, `tmp`), the set `unsynced` of
names whose bytes are not flushed, and `pc`, the next call of the writer. Each
call of `commit_file` (sync, stat, remove backup, move, sync, install, final
sync) is an action with a failing variant that takes the path of the `except`
block, including the failing variants of that block. `PowerLoss` may fall
between any two; an unsynced file may then be torn. TOML documents are restored
by the bootstrap at boot, JSON documents are only read through `readable_path`
(`kind`). `Cell` is the refinement mapping to `AtomicCell`: what a reader sees
changes exactly once per request, and a request that returned success is not
undone by a reset.

### OtaUpdate and FirmwareTrial

`disk` keeps the contents of six names per managed path, `phase`, `manifest`
and `txn` are the documents, and `job`/`pc`/`cur` the place inside the handler.
`_apply_staged_manifest_files`, `_rollback_apply_transaction` and
`recover_interrupted_ota_apply` are a loop over paths with one action per file
operation; a reset or an I/O error may fall between all of them. The client is
`push_ota_package`: begin, push each file, commit, abort on any failure;
requests wait in an accept queue of the device and may be carried out after the
client has given up. A boot reads the phase as `code.py` does: arm a first
boot, roll a repeated one back, else run. `FirmwareTrial` has one variable that
matters, the image a boot would run, and the image on trial; `OneTrial` says
that `OtaUpdate` moves between them in no other way. A trial ends with the
completion report, or when the next update is asked for: `Prepare` overwrites
any phase, as `process_fwupdate_message` does, and what runs is then what the
next rollback leads to (`Settled`).

Most I/O errors raise or are reported, and the handler takes its error path.
Two kinds are taken for an answer, and `blind` remembers them: `"file"`, an
original file that `os.stat` fails for is journalled as absent, and so not
restored; `"state"`, a `state.json` that cannot be read is no update at all
(`BootUnread`). `code.py` acts on the phase before `app.main` does: where it has
something to do, both reads must fail (`StateReads`). An error of the read in
`code.py` alone is made good by `app.main`, with the difference that a recovery
that fails there ends in a halted device and not in a reload.

### OtaTransfer and FilePush

`staged` is the length of the staged copy and whether its bytes are right. The
client's requests (`file/begin`, `file/chunk`, `file/end`, and the whole file
again after an integrity failure) wait in `inbox`; each is `heard` or its client has given up.
Lost requests and answers, append errors that leave a partial chunk, silently
wrong bytes and unavailable hashing are the four kinds of fault.

### MqttSession

A pass is `connect -> post -> iterate -> sync -> settle -> poll`; an action is
one stage. `published`, `subscriptions` and `received` are the queues of the
transport, `session`, `heartbeat` and `shownConfig` what the broker holds. The
queue holds messages by kind; a `meta_config` message carries the saved
configuration it was built from, so that an old snapshot can be told from a new
one. A lost connection lets the broker publish the Will.

### RecoveryLadder

A pass is `top -> rebuild -> connect -> probe -> handshake -> session`. The
windows `fails`, `memory` and `subs` are a count and an age; `nvm` holds the
marks that survive a reset. `mode` is what the MCU runs: `boot.py`, `code.py`,
the loop, `safemode.py` or nothing. Every check that may reset the device is an
operator named after the function that makes it. Most of them ask for the count or
the age of a window (`Tripped`); the time-out of CONNECT itself asks for the age
only (`Exhausted`, `app.py:5923`), so a third one within 60 s goes on to the session
stage and is acted on when the next attempt looks at the window: `LadderUsedUp` is
therefore about attempts, not about the handler that counts.

### AutomationRules and ChannelOwnership

`rules`, `active`, `previous` and `holding` are the RAM of the service; `live`
and `bak` automations.toml, `owned` the saved ownership, `saved` switch.toml,
`pin` the outputs. `Tick` starts an evaluation; `job`/`pc` is the place inside an
evaluation, a release or an edit, cut at each write and each change of an output;
`Requests` are the web handlers, `Restart` falls anywhere. It loads the stored
rules that pass the validation once more: `save_rule` measures a script as it was
sent, `_load` as it was stored with every default filled in, and a script in
`Overlong` passes the first only (`nodusweb_automation.py:441`, `:372`). A boot
that refuses a rule counts as a fault, since it also forgets what the rule owns.
The mapping gives a channel to the rule whose action counts as applied;
`OwnershipKept` says that until the first fault the service is a `ChannelOwnership`.

### CommandIntake

A pass never yields, so one command is one step. `Light` works on `live`, the
configuration itself; what it cannot do it hands to `Heavy`, which works on
`copies` of it, of which the loop adopts the last (`EndPass`). `disk` is flash,
`reported` what the device has told, `session` the soil session, `handled` the
message ids it remembers. `doubtful` and `apart` are the keys for which a
shortage of memory, or a later command of a heavy batch, makes no promise.
`OnlyStored` are the settings that a config command saves and reports while no
branch of `_apply_all` (`device_config.py:389`) or of `apply_runtime_config_update`
puts them in force before the next start: SSID, passwords, a relay's LAST_STATE.
Topics are those of the configuration in force (`Heard`): once a command of a batch
has set `MQTT.BASE_TOPIC`, the light pass hands the rest over and the heavy pass
lets it go without an answer (`PassOver`), until a new connection subscribes anew
(`Resubscribe`); a relay's command is still taken there, by the end of its topic.
Ids are recorded when the pass is over (`EndPass`), so a batch may hold one id twice.

### WeewxAutomation

`Evaluate`, `Reload`, `OnMessage` and the reconnection are the calls made under
the service's lock. `rules` is the rule in force and the hysteresis, `pend` the
command waiting for its answers, `active` and `disk` what is to be given back, in
RAM and in the runtime file; `outbox` and `wire` are commands and answers under way.
Every change of `active` is saved (`Save`), and a save may fail: the error is logged
(`nodus_automation.py:520`), and the file stays `behind` until the next change. A
restart reads the file (`Restart`); one it cannot read holds nothing.
`ForgottenOnceBack` says when what is to be given back may be let go: another rule
has the channel, the channel was heard to be as it was (`SwitchSays`), or it was
heard to be OFF under `stale_action = off`, which may apply to a command that went
out before an edit has changed it (`StaleOff`).

### LogTransfer

A log is the sequence of its records, so a byte offset is a position in it and a
checksum is what it was computed over. `Pass` is the pass of the loop, `Send` one
publish; `AppendRecord`, `TrimFails` and `ResetInTrim` are the writers of the log.
`log` and `backup` are the files on flash, `begun` is the log as it was when its
session started.

### FactoryFiles, StationLink, ClockSync, BringUp

`boot` is the part of start-up that runs next, `todo` the writes it still has to
make, one action each (`Write`); a power loss leaves the rest undone and may leave
one file `torn`. `StartNetwork` is the choice between station and AP with the
fallback; `LinkPass` a pass with a station, `ApPass` one with the AP,
`ItaotInit` … `ItaotRestart` the bootstrap into an MQTT profile. `ntp` is the
window of failures. Actions of one part leave the variables of the others alone.

## Runs

The instance of a run is the smallest in which the behaviour it is about
happens; every action of every module is taken in some run.

| Run | Shows | Bounds and why they are enough |
|---|---|---|
| `durable_file` | types; the live and backup names are always whole; refinement of `AtomicCell`: what is read changes only by a requested install or clear | 3 documents: the one read, its backup and the one written |
| `ota_crash` | `RollbackCovered`: while an install can be undone each original file is in the live tree or in the backup; `NoWipeWhileGuarded`; `ImageSound`: no mixture of versions starts, and an image on trial only under its health check; `OneTrial` (refinement of `FirmwareTrial`); a transfer in progress always ends, whatever the client and resets do (`TransferEnds`) | 2 versions and 3 paths so that an update replaces, adds and deletes; 2 queued requests; any number of resets, no I/O error |
| `ota_fault` | with an I/O error, what is replaced is never mixed, unless the error hid the saved state from a boot (`ReplacedNeverMixed`) | 1 error, 2 replaced paths (a mixture needs two), 1 queued request; the versions, and the paths, are symmetric (for an invariant: symmetry is not sound for liveness, and without it the instance is four times as large) |
| `transfer` | refinement of `FilePush` under all faults; two lost answers to `file/end` do not fail a push (`PushSound`) | 5 bytes in chunks of 2: a first, a middle and a short last chunk; 3 faults, one more than `file/end` survives |
| `mqtt` | an operational generation has every command subscription; a recovery uses the queue it inherits; results are heard at most once (`ResultsSound`); snapshots never regress; the checkpoint is reached again once faults stop | 2 failures and 2 commands or changes: a recovery inside a recovery |
| `ladder` | at most two warm reloads and one fast hard reset between checkpoints; past a threshold the device leaves the handler of a subscription failure, or makes another connection attempt, only when the ladder is used up, and between checkpoints its end resets the MCU at most once soon after a start (`LadderSound`); an outage is shorter than 14 ticks (`OutageBounded`); hard faults restart at most twice between stable runs; a device is operational or reset again and again | four scenarios, each a set of kinds of failure (`MCScenarios`); a kind of failure can be combined with those it shares counters with |
| `automation` | until a fault or a refused rule: what counts as applied is in force, the files have what a restart needs and what is disabled has let go (`RulesSound`), channels are owned as `ChannelOwnership` says; after it the rules still settle | 2 rules, 2 channels, 2 scripts with delay 0 and 1, one of which the next boot refuses: rules that share a channel and one rule with two actions; 1 fault, so that the recovery from it is fault-free |
| `intake` | what was reported applied is in force, or is a setting that is only stored, and durable where it needs a restart (`ReportsSound`); each command is answered unless another one of its batch has set a new base topic, and no later pass executes an id again (`AnswersSound`); nothing follows a halt; a soil session computes the right offset | any 3 of 13 messages - one of each kind of command, with and without restart, token, bad value, the base topic, settings that are only stored - in any batches: a predecessor, a command and a duplicate or successor; 1 fault |
| `weewx` | the relay ends where the rule wants it; an answer counts for its own command (`DecisionsSound`); what is to be given back is kept until the channel is back, over restarts too unless the file could not be written or read | 1 channel, 2 rules, any 2 of eight kinds of event: a cause and what interferes with it; 1 command waiting, 4 messages under way (one command is answered by three) |
| `logs` | a stored log is the file as it was at the start (`StoreSound`), unless it was trimmed meanwhile; the device ends every transfer it still has | 2 clients, 2 requests, logs of 3 records in chunks of 2 (a full, a short and an empty chunk), 2 records appended (the second may trim), 1 fault |
| `bringup` | identities agree at every step of a first boot (`IdentitySound`) and survive; sockets are made after the last radio reset; NTP asks two whole windows; with the right credentials the device ends up joined | 2 serial suffixes (two differ), an I2C sensor with a switch channel, or a soil probe alone; 2 faults: a cut start and another one in its repetition; 1 outage, 1 save of credentials; windows of 2 failures |
| `bringup_fallback` | violation, [below](#where-code-and-documentation-disagree) | as `bringup`, no fault |

An invariant named `...Sound` is a conjunction of the module's `TypeOK` with
properties that speak of the same thing, each a definition of its own above it.
`weewx` and `logs` switch the deadlock check off: when the events of their
environment are used up, nothing need happen any more; `transfer` and `ladder`
do so for a finished push and for a device that safe mode has stopped.

Time in `RecoveryLadder` is a tick of about 30 s. The time-outs keep their order
and not their size: `RebuildEvery` 1 < `Gate` 2 (60 s) = `Stable` 2 (60 s) <
`AfterReady` 3 < `ApTimeout` 4 < `Long` 5 (900 s); ages and counts saturate at
the largest number they are compared with, which loses nothing because they are
only ever compared. `MemoryCount` is 3 instead of 5 to keep the state space
small. `OutageCap` is a bound on a history counter: the run shows that the
counter never reaches it, hence the outage is shorter.

Every property of a passing run has a mutant in `PROJECT.json`: a plausible bug
(a dropped guard, a missing reset, a swapped order) under which the same run
violates the property.

## Fairness

* `OtaUpdate`: weak fairness of the device (its `poll` runs from a loop that
  does not block), of the inactivity time-out (a comparison of clock and last
  request in every poll) and of a scheduled reboot. None for the client or the
  network: the client may stop at any point, which is what `TransferEnds` is about.
* `MqttSession`: weak fairness of the loop; strong fairness of a successful
  connect, because a failed attempt disables it in between and the broker is
  assumed to be reachable again and again; weak fairness of a power cycle by
  the operator once the device has halted. Faults are bounded, so that
  "once faults stop" needs no fairness.
* `RecoveryLadder` (`LiveSpec`): weak fairness of the firmware; strong fairness of the tick
  (the clock advances, but not in every stage of a pass) and of the session
  stage (a connection that keeps reaching it drains or fails). None for the environment.

* `AutomationRules`: weak fairness of the steps of a handler, strong fairness of
  the evaluation, which an edit or a click may precede but not for ever put off.
* `WeewxAutomation`: weak fairness of the watchdog's evaluation and reload, of
  the client library (reading, reconnecting), of the device's execution and
  metadata refresh, and of time. None for the weather, the editor or a restart.
* `LogTransfer`: weak fairness of a pass, of a publish and of the reconnection.
* `BringUp`: weak fairness of each part of start-up and its writes, of the passes
  with a station and with the AP, of a scheduled restart and of the ageing of a
  phase. None for the router, the radio's own return or the person at the pages:
  `EventuallyJoined` assumes in its own left-hand side that the network stays.

Safety runs use no fairness.

## Proofs

| Theorem | For every | Argument |
|---|---|---|
| `FlashFilesProofs!TypeCorrect`, `DocumentsStayWhole` | set of documents | `IInv`: per step, which name holds what, and which names may be unsynced (never `live` or `bak`) |
| `FlashFilesProofs!AtomicRegister` | set of documents | each step maps to a step of `AtomicCell` or a stutter under `IInv` |
| `OtaUpdateProofs!TypeCorrect` | versions, paths, errors, queue | `Typed`: what each document, handler and queue entry may be, with the parts of a step that a lemma each accounts for |
| `OtaUpdateProofs!AlwaysCovered` | the same | `IInv`: a path is removed or replaced only after its backup is flushed and journalled, and a rollback removes nothing before the restored copy is flushed |
| `OtaUpdateProofs!SoundUntilFault`, `NoWipeUntilFault`, `CoveredUntilFault` | the same, up to the first I/O error | `Calm`: `IInv`, and for each phase which artifacts exist (`Session`), what is staged (`Staging`), which version each path is in, before and behind the place of the handler (`Image`), and what a boot and a recovery may find (`Entry`, `Recovery`) |
| `OtaUpdateProofs!OneErrorNeverMixes` | the same, up to the second I/O error | `Even`: unless an install, an undo or a recovery is under way (`Underway`), the files every version has are flushed and of one version (`SharedTree`), every journal records one version (`SharedJournal`), and an entry or a rollback in between has each of them as before or backed up (`SharedEntry`, `SharedCurrent`, `SharedRollback`). The error itself finds `Calm`: no undo runs yet, and no backup of an earlier update exists. A file the error made invisible (`Lost`) is journalled as absent, and missing where it was not replaced |
| `OtaUpdateProofs!TrialUntilFault` | the same | each step maps to a step of `FirmwareTrial` or a stutter under `Calm` |
| `HostExchangeProofs!PushImplemented` | file size, chunk size, faults | `Typed /\ LastOpen /\ OnlyEnds /\ Done`: only the last queued request has a listener, and what is queued before it while the push goes on is a repeated `file/end`, which does not touch the copy |
| `HostExchangeProofs!Sound` | the same | in addition `Counted /\ Lossy`: with losses alone the copy is what the client has sent, and each further attempt at `file/end` has cost one loss |
| `MqttSessionProofs!SubscribedWhenOperational`, `RecoveryAlwaysReuses` | topics, faults, work; no sensor loss | `Bookkeeping /\ Requested /\ Drained`: each topic of the generation is held by the broker, pending or deferred, and a deferred batch is remembered for exactly this generation |
| `MqttSessionProofs!SnapshotsNeverRegress` | everything | `SnapshotsOrdered`: the queue is ordered by configuration, between the one shown and the one saved; overtaking messages are the newest |
| `MqttSessionProofs!ResultsHeardOnce` | everything | `Kept`: results heard and results queued are together at most the commands answered (`Answering`), with the flags and stages in which one may be queued (`Stages`, `Pendings`, `Budgets`) |
| `RecoveryLadderProofs!ReloadsBounded`, `FaultResetsBounded` | limits, time-outs, kinds of failure | `Core`: what has happened since the checkpoint is at most what NVM records, across every kind of restart |
| `RecoveryLadderProofs!LadderClimbed` | the same | in addition `WindowsYoung`: a window is never older than the run it is measured in, so a reset that was not suppressed comes late; and each way out of the handler of a subscription failure, and into an attempt whose window is full, reboots or finds both marks set |
| `AutomationRulesProofs!TypeCorrect` | rules, channels, scripts, delays, faults | `Types`: what each place of a handler may hold |
| `AutomationRulesProofs!Sound`, `AppliedInForce` | the same | `Inv`: until a fault, per channel, the owner in memory, the owner saved, the pin and the saved state agree except at the places between two writes (`Owners`, `Files`, `Forced`) |
| `AutomationRulesProofs!Owned` | the same | each step maps to a step of `ChannelOwnership` or a stutter under `Inv` |
| `BringUpProofs!OneIdentity`, `SavedSurvives` | serial numbers, hardware, thresholds, faults | `FilesInv`: identities on flash and in writes still to come agree (`Agreed`); a hostname formed from a suffix has a device file that holds it or will, written before it (`Backed`); no write under way takes away what is saved (`Keeping`); nothing is torn when missing files are created (`Whole`) |
| `BringUpProofs!SocketsUsable` | the same | `StackSound`: every way to a ready link makes its sockets after the last reset of the radio |
| `BringUpProofs!TwoWindowsOnly` | size of a window | `ClockSound`: the tries so far are the windows that are over and the count of this one |
| `CommandIntakeProofs!AppliedIsTrue` | commands, updates, limits, faults | `Sound`: what is told agrees, between the modules of a pass, with the copy of the last result (`Told`), and the copy of the next command differs from it in the sensor's offset at most; a report comes with its write, or is of no setting that needs a restart; what is only stored is `apart` until it is set again |
| `CommandIntakeProofs!HaltIsFinal` | the same | `HaltIsLast`: an accepted halt leaves the batch empty, in the light pass |
| `CommandIntakeProofs!AnsweredOnce` | the same | `Typed`; `Memory`: an id answered since boot and not dropped stands in `handled`, in front of at most those answered after it, until `Limit` of them were; `Owing`: what is owed is what is left of the batch, while the base topic is the one the batch came under |
| `CommandIntakeProofs!CalibrationsExact` | the same, sample counts, values | `Sampling`: until somebody sets an offset the samples of a session are those of the offset in force, which both copies of a heavy pass have |
| `FlashFilesProofs!LogTypes` | files, clients, requests, records, faults, re-used ids too | `Typed`: what the queue, the session and the transfers may hold |
| `FlashFilesProofs!StoredLogsAreWhole` | the same, no id given twice | `History`: what a session has sent, and the log as it began, are the beginning of the log as it is now (`Faithful`), unless it was trimmed; so a checksum over as many records as the log had is that of the log it had (`Truthful`); an id is new until the device sees it (`IdsFresh`) |
| `HostExchangeProofs!DecisionsAreSound` | books of rules, delays, faults, restarts | `QueueInv`: an id is on its way to the device once, or on its way back; a result on incomplete readings lies between the one of the least and the one of the greatest completion (`ResultFacts`) |
| `HostExchangeProofs!ForgottenOnlyOnceBack` | the same | `ReleaseInv`: a command that gives a state back asks for the state remembered for its rule, or for OFF under `stale_action = off`, through every edit that comes before its answer; `Saved`: the file holds what is remembered, until a save or a read fails |

Why these invariants, and not the properties themselves: a property speaks of
the moments between two handlers, or of what a reader sees, and a step of a
handler is safe only because of where it is. So each invariant says for every
`pc` what has been done so far. `Calm` and `Inv` describe a directory, or a set
of files, path by path relative to the handler's place; `Memory` and `Answering`
relate a queue to the history of what went through it, as `Faithful` relates the
session to the log at two moments.

`FlashFilesProofs` and `HostExchangeProofs` treat two state machines each, which
share no variable; a theorem is about the specification it names (`Spec` or
`LogSpec`, `Spec` or `WeewxSpec`).

The folds of `CommandIntake` (ids remembered, updates that are known, the sum of
the samples) and of `LogTransfer` (the requests of a pass) are unfolded one
element at a time by lemmas (`AddedSteps`, `KnownSteps`, `SumSteps`, `GetSteps`),
by an induction in which the property is the set of the numbers that have it
(`SetInduction`, from `NatLessThanWellFounded` and `WFMin`). `WeewxAutomation`
bounds its timers by the greatest number that a rule of any book asks for
(`TimeBound`); that it exists is `HasGreatest`, by the same induction, and needs
the books to be finitely many, as configuration files are.

Hypotheses. `AlwaysCovered` assumes `[]NoWipeWhileGuarded`, which
`NoWipeUntilFault` proves up to the first I/O error and which fails after it (see
[below](#where-code-and-documentation-disagree), the error while saving
`applied_pending_boot`, and with two errors the abort after a failed rollback): it
says precisely what the abort handler has to guarantee for the rollback to be
safe. `OneErrorNeverMixes` does not need it: when a first error lets the backups
be wiped, the replaced files of the live tree are all of one version. "Up to the
first I/O error" is `faults = 0`: it bounds no loss of power, no reboot, and no
client that gives up; with an error `ImageSound` and `NoWipeWhileGuarded` are
false, as described below. The subscription theorems assume `~SensorLoss`, because
they fail when the sensor is reinitialised in the pass that owes the switch
topics. `RulesSound`, `InForce` and the ownership say "until a fault" themselves.
The assumptions on constants name what the values stand for: an update installs a
file, the failure budget trips at the second failure at the earliest (`1 <
FastCount`: with 1, TLC shows the ladder cut short), and no value is the marker of
an absent one. `StoredLogsAreWhole` assumes `ReuseIds = FALSE`: with an id that is
given twice the result of a duplicate carries no checksum (see
[below](#where-code-and-documentation-disagree), logs).

What the proofs corrected. The first statement of `ForgottenOnceBack` let a state
go only when the channel was heard to be in it, or another rule had it. That is
false, with more events than the run allows: a command that gives OFF back, sent
because the readings had stopped, is answered after an edit has changed
`stale_action` to `hold`. The code then forgets the remembered ON
(`nodus_automation.py:894`); the property and `ReleaseInv` now say so.

Only model-checked, and why:

* `TransferEnds`, `EventuallyOperational`, `NeverStuck`, `Settles`, `Followed`,
  `DeviceEndsIt`, `EventuallyJoined`: liveness, out of this prover's reach.
  `TransferEnds` is run without I/O errors; with one (`MaxFaults = 1`) and a single
  replaced path (`Paths = {shared}`, `MaxInbox = 1`) TLC finds it true as well.
* `ReplacedNeverMixed` after a second I/O error is false: a client's abort accepted
  between a failed undo and its reboot deletes the backups of a mixed tree. Up to
  the second error it is proved, and `ota_fault` has one. The one error it excludes,
  a state that is not read, is a disagreement with the documentation, below.
* `OutageBounded`: the number of ticks follows from the scenarios of the instance
  and the sizes of its limits, and is false for kinds of failure in turn.
* `StoreSound` with re-used ids: `StoredWhole` is false there, as the disagreements
  below show.

## Where code and documentation disagree

The run `bringup_fallback` checks one sentence of the user guide
(`docs/user_guide.md:168`, wrong credentials send the device back to AP mode) and
finds a device that never gets there: `_should_fallback_to_ap` (`app.py:2555`)
answers no for every profile but `nodusweb`, so a device that `/itaot-init` has
put into an MQTT profile with a wrong SSID or password retries and resets for
ever.

### Further disagreements

These have no run of their own. The models have these behaviours; where a
property is named it is defined in the module, and adding it to a configuration
of that module shows the behaviour. Those that a property of a passing run makes
an exception for come first in each part.

Updates (`OtaUpdate`, `OtaTransfer`):

* `docs/ota.md:564` says that power loss during phase `applying` is recovered
  before normal profile startup. `load_ota_state` (`ota/state.py:71`) answers an
  error of the read with `None`, which its docstring reserves for "no request
  exists", and the boot in the middle of an apply starts the normal program with
  the files of two versions: `ApplyRecovered` in `MCOtaUpdateFault.cfg`.
* `docs/sensorius_contract.md:1071` says that `boot_pending` is retained until the
  prior profile reaches its health checkpoint (`docs/ota.md:519` likewise).
  `process_fwupdate_message` (`command_handlers.py:283`) saves `requested` over
  whatever phase there is, and commands are subscribed before the queued completion
  report is sent: an image that was never confirmed then stays.
  `BootPendingRetained` in `MCOtaUpdateCrash.cfg`.
* A begin that is refused leaves phase `aborted`, which no time-out covers
  (`http.py:528`, `http.py:893`): `NeverStranded`.
* An abort after a failed rollback deletes the backups of a mixed image
  (`http.py:414`): `FailedRollbackKeepsArtifacts` with two I/O errors.
* An error while saving `applied_pending_boot` (`http.py:854`) installs the
  image without its health check: `UnconfirmedGuarded` with one I/O error.
* A file that cannot be removed (`http.py:1378`, `_remove_file` swallows the
  error) stays in the new image: `NeverMixed` with one I/O error.
* The client does not resume at the offset a 409 reports (`ota_package.py:620`;
  `docs/ota.md:461-463`): `ChunkSurvivesLoss`.

MQTT and recovery (`MqttSession`, `RecoveryLadder`):

* An accepted restart is lost when the sync of its pass fails (`app.py:6209`;
  `docs/mqtt.md:166`): `RestartHonoured`. It is also carried out before its
  acknowledgement and result are sent (`app.py:6434`): `RestartAnswered`.
* A sensor reinitialisation loses the deferred switch subscriptions of the
  generation (`continue` at `app.py:6125`; `docs/architecture.md:222`):
  `OperationalSubscribed` with `SensorLoss`.
* Failures of two kinds in turn hold off both reboots: `OutageBounded`
  with `Scenarios <- MCMixed`.
* A recovered connection skips the online message; the Will stays visible until
  the next availability refresh (`docs/mqtt.md:26`): `OperationalShownOnline`.
* A failure of an operational connection is classified as pre-operational
  (`app.py:2097`): `LadderOnlyPreoperational`.
* The last sync before a disconnect may send another message than the offline
  status (`mqtt_client.py:2044`): `GracefulOffline`.
* An allocation failure before the first connection makes that connection skip
  the startup cycle (`app.py:5872`): `SnapshotCurrent` with `AllocFaults`.
* One budget check resets hard without trying the warm reload first
  (`app.py:4568`; `docs/mqtt.md:121`): `HardAfterWarm`.

Commands (`CommandIntake`; the three properties in `MCCommandIntake.cfg`):

* `docs/onboarding_v2_sensorius_requirements.md:225` has `config/ack` published for
  every received `config/set`. The topic of a command is compared with those of the
  configuration in force (`command_intake.py:745`, `command_handlers.py:108`), and
  `MQTT.BASE_TOPIC` comes in force within the batch (`device_config.py:406`): what
  stands behind that command is passed over without an answer: `EachAnswered`.
* `docs/sensorius_contract.md:637` has a duplicate `message_id` answered as a
  duplicate, with nothing updated. The light pass compares with the ids of earlier
  passes only (`command_intake.py:82`), which are stored at the end of a pass
  (`steady_state.py:245`): a duplicate in the same batch is executed:
  `DuplicatesRefused`, with `MaxFaults = 0` too.
* `docs/sensorius_contract.md:697` requires that after a durable change the file, the
  configuration in RAM, the output and the reports agree; the section states what is
  required and does not claim that every firmware has it. A `config/set` that writes
  `SWITCH_n_LAST_STATE` is accepted (`device_config.py:289`), saved and reported
  applied, and neither the configuration nor the pin follows before the next start:
  `RelayTold`.
* A restart command resets before the results of its pass are sent
  (`app.py:6435`): `AnsweredBeforeRestart`.
* Ids of a pass that ends with a failed sensor poll are dropped, so that a
  later duplicate is executed too (`steady_state.py:307`; `forgot`).
* An offset of the heavy pass loses its live effect when another command of the
  batch follows it, although it is persisted and reported (`apart`).
* A duplicate of a failed attempt is reported `applied=true`; a minimal failure
  reports `applied=false` after the setting is on flash (`doubtful`); the end of
  a session is reported applied when saving it failed.
* A halt behind a log or update command of its batch is lost without an answer.
* The heavy path accepts several updates where the documents allow one, and the
  onboarding token is not cleared when the setting is applied without a restart
  (`docs/onboarding_v2_sensorius_requirements.md:238`).
* A dual-probe soil sensor has prefixed metrics, so a session of it never gets a
  sample. A value of a wrong type stops the loop after it is persisted.

Local automations (`AutomationRules`):

* `docs/automations.md:16` says that the saved ownership lets a rule restore the
  preceding state after a controlled restart. A rule whose stored form is longer than
  `MAX_SCRIPT_BYTES` is accepted and works until the restart; then `_load` passes over
  it without an error (`nodusweb_automation.py:378`), its ownership goes with it
  (`:401`), and the relay stays as the rule set it: `OwnershipSurvives` in
  `MCAutomationRules.cfg`.
* A reset between the two renames of automations.toml leaves it in `.bak`, which
  the loader does not read; the next edit overwrites it
  (`nodusweb_automation.py:729`): `RulesSurviveRestart`.
* Two actions of one rule for one channel, or two rules for it, are released in
  the order they were taken, so the first one's old state wins last.
* After a torn edit, ownership saved for the older script may be adopted by the
  newer one; `/config` can set `SWITCH_n_LAST_STATE` behind the pin.
* A restart forgets hysteresis and the last sample, and may release a rule that
  still holds.

WeeWX automation (`WeewxAutomation`):

* `docs/weewx.md:833` has the runtime file keep, over a normal restart, the state
  that must later be restored. `_save_runtime` logs an error and returns
  (`nodus_automation.py:520`), and nothing is saved again before the next change: the
  restart forgets that state, or remembers one that was given back already:
  `RestartRemembers` in `MCWeewxAutomation.cfg`.
* The state that preceded a rule is not restored after a command that timed out
  and was carried out late (`nodus_automation.py:842`;
  `docs/weewx.md:903-905`): `PrecedingStateRestored`, with `Books <- LateBooks`.
* Readings that stop under `stale_action = off` let go of a remembered "on";
  renaming an active rule loses what it was to restore; retained metadata that is
  old at a restart may record a wrong previous state.
* `_on_connect` publishes the ownership document outside the lock.

Logs (`LogTransfer`):

* A log that is trimmed during its transfer may be stored as a splice whose
  length is right when all records are equally long (`docs/mqtt.md:218-219`):
  `StoredIsTheFile`. With a re-used `--message-id` the device answers a duplicate
  result without a checksum, and the script stores an empty log as complete.

First boot and link (`BringUp`):

* A loss of power between the sensor and the switch file ends detection of
  switches (`settings.py:396`); between a copied template and its filled sensor
  file it ends detection of that sensor, as does a probe that is not answered
  once while a switch is found. Between a copied settings template and its
  seeding, `AP_SSID` stays blank (`docs/configuration.md:95-102`).
* The reset pin is ignored while settings.toml is torn.
* `/itaot-init` whose token cannot be saved answers 503, but the settings stay,
  and the idle reset of the AP boots into the new profile without a token.
* The idle reset of the AP comes whatever its pages are used for, and is a hard
  one (`docs/README.md:741`, `docs/README.md:843`: soft reboots).
* A failed 24-hour resync of NTP is repeated in every pass, without the 60 s in
  between (`docs/configuration.md:473-476`).

## Abstractions

* Documents, files and messages are model values or kinds; the syntax of JSON,
  TOML, HTTP and MQTT is not modelled. Signatures, session tokens, manifest
  checks and the path allow-list are "accepted" or "refused".
* Flash: directory updates become durable in the order they are issued, file
  bytes at `os.sync()`. Torn directory entries and lost clusters are outside.
* `OtaUpdate`: the code that recovers an interrupted apply is assumed to be
  importable from the image that is on flash at that moment, even a mixed one.
  One update at a time, two versions; a path is pushed in one step.
* `OtaTransfer`: one file, of positive size (begin refuses an empty one).
* `MqttSession`: availability topics travel with the heartbeat; pending
  subscriptions are a set; retry intervals are "not yet" choices; commands that
  halt the device are the restart command.
* `RecoveryLadder`: a pass takes at most one tick; error texts are a choice of
  the environment; the session drains, fails or is lost.
* `AutomationRules`: a condition is true, false or unknown, which stands for
  samples, hysteresis and clock windows; the five seconds a channel set by hand
  is left alone are not modelled.
* `CommandIntake`: an offset command carries one update, a halt none; the heavy
  path persists any key of a known section and reports it, in force or not, as
  the code does; a relay is the key its LAST_STATE is saved under; log requests
  are acknowledged only; the onboarding token is there or not; an offset is a
  number (the heavy path would save another value to the sensor file, which the
  next start then does not load). "Executed again" means: in a later pass, before
  `Limit` other ids were answered since the first answer to this one, or by the
  heavy pass that has answered it. The device keeps its id; the commands of a batch
  arrived under one base topic.
* `WeewxAutomation`: one channel. The runtime file is replaced whole (the host does
  not lose power within a save); a reload and the evaluation after it are two steps,
  because an answer may come between.
* `LogTransfer`: records of equal length, which is the case in which a splice can
  go unnoticed; MQTT keeps the order of the chunks of one connection.
* `FactoryFiles`, `StationLink`: one serial suffix stands for all identities
  formed with it; every writable boot rewrites its files, a read-only one reads
  `.bak`; the attempts of one join are one step; errors of starting the AP are
  swallowed, as in the code; the radio is after every restart as after power-on;
  passwords are encoded without the hostname, so a change of it is harmless; a
  second `/itaot-init` within the delay of the restart is left out.
* `ClockSync`: the waits between tries have no clock.

## What is not modelled

Floating-point formulas (sensor compensation, derived metrics, astronomy),
text processing (TOML, templates, forms, package building), drivers and sockets,
the rendering of web pages, mDNS, the web listener's own restart after a link
loss, logs of one call each (`core/*_log.py` but for the two that are retrieved),
and host scripts without state. Modules without a production caller:
`display_config`, `time_config`, `switch_label_config`, `switch_location_config`,
`calibration_offset_persistence`, `calibration_persistence`. The switch,
discovery and administration services of the WeeWX host (request threads, manual
countdowns, a registry file) have state worth modelling and are in the plan.

## Plan

Done: durable files, the update with its file push, the MQTT session and the
recovery ladder, first boot with link and clock, command intake, local
automations, WeeWX automation and log transfer, with their theorems.

Left, in this order:

1. The switch service of the WeeWX host with its manual countdowns.
2. The web listener and mDNS, which follow the link.
3. Sampling cadence and payload building of the publish cycles.
