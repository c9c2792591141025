----------------------------- MODULE OtaUpdate -----------------------------
(***************************************************************************)
(* One device's firmware update, from the MQTT prepare command to the      *)
(* first boot of the new image: cpynodus_ii/ota/http.py (HTTP handlers,    *)
(* apply, rollback, recovery), ota/runtime.py (the temporary OTA mode),    *)
(* code.py and app.py (what a boot does with the saved OTA state), and the *)
(* host client scripts/ota_package.py that drives it.                      *)
(*                                                                         *)
(* The file system is kept per managed path and per name a path is given   *)
(* during an update (Slots).  A power loss or reset can fall between any   *)
(* two steps; an I/O error (at most MaxFaults of them) can fail any step.  *)
(* The three JSON documents state.json, manifest.json and transaction.json *)
(* are written with commit_file and change atomically: that is what        *)
(* DurableFile shows.                                                      *)
(***************************************************************************)
EXTENDS Naturals, Sequences

CONSTANTS
  Versions,   \* firmware versions
  Paths,      \* managed firmware paths that differ between versions
  Has,        \* Has[v]: the paths version v consists of
  Absent,     \* no file
  Torn,       \* a file with missing or wrong bytes
  NoTxn,      \* there is no transaction.json
  NoManifest, \* there is no manifest.json
  NoPath,     \* the apply and rollback loops are between two paths
  Down, NoTrial, \* see Firmware below
  MaxFaults,  \* bound: I/O errors in one behaviour
  MaxInbox    \* bound: requests waiting in the device's accept queue

ASSUME VersionsAssumption ==
  /\ Has \in [Versions -> SUBSET Paths]
  /\ \A v \in Versions : Has[v] # {}   \* at least the file with __version__
  /\ Versions \cap {Absent, Torn, Down, NoTrial} = {}
  /\ Absent # Torn
  /\ NoPath \notin Paths
  /\ NoManifest \notin [from : Versions, to : Versions]
  /\ \A S \in SUBSET Paths : NoTxn \notin [S -> Versions \cup {Absent, Torn}]
  /\ MaxFaults \in Nat
  /\ MaxInbox \in Nat

Contents == Versions \cup {Absent, Torn}
Journals == UNION {[S -> Contents] : S \in SUBSET Paths}

(* The names of a managed path: the live file, its staged copy, the        *)
(* ".ota-new" temporary, the backup, the backup's ".tmp" and the           *)
(* ".ota-restore" temporary of a rollback.                                 *)
Slots == {"live", "stage", "fresh", "backup", "backupTmp", "restore"}

Packages == {m \in [from : Versions, to : Versions] : m.from # m.to}
Installed(m) == Has[m.to]
Deleted(m) == Has[m.from] \ Has[m.to]
ImageOf(v) == [p \in Paths |-> IF p \in Has[v] THEN v ELSE Absent]

Phases == {"none", "requested", "ready", "staging", "applying",
           "applied_pending_boot", "boot_pending", "applied"}
Requests == {"begin", "file", "commit", "abort"}

VARIABLES
  \* on flash
  disk,      \* contents per slot and path
  unsynced,  \* slot and path of every file os.sync() has not flushed yet
  phase,     \* phase in _ota/state.json, "none" without the file
  manifest,  \* _ota/manifest.json: the package being installed
  txn,       \* _ota/transaction.json: original contents of the paths touched
  \* device memory
  mode,      \* "boot", "normal" runtime, "ota" runtime or "halted"
  armed,     \* code.py armed the first-boot health check in this run
  running,   \* __version__ of the code loaded at the last boot
  httpUp,    \* OtaHttpController.phase is "ready"
  rebootDue, \* a reboot is scheduled
  job,       \* what the handler or the boot code is doing
  pc,        \* its next step
  cur, todo, \* current path and remaining paths of the apply/rollback loop
  wipe,      \* workspace items still to remove
  journal,   \* the transaction in memory
  failed,    \* _rollback_apply_transaction's local
  serving,   \* the request being handled
  \* host client and network
  package,   \* the package of the prepared session
  client,    \* the next request of the client, or "idle"
  toSend,    \* files the client has not pushed yet
  retried,   \* the current file has been pushed again
  asked,     \* the client waits for the answer to this request
  inbox,     \* requests on their way, in order
  \* bookkeeping
  confirmed, \* the last version whose trial was over
  faults,    \* I/O errors so far
  blind      \* what one of them hid from the code: "file" or "state"

flash == <<disk, unsynced, phase, manifest, txn>>
loop == <<cur, todo, wipe, journal, failed>>
host == <<package, client, toSend, retried, asked, inbox>>
errors == <<faults, blind>>
run == <<mode, armed, running, httpUp, rebootDue>>
vars == <<flash, run, job, pc, loop, serving, host, confirmed, errors>>

(* heard: the client still waits for the answer. *)
Request == [op : Requests, path : Paths \cup {NoPath}, heard : BOOLEAN]
NoRequest == [op |-> "none", path |-> NoPath, heard |-> FALSE]

Whole(v) == disk["live"] = ImageOf(v)
EmptySlot == [p \in Paths |-> Absent]

(* What the controller sees: its memory says "aborted" once it has removed *)
(* the state file.                                                         *)
CurrentPhase == IF phase = "none" THEN "aborted" ELSE phase

----------------------------------------------------------------------------
(* The device runs one whole, confirmed version.                           *)
Init ==
  /\ confirmed \in Versions
  /\ disk = [s \in Slots |-> IF s = "live" THEN ImageOf(confirmed) ELSE EmptySlot]
  /\ unsynced = {}
  /\ phase = "none" /\ manifest = NoManifest /\ txn = NoTxn
  /\ mode = "normal" /\ armed = FALSE /\ running = confirmed
  /\ httpUp = FALSE /\ rebootDue = FALSE
  /\ job = "none" /\ pc = "idle"
  /\ cur = NoPath /\ todo = {} /\ wipe = <<>> /\ journal = NoTxn /\ failed = FALSE
  /\ serving = NoRequest
  /\ package \in Packages
  /\ client = "idle" /\ toSend = {} /\ retried = FALSE /\ asked = "none" /\ inbox = <<>>
  /\ faults = 0 /\ blind = {}

----------------------------------------------------------------------------
(* Building blocks.                                                        *)

(* One I/O error, the fault hypothesis of the model. *)
Fault == faults < MaxFaults /\ faults' = faults + 1 /\ UNCHANGED blind

(* One that _path_exists takes for "there is no such file" while the       *)
(* original files are recorded.                                            *)
Missed == faults < MaxFaults /\ faults' = faults + 1 /\ blind' = blind \cup {"file"}

Put(s, p, c) ==
  /\ disk' = [disk EXCEPT ![s][p] = c]
  /\ unsynced' = IF c = Absent THEN unsynced \ {<<s, p>>} ELSE unsynced \cup {<<s, p>>}

Rename(s, t, p) ==
  /\ disk' = [disk EXCEPT ![t][p] = disk[s][p], ![s][p] = Absent]
  /\ unsynced' = (unsynced \ {<<s, p>>, <<t, p>>})
                   \cup (IF <<s, p>> \in unsynced THEN {<<t, p>>} ELSE {})

Sync == unsynced' = {} /\ UNCHANGED disk

(* The answer to r reaches the client, unless it is lost or the client has *)
(* given up; push_ota_package then decides what to send next.              *)
Answer(r, ok) ==
  \/ UNCHANGED <<client, toSend, retried, asked>>
  \/ /\ r.heard
     /\ asked' = "none"
     /\ toSend' = IF r.op = "file" /\ ok THEN toSend \ {r.path} ELSE toSend
     /\ retried' = (r.op = "file" /\ ~ok)
     /\ \/ /\ r.op \in {"begin", "file"} /\ ok
           /\ client' = IF toSend' = {} THEN "commit" ELSE "file"
        \/ r.op = "commit" /\ ok /\ client' = "idle"
        \/ r.op = "abort" /\ client' = "idle"
        \/ r.op # "abort" /\ ~ok /\ client' = "abort"
        \/ r.op = "file" /\ ~ok /\ ~retried /\ client' = "file"   \* one retry

(* The handler returns: the controller is idle again. *)
Return(ok) ==
  /\ job' = "none" /\ pc' = "idle" /\ serving' = NoRequest
  /\ Answer(serving, ok)

(* A local of a handler ends with it. *)
LoopReset ==
  /\ cur' = NoPath /\ todo' = {} /\ wipe' = <<>>
  /\ journal' = NoTxn /\ failed' = FALSE

Restart ==
  /\ mode' = "boot" /\ armed' = FALSE /\ httpUp' = FALSE /\ rebootDue' = FALSE
  /\ job' = "none" /\ pc' = "idle" /\ LoopReset
  /\ serving' = NoRequest /\ inbox' = <<>>
  /\ UNCHANGED running

AbortList == <<"stage", "backup", "manifest", "txn">>

(* _abort_transfer_state: the workspace goes first, then the state file. *)
StartAbort(j) ==
  /\ job' = j /\ pc' = "wipe"
  /\ cur' = NoPath /\ todo' = {} /\ wipe' = AbortList
  /\ journal' = NoTxn /\ failed' = FALSE

(* An OSError leaves a handler through server.poll(): poll() goes to phase *)
(* "error" and aborts the session unless a reboot is already scheduled.    *)
PollError ==
  /\ httpUp' = FALSE
  /\ serving' = NoRequest
  /\ IF rebootDue THEN job' = "none" /\ pc' = "idle" /\ LoopReset
                  ELSE StartAbort("abort")
  /\ UNCHANGED <<mode, armed, running, rebootDue>>

----------------------------------------------------------------------------
(* Normal runtime.                                                         *)

(* The trial of a version ends: what runs is what a rollback leads to.     *)
Settled == IF \E v \in Versions : Whole(v)
           THEN CHOOSE v \in Versions : Whole(v) ELSE confirmed

(* process_fwupdate_message and the hard reboot it asks for.  It does not  *)
(* look at the saved phase, and commands are subscribed before the queue   *)
(* with the completion report is sent: a request that overwrites           *)
(* "boot_pending" ends the trial, and the image stays.                     *)
Prepare(m) ==
  /\ mode = "normal" /\ ~rebootDue
  /\ client = "idle" /\ asked = "none"
  /\ phase' = "requested"
  /\ confirmed' = IF phase = "boot_pending" THEN Settled ELSE confirmed
  /\ package' = m
  /\ rebootDue' = TRUE
  /\ UNCHANGED <<disk, unsynced, manifest, txn, mode, armed, running, httpUp, job,
                 pc, loop, serving, client, toSend, retried, asked, inbox, errors>>

(* The save fails, whether or not it took: a result with an error, and no  *)
(* reboot.                                                                 *)
PrepareFails(m) ==
  /\ mode = "normal" /\ ~rebootDue
  /\ client = "idle" /\ asked = "none"
  /\ Fault
  /\ \/ /\ phase' = "requested" /\ package' = m
        /\ confirmed' = IF phase = "boot_pending" THEN Settled ELSE confirmed
     \/ UNCHANGED <<phase, package, confirmed>>
  /\ UNCHANGED <<disk, unsynced, manifest, txn, run, job, pc, loop, serving, client,
                 toSend, retried, asked, inbox>>

(* The completion report was sent (mark_ota_completion_published), or an   *)
(* MQTT-less profile has started its services.                             *)
ConfirmBoot ==
  /\ mode = "normal"
  /\ phase = "boot_pending"
  /\ phase' = "applied"
  /\ confirmed' = Settled
  /\ UNCHANGED <<disk, unsynced, manifest, txn, run, job, pc, loop, serving,
                 host, errors>>

(* Saving "applied" fails: the exception ends main and code.py reloads.    *)
ConfirmFails ==
  /\ mode = "normal"
  /\ phase = "boot_pending"
  /\ Fault
  /\ \/ phase' = "applied" /\ confirmed' = Settled
     \/ UNCHANGED <<phase, confirmed>>
  /\ Restart
  /\ UNCHANGED <<disk, unsynced, manifest, txn, package, client, toSend, retried, asked>>

(* _maybe_reboot, or the reboot a prepare command asked for. *)
Reboot ==
  /\ rebootDue
  /\ pc = "idle"
  /\ Restart
  /\ Sync
  /\ UNCHANGED <<phase, manifest, txn, package, client, toSend, retried, asked, confirmed,
                 errors>>

(* Power loss, watchdog or hard fault at any instant: some unflushed bytes *)
(* are lost.                                                               *)
Crash ==
  /\ Restart
  /\ \E lost \in SUBSET unsynced :
       disk' = [s \in Slots |-> [p \in Paths |->
                  IF <<s, p>> \in lost /\ disk[s][p] # Absent
                  THEN Torn ELSE disk[s][p]]]
  /\ unsynced' = {}
  /\ UNCHANGED <<phase, manifest, txn, package, client, toSend, retried, asked, confirmed,
                 errors>>

----------------------------------------------------------------------------
(* Boot: code.py, then the start of app.main.                              *)
Booting == mode = "boot" /\ job = "none" /\ pc = "idle"

(* _arm_ota_boot_health: the health check is armed before the application  *)
(* is imported.                                                            *)
ArmHealthCheck ==
  /\ Booting
  /\ phase = "applied_pending_boot"
  /\ phase' = "boot_pending"
  /\ armed' = TRUE
  /\ UNCHANGED <<disk, unsynced, manifest, txn, mode, running, httpUp, rebootDue, job,
                 pc, loop, serving, host, confirmed, errors>>

(* The save raises: code.py reloads itself, whether or not the save took.  *)
ArmFails ==
  /\ Booting
  /\ phase = "applied_pending_boot"
  /\ Fault
  /\ phase' \in {"applied_pending_boot", "boot_pending"}
  /\ UNCHANGED <<disk, unsynced, manifest, txn, run, job, pc, loop, serving, host,
                 confirmed>>

(* recover_interrupted_ota_apply: from app.main after a reset during the   *)
(* apply, from code.py when the armed boot was not confirmed.              *)
MustRecover == phase = "applying" \/ (phase = "boot_pending" /\ ~armed)

(* Mutant: files that did not exist before the update are left in place. *)
StartRecoveryKeepsNew ==
  /\ Booting
  /\ MustRecover
  /\ manifest # NoManifest /\ txn # NoTxn
  /\ job' = "recover" /\ pc' = "rollback"
  /\ journal' = txn /\ todo' = {p \in DOMAIN txn : txn[p] # Absent}
  /\ cur' = NoPath /\ failed' = FALSE
  /\ UNCHANGED <<flash, run, wipe, serving, host, confirmed, errors>>

StartRecovery ==
  /\ Booting
  /\ MustRecover
  /\ manifest # NoManifest /\ txn # NoTxn
  /\ job' = "recover" /\ pc' = "rollback"
  /\ journal' = txn /\ todo' = DOMAIN txn /\ cur' = NoPath /\ failed' = FALSE
  /\ UNCHANGED <<flash, run, wipe, serving, host, confirmed, errors>>

(* Recovery cannot restore the image: app.main returns and the device does *)
(* nothing until the next reset; code.py reloads and tries again.          *)
RecoveryError ==
  /\ job' = "none" /\ pc' = "idle" /\ LoopReset
  /\ mode' = IF phase = "applying" THEN "halted" ELSE "boot"
  /\ UNCHANGED <<armed, running, httpUp, rebootDue, serving>>

NothingToRecover ==
  /\ Booting
  /\ MustRecover
  /\ \/ (manifest = NoManifest \/ txn = NoTxn) /\ UNCHANGED errors
     \/ Fault                                 \* one of them cannot be read
  /\ RecoveryError
  /\ UNCHANGED <<flash, host, confirmed>>

(* _clear_terminal_startup_ota_state: an interrupted transfer. *)
CleanAbandoned ==
  /\ Booting
  /\ phase = "staging"
  /\ StartAbort("clean")
  /\ UNCHANGED <<flash, run, serving, host, confirmed, errors>>

(* Mutant: an unconfirmed image is booted again. *)
BootNormalUnarmed ==
  /\ Booting
  /\ phase \in {"none", "applied", "boot_pending"}
  /\ mode' = "normal"
  /\ UNCHANGED <<flash, armed, running, httpUp, rebootDue, job, pc, loop, serving,
                 host, confirmed, errors>>

BootNormal ==
  /\ Booting
  /\ phase \in {"none", "applied"} \/ (phase = "boot_pending" /\ armed)
  /\ mode' = "normal"
  /\ UNCHANGED <<flash, armed, running, httpUp, rebootDue, job, pc, loop, serving,
                 host, confirmed, errors>>

(* The reads of state.json before the normal program starts: where code.py *)
(* acts on the phase, it has to miss it, too.                              *)
StateReads ==
  IF phase = "applied_pending_boot" \/ (phase = "boot_pending" /\ ~armed) THEN 2 ELSE 1

(* app.main cannot read state.json, and load_ota_state takes that for "no  *)
(* update": the normal program starts.                                     *)
BootUnread ==
  /\ Booting
  /\ faults + StateReads <= MaxFaults /\ faults' = faults + StateReads
  /\ blind' = blind \cup {"state"}
  /\ mode' = "normal"
  /\ UNCHANGED <<flash, armed, running, httpUp, rebootDue, job, pc, loop, serving,
                 host, confirmed>>

(* run_ota_mode saves "ready" and starts the HTTP controller. *)
EnterOta ==
  /\ Booting
  /\ phase \in {"requested", "ready"}
  /\ phase' = "ready"
  /\ mode' = "ota" /\ httpUp' = TRUE
  /\ running' \in {v \in Versions : \E p \in Paths : disk["live"][p] = v}
  /\ UNCHANGED <<disk, unsynced, manifest, txn, armed, rebootDue, job, pc, loop,
                 serving, host, confirmed, errors>>

(* _abort_ota_startup: no network or no HTTP server; clear and reboot. *)
OtaUnavailable ==
  /\ Booting
  /\ phase \in {"requested", "ready"}
  /\ \/ phase' = "none" /\ UNCHANGED errors
     \/ phase' \in {"none", "ready"} /\ Fault
  /\ UNCHANGED <<disk, unsynced, manifest, txn, run, job, pc, loop, serving, host,
                 confirmed>>

BootStep ==
  \/ ArmHealthCheck \/ ArmFails \/ StartRecovery \/ NothingToRecover
  \/ CleanAbandoned \/ BootNormal \/ BootUnread \/ EnterOta
  \/ OtaUnavailable

----------------------------------------------------------------------------
(* The host client, push_ota_package, and the network.                     *)

(* It waits until GET /ota/status answers phase "ready", behind whatever   *)
(* is still queued.                                                        *)
ClientStart ==
  /\ client = "idle" /\ asked = "none"
  /\ mode = "ota" /\ httpUp /\ pc = "idle" /\ inbox = <<>>
  /\ phase = "ready"
  /\ client' = "begin"
  /\ toSend' = Installed(package)
  /\ retried' = FALSE
  /\ UNCHANGED <<flash, run, job, pc, loop, serving, package, asked, inbox,
                 confirmed, errors>>

ClientSend(p) ==
  /\ client # "idle" /\ asked = "none"
  /\ IF client = "file" THEN p \in toSend ELSE p = NoPath
  /\ asked' = client
  /\ \/ UNCHANGED inbox                      \* lost, or nobody listens
     \/ /\ mode = "ota" /\ Len(inbox) < MaxInbox
        /\ inbox' = Append(inbox, [op |-> client, path |-> p, heard |-> TRUE])
  /\ UNCHANGED <<flash, run, job, pc, loop, serving, package, client, toSend,
                 retried, confirmed, errors>>

(* No answer in time.  Only a lost file end is asked for again; everything *)
(* else ends in one attempt to abort the session.                          *)
ClientTimeout ==
  /\ asked # "none"
  /\ asked' = "none"
  /\ \/ asked = "abort" /\ client' = "idle"
     \/ asked = "file" /\ ~retried /\ client' = "file"
     \/ asked # "abort" /\ client' = "abort"
  /\ retried' = (asked = "file" /\ client' = "file")
  /\ inbox' = [i \in DOMAIN inbox |-> [inbox[i] EXCEPT !.heard = FALSE]]
  /\ serving' = [serving EXCEPT !.heard = FALSE]
  /\ UNCHANGED <<flash, run, job, pc, loop, package, toSend, confirmed, errors>>

ClientStep ==
  \/ ClientStart
  \/ \E p \in Paths \cup {NoPath} : ClientSend(p)
  \/ ClientTimeout

----------------------------------------------------------------------------
(* OTA mode: server.poll() hands over one request at a time.               *)
Polling == mode = "ota" /\ httpUp /\ pc = "idle"

Take(op) ==
  /\ Polling
  /\ inbox # <<>>
  /\ Head(inbox).op = op
  /\ inbox' = Tail(inbox)

(* Answer the request at once. *)
AnswerNow(ok) ==
  /\ Answer(Head(inbox), ok)
  /\ UNCHANGED <<job, pc, loop, serving>>

(* _handle_begin looks at the manifest and at the free space, not at the   *)
(* phase.                                                                  *)
HandleBegin ==
  /\ Take("begin")
  /\ package.from = running
  /\ job' = "begin" /\ pc' = "wipe" /\ wipe' = <<"stage", "backup", "txn">>
  /\ serving' = Head(inbox)
  /\ UNCHANGED <<flash, run, cur, todo, journal, failed, package, client, toSend,
                 retried, asked, confirmed, errors>>

(* Another base version, or not enough free space: _abort_transfer. *)
RejectBegin ==
  /\ Take("begin")
  /\ StartAbort("reject")
  /\ serving' = Head(inbox)
  /\ UNCHANGED <<flash, run, package, client, toSend, retried, asked, confirmed, errors>>

(* No valid signature, or a manifest other than the prepared one:          *)
(* _reject_unauthorized_begin only clears the state.                       *)
DenyBegin ==
  /\ Take("begin")
  /\ job' = "deny" /\ pc' = "clearState"
  /\ serving' = Head(inbox)
  /\ UNCHANGED <<flash, run, loop, package, client, toSend, retried, asked, confirmed,
                 errors>>

SaveBegin ==
  /\ pc = "saveBegin"
  /\ \/ /\ phase' = "staging" /\ pc' = "writeManifest"
        /\ UNCHANGED <<job, loop, serving, run, errors>>
     \/ /\ Fault
        /\ phase' \in {phase, "staging"}
        /\ PollError
  /\ UNCHANGED <<disk, unsynced, manifest, txn, host, confirmed>>

WriteManifest ==
  /\ pc = "writeManifest"
  /\ \/ /\ manifest' = package
        /\ Return(TRUE) /\ LoopReset
        /\ UNCHANGED <<run, errors>>
     \/ /\ Fault
        /\ manifest' \in {manifest, package}
        /\ PollError
        /\ UNCHANGED <<client, toSend, retried, asked>>
  /\ UNCHANGED <<disk, unsynced, phase, txn, package, inbox, confirmed>>

(* file/begin, its chunks and file/end, see OtaTransfer: the staged copy   *)
(* is complete and its digest right, or the push of this file failed.      *)
FileExpected(r) ==
  /\ CurrentPhase = "staging"
  /\ manifest # NoManifest
  /\ r.path \in Installed(manifest)

HandleFile ==
  /\ Take("file")
  /\ LET r == Head(inbox) IN
     \/ /\ FileExpected(r)
        /\ Put("stage", r.path, manifest.to)
        /\ AnswerNow(TRUE)
     \/ /\ FileExpected(r)
        /\ Put("stage", r.path, Torn)
        /\ AnswerNow(FALSE)
     \/ /\ ~FileExpected(r)
        /\ AnswerNow(FALSE)
        /\ UNCHANGED <<disk, unsynced>>
  /\ UNCHANGED <<phase, manifest, txn, run, package, confirmed, errors>>

(* Mutant: an abort is never refused. *)
HandleAbortAlways ==
  /\ Take("abort")
  /\ StartAbort("abort")
  /\ serving' = Head(inbox)
  /\ UNCHANGED <<flash, run, package, client, toSend, retried, asked, confirmed, errors>>

(* /ota/abort: refused only once the apply has been committed. *)
HandleAbort ==
  /\ Take("abort")
  /\ IF CurrentPhase \in {"applied_pending_boot", "applied"}
     THEN AnswerNow(FALSE)
     ELSE /\ StartAbort("abort")
          /\ serving' = Head(inbox)
          /\ UNCHANGED <<client, toSend, retried, asked>>
  /\ UNCHANGED <<flash, run, package, confirmed, errors>>

(* Mutant: no timer once staging has begun. *)
TimeoutBeforeBegin ==
  /\ Polling
  /\ inbox = <<>>
  /\ ~rebootDue
  /\ CurrentPhase \in {"requested", "ready"}
  /\ StartAbort("abort")
  /\ UNCHANGED <<flash, run, serving, host, confirmed, errors>>

(* _maybe_abort_inactive: nothing arrived for 300 s or 900 s. *)
InactivityTimeout ==
  /\ Polling
  /\ inbox = <<>>
  /\ ~rebootDue
  /\ CurrentPhase \in {"requested", "ready", "staging"}
  /\ StartAbort("abort")
  /\ UNCHANGED <<flash, run, serving, host, confirmed, errors>>

(* server.poll() itself raises. *)
PollFails ==
  /\ Polling
  /\ PollError
  /\ UNCHANGED <<flash, host, confirmed, errors>>

----------------------------------------------------------------------------
(* _handle_commit: verify, journal, apply.                                 *)
Verified ==
  /\ CurrentPhase = "staging"
  /\ manifest # NoManifest
  /\ \A p \in Installed(manifest) : disk["stage"][p] = manifest.to

HandleCommit ==
  /\ Take("commit")
  /\ IF Verified
     THEN /\ job' = "commit" /\ pc' = "build"
          /\ serving' = Head(inbox)
          /\ UNCHANGED <<loop, client, toSend, retried, asked>>
     ELSE AnswerNow(FALSE)
  /\ UNCHANGED <<flash, run, package, confirmed, errors>>

(* _build_apply_transaction: size and digest of every original file.  An   *)
(* error of os.stat makes a file that is there one that is not.            *)
Originals == [p \in Installed(manifest) \cup Deleted(manifest) |-> disk["live"][p]]

BuildTransaction ==
  /\ pc = "build"
  /\ \/ /\ \/ journal' = Originals /\ UNCHANGED errors
           \/ Missed /\ \E p \in DOMAIN Originals :
                          journal' = [Originals EXCEPT ![p] = Absent]
        /\ pc' = "writeTxn"
        /\ UNCHANGED <<job, cur, todo, wipe, failed, serving, client, toSend, retried, asked>>
     \/ Fault /\ Return(FALSE) /\ LoopReset
  /\ UNCHANGED <<flash, run, package, inbox, confirmed>>

(* Mutant: a failed apply goes back to staging without a rollback. *)
StartUndoNoRollback ==
  /\ job' = "undo" /\ pc' = "saveStaging"
  /\ cur' = NoPath /\ todo' = {} /\ failed' = FALSE
  /\ UNCHANGED <<wipe, journal, serving>>

StartUndo ==
  /\ job' = "undo" /\ pc' = "rollback"
  /\ cur' = NoPath /\ todo' = DOMAIN journal /\ failed' = FALSE
  /\ UNCHANGED <<wipe, journal, serving>>

WriteTransaction ==
  /\ pc = "writeTxn"
  /\ \/ /\ txn' = journal /\ pc' = "saveApplying"
        /\ UNCHANGED <<job, loop, serving, errors>>
     \/ Fault /\ txn' \in {txn, journal} /\ StartUndo
  /\ UNCHANGED <<disk, unsynced, phase, manifest, run, host, confirmed>>

SaveApplying ==
  /\ pc = "saveApplying"
  /\ \/ /\ phase' = "applying" /\ pc' = "apply"
        /\ todo' = DOMAIN journal
        /\ UNCHANGED <<job, cur, wipe, journal, failed, serving, errors>>
     \/ Fault /\ phase' \in {phase, "applying"} /\ StartUndo
  /\ UNCHANGED <<disk, unsynced, manifest, txn, run, host, confirmed>>

----------------------------------------------------------------------------
(* _apply_staged_manifest_files: the files first, then the deletions, each *)
(* in the order the manifest happens to list them.                         *)
Applying == job = "commit" /\ UNCHANGED <<phase, manifest, txn, run, serving, host,
                                          wipe, journal, failed, confirmed>>

(* The entry fails: its temporary is removed and the whole transaction is  *)
(* rolled back.                                                            *)
ApplyFails ==
  /\ StartUndo
  /\ IF cur \in Installed(manifest) THEN Put("fresh", cur, Absent)
                                    ELSE UNCHANGED <<disk, unsynced>>
  /\ UNCHANGED <<phase, manifest, txn, run, host, confirmed>>

ApplySteps == {"copyFresh", "copyBackup", "syncBackupTmp", "renameBackup",
               "syncBackup", "remove", "install", "syncInstalled"}

ApplyFault ==
  /\ pc \in ApplySteps \ {"remove"}   \* _remove_file swallows its error
  /\ Fault
  /\ ApplyFails

NextFile(p) ==
  /\ Applying /\ pc = "apply"
  /\ p \in todo /\ p \in Installed(manifest)
  /\ cur' = p /\ todo' = todo \ {p}
  /\ pc' = "copyFresh"
  /\ UNCHANGED <<disk, unsynced, job, errors>>

(* Mutant: the live file is removed without a backup. *)
CopyFreshNoBackup ==
  /\ Applying /\ pc = "copyFresh"
  /\ Put("fresh", cur, disk["stage"][cur])
  /\ pc' = "remove"
  /\ UNCHANGED <<cur, todo, job, errors>>

CopyFresh ==
  /\ Applying /\ pc = "copyFresh"
  /\ Put("fresh", cur, disk["stage"][cur])
  /\ pc' = IF journal[cur] # Absent THEN "copyBackup" ELSE "remove"
  /\ UNCHANGED <<cur, todo, job, errors>>

(* A path that did not exist, or no longer does, needs no deletion; one    *)
(* that os.stat fails for gets none.                                       *)
NextDelete(p) ==
  /\ Applying /\ pc = "apply"
  /\ todo \cap Installed(manifest) = {}
  /\ p \in todo
  /\ todo' = todo \ {p}
  /\ IF journal[p] # Absent /\ disk["live"][p] # Absent
     THEN \/ cur' = p /\ pc' = "copyBackup" /\ UNCHANGED errors
          \/ Fault /\ UNCHANGED <<cur, pc>>
     ELSE UNCHANGED <<cur, pc, errors>>
  /\ UNCHANGED <<disk, unsynced, job>>

CopyBackup ==
  /\ Applying /\ pc = "copyBackup"
  /\ disk["live"][cur] = journal[cur]
  /\ Put("backupTmp", cur, disk["live"][cur])
  /\ pc' = "syncBackupTmp"
  /\ UNCHANGED <<cur, todo, job, errors>>

SyncBackupTmp ==
  /\ Applying /\ pc = "syncBackupTmp"
  /\ Sync
  /\ pc' = "renameBackup"
  /\ UNCHANGED <<cur, todo, job, errors>>

RenameBackup ==
  /\ Applying /\ pc = "renameBackup"
  /\ Rename("backupTmp", "backup", cur)
  /\ pc' = "syncBackup"
  /\ UNCHANGED <<cur, todo, job, errors>>

SyncBackup ==
  /\ Applying /\ pc = "syncBackup"
  /\ Sync
  /\ pc' = "remove"
  /\ UNCHANGED <<cur, todo, job, errors>>

AfterRemove == IF cur \in Installed(manifest) THEN "install" ELSE "syncInstalled"

RemoveLive ==
  /\ Applying /\ pc = "remove"
  /\ \/ Put("live", cur, Absent) /\ UNCHANGED errors
     \/ Fault /\ UNCHANGED <<disk, unsynced>>
  /\ pc' = AfterRemove
  /\ UNCHANGED <<cur, todo, job>>

InstallFresh ==
  /\ Applying /\ pc = "install"
  /\ Rename("fresh", "live", cur)
  /\ pc' = "syncInstalled"
  /\ UNCHANGED <<cur, todo, job, errors>>

(* The backup's digest is not the journal's, or os.rename finds its target *)
(* in the way (the FAT driver may also replace it).                        *)
ApplyBlocked ==
  /\ \/ pc = "copyBackup" /\ disk["live"][cur] # journal[cur]
     \/ pc = "renameBackup" /\ disk["backup"][cur] # Absent
     \/ pc = "install" /\ disk["live"][cur] # Absent
  /\ ApplyFails
  /\ UNCHANGED errors

SyncInstalled ==
  /\ Applying /\ pc = "syncInstalled"
  /\ Sync
  /\ cur' = NoPath
  /\ pc' = "apply"
  /\ UNCHANGED <<todo, job, errors>>

(* All entries applied: the staged files go, then the phase is saved. *)
ApplyDone ==
  /\ pc = "apply" /\ todo = {}
  /\ pc' = "wipe" /\ wipe' = <<"stage">>
  /\ UNCHANGED <<flash, run, job, cur, todo, journal, failed, serving, host,
                 confirmed, errors>>

SavePending ==
  /\ pc = "savePending"
  /\ \/ /\ phase' = "applied_pending_boot"
        /\ rebootDue' = TRUE
        /\ Return(TRUE) /\ LoopReset
        /\ UNCHANGED <<mode, armed, running, httpUp, errors>>
     \/ /\ Fault
        /\ phase' \in {phase, "applied_pending_boot"}
        /\ PollError
        /\ UNCHANGED <<client, toSend, retried, asked>>
  /\ UNCHANGED <<disk, unsynced, manifest, txn, package, inbox, confirmed>>

ApplyStep ==
  \/ \E p \in Paths : NextFile(p) \/ NextDelete(p)
  \/ CopyFresh \/ CopyBackup \/ SyncBackupTmp \/ RenameBackup \/ SyncBackup
  \/ RemoveLive \/ InstallFresh \/ SyncInstalled \/ ApplyDone
  \/ ApplyFault \/ ApplyBlocked

----------------------------------------------------------------------------
(* _rollback_apply_transaction, for a failed commit (job "undo") and for a *)
(* boot that recovers (job "recover").  It goes on past a failing path.    *)
RollingBack == job \in {"undo", "recover"} /\ UNCHANGED <<phase, manifest, txn, run,
                 serving, host, wipe, journal, confirmed>>

(* A path without a backup must still hold the original. *)
RollbackPath(p) ==
  /\ RollingBack /\ pc = "rollback"
  /\ p \in todo
  /\ todo' = todo \ {p}
  /\ \/ /\ journal[p] # Absent
        /\ disk["backup"][p] = journal[p]
        /\ Put("fresh", p, Absent)
        /\ cur' = p /\ pc' = "restoreCopy"
        /\ UNCHANGED <<failed, errors>>
     \/ /\ journal[p] # Absent
        /\ disk["backup"][p] # journal[p]
        /\ Put("fresh", p, Absent)
        /\ failed' = (failed \/ disk["backup"][p] # Absent
                             \/ disk["live"][p] # journal[p])
        /\ UNCHANGED <<cur, pc, errors>>
     \/ /\ journal[p] # Absent         \* the backup or the live file is not seen
        /\ Fault
        /\ Put("fresh", p, Absent)
        /\ failed' \in BOOLEAN
        /\ failed \/ disk["live"][p] # journal[p] => failed'
        /\ UNCHANGED <<cur, pc>>
     \/ /\ journal[p] = Absent
        /\ disk' = [disk EXCEPT !["fresh"][p] = Absent, !["live"][p] = Absent]
        /\ unsynced' = unsynced \ {<<"fresh", p>>, <<"live", p>>}
        /\ UNCHANGED <<cur, pc, failed, errors>>
     \/ /\ journal[p] = Absent         \* the removal fails silently
        /\ Fault
        /\ UNCHANGED <<disk, unsynced, cur, pc, failed>>
  /\ UNCHANGED job

RestoreCopy ==
  /\ RollingBack /\ pc = "restoreCopy"
  /\ Put("restore", cur, disk["backup"][cur])
  /\ pc' = "restoreSync"
  /\ UNCHANGED <<cur, todo, failed, job, errors>>

RestoreSync ==
  /\ RollingBack /\ pc = "restoreSync"
  /\ Sync
  /\ pc' = "restoreRemove"
  /\ UNCHANGED <<cur, todo, failed, job, errors>>

RestoreRemove ==
  /\ RollingBack /\ pc = "restoreRemove"
  /\ Put("live", cur, Absent)
  /\ pc' = "restoreRename"
  /\ UNCHANGED <<cur, todo, failed, job, errors>>

RestoreRename ==
  /\ RollingBack /\ pc = "restoreRename"
  /\ Rename("restore", "live", cur)
  /\ pc' = "restoreDone"
  /\ UNCHANGED <<cur, todo, failed, job, errors>>

RestoreDone ==
  /\ RollingBack /\ pc = "restoreDone"
  /\ Sync
  /\ cur' = NoPath /\ pc' = "rollback"
  /\ UNCHANGED <<todo, failed, job, errors>>

(* Any of these raises, or the live file could not be removed, so that the *)
(* rename raises.                                                          *)
RestoreFault ==
  /\ RollingBack
  /\ pc \in {"restoreCopy", "restoreSync", "restoreRemove", "restoreRename",
             "restoreDone"}
  /\ Fault
  /\ failed' = TRUE /\ cur' = NoPath /\ pc' = "rollback"
  /\ UNCHANGED <<disk, unsynced, todo, job>>

(* The final sync. *)
RollbackDone ==
  /\ pc = "rollback" /\ todo = {} /\ ~failed
  /\ \/ /\ Sync
        /\ pc' = IF job = "undo" THEN "saveStaging" ELSE "clearState"
        /\ UNCHANGED <<failed, errors>>
     \/ /\ Fault
        /\ failed' = TRUE
        /\ UNCHANGED <<disk, unsynced, pc>>
  /\ UNCHANGED <<phase, manifest, txn, run, job, cur, todo, wipe, journal, serving,
                 host, confirmed>>

(* 503 and a reboot in a few seconds, phase still "applying". *)
UndoFailed ==
  /\ job = "undo" /\ pc = "rollback" /\ todo = {} /\ failed
  /\ rebootDue' = TRUE
  /\ Return(FALSE) /\ LoopReset
  /\ UNCHANGED <<flash, mode, armed, running, httpUp, package, inbox, confirmed,
                 errors>>

RecoveryFailed ==
  /\ job = "recover" /\ pc = "rollback" /\ todo = {} /\ failed
  /\ RecoveryError
  /\ UNCHANGED <<flash, host, confirmed, errors>>

SaveStaging ==
  /\ pc = "saveStaging"
  /\ \/ /\ phase' = "staging"
        /\ pc' = "wipe" /\ wipe' = <<"txn", "backup">>
        /\ UNCHANGED <<run, job, cur, todo, journal, failed, serving, errors>>
     \/ /\ Fault
        /\ phase' \in {phase, "staging"}
        /\ PollError
  /\ UNCHANGED <<disk, unsynced, manifest, txn, host, confirmed>>

RollbackStep ==
  \/ \E p \in Paths : RollbackPath(p)
  \/ RestoreCopy \/ RestoreSync \/ RestoreRemove \/ RestoreRename \/ RestoreDone
  \/ RestoreFault \/ RollbackDone \/ UndoFailed \/ RecoveryFailed \/ SaveStaging

----------------------------------------------------------------------------
(* Workspace removal: best effort, one item after the other.               *)
ClearSlots(S) ==
  /\ disk' = [s \in Slots |-> IF s \in S THEN EmptySlot ELSE disk[s]]
  /\ unsynced' = {u \in unsynced : u[1] \notin S}

Remove(item) ==
  \/ item = "stage" /\ ClearSlots({"stage"}) /\ UNCHANGED <<manifest, txn>>
  \/ item = "backup" /\ ClearSlots({"backup", "backupTmp"}) /\ UNCHANGED <<manifest, txn>>
  \/ item = "manifest" /\ manifest' = NoManifest /\ UNCHANGED <<disk, unsynced, txn>>
  \/ item = "txn" /\ txn' = NoTxn /\ UNCHANGED <<disk, unsynced, manifest>>

WipeNext ==
  /\ pc = "wipe" /\ wipe # <<>>
  /\ wipe' = Tail(wipe)
  /\ \/ Remove(Head(wipe)) /\ UNCHANGED errors
     \/ Fault /\ UNCHANGED <<disk, unsynced, manifest, txn>>
  /\ UNCHANGED <<phase, run, job, pc, cur, todo, journal, failed, serving, host,
                 confirmed>>

WipeDone ==
  /\ pc = "wipe" /\ wipe = <<>>
  /\ \/ /\ job \in {"begin", "commit", "abort", "reject", "clean"}
        /\ pc' = CASE job = "begin" -> "saveBegin"
                   [] job = "commit" -> "savePending"
                   [] OTHER -> "clearState"
        /\ UNCHANGED <<job, loop, serving, client, toSend, retried, asked>>
     \/ job \in {"undo", "recover"} /\ Return(FALSE) /\ LoopReset
  /\ UNCHANGED <<flash, run, package, inbox, confirmed, errors>>

(* clear_ota_state swallows its error at the end of an abort. *)
ClearAborted ==
  /\ pc = "clearState" /\ job \in {"abort", "reject", "deny", "clean"}
  /\ \/ phase' = "none" /\ UNCHANGED errors
     \/ phase' \in {phase, "none"} /\ Fault
  /\ Return(job = "abort") /\ LoopReset
  /\ mode' = IF job = "clean" THEN "normal" ELSE mode
  /\ rebootDue' = (rebootDue \/ job \in {"abort", "deny"})
  /\ UNCHANGED <<disk, unsynced, manifest, txn, armed, running, httpUp, package,
                 inbox, confirmed>>

(* A recovery drops the state first: from here on the old image is whole   *)
(* and the rest of the workspace may go.                                   *)
ClearRecovered ==
  /\ pc = "clearState" /\ job = "recover"
  /\ \/ /\ phase' = "none"
        /\ pc' = "wipe" /\ wipe' = <<"stage", "manifest", "txn", "backup">>
        /\ UNCHANGED <<run, job, cur, todo, journal, failed, serving, errors>>
     \/ /\ Fault
        /\ phase' \in {phase, "none"}
        /\ RecoveryError
  /\ UNCHANGED <<disk, unsynced, manifest, txn, host, confirmed>>

WipeStep == WipeNext \/ WipeDone \/ ClearAborted \/ ClearRecovered

----------------------------------------------------------------------------
HandlerStep ==
  \/ HandleBegin \/ RejectBegin \/ DenyBegin \/ SaveBegin \/ WriteManifest
  \/ HandleFile \/ HandleAbort
  \/ HandleCommit \/ BuildTransaction \/ WriteTransaction \/ SaveApplying
  \/ SavePending

NormalStep == (\E m \in Packages : Prepare(m) \/ PrepareFails(m)) \/ ConfirmBoot \/ ConfirmFails

Next ==
  \/ NormalStep
  \/ BootStep
  \/ HandlerStep
  \/ ApplyStep
  \/ RollbackStep
  \/ WipeStep
  \/ InactivityTimeout
  \/ PollFails
  \/ Reboot
  \/ Crash
  \/ ClientStep

(* The device keeps executing: it takes the next step of a handler, polls  *)
(* its server, notices an elapsed timer and carries out a due reboot.      *)
(* Nothing makes the client send, a confirmation arrive or a poll fail.    *)
Device == BootStep \/ HandlerStep \/ ApplyStep \/ RollbackStep \/ WipeStep
Fairness ==
  /\ WF_vars(Device)
  /\ WF_vars(InactivityTimeout)
  /\ WF_vars(Reboot)

Spec == Init /\ [][Next]_vars
FairSpec == Spec /\ Fairness
----------------------------------------------------------------------------
TypeOK ==
  /\ disk \in [Slots -> [Paths -> Contents]]
  /\ unsynced \subseteq Slots \X Paths
  /\ phase \in Phases
  /\ manifest \in Packages \cup {NoManifest}
  /\ txn \in Journals \cup {NoTxn}
  /\ mode \in {"boot", "normal", "ota", "halted"}
  /\ armed \in BOOLEAN /\ httpUp \in BOOLEAN /\ rebootDue \in BOOLEAN
  /\ running \in Versions
  /\ job \in {"none", "begin", "reject", "deny", "abort", "commit", "undo", "recover", "clean"}
  /\ cur \in Paths \cup {NoPath} /\ todo \subseteq Paths
  /\ failed \in BOOLEAN
  /\ serving \in Request \cup {NoRequest}
  /\ package \in Packages
  /\ client \in Requests \cup {"idle"} /\ asked \in Requests \cup {"none"}
  /\ toSend \subseteq Paths /\ retried \in BOOLEAN
  /\ inbox \in Seq(Request) /\ Len(inbox) <= MaxInbox
  /\ confirmed \in Versions
  /\ faults \in 0..MaxFaults /\ blind \subseteq {"file", "state"}

(* The image is being replaced, or its replacement is not yet confirmed. *)
Guarded == {"applying", "applied_pending_boot", "boot_pending"}

(* While an install can still be undone, its journal and manifest are on   *)
(* flash and every original file survives a power loss, in place or as a   *)
(* backup: a rollback can always restore the previous image.               *)
Safe(s, p, c) == disk[s][p] = c /\ <<s, p>> \notin unsynced

RollbackCovered ==
  phase \in Guarded =>
    /\ txn # NoTxn /\ manifest # NoManifest
    /\ \A p \in DOMAIN txn :
         txn[p] # Absent => Safe("live", p, txn[p]) \/ Safe("backup", p, txn[p])

(* No begin and no abort is carried out while an install can still be      *)
(* undone: either would drop the state or the artifacts a rollback needs.  *)
NoWipeWhileGuarded ==
  job \in {"begin", "reject", "deny", "abort"} => phase \notin Guarded

(* The normal runtime never starts from a mixture of two versions.         *)
NeverMixed == mode = "normal" => \E v \in Versions : Whole(v)

(* Even when one step fails, with or without the code noticing: the files  *)
(* that are replaced all come from the same version.  A file that was not  *)
(* seen when the originals were recorded is not restored but missing.  A   *)
(* boot that cannot read the state is the case in which the code does      *)
(* start a mixture (ApplyRecovered).                                       *)
ReplacedNeverMixed ==
  mode = "normal" /\ "state" \notin blind =>
    \E v \in Versions : \A p \in Paths :
      (\A w \in Versions : p \in Has[w]) =>
        disk["live"][p] = v \/ ("file" \in blind /\ disk["live"][p] = Absent)

(* An image that is on trial runs only under the first-boot health check:  *)
(* the next reset takes it back.                                           *)
UnconfirmedGuarded ==
  mode = "normal" /\ ~Whole(confirmed) => phase = "boot_pending" /\ armed

(* What runs is one image, and one that may run: every variable has its    *)
(* type, no mixture starts, and an unconfirmed image is on trial.          *)
ImageSound == TypeOK /\ NeverMixed /\ UnconfirmedGuarded

(* A transfer, once begun, always ends: no client that stops, lost answer  *)
(* or I/O error keeps the device in the phases between the begin and the   *)
(* reboot into the new image or out of the transfer.                       *)
Transferring ==
  mode = "ota" /\ phase \in {"ready", "staging", "applying", "applied_pending_boot"}
TransferEnds == Transferring ~> ~Transferring

(* ota.md: a lost job does not strand the device in OTA mode. *)
NeverStranded == (mode = "ota") ~> (mode # "ota")

(* ota.md: rollback keeps its journal and backups until the caller durably *)
(* leaves the apply phase.                                                 *)
FailedRollbackKeepsArtifacts ==
  [][mode = "ota" /\ phase = "applying" /\ rebootDue =>
       /\ txn' = txn /\ manifest' = manifest
       /\ disk'["backup"] = disk["backup"]]_vars

(* docs/ota.md, "Power loss during phase applying is recovered before      *)
(* normal profile startup": load_ota_state answers a read error with       *)
(* "no update", and the normal program starts with the files of two        *)
(* versions.                                                               *)
ApplyRecovered == mode = "normal" => phase # "applying"

(* docs/sensorius_contract.md, "phase boot_pending is retained until the   *)
(* prior profile reaches its health checkpoint": process_fwupdate_message  *)
(* overwrites it with the phase of the next update.                        *)
BootPendingRetained ==
  [][mode = "normal" /\ phase = "boot_pending" => phase' \in {"boot_pending", "applied"}]_vars

(* The whole update implements the trial of FirmwareTrial.                 *)
LiveImage == IF \E v \in Versions : Whole(v)
             THEN CHOOSE v \in Versions : Whole(v) ELSE Torn
Runs == IF mode = "normal" THEN LiveImage ELSE Down
OnTrial == IF \/ phase = "applied_pending_boot"
              \/ phase = "boot_pending" /\ armed /\ mode = "boot"
           THEN manifest.to ELSE NoTrial

Firmware == INSTANCE FirmwareTrial WITH running <- Runs, trial <- OnTrial

OneTrial == Firmware!Spec
=============================================================================
