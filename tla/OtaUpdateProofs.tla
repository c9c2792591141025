-------------------------- MODULE OtaUpdateProofs --------------------------
(***************************************************************************)
(* Theorems about OtaUpdate for all versions, paths and numbers of I/O     *)
(* errors.  In this order:                                                 *)
(*  - as long as the device accepts no begin and no abort while an install *)
(*    can be undone, every original file survives any sequence of resets   *)
(*    and I/O errors, in place or as a verified backup (AlwaysCovered);    *)
(*  - every variable keeps its type, whatever fails (TypeCorrect);         *)
(*  - until the first I/O error, however often power fails, the client     *)
(*    gives up and the device reboots: the normal program runs one image,  *)
(*    nothing accepts a wipe of the backups, every original file is        *)
(*    covered, and the device is a FirmwareTrial (SoundUntilFault,         *)
(*    NoWipeUntilFault, CoveredUntilFault, TrialUntilFault).  The          *)
(*    invariant is Calm: which files are which version, job by job;        *)
(*  - until the second one, unless it hid the saved state from a boot: the *)
(*    replaced files of two versions never run together                    *)
(*    (OneErrorNeverMixes).  Its invariant, Even, follows the shared files *)
(*    through install, undo and recovery.                                  *)
(***************************************************************************)
EXTENDS OtaUpdate, TLAPS

EntrySteps == ApplySteps
RestoreSteps == {"restoreCopy", "restoreSync", "restoreRemove", "restoreRename",
                 "restoreDone"}

(* Types of the part of the state the argument is about. *)
Types ==
  /\ disk \in [Slots -> [Paths -> Contents]]
  /\ unsynced \subseteq Slots \X Paths
  /\ phase \in Phases
  /\ pc \in EntrySteps \cup RestoreSteps => cur \in Paths
  /\ package \in Packages
  /\ manifest \in Packages \cup {NoManifest}

(* Which step belongs to which job, and in which mode and phase it runs.   *)
Jobs ==
  /\ job \in {"none", "begin", "reject", "deny", "abort", "commit", "undo", "recover", "clean"}
  /\ job = "none" <=> pc = "idle"
  /\ job = "begin" => pc \in {"wipe", "saveBegin", "writeManifest"}
  /\ job \in {"abort", "reject", "deny", "clean"} => pc \in {"wipe", "clearState"}
  /\ job = "commit" => pc \in {"build", "writeTxn", "saveApplying", "apply", "wipe",
                               "savePending"} \cup EntrySteps
  /\ job = "undo" => pc \in {"rollback", "saveStaging", "wipe"} \cup RestoreSteps
  /\ job = "recover" => pc \in {"rollback", "clearState", "wipe"} \cup RestoreSteps
  /\ job \in {"begin", "reject", "deny", "abort", "commit", "undo"} => mode = "ota"
  /\ job \in {"recover", "clean"} => mode = "boot"
  /\ mode = "normal" /\ phase = "applying" => "state" \in blind
  /\ job = "clean" => phase \notin Guarded
  /\ pc = "wipe" /\ job = "commit" =>
       phase = "applying" /\ (wipe = <<"stage">> \/ wipe = <<>>)
  /\ pc = "wipe" /\ job \in {"undo", "recover"} => phase \notin Guarded
  /\ pc \in {"build", "writeTxn", "saveApplying"} =>
       phase = "staging" /\ manifest # NoManifest
  /\ pc \in {"apply", "savePending"} \cup EntrySteps => phase = "applying"

(* Backups are always flushed, live files except between their rename and  *)
(* the sync that follows; a boot that cannot read the state, and a request *)
(* that then overwrites it, can leave one unflushed until the next reset.  *)
LiveSynced == \A p \in Paths : <<"live", p>> \notin unsynced

Synced ==
  /\ \A p \in Paths : <<"backup", p>> \notin unsynced
  /\ phase # "applying" =>
       LiveSynced \/ (mode = "normal" /\ phase = "requested" /\ "state" \in blind)
  /\ pc \in {"apply", "savePending", "saveStaging"} \cup (EntrySteps \ {"syncInstalled"})
       => LiveSynced
  /\ pc = "wipe" /\ job = "commit" => LiveSynced
  /\ pc = "clearState" /\ job = "recover" => LiveSynced
  /\ pc = "renameBackup" => <<"backupTmp", cur>> \notin unsynced
  /\ pc \in {"restoreRemove", "restoreRename"} => <<"restore", cur>> \notin unsynced

(* The journal in memory is the one on flash, and what the entry and the   *)
(* rollback of a path have established so far.                             *)
BackedUp(p) == disk["backup"][p] = journal[p]

Journal ==
  /\ pc \in {"writeTxn", "saveApplying"} =>
       /\ journal # NoTxn
       /\ DOMAIN journal \subseteq Paths
       /\ \A p \in DOMAIN journal :
            journal[p] # Absent => disk["live"][p] = journal[p]
  /\ pc = "saveApplying" => txn = journal
  /\ pc \in {"apply"} \cup EntrySteps => txn = journal
  /\ job \in {"undo", "recover"} /\ phase \in Guarded => txn = journal
  /\ pc = "syncBackupTmp" => disk["backupTmp"][cur] = journal[cur]
  /\ pc = "renameBackup" => disk["backupTmp"][cur] = journal[cur]
  /\ pc = "syncBackup" => BackedUp(cur)
  /\ pc \in {"remove", "install", "syncInstalled"} /\ journal[cur] # Absent =>
       BackedUp(cur)
  /\ pc \in RestoreSteps => BackedUp(cur)

Covered ==
  phase \in Guarded =>
    /\ txn # NoTxn /\ manifest # NoManifest
    /\ DOMAIN txn \subseteq Paths
    /\ \A p \in DOMAIN txn :
         txn[p] # Absent => Safe("live", p, txn[p]) \/ Safe("backup", p, txn[p])

IInv == Types /\ Jobs /\ Synced /\ Journal /\ Covered

LEMMA InitIInv == Init => IInv
<1> SUFFICES ASSUME Init PROVE IInv
  OBVIOUS
<1> USE DEF Init
<1>1. Types
  BY VersionsAssumption DEF Types, Slots, EmptySlot, ImageOf, Contents, Phases, EntrySteps,
     ApplySteps, RestoreSteps
<1>2. Jobs
  BY DEF Jobs, Guarded, EntrySteps, ApplySteps
<1>3. Synced
  BY DEF Synced, LiveSynced, EntrySteps, ApplySteps
<1>4. Journal
  BY DEF Journal, EntrySteps, ApplySteps, RestoreSteps
<1>5. Covered
  BY DEF Covered, Guarded
<1> QED
  BY <1>1, <1>2, <1>3, <1>4, <1>5 DEF IInv

(* Steps that leave the flash and the handlers alone.                      *)
LEMMA FrameIInv ==
  ASSUME IInv, UNCHANGED <<flash, job, pc, cur, wipe, journal, mode, package, blind>>
  PROVE  IInv'
<1> USE DEF flash
<1>1. Types'
  BY DEF IInv, Types
<1>2. Jobs'
  BY DEF IInv, Jobs
<1>3. Synced'
  BY DEF IInv, Synced, LiveSynced, EntrySteps, ApplySteps
<1>4. Journal'
  BY DEF IInv, Journal, BackedUp
<1>5. Covered'
  BY DEF IInv, Covered, Safe
<1> QED
  BY <1>1, <1>2, <1>3, <1>4, <1>5 DEF IInv

(* A restart forgets the memory; the flash may lose what is not flushed.   *)
LEMMA RestartIInv ==
  ASSUME IInv, Restart, UNCHANGED <<manifest, txn, package>>, phase' \in Phases,
         phase' \in Guarded => phase' = phase,
         unsynced' = {} \/ (unsynced' = unsynced /\ phase = "boot_pending"),
         disk' \in [Slots -> [Paths -> Contents]],
         \A s \in Slots, p \in Paths : <<s, p>> \notin unsynced => disk'[s][p] = disk[s][p]
  PROVE  IInv'
<1> USE DEF Restart, LoopReset
<1>1. Types'
  BY DEF IInv, Types, EntrySteps, ApplySteps, RestoreSteps
<1>2. Jobs'
  BY DEF IInv, Jobs, EntrySteps, ApplySteps, RestoreSteps
<1>3. Synced'
  BY DEF IInv, Synced, LiveSynced, EntrySteps, ApplySteps
<1>4. Journal'
  BY DEF IInv, Journal, EntrySteps, ApplySteps, RestoreSteps
<1>5. Covered'
  BY DEF IInv, Covered, Safe, Slots, Types
<1> QED
  BY <1>1, <1>2, <1>3, <1>4, <1>5 DEF IInv

(* The boot code arms, recovers or cleans before anything else runs.       *)
LEMMA BootIInv ==
  ASSUME IInv, NoWipeWhileGuarded, BootStep PROVE IInv'
<1> USE VersionsAssumption DEF IInv, Types, Jobs, Synced, LiveSynced, Journal, BackedUp,
   Covered, Safe, EntrySteps, ApplySteps, RestoreSteps, Slots, Phases, Guarded, Contents,
   NoWipeWhileGuarded, flash
<1>1. CASE ArmHealthCheck
  BY <1>1 DEF ArmHealthCheck, Booting, run, loop, host
<1>2. CASE ArmFails
  BY <1>2 DEF ArmFails, Booting, Fault, run, loop, host
<1>3. CASE StartRecovery
  BY <1>3 DEF StartRecovery, Booting, MustRecover, run, host
<1>4. CASE NothingToRecover
  BY <1>4 DEF NothingToRecover, Booting, MustRecover, RecoveryError, LoopReset, host
<1>5. CASE CleanAbandoned
  BY <1>5 DEF CleanAbandoned, Booting, StartAbort, AbortList, host, run
<1>6. CASE BootNormal
  BY <1>6 DEF BootNormal, Booting, loop, host
<1>7. CASE EnterOta
  BY <1>7 DEF EnterOta, Booting, loop, host
<1>8. CASE OtaUnavailable
  BY <1>8 DEF OtaUnavailable, Booting, run, loop, host
<1>9. CASE BootUnread
  BY <1>9 DEF BootUnread, Booting, loop, host
<1> QED
  BY <1>1, <1>2, <1>3, <1>4, <1>5, <1>6, <1>7, <1>8, <1>9 DEF BootStep

(* The HTTP handlers: a commit leaves "staging" only with a journal on flash. *)
LEMMA HandlerIInv ==
  ASSUME IInv, NoWipeWhileGuarded, HandlerStep PROVE IInv'
<1> USE VersionsAssumption DEF IInv, Types, Jobs, Synced, LiveSynced, Journal, BackedUp,
   Covered, Safe, EntrySteps, ApplySteps, RestoreSteps, Slots, Phases, Guarded, Contents,
   NoWipeWhileGuarded, flash
<1>1. CASE HandleBegin
  BY <1>1 DEF HandleBegin, Take, Polling, run
<1>2. CASE RejectBegin
  BY <1>2 DEF RejectBegin, Take, Polling, StartAbort, AbortList, run
<1>3. CASE SaveBegin
  BY <1>3 DEF SaveBegin, PollError, StartAbort, AbortList, loop, LoopReset, run, host, Fault
<1>4. CASE WriteManifest
  BY <1>4 DEF WriteManifest, PollError, StartAbort, AbortList, run, LoopReset, Return, Fault
<1>5. CASE HandleFile
  <2>1. UNCHANGED <<phase, manifest, txn, job, pc, cur, wipe, journal, mode, package>>
    BY <1>5 DEF HandleFile, AnswerNow, loop, run
  <2>2. job = "none" /\ pc = "idle" /\ mode = "ota"
    BY <1>5 DEF HandleFile, Take, Polling
  <2>3. \/ UNCHANGED <<disk, unsynced>>
        \/ \E p \in Paths, c \in Contents : Put("stage", p, c)
    <3>1. CASE FileExpected(Head(inbox))
      <4>1. Head(inbox).path \in Paths /\ manifest.to \in Contents
        BY <3>1 DEF FileExpected, Packages, Installed
      <4> QED
        BY <1>5, <3>1, <4>1 DEF HandleFile
    <3>2. CASE ~FileExpected(Head(inbox))
      BY <1>5, <3>2 DEF HandleFile
    <3> QED
      BY <3>1, <3>2
  <2> QED
    BY <2>1, <2>2, <2>3 DEF Put
<1>6. CASE HandleAbort
  BY <1>6 DEF HandleAbort, Take, Polling, StartAbort, AbortList, AnswerNow, loop, run
<1>7. CASE HandleCommit
  BY <1>7 DEF HandleCommit, Take, Polling, Verified, CurrentPhase, AnswerNow, loop, run
<1>8. CASE BuildTransaction
  <2>1. CASE Fault /\ Return(FALSE) /\ LoopReset
    BY <1>8, <2>1 DEF BuildTransaction, LoopReset, Return, run
  <2>2. CASE ~(Fault /\ Return(FALSE) /\ LoopReset)
    <3>1. manifest \in Packages
      BY <1>8 DEF BuildTransaction
    <3>2. Installed(manifest) \cup Deleted(manifest) \in SUBSET Paths
      BY <3>1 DEF Installed, Deleted, Packages
    <3> DEFINE S == Installed(manifest) \cup Deleted(manifest)
    <3>6. Originals \in [S -> Contents] /\ \A p \in S : Originals[p] = disk["live"][p]
      BY <3>2 DEF Originals
    <3>7. journal' = Originals \/ \E p \in S : journal' = [Originals EXCEPT ![p] = Absent]
      BY <1>8, <2>2, <3>6 DEF BuildTransaction
    <3>3. /\ journal' \in [S -> Contents]
          /\ \A p \in DOMAIN journal' : journal'[p] # Absent => disk["live"][p] = journal'[p]
      BY <3>6, <3>7
    <3> HIDE DEF S
    <3>4. journal' # NoTxn
      BY <3>2, <3>3 DEF S
    <3>5. /\ pc = "build" /\ pc' = "writeTxn" /\ DOMAIN journal' \subseteq Paths
          /\ UNCHANGED <<disk, unsynced, phase, manifest, txn, mode, package, job, wipe, cur>>
      BY <1>8, <2>2, <3>2, <3>3 DEF BuildTransaction, run, S
    <3> QED
      BY <3>3, <3>4, <3>5
  <2> QED
    BY <2>1, <2>2
<1>9. CASE WriteTransaction
  BY <1>9 DEF WriteTransaction, StartUndo, loop, run, host, Fault
<1>10. CASE SaveApplying
  BY <1>10 DEF SaveApplying, StartUndo, run, host, Fault
<1>11. CASE SavePending
  BY <1>11 DEF SavePending, PollError, StartAbort, AbortList, LoopReset, Return, Fault
<1>12. CASE DenyBegin
  BY <1>12 DEF DenyBegin, Take, Polling, loop, run
<1> QED
  BY <1>1, <1>2, <1>3, <1>4, <1>5, <1>6, <1>7, <1>8, <1>9, <1>10, <1>11, <1>12 DEF
     HandlerStep

(* The apply loop: no live file goes before its backup is flushed.         *)
LEMMA ApplyIInv ==
  ASSUME IInv, NoWipeWhileGuarded, ApplyStep PROVE IInv'
<1> USE VersionsAssumption DEF IInv, Types, Jobs, Synced, LiveSynced, Journal, BackedUp,
   Covered, Safe, EntrySteps, ApplySteps, RestoreSteps, Slots, Phases, Guarded, Contents,
   NoWipeWhileGuarded, Applying, run, host
<1>1. ASSUME NEW p \in Paths, NextFile(p) PROVE IInv'
  BY <1>1 DEF NextFile
<1>2. ASSUME NEW p \in Paths, NextDelete(p) PROVE IInv'
  BY <1>2 DEF NextDelete
<1>3. CASE CopyFresh
  BY <1>3 DEF CopyFresh, Put
<1>4. CASE CopyBackup
  BY <1>4 DEF CopyBackup, Put
<1>5. CASE SyncBackupTmp
  BY <1>5 DEF SyncBackupTmp, Sync
<1>6. CASE RenameBackup
  BY <1>6 DEF RenameBackup, Rename
<1>7. CASE SyncBackup
  BY <1>7 DEF SyncBackup, Sync
<1>8. CASE RemoveLive
  BY <1>8 DEF RemoveLive, Put, Fault, AfterRemove
<1>9. CASE InstallFresh
  BY <1>9 DEF InstallFresh, Rename
<1>10. CASE SyncInstalled
  BY <1>10 DEF SyncInstalled, Sync
<1>11. CASE ApplyDone
  BY <1>11 DEF ApplyDone, flash, loop
<1>12. CASE ApplyFault
  BY <1>12 DEF ApplyFault, ApplyFails, StartUndo, Put, Fault, loop
<1>13. CASE ApplyBlocked
  BY <1>13 DEF ApplyBlocked, ApplyFails, StartUndo, Put, loop
<1> QED
  BY <1>1, <1>2, <1>3, <1>4, <1>5, <1>6, <1>7, <1>8, <1>9, <1>10, <1>11, <1>12, <1>13 DEF
     ApplyStep

(* The rollback loop: a backup outlives the restored file it is copied to. *)
LEMMA RollbackIInv ==
  ASSUME IInv, NoWipeWhileGuarded, RollbackStep PROVE IInv'
<1> USE VersionsAssumption DEF IInv, Types, Jobs, Synced, LiveSynced, Journal, BackedUp,
   Covered, Safe, EntrySteps, ApplySteps, RestoreSteps, Slots, Phases, Guarded, Contents,
   NoWipeWhileGuarded, RollingBack, run, host
<1>1. ASSUME NEW p \in Paths, RollbackPath(p) PROVE IInv'
  <2>1. /\ pc = "rollback" /\ UNCHANGED <<phase, manifest, txn, package, job, mode, wipe>>
        /\ UNCHANGED journal /\ job \in {"undo", "recover"}
    BY <1>1 DEF RollbackPath
  <2>2. CASE journal[p] # Absent
    <3>1. /\ disk' = [disk EXCEPT !["fresh"][p] = Absent]
          /\ unsynced' = unsynced \ {<<"fresh", p>>}
          /\ \/ pc' = "rollback"
             \/ pc' = "restoreCopy" /\ cur' = p /\ BackedUp(p)
      BY <1>1, <2>1, <2>2 DEF RollbackPath, Put
    <3> QED
      BY <2>1, <3>1
  <2>3. CASE journal[p] = Absent
    <3>1. /\ pc' = "rollback"
          /\ \/ /\ disk' = [disk EXCEPT !["fresh"][p] = Absent, !["live"][p] = Absent]
                /\ unsynced' = unsynced \ {<<"fresh", p>>, <<"live", p>>}
             \/ UNCHANGED <<disk, unsynced>>
      BY <1>1, <2>1, <2>3 DEF RollbackPath
    <3> QED
      BY <2>1, <2>3, <3>1
  <2> QED
    BY <2>2, <2>3
<1>2. CASE RestoreCopy
  BY <1>2 DEF RestoreCopy, Put
<1>3. CASE RestoreSync
  BY <1>3 DEF RestoreSync, Sync
<1>4. CASE RestoreRemove
  BY <1>4 DEF RestoreRemove, Put
<1>5. CASE RestoreRename
  BY <1>5 DEF RestoreRename, Rename
<1>6. CASE RestoreDone
  BY <1>6 DEF RestoreDone, Sync
<1>7. CASE RestoreFault
  BY <1>7 DEF RestoreFault, Fault
<1>8. CASE RollbackDone
  BY <1>8 DEF RollbackDone, Sync, Fault
<1>9. CASE UndoFailed
  BY <1>9 DEF UndoFailed, Return, LoopReset, flash
<1>10. CASE RecoveryFailed
  BY <1>10 DEF RecoveryFailed, RecoveryError, LoopReset, flash
<1>11. CASE SaveStaging
  BY <1>11 DEF SaveStaging, Fault, PollError, StartAbort, AbortList, LoopReset, loop
<1> QED
  BY <1>1, <1>2, <1>3, <1>4, <1>5, <1>6, <1>7, <1>8, <1>9, <1>10, <1>11 DEF RollbackStep

(* The workspace goes only when nothing has to be restored any more.       *)
LEMMA WipeIInv ==
  ASSUME IInv, NoWipeWhileGuarded, WipeStep PROVE IInv'
<1> USE VersionsAssumption DEF IInv, Types, Jobs, Synced, LiveSynced, Journal, BackedUp,
   Covered, Safe, EntrySteps, ApplySteps, RestoreSteps, Slots, Phases, Guarded, Contents,
   NoWipeWhileGuarded, run, host, loop
<1>1. CASE WipeNext
  <2>1. Tail(<<"stage">>) = <<>> /\ <<"stage">> # <<>> /\ Head(<<"stage">>) = "stage"
    OBVIOUS
  <2>2. CASE job = "commit"
    <3>1. \/ ClearSlots({"stage"}) /\ UNCHANGED <<manifest, txn>>
          \/ UNCHANGED <<disk, unsynced, manifest, txn>>
      BY <1>1, <2>1, <2>2 DEF WipeNext, Remove
    <3>2. wipe' = <<>>
      BY <1>1, <2>1, <2>2 DEF WipeNext
    <3> QED
      BY <1>1, <2>2, <3>1, <3>2 DEF WipeNext, ClearSlots, EmptySlot
  <2>3. CASE job # "commit"
    <3>1. phase \notin Guarded
      BY <1>1, <2>3 DEF WipeNext
    <3> QED
      BY <1>1, <2>3, <3>1 DEF WipeNext, Remove, ClearSlots, EmptySlot
  <2> QED
    BY <2>2, <2>3
<1>2. CASE WipeDone
  <2>1. UNCHANGED <<disk, unsynced, phase, manifest, txn, package, mode>> /\ pc = "wipe"
    BY <1>2 DEF WipeDone, flash
  <2>2. CASE job \in {"begin", "commit", "abort", "reject", "clean"}
    <3>1. /\ UNCHANGED <<job, journal, wipe, cur>>
          /\ pc' = CASE job = "begin" -> "saveBegin"
                     [] job = "commit" -> "savePending"
                     [] OTHER -> "clearState"
      BY <1>2, <2>2 DEF WipeDone
    <3> QED
      BY <2>1, <2>2, <3>1
  <2>3. CASE job \in {"undo", "recover"}
    <3>1. job' = "none" /\ pc' = "idle" /\ phase \notin Guarded
      BY <1>2, <2>1, <2>3 DEF WipeDone, Return
    <3> QED
      BY <2>1, <3>1
  <2> QED
    BY <1>2, <2>2, <2>3 DEF WipeDone
<1>3. CASE ClearAborted
  BY <1>3 DEF ClearAborted, Return, LoopReset, Fault
<1>4. CASE ClearRecovered
  BY <1>4 DEF ClearRecovered, Fault, RecoveryError, LoopReset
<1> QED
  BY <1>1, <1>2, <1>3, <1>4 DEF WipeStep

(* Every step keeps the invariant. *)
LEMMA NextIInv == IInv /\ NoWipeWhileGuarded /\ [Next]_vars => IInv'
<1> SUFFICES ASSUME IInv, NoWipeWhileGuarded, [Next]_vars PROVE IInv'
  OBVIOUS
<1>1. ASSUME NEW m \in Packages, Prepare(m) PROVE IInv'
  BY <1>1 DEF Prepare, errors, IInv, Types, Jobs, Synced, LiveSynced, Journal, BackedUp,
     Covered, Safe, Guarded, Phases, loop, EntrySteps, ApplySteps, RestoreSteps
<1>15. ASSUME NEW m \in Packages, PrepareFails(m) PROVE IInv'
  BY <1>15 DEF PrepareFails, Fault, IInv, Types, Jobs, Synced, LiveSynced, Journal,
     BackedUp, Covered, Safe, Guarded, Phases, loop, run, EntrySteps, ApplySteps,
     RestoreSteps
<1>2. CASE ConfirmBoot
  BY <1>2 DEF ConfirmBoot, errors, IInv, Types, Jobs, Synced, LiveSynced, Journal, BackedUp,
     Covered, Safe, Guarded, Phases, loop, run, host, EntrySteps, ApplySteps, RestoreSteps
<1>3. CASE ConfirmFails
  BY <1>3, RestartIInv DEF ConfirmFails, Guarded, Phases, IInv, Types, Synced
<1>4. CASE BootStep
  BY <1>4, BootIInv
<1>5. CASE HandlerStep
  BY <1>5, HandlerIInv
<1>6. CASE ApplyStep
  BY <1>6, ApplyIInv
<1>7. CASE RollbackStep
  BY <1>7, RollbackIInv
<1>8. CASE WipeStep
  BY <1>8, WipeIInv
<1>9. CASE InactivityTimeout
  BY <1>9 DEF InactivityTimeout, Polling, StartAbort, IInv, Types, Jobs, Synced, LiveSynced,
     Journal, BackedUp, Covered, Safe, flash, run, host, EntrySteps, ApplySteps,
     RestoreSteps
<1>10. CASE PollFails
  BY <1>10 DEF PollFails, PollError, Polling, StartAbort, LoopReset, IInv, Types, Jobs,
     Synced, LiveSynced, Journal, BackedUp, Covered, Safe, flash, host, EntrySteps,
     ApplySteps, RestoreSteps
<1>11. CASE Reboot
  BY <1>11, RestartIInv DEF Reboot, Sync, IInv, Types
<1>12. CASE Crash
  BY <1>12, RestartIInv, VersionsAssumption DEF Crash, IInv, Types, Contents
<1>13. CASE ClientStep
  BY <1>13, FrameIInv DEF ClientStep, ClientStart, ClientSend, ClientTimeout, run, loop,
     errors
<1>14. CASE UNCHANGED vars
  BY <1>14, FrameIInv DEF vars, loop, run, host, errors
<1> QED
  BY <1>1, <1>2, <1>3, <1>4, <1>5, <1>6, <1>7, <1>8, <1>9, <1>10, <1>11, <1>12, <1>13,
     <1>14, <1>15 DEF Next, NormalStep

(* As long as no begin and no abort runs while an install can be undone,   *)
(* the files of the previous image survive any sequence of resets, lost    *)
(* writes and I/O errors: _apply_staged_manifest_files,                    *)
(* _rollback_apply_transaction and recover_interrupted_ota_apply can       *)
(* always restore it.                                                      *)
THEOREM AlwaysCovered == Spec /\ []NoWipeWhileGuarded => []RollbackCovered
<1>1. IInv => RollbackCovered
  BY DEF IInv, Covered, RollbackCovered
<1> QED
  BY <1>1, InitIInv, NextIInv, PTL DEF Spec

----------------------------------------------------------------------------
(* The types in three parts: the files, the control state with the locals  *)
(* of the loops (the current path, and the journal of a commit while its   *)
(* entries are worked off), and the client with the requests on their way. *)
FilesTyped ==
  /\ disk \in [Slots -> [Paths -> Contents]]
  /\ unsynced \subseteq Slots \X Paths

ControlTyped ==
  /\ phase \in Phases
  /\ manifest \in Packages \cup {NoManifest}
  /\ txn \in Journals \cup {NoTxn}
  /\ mode \in {"boot", "normal", "ota", "halted"}
  /\ running \in Versions
  /\ job \in {"none", "begin", "reject", "deny", "abort", "commit", "undo", "recover", "clean"}
  /\ cur \in Paths \cup {NoPath} /\ todo \subseteq Paths
  /\ confirmed \in Versions
  /\ pc \in EntrySteps \cup RestoreSteps => cur \in Paths
  /\ pc = "build" => manifest # NoManifest
  /\ pc \in {"writeTxn", "saveApplying", "apply"} \cup EntrySteps => journal \in Journals

FlagsTyped ==
  /\ armed \in BOOLEAN /\ httpUp \in BOOLEAN /\ rebootDue \in BOOLEAN
  /\ failed \in BOOLEAN

ClientTyped ==
  /\ serving \in Request \cup {NoRequest}
  /\ package \in Packages
  /\ client \in Requests \cup {"idle"} /\ asked \in Requests \cup {"none"}
  /\ toSend \subseteq Paths /\ retried \in BOOLEAN
  /\ inbox \in Seq(Request) /\ Len(inbox) <= MaxInbox

Typed ==
  /\ FilesTyped /\ ControlTyped /\ FlagsTyped /\ ClientTyped
  /\ faults \in 0..MaxFaults /\ blind \subseteq {"file", "state"}

LEMMA TypedTypeOK == Typed => TypeOK
BY DEF Typed, FilesTyped, ControlTyped, FlagsTyped, ClientTyped, TypeOK

LEMMA NoInbox == <<>> \in Seq(Request) /\ Len(<<>>) <= MaxInbox
BY VersionsAssumption

LEMMA InitTyped == Init => Typed
<1> SUFFICES ASSUME Init PROVE Typed
  OBVIOUS
<1> USE VersionsAssumption DEF Init
<1>1. FilesTyped
  BY DEF FilesTyped, Slots, EmptySlot, ImageOf, Contents
<1>2. ControlTyped
  BY DEF ControlTyped, Phases, EntrySteps, ApplySteps, RestoreSteps
<1>3. FlagsTyped
  BY DEF FlagsTyped
<1>4. ClientTyped
  BY NoInbox DEF ClientTyped, Requests
<1>5. faults \in 0..MaxFaults /\ blind \subseteq {"file", "state"}
  OBVIOUS
<1> QED
  BY <1>1, <1>2, <1>3, <1>4, <1>5 DEF Typed

(* ----- the files *)
LEMMA PutTyped ==
  ASSUME FilesTyped, NEW s \in Slots, NEW p \in Paths, NEW c \in Contents, Put(s, p, c)
  PROVE  FilesTyped'
BY DEF FilesTyped, Put

LEMMA RenameTyped ==
  ASSUME FilesTyped, NEW s \in Slots, NEW t \in Slots, NEW p \in Paths, Rename(s, t, p)
  PROVE  FilesTyped'
<1>1. Absent \in Contents
  BY DEF Contents
<1>2. disk' \in [Slots -> [Paths -> Contents]]
  BY <1>1 DEF FilesTyped, Rename
<1>3. unsynced' \subseteq Slots \X Paths
  BY DEF FilesTyped, Rename
<1> QED
  BY <1>2, <1>3 DEF FilesTyped

LEMMA SyncTyped == ASSUME FilesTyped, Sync PROVE FilesTyped'
BY DEF FilesTyped, Sync

LEMMA FilesUnchanged == ASSUME FilesTyped, UNCHANGED <<disk, unsynced>> PROVE FilesTyped'
BY DEF FilesTyped

LEMMA CurrentPath ==
  ASSUME ControlTyped, pc \in EntrySteps \cup RestoreSteps
  PROVE  cur \in Paths
BY DEF ControlTyped

LEMMA FilesStep == Typed /\ [Next]_vars => FilesTyped'
<1> SUFFICES ASSUME FilesTyped, ControlTyped, [Next]_vars PROVE FilesTyped'
  BY DEF Typed
<1>0. Absent \in Contents /\ Torn \in Contents
  BY DEF Contents
<1>1. CASE UNCHANGED <<disk, unsynced>>
  BY <1>1, FilesUnchanged
<1>2. CASE Sync
  BY <1>2, SyncTyped
<1>3. CASE HandleFile
  <2>1. CASE FileExpected(Head(inbox))
    <3>1. Head(inbox).path \in Paths /\ manifest.to \in Contents
      BY <2>1, VersionsAssumption DEF FileExpected, Packages, Installed, ControlTyped,
         Contents
    <3>2. Put("stage", Head(inbox).path, manifest.to) \/ Put("stage", Head(inbox).path, Torn)
      BY <1>3, <2>1 DEF HandleFile
    <3> QED
      BY <1>0, <3>1, <3>2, PutTyped DEF Slots
  <2>2. CASE ~FileExpected(Head(inbox))
    BY <1>3, <2>2, <1>1 DEF HandleFile
  <2> QED
    BY <2>1, <2>2
<1>4. CASE ApplyStep
  <2> USE <1>0, CurrentPath DEF EntrySteps, ApplySteps
  <2>1. CASE CopyFresh \/ CopyBackup \/ RemoveLive
    <3>1. cur \in Paths
      BY <2>1 DEF CopyFresh, CopyBackup, RemoveLive
    <3>2. \/ \E s \in Slots, c \in Contents : Put(s, cur, c)
          \/ UNCHANGED <<disk, unsynced>>
      BY <2>1, <3>1 DEF CopyFresh, CopyBackup, RemoveLive, FilesTyped, Slots
    <3> QED
      BY <3>1, <3>2, <1>1, PutTyped
  <2>2. CASE RenameBackup \/ InstallFresh
    <3>1. cur \in Paths /\ (Rename("backupTmp", "backup", cur) \/ Rename("fresh", "live", cur))
      BY <2>2 DEF RenameBackup, InstallFresh
    <3> QED
      BY <3>1, RenameTyped DEF Slots
  <2>3. CASE ApplyFault \/ ApplyBlocked
    <3>1. cur \in Paths /\ (Put("fresh", cur, Absent) \/ UNCHANGED <<disk, unsynced>>)
      BY <2>3 DEF ApplyFault, ApplyBlocked, ApplyFails
    <3> QED
      BY <3>1, <1>1, PutTyped DEF Slots
  <2>4. CASE ApplyDone \/ (\E p \in Paths : NextFile(p) \/ NextDelete(p))
    BY <2>4, <1>1 DEF ApplyDone, NextFile, NextDelete, flash
  <2>5. CASE SyncBackupTmp \/ SyncBackup \/ SyncInstalled
    BY <2>5, <1>2 DEF SyncBackupTmp, SyncBackup, SyncInstalled
  <2> QED
    BY <1>4, <2>1, <2>2, <2>3, <2>4, <2>5 DEF ApplyStep
<1>5. CASE RollbackStep
  <2> USE <1>0, CurrentPath DEF RestoreSteps
  <2>1. ASSUME NEW p \in Paths, RollbackPath(p) PROVE FilesTyped'
    <3>1. CASE Put("fresh", p, Absent) \/ UNCHANGED <<disk, unsynced>>
      BY <3>1, <1>1, PutTyped DEF Slots
    <3>2. CASE /\ disk' = [disk EXCEPT !["fresh"][p] = Absent, !["live"][p] = Absent]
               /\ unsynced' = unsynced \ {<<"fresh", p>>, <<"live", p>>}
      BY <3>2 DEF FilesTyped
    <3> QED
      BY <2>1, <3>1, <3>2 DEF RollbackPath
  <2>2. CASE RestoreCopy \/ RestoreRemove
    <3>1. cur \in Paths
      BY <2>2 DEF RestoreCopy, RestoreRemove
    <3>2. \E s \in Slots, c \in Contents : Put(s, cur, c)
      BY <2>2, <3>1 DEF RestoreCopy, RestoreRemove, FilesTyped, Slots
    <3> QED
      BY <3>1, <3>2, PutTyped
  <2>3. CASE RestoreRename
    <3>1. cur \in Paths /\ Rename("restore", "live", cur)
      BY <2>3 DEF RestoreRename
    <3> QED
      BY <3>1, RenameTyped DEF Slots
  <2>4. CASE RestoreSync \/ RestoreDone \/ RollbackDone
    BY <2>4, <1>1, <1>2 DEF RestoreSync, RestoreDone, RollbackDone
  <2>5. CASE RestoreFault \/ UndoFailed \/ RecoveryFailed \/ SaveStaging
    BY <2>5, <1>1 DEF RestoreFault, UndoFailed, RecoveryFailed, SaveStaging, flash
  <2> QED
    BY <1>5, <2>1, <2>2, <2>3, <2>4, <2>5 DEF RollbackStep
<1>6. CASE WipeStep
  <2>1. ASSUME NEW S, ClearSlots(S) PROVE FilesTyped'
    BY <2>1 DEF ClearSlots, EmptySlot, FilesTyped, Contents
  <2>2. CASE WipeNext
    BY <2>1, <2>2, <1>1 DEF WipeNext, Remove
  <2>3. CASE WipeDone \/ ClearAborted \/ ClearRecovered
    BY <2>3, <1>1 DEF WipeDone, ClearAborted, ClearRecovered, flash
  <2> QED
    BY <1>6, <2>2, <2>3 DEF WipeStep
<1>7. CASE Crash
  BY <1>7 DEF Crash, FilesTyped, Contents
<1>8. CASE HandlerStep /\ ~HandleFile
  BY <1>8, <1>1 DEF HandlerStep, HandleBegin, RejectBegin, DenyBegin, SaveBegin,
     WriteManifest, HandleAbort, HandleCommit, BuildTransaction, WriteTransaction,
     SaveApplying, SavePending, flash
<1>9. CASE NormalStep \/ BootStep \/ ClientStep \/ InactivityTimeout \/ PollFails
  BY <1>9, <1>1 DEF NormalStep, Prepare, PrepareFails, ConfirmBoot, ConfirmFails, BootStep,
     ArmHealthCheck, ArmFails, StartRecovery, NothingToRecover, CleanAbandoned, BootNormal,
     BootUnread, EnterOta, OtaUnavailable, ClientStep, ClientStart, ClientSend,
     ClientTimeout, InactivityTimeout, PollFails, flash
<1>10. CASE UNCHANGED vars
  BY <1>10, <1>1 DEF vars, flash
<1>11. CASE Reboot
  BY <1>11, <1>2 DEF Reboot
<1> QED
  BY <1>3, <1>4, <1>5, <1>6, <1>7, <1>8, <1>9, <1>10, <1>11 DEF Next

(* ----- the control state *)
LEMMA JournalPaths == ASSUME NEW j \in Journals PROVE DOMAIN j \subseteq Paths
BY DEF Journals

LEMMA ControlStep == Typed /\ [Next]_vars => ControlTyped'
<1> SUFFICES ASSUME FilesTyped, ControlTyped, ClientTyped, [Next]_vars PROVE ControlTyped'
  BY DEF Typed
<1> USE DEF ControlTyped, flash, run, loop, EntrySteps, ApplySteps, RestoreSteps
<1>1. CASE NormalStep
  BY <1>1 DEF NormalStep, Prepare, PrepareFails, ConfirmBoot, ConfirmFails, Settled,
     Restart, LoopReset, Phases
<1>2. CASE BootStep
  <2> USE DEF Booting
  <2>1. CASE ArmHealthCheck \/ ArmFails
    BY <2>1 DEF ArmHealthCheck, ArmFails, Phases
  <2>2. CASE StartRecovery
    BY <2>2, JournalPaths DEF StartRecovery
  <2>3. CASE NothingToRecover
    BY <2>3 DEF NothingToRecover, RecoveryError, LoopReset
  <2>4. CASE CleanAbandoned
    BY <2>4 DEF CleanAbandoned, StartAbort
  <2>5. CASE BootNormal \/ BootUnread \/ EnterOta \/ OtaUnavailable
    BY <2>5 DEF BootNormal, BootUnread, EnterOta, OtaUnavailable, Phases
  <2> QED
    BY <1>2, <2>1, <2>2, <2>3, <2>4, <2>5 DEF BootStep
<1>3. CASE HandlerStep
  <2> USE DEF Take, Polling
  <2>1. CASE HandleBegin \/ DenyBegin \/ HandleFile \/ HandleCommit
    BY <2>1 DEF HandleBegin, DenyBegin, HandleFile, HandleCommit, AnswerNow, Verified
  <2>2. CASE RejectBegin \/ HandleAbort
    BY <2>2 DEF RejectBegin, HandleAbort, AnswerNow, StartAbort
  <2>3. CASE SaveBegin
    BY <2>3 DEF SaveBegin, PollError, StartAbort, LoopReset, Phases
  <2>4. CASE WriteManifest
    BY <2>4 DEF WriteManifest, PollError, StartAbort, LoopReset, Return, ClientTyped
  <2>5. CASE BuildTransaction
    <3>1. Installed(manifest) \cup Deleted(manifest) \in SUBSET Paths
      BY <2>5, VersionsAssumption DEF Installed, Deleted, Packages, BuildTransaction
    <3>2. Originals \in [Installed(manifest) \cup Deleted(manifest) -> Contents]
      BY <3>1 DEF Originals, FilesTyped, Slots
    <3>3. \/ journal' \in [Installed(manifest) \cup Deleted(manifest) -> Contents]
          \/ Fault /\ Return(FALSE) /\ LoopReset
      BY <2>5, <3>2 DEF BuildTransaction, Contents
    <3>4. journal' \in Journals \/ (Fault /\ Return(FALSE) /\ LoopReset)
      BY <3>1, <3>3 DEF Journals
    <3> QED
      BY <2>5, <3>4 DEF BuildTransaction, Return, LoopReset
  <2>6. CASE WriteTransaction \/ SaveApplying
    BY <2>6, JournalPaths DEF WriteTransaction, SaveApplying, StartUndo, Phases
  <2>7. CASE SavePending
    BY <2>7 DEF SavePending, PollError, StartAbort, LoopReset, Return, Phases
  <2> QED
    BY <1>3, <2>1, <2>2, <2>3, <2>4, <2>5, <2>6, <2>7 DEF HandlerStep
<1>4. CASE ApplyStep
  <2> USE DEF Applying
  <2>1. ASSUME NEW p \in Paths, NextFile(p) \/ NextDelete(p) PROVE ControlTyped'
    BY <2>1 DEF NextFile, NextDelete
  <2>2. CASE CopyFresh \/ CopyBackup \/ SyncBackupTmp \/ RenameBackup \/ SyncBackup
    BY <2>2 DEF CopyFresh, CopyBackup, SyncBackupTmp, RenameBackup, SyncBackup
  <2>3. CASE RemoveLive \/ InstallFresh \/ SyncInstalled
    BY <2>3 DEF RemoveLive, InstallFresh, SyncInstalled, AfterRemove
  <2>4. CASE ApplyDone
    BY <2>4 DEF ApplyDone
  <2>5. CASE ApplyFault \/ ApplyBlocked
    BY <2>5, JournalPaths DEF ApplyFault, ApplyBlocked, ApplyFails, StartUndo
  <2> QED
    BY <1>4, <2>1, <2>2, <2>3, <2>4, <2>5 DEF ApplyStep
<1>5. CASE RollbackStep
  <2> USE DEF RollingBack
  <2>1. ASSUME NEW p \in Paths, RollbackPath(p) PROVE ControlTyped'
    BY <2>1 DEF RollbackPath
  <2>2. CASE RestoreCopy \/ RestoreSync \/ RestoreRemove \/ RestoreRename
    BY <2>2 DEF RestoreCopy, RestoreSync, RestoreRemove, RestoreRename
  <2>3. CASE RestoreDone \/ RestoreFault \/ RollbackDone
    BY <2>3 DEF RestoreDone, RestoreFault, RollbackDone
  <2>4. CASE UndoFailed \/ RecoveryFailed
    BY <2>4 DEF UndoFailed, RecoveryFailed, RecoveryError, Return, LoopReset
  <2>5. CASE SaveStaging
    BY <2>5 DEF SaveStaging, PollError, StartAbort, LoopReset, Phases
  <2> QED
    BY <1>5, <2>1, <2>2, <2>3, <2>4, <2>5 DEF RollbackStep
<1>6. CASE WipeStep
  <2>1. CASE WipeNext
    BY <2>1 DEF WipeNext, Remove
  <2>2. CASE WipeDone
    BY <2>2 DEF WipeDone, Return, LoopReset
  <2>3. CASE ClearAborted
    BY <2>3 DEF ClearAborted, Return, LoopReset, Phases
  <2>4. CASE ClearRecovered
    BY <2>4 DEF ClearRecovered, RecoveryError, LoopReset, Phases
  <2> QED
    BY <1>6, <2>1, <2>2, <2>3, <2>4 DEF WipeStep
<1>7. CASE InactivityTimeout \/ PollFails
  BY <1>7 DEF InactivityTimeout, PollFails, PollError, StartAbort, LoopReset
<1>8. CASE Reboot \/ Crash
  BY <1>8 DEF Reboot, Crash, Restart, LoopReset
<1>9. CASE ClientStep
  <2>1. UNCHANGED <<flash, run, job, pc, loop, confirmed>>
    BY <1>9 DEF ClientStep, ClientStart, ClientSend, ClientTimeout
  <2> QED
    BY <2>1
<1>10. CASE UNCHANGED vars
  BY <1>10 DEF vars
<1> QED
  BY <1>1, <1>2, <1>3, <1>4, <1>5, <1>6, <1>7, <1>8, <1>9, <1>10 DEF Next

(* ----- the flags and the number of I/O errors *)
LEMMA FlagsStep == Typed /\ [Next]_vars => FlagsTyped'
<1> SUFFICES ASSUME FlagsTyped, [Next]_vars PROVE FlagsTyped'
  BY DEF Typed
<1> USE DEF FlagsTyped, flash, run, loop
<1>1. CASE NormalStep
  BY <1>1 DEF NormalStep, Prepare, PrepareFails, ConfirmBoot, ConfirmFails, Restart,
     LoopReset
<1>2. CASE BootStep
  BY <1>2 DEF BootStep, ArmHealthCheck, ArmFails, StartRecovery, NothingToRecover,
     RecoveryError, CleanAbandoned, BootNormal, BootUnread, EnterOta, OtaUnavailable,
     StartAbort, LoopReset
<1>3. CASE HandlerStep
  <2>1. CASE \/ HandleBegin \/ RejectBegin \/ DenyBegin \/ HandleFile \/ HandleAbort
             \/ HandleCommit
    BY <2>1 DEF HandleBegin, RejectBegin, DenyBegin, HandleFile, HandleAbort, HandleCommit,
       AnswerNow, StartAbort
  <2>2. CASE SaveBegin \/ WriteManifest \/ SavePending
    BY <2>2 DEF SaveBegin, WriteManifest, SavePending, PollError, StartAbort, LoopReset,
       Return
  <2>3. CASE BuildTransaction \/ WriteTransaction \/ SaveApplying
    BY <2>3 DEF BuildTransaction, WriteTransaction, SaveApplying, StartUndo, LoopReset
  <2> QED
    BY <1>3, <2>1, <2>2, <2>3 DEF HandlerStep
<1>4. CASE ApplyStep
  BY <1>4 DEF ApplyStep, NextFile, NextDelete, CopyFresh, CopyBackup, SyncBackupTmp,
     RenameBackup, SyncBackup, RemoveLive, InstallFresh, SyncInstalled, ApplyDone,
     ApplyFault, ApplyBlocked, ApplyFails, StartUndo, Applying
<1>5. CASE RollbackStep
  <2>1. ASSUME NEW p \in Paths, RollbackPath(p) PROVE FlagsTyped'
    BY <2>1 DEF RollbackPath, RollingBack
  <2>2. CASE \/ RestoreCopy \/ RestoreSync \/ RestoreRemove \/ RestoreRename \/ RestoreDone
             \/ RestoreFault \/ RollbackDone
    BY <2>2 DEF RestoreCopy, RestoreSync, RestoreRemove, RestoreRename, RestoreDone,
       RestoreFault, RollbackDone, RollingBack
  <2>3. CASE UndoFailed \/ RecoveryFailed \/ SaveStaging
    BY <2>3 DEF UndoFailed, RecoveryFailed, SaveStaging, RecoveryError, PollError,
       StartAbort, LoopReset, Return
  <2> QED
    BY <1>5, <2>1, <2>2, <2>3 DEF RollbackStep
<1>6. CASE WipeStep
  BY <1>6 DEF WipeStep, WipeNext, WipeDone, ClearAborted, ClearRecovered, RecoveryError,
     Return, LoopReset
<1>7. CASE InactivityTimeout \/ PollFails
  BY <1>7 DEF InactivityTimeout, PollFails, PollError, StartAbort, LoopReset
<1>8. CASE Reboot \/ Crash
  BY <1>8 DEF Reboot, Crash, Restart, LoopReset
<1>9. CASE ClientStep
  BY <1>9 DEF ClientStep, ClientStart, ClientSend, ClientTimeout
<1>10. CASE UNCHANGED vars
  BY <1>10 DEF vars
<1> QED
  BY <1>1, <1>2, <1>3, <1>4, <1>5, <1>6, <1>7, <1>8, <1>9, <1>10 DEF Next

(* A step that is no I/O error leaves their number alone. *)
NoError == ~Fault /\ ~Missed /\ ~BootUnread

LEMMA FaultsCounted == [Next]_vars => UNCHANGED errors \/ ~NoError
<1> SUFFICES ASSUME [Next]_vars PROVE UNCHANGED errors \/ ~NoError
  OBVIOUS
<1> USE DEF NoError
<1>1. CASE NormalStep
  BY <1>1 DEF NormalStep, Prepare, PrepareFails, ConfirmBoot, ConfirmFails
<1>2. CASE BootStep
  BY <1>2 DEF BootStep, ArmHealthCheck, ArmFails, StartRecovery, NothingToRecover,
     CleanAbandoned, BootNormal, EnterOta, OtaUnavailable
<1>3. CASE HandlerStep
  BY <1>3 DEF HandlerStep, HandleBegin, RejectBegin, DenyBegin, SaveBegin, WriteManifest,
     HandleFile, HandleAbort, HandleCommit, BuildTransaction, WriteTransaction,
     SaveApplying, SavePending
<1>4. CASE ApplyStep
  BY <1>4 DEF ApplyStep, NextFile, NextDelete, CopyFresh, CopyBackup, SyncBackupTmp,
     RenameBackup, SyncBackup, RemoveLive, InstallFresh, SyncInstalled, ApplyDone,
     ApplyFault, ApplyBlocked
<1>5. CASE RollbackStep
  BY <1>5 DEF RollbackStep, RollbackPath, RestoreCopy, RestoreSync, RestoreRemove,
     RestoreRename, RestoreDone, RestoreFault, RollbackDone, UndoFailed, RecoveryFailed,
     SaveStaging
<1>6. CASE WipeStep
  BY <1>6 DEF WipeStep, WipeNext, WipeDone, ClearAborted, ClearRecovered
<1>7. CASE InactivityTimeout \/ PollFails \/ Reboot \/ Crash
  BY <1>7 DEF InactivityTimeout, PollFails, Reboot, Crash
<1>8. CASE ClientStep
  BY <1>8 DEF ClientStep, ClientStart, ClientSend, ClientTimeout
<1>9. CASE UNCHANGED vars
  BY <1>9 DEF vars
<1> QED
  BY <1>1, <1>2, <1>3, <1>4, <1>5, <1>6, <1>7, <1>8, <1>9 DEF Next

(* ----- the client *)
LEMMA AnswerTyped ==
  ASSUME ClientTyped, NEW r \in Request \cup {NoRequest}, NEW ok \in BOOLEAN, Answer(r, ok)
  PROVE  /\ client' \in Requests \cup {"idle"} /\ asked' \in Requests \cup {"none"}
         /\ toSend' \subseteq Paths /\ retried' \in BOOLEAN
BY DEF ClientTyped, Answer, Requests

LEMMA InboxTyped ==
  ASSUME ClientTyped, inbox # <<>>
  PROVE  /\ Head(inbox) \in Request
         /\ Tail(inbox) \in Seq(Request)
         /\ Len(Tail(inbox)) <= MaxInbox
BY VersionsAssumption DEF ClientTyped

LEMMA ClientUnchanged == ASSUME ClientTyped, UNCHANGED <<serving, host>> PROVE ClientTyped'
BY DEF ClientTyped, host

LEMMA ClientStepTyped == Typed /\ [Next]_vars => ClientTyped'
<1> SUFFICES ASSUME ControlTyped, ClientTyped, [Next]_vars PROVE ClientTyped'
  BY DEF Typed
<1>1. CASE UNCHANGED <<serving, host>>
  BY <1>1, ClientUnchanged
<1>2. ASSUME Restart, UNCHANGED <<package, client, toSend, retried, asked>> PROVE ClientTyped'
  BY <1>2, NoInbox DEF Restart, ClientTyped
<1>3. ASSUME NEW ok \in BOOLEAN, Return(ok), UNCHANGED <<package, inbox>> PROVE ClientTyped'
  BY <1>3, AnswerTyped DEF Return, ClientTyped
<1>4. ASSUME PollError, UNCHANGED host PROVE ClientTyped'
  BY <1>4 DEF PollError, ClientTyped, host
<1>5. ASSUME NEW op, Take(op), UNCHANGED package,
             \/ serving' = Head(inbox) /\ UNCHANGED <<client, toSend, retried, asked>>
             \/ AnswerNow(TRUE) \/ AnswerNow(FALSE)
      PROVE  ClientTyped'
  <2>1. Head(inbox) \in Request /\ inbox' \in Seq(Request) /\ Len(inbox') <= MaxInbox
    BY <1>5, InboxTyped DEF Take
  <2>2. CASE serving' = Head(inbox) /\ UNCHANGED <<client, toSend, retried, asked>>
    BY <1>5, <2>1, <2>2 DEF ClientTyped
  <2>3. CASE AnswerNow(TRUE) \/ AnswerNow(FALSE)
    BY <1>5, <2>1, <2>3, AnswerTyped DEF AnswerNow, ClientTyped
  <2> QED
    BY <1>5, <2>2, <2>3
<1>6. CASE NormalStep
  <2>1. CASE \E m \in Packages : Prepare(m) \/ PrepareFails(m)
    BY <2>1 DEF Prepare, PrepareFails, ClientTyped, loop, run
  <2>2. CASE ConfirmBoot
    BY <2>2, <1>1 DEF ConfirmBoot
  <2>3. CASE ConfirmFails
    BY <2>3, <1>2 DEF ConfirmFails
  <2> QED
    BY <1>6, <2>1, <2>2, <2>3 DEF NormalStep
<1>7. CASE BootStep
  BY <1>7, <1>1 DEF BootStep, ArmHealthCheck, ArmFails, StartRecovery, NothingToRecover,
     RecoveryError, CleanAbandoned, BootNormal, BootUnread, EnterOta, OtaUnavailable
<1>8. CASE HandlerStep
  <2>1. CASE \/ HandleBegin \/ RejectBegin \/ DenyBegin
             \/ HandleFile \/ HandleAbort \/ HandleCommit
    BY <2>1, <1>5 DEF HandleBegin, RejectBegin, DenyBegin, HandleFile, HandleAbort,
       HandleCommit
  <2>2. CASE SaveBegin
    BY <2>2, <1>1, <1>4 DEF SaveBegin
  <2>3. CASE WriteManifest \/ SavePending
    BY <2>3, <1>3, <1>4 DEF WriteManifest, SavePending, host
  <2>4. CASE BuildTransaction
    BY <2>4, <1>1, <1>3 DEF BuildTransaction, host
  <2>5. CASE WriteTransaction \/ SaveApplying
    BY <2>5, <1>1 DEF WriteTransaction, SaveApplying, StartUndo
  <2> QED
    BY <1>8, <2>1, <2>2, <2>3, <2>4, <2>5 DEF HandlerStep
<1>9. CASE ApplyStep
  BY <1>9, <1>1 DEF ApplyStep, NextFile, NextDelete, CopyFresh, CopyBackup, SyncBackupTmp,
     RenameBackup, SyncBackup, RemoveLive, InstallFresh, SyncInstalled, ApplyDone,
     ApplyFault, ApplyBlocked, ApplyFails, StartUndo, Applying
<1>10. CASE RollbackStep
  <2>1. CASE SaveStaging
    BY <2>1, <1>1, <1>4 DEF SaveStaging
  <2>2. CASE UndoFailed
    BY <2>2, <1>3 DEF UndoFailed
  <2>3. CASE RollbackStep /\ ~SaveStaging /\ ~UndoFailed
    BY <2>3, <1>1 DEF RollbackStep, RollbackPath, RestoreCopy, RestoreSync, RestoreRemove,
       RestoreRename, RestoreDone, RestoreFault, RollbackDone, RecoveryFailed,
       RecoveryError, RollingBack
  <2> QED
    BY <1>10, <2>1, <2>2, <2>3
<1>11. CASE WipeStep
  <2>1. CASE WipeDone \/ ClearAborted
    <3>1. (job = "abort") \in BOOLEAN
      OBVIOUS
    <3> QED
      BY <2>1, <3>1, <1>1, <1>3 DEF WipeDone, ClearAborted, host
  <2>2. CASE WipeNext \/ ClearRecovered
    BY <2>2, <1>1 DEF WipeNext, ClearRecovered, RecoveryError
  <2> QED
    BY <1>11, <2>1, <2>2 DEF WipeStep
<1>12. CASE InactivityTimeout \/ PollFails
  BY <1>12, <1>1, <1>4 DEF InactivityTimeout, PollFails
<1>13. CASE Reboot \/ Crash
  BY <1>13, <1>2 DEF Reboot, Crash
<1>14. CASE ClientStep
  <2>1. CASE ClientStart
    BY <2>1, VersionsAssumption DEF ClientStart, Installed, ClientTyped, Packages, Requests
  <2>2. ASSUME NEW p \in Paths \cup {NoPath}, ClientSend(p) PROVE ClientTyped'
    <3>1. client \in Requests
      BY <2>2 DEF ClientSend, ClientTyped
    <3>2. [op |-> client, path |-> p, heard |-> TRUE] \in Request
      BY <3>1 DEF Request
    <3>3. inbox' \in Seq(Request) /\ Len(inbox') <= MaxInbox
      BY <2>2, <3>2, VersionsAssumption DEF ClientSend, ClientTyped
    <3> QED
      BY <2>2, <3>1, <3>3 DEF ClientSend, ClientTyped
  <2>3. CASE ClientTimeout
    <3>0. \A r \in Request : [r EXCEPT !.heard = FALSE] \in Request
      BY DEF Request
    <3>1. inbox' \in Seq(Request) /\ Len(inbox') = Len(inbox)
      BY <2>3, <3>0 DEF ClientTimeout, ClientTyped
    <3>2. serving' \in Request \cup {NoRequest}
      <4>0. NoRequest \in [op : {"none"}, path : {NoPath}, heard : {FALSE}]
        BY DEF NoRequest
      <4>1. [NoRequest EXCEPT !.heard = FALSE] = NoRequest
        BY <4>0
      <4> QED
        BY <2>3, <3>0, <4>1 DEF ClientTimeout, ClientTyped
    <3> QED
      BY <2>3, <3>1, <3>2 DEF ClientTimeout, ClientTyped, Requests
  <2> QED
    BY <1>14, <2>1, <2>2, <2>3 DEF ClientStep
<1>15. CASE UNCHANGED vars
  BY <1>15, <1>1 DEF vars
<1> QED
  BY <1>6, <1>7, <1>8, <1>9, <1>10, <1>11, <1>12, <1>13, <1>14, <1>15 DEF Next

LEMMA NextTyped == Typed /\ [Next]_vars => Typed'
<1>1. ASSUME Typed, [Next]_vars
      PROVE  (faults \in 0..MaxFaults)' /\ (blind \subseteq {"file", "state"})'
  <2>1. CASE UNCHANGED errors
    BY <1>1, <2>1 DEF errors, Typed
  <2>2. CASE Fault \/ Missed
    <3>1. faults \in 0..MaxFaults /\ blind \subseteq {"file", "state"} /\ MaxFaults \in Nat
      BY <1>1, VersionsAssumption DEF Typed
    <3>2. faults < MaxFaults /\ faults' = faults + 1
      BY <2>2 DEF Fault, Missed
    <3>3. faults' \in 0..MaxFaults
      BY <3>1, <3>2
    <3>4. blind' \subseteq {"file", "state"}
      BY <2>2, <3>1 DEF Fault, Missed
    <3> QED
      BY <3>3, <3>4
  <2>3. CASE BootUnread
    <3>1. faults + StateReads <= MaxFaults /\ faults' = faults + StateReads
      BY <2>3 DEF BootUnread
    <3>5. StateReads \in {1, 2}
      BY DEF StateReads
    <3>2. faults \in Nat /\ MaxFaults \in Nat /\ blind \subseteq {"file", "state"}
      BY <1>1, VersionsAssumption DEF Typed
    <3>3. blind' = blind \cup {"state"}
      BY <2>3 DEF BootUnread
    <3>4. faults' \in 0..MaxFaults
      BY <3>1, <3>2, <3>5
    <3> QED
      BY <3>2, <3>3, <3>4
  <2> QED
    BY <1>1, <2>1, <2>2, <2>3, FaultsCounted DEF NoError
<1> QED
  BY <1>1, FilesStep, ControlStep, FlagsStep, ClientStepTyped DEF Typed

(* Every variable keeps its type, whatever fails. *)
THEOREM TypeCorrect == Spec => []TypeOK
BY InitTyped, NextTyped, TypedTypeOK, PTL DEF Spec

----------------------------------------------------------------------------
(* The client is about to send a begin, or one waits in the inbox. *)
BeginComing ==
  (client = "begin" /\ asked = "none") \/ (\E i \in DOMAIN inbox : inbox[i].op = "begin")

(* One begin per session of the client, always the first request: while   *)
(* it is coming nothing can be undone yet and no commit runs.  And what   *)
(* each mode may find in state.json; no undo runs without an error.       *)
Session ==
  /\ client = "begin" /\ asked = "none" => inbox = <<>>
  /\ \A i \in DOMAIN inbox : inbox[i].op = "begin" => i = 1
  /\ BeginComing => phase \notin Guarded /\ job \notin {"commit", "undo"}
  /\ NoWipeWhileGuarded
  /\ job # "undo"
  /\ mode = "ota" => phase # "boot_pending" /\ running = confirmed
  /\ mode = "ota" /\ job = "none" => phase # "applying"
  /\ mode = "ota" /\ phase = "applied_pending_boot" => rebootDue
  /\ job = "begin" => package.from = running
  /\ phase = "boot_pending" /\ armed => job = "none"
  /\ mode = "normal" /\ phase \in Guarded => phase = "boot_pending" /\ armed
  /\ job = "recover" /\ pc # "wipe" => phase \in {"applying", "boot_pending"}

NoBackup == \A p \in Paths : disk["backup"][p] = Absent

(* What the wipe of a begin leaves and a commit relies on: no backup of   *)
(* an earlier update, and every staged file of the new version.           *)
Staging ==
  /\ mode = "ota" /\ phase = "staging" /\ job \in {"none", "commit"} /\ manifest # NoManifest
     => manifest.from = confirmed /\ NoBackup
  /\ job = "begin" /\ pc = "wipe" =>
       wipe = <<"stage", "backup", "txn">> \/ wipe = <<"backup", "txn">> \/ NoBackup
  /\ pc \in {"saveBegin", "writeManifest"} => NoBackup
  /\ job = "commit" /\ pc # "wipe" /\ pc # "savePending" =>
       \A p \in Installed(manifest) : disk["stage"][p] = manifest.to

(* j records the files of the confirmed image a package touches. *)
Original(j) ==
  /\ manifest.from = confirmed
  /\ DOMAIN j = Installed(manifest) \cup Deleted(manifest)
  /\ \A p \in DOMAIN j : j[p] = ImageOf(confirmed)[p]

(* Outside an update the live tree is the confirmed image; while one can  *)
(* be undone the journal records the originals; once it is applied the    *)
(* tree is the new image.                                                 *)
Image ==
  /\ phase \notin Guarded => Whole(confirmed)
  /\ pc \in {"writeTxn", "saveApplying"} => Original(journal)
  /\ phase \in Guarded =>
       /\ Original(txn)
       /\ \A p \in DOMAIN txn : disk["backup"][p] \in {Absent, txn[p]}
       /\ \A p \in Paths \ DOMAIN txn : disk["live"][p] = Absent
  /\ phase = "applied_pending_boot" \/ (phase = "boot_pending" /\ armed) => Whole(manifest.to)
  /\ job = "commit" /\ pc \in {"wipe", "savePending"} => Whole(manifest.to)

(* The install, path by path: to do = as before, done = as in the new     *)
(* image, the current one in between.                                     *)
Entry ==
  pc \in {"apply"} \cup EntrySteps =>
    /\ todo \subseteq DOMAIN txn
    /\ \A p \in todo : disk["live"][p] = txn[p] /\ disk["backup"][p] = Absent
    /\ \A p \in DOMAIN txn \ todo :
         disk["live"][p] = ImageOf(manifest.to)[p] \/ (pc \in EntrySteps /\ p = cur)
    /\ pc \in EntrySteps =>
         /\ cur \in DOMAIN txn \ todo
         /\ pc \in {"copyFresh", "copyBackup", "syncBackupTmp", "renameBackup", "syncBackup",
                   "remove"} => disk["live"][cur] = txn[cur]
         /\ pc \in {"copyFresh", "copyBackup", "syncBackupTmp", "renameBackup"} =>
              disk["backup"][cur] = Absent
         /\ pc = "copyFresh" => cur \in Installed(manifest)
         /\ cur \in Installed(manifest) /\ pc \notin {"copyFresh", "syncInstalled"} =>
              disk["fresh"][cur] = manifest.to
         /\ pc = "install" => cur \in Installed(manifest) /\ disk["live"][cur] = Absent
         /\ pc = "syncInstalled" => disk["live"][cur] = ImageOf(manifest.to)[cur]

(* The rollback of a boot, path by path: done = as the journal records    *)
(* it.                                                                    *)
Recovery ==
  job = "recover" =>
    /\ pc \in {"rollback"} \cup RestoreSteps =>
       /\ ~failed
       /\ todo \subseteq DOMAIN txn
       /\ \A p \in DOMAIN txn \ todo :
            disk["live"][p] = txn[p] \/ (pc \in RestoreSteps /\ p = cur)
       /\ pc \in RestoreSteps => cur \in DOMAIN txn \ todo
       /\ pc \in {"restoreSync", "restoreRemove", "restoreRename"} =>
            disk["restore"][cur] = txn[cur]
       /\ pc = "restoreDone" => disk["live"][cur] = txn[cur]
    /\ pc = "clearState" => Whole(confirmed)

(* The invariant until the first I/O error; Sound is the inductive one. *)
Calm == Typed /\ IInv /\ Session /\ Staging /\ Image /\ Entry /\ Recovery /\ blind = {}

(* An answer never starts a session. *)
LEMMA AnswerNoBegin ==
  ASSUME NEW r \in Request \cup {NoRequest}, NEW ok \in BOOLEAN, Answer(r, ok)
  PROVE  client' = "begin" /\ asked' = "none" => client = "begin" /\ asked = "none"
BY DEF Answer

(* Taking a request leaves no begin behind: only the first can be one. *)
LEMMA TakeNoBegin ==
  ASSUME Typed, Session, NEW op, Take(op)
  PROVE  /\ Head(inbox) \in Request
         /\ ~(client = "begin" /\ asked = "none")
         /\ \A i \in DOMAIN inbox' : inbox'[i].op # "begin"
         /\ op = "begin" => BeginComing
<1>1. inbox \in Seq(Request) /\ inbox # <<>> /\ inbox' = Tail(inbox)
  BY DEF Typed, ClientTyped, Take
<1>2. \A i \in DOMAIN inbox' : i + 1 \in DOMAIN inbox /\ inbox'[i] = inbox[i + 1] /\ i + 1 # 1
  BY <1>1
<1>3. 1 \in DOMAIN inbox /\ inbox[1] = Head(inbox)
  BY <1>1
<1> QED
  BY <1>1, <1>2, <1>3 DEF Session, BeginComing, Take

(* Session is kept, by the parts of Next. *)
LEMMA SessionBoot == ASSUME Calm, ~Fault, ~BootUnread, BootStep PROVE Session'
<1> USE DEF Calm, Session, BeginComing, IInv, Jobs, Guarded, NoWipeWhileGuarded, Booting,
   run, host
<1>1. CASE ArmHealthCheck
  BY <1>1 DEF ArmHealthCheck
<1>2. CASE ArmFails \/ OtaUnavailable
  BY <1>2 DEF ArmFails, OtaUnavailable
<1>3. CASE StartRecovery
  BY <1>3 DEF StartRecovery, MustRecover, flash
<1>4. CASE NothingToRecover
  BY <1>4 DEF NothingToRecover, MustRecover, Covered, flash
<1>5. CASE CleanAbandoned
  BY <1>5 DEF CleanAbandoned, StartAbort, flash
<1>6. CASE BootNormal
  BY <1>6 DEF BootNormal, flash
<1>7. CASE EnterOta
  <2>1. \A v \in Versions, p \in Paths : disk["live"][p] = v => v = confirmed
    BY <1>7, VersionsAssumption DEF EnterOta, Image, Whole, ImageOf
  <2>2. running' = confirmed
    BY <1>7, <2>1 DEF EnterOta
  <2> QED
    BY <1>7, <2>2 DEF EnterOta
<1> QED
  BY <1>1, <1>2, <1>3, <1>4, <1>5, <1>6, <1>7 DEF BootStep

LEMMA SessionHandler == ASSUME Calm, ~Fault, ~Missed, HandlerStep PROVE Session'
<1> USE DEF Calm, Session, BeginComing, IInv, Jobs, Guarded, NoWipeWhileGuarded, run, host,
   flash
<1>1. ASSUME NEW op, Take(op) PROVE job = "none" /\ mode = "ota" /\ pc = "idle"
  BY <1>1 DEF Take, Polling
<1>2. CASE HandleBegin
  BY <1>2, <1>1, TakeNoBegin DEF HandleBegin
<1>3. CASE RejectBegin
  BY <1>3, <1>1, TakeNoBegin DEF RejectBegin, StartAbort
<1>4. CASE DenyBegin
  BY <1>4, <1>1, TakeNoBegin DEF DenyBegin
<1>5. CASE SaveBegin
  BY <1>5 DEF SaveBegin, EntrySteps, ApplySteps, RestoreSteps
<1>6. CASE WriteManifest
  BY <1>6, AnswerNoBegin DEF WriteManifest, Return, Typed, ClientTyped, EntrySteps,
     ApplySteps, RestoreSteps
<1>7. CASE HandleFile
  BY <1>7, <1>1, TakeNoBegin, AnswerNoBegin DEF HandleFile, AnswerNow
<1>8. CASE HandleAbort
  BY <1>8, <1>1, TakeNoBegin, AnswerNoBegin DEF HandleAbort, AnswerNow, StartAbort,
     CurrentPhase
<1>9. CASE HandleCommit
  BY <1>9, <1>1, TakeNoBegin, AnswerNoBegin DEF HandleCommit, AnswerNow, Verified,
     CurrentPhase
<1>10. CASE BuildTransaction \/ WriteTransaction \/ SaveApplying
  BY <1>10 DEF BuildTransaction, WriteTransaction, SaveApplying, loop
<1>11. CASE SavePending
  BY <1>11, AnswerNoBegin DEF SavePending, Return, Typed, ClientTyped
<1> QED
  BY <1>2, <1>3, <1>4, <1>5, <1>6, <1>7, <1>8, <1>9, <1>10, <1>11 DEF HandlerStep

LEMMA SessionApply == ASSUME Calm, ~Fault, ApplyStep PROVE Session'
<1> USE DEF Calm, Session, BeginComing, IInv, Jobs, Guarded, NoWipeWhileGuarded, run, host,
   flash, EntrySteps, ApplySteps, RestoreSteps
<1>1. CASE ApplyBlocked
  BY <1>1 DEF ApplyBlocked, Entry, Journal
<1>2. CASE ApplyFault
  BY <1>2 DEF ApplyFault
<1>3. CASE ApplyDone
  BY <1>3 DEF ApplyDone
<1>4. CASE ApplyStep /\ Applying /\ UNCHANGED job
  BY <1>4 DEF Applying
<1> QED
  BY <1>1, <1>2, <1>3, <1>4 DEF ApplyStep, NextFile, NextDelete, CopyFresh, CopyBackup,
     SyncBackupTmp, RenameBackup, SyncBackup, RemoveLive, InstallFresh, SyncInstalled

LEMMA SessionRollback == ASSUME Calm, ~Fault, RollbackStep PROVE Session'
<1> USE DEF Calm, Session, BeginComing, IInv, Jobs, Guarded, NoWipeWhileGuarded, run, host,
   flash, EntrySteps, ApplySteps, RestoreSteps
<1>1. CASE UndoFailed
  BY <1>1 DEF UndoFailed
<1>2. CASE RecoveryFailed
  BY <1>2 DEF RecoveryFailed, Recovery
<1>3. CASE RollbackDone
  BY <1>3 DEF RollbackDone
<1>4. CASE SaveStaging
  BY <1>4 DEF SaveStaging
<1>5. CASE RollingBack /\ UNCHANGED job /\ pc # "wipe"
  BY <1>5 DEF RollingBack
<1> QED
  BY <1>1, <1>2, <1>3, <1>4, <1>5 DEF RollbackStep, RollbackPath, RestoreCopy, RestoreSync,
     RestoreRemove, RestoreRename, RestoreDone, RestoreFault

LEMMA SessionWipe == ASSUME Calm, ~Fault, WipeStep PROVE Session'
<1> USE DEF Calm, Session, BeginComing, IInv, Jobs, Guarded, NoWipeWhileGuarded, run, host,
   flash, EntrySteps, ApplySteps, RestoreSteps
<1>1. CASE WipeNext
  BY <1>1 DEF WipeNext
<1>2. CASE WipeDone
  BY <1>2, AnswerNoBegin DEF WipeDone, Return, Typed, ClientTyped
<1>3. CASE ClearAborted
  BY <1>3, AnswerNoBegin DEF ClearAborted, Return, Typed, ClientTyped
<1>4. CASE ClearRecovered
  BY <1>4 DEF ClearRecovered
<1> QED
  BY <1>1, <1>2, <1>3, <1>4 DEF WipeStep

LEMMA SessionClient == ASSUME Calm, ClientStep PROVE Session'
<1> USE DEF Calm, Session, BeginComing, IInv, Jobs, Guarded, NoWipeWhileGuarded, run, host,
   flash
<1>1. CASE ClientStart
  BY <1>1 DEF ClientStart
<1>2. ASSUME NEW p \in Paths \cup {NoPath}, ClientSend(p) PROVE Session'
  <2> DEFINE e == [op |-> client, path |-> p, heard |-> TRUE]
  <2>1. \A i \in DOMAIN inbox' : \/ i \in DOMAIN inbox /\ inbox'[i] = inbox[i]
                                 \/ i = Len(inbox) + 1 /\ inbox'[i] = e
    BY <1>2 DEF ClientSend, Typed, ClientTyped
  <2>2. e.op = client /\ asked = "none"
    BY <1>2 DEF ClientSend
  <2>3. client = "begin" => Len(inbox) + 1 = 1
    BY <2>2
  <2>4. \A i \in DOMAIN inbox' : inbox'[i].op = "begin" => i = 1 /\ BeginComing
    BY <2>1, <2>2, <2>3
  <2> QED
    BY <1>2, <2>4 DEF ClientSend
<1>3. CASE ClientTimeout
  <2>1. \A r \in Request : [r EXCEPT !.heard = FALSE].op = r.op
    BY DEF Request
  <2>2. \A i \in DOMAIN inbox' : i \in DOMAIN inbox /\ inbox'[i].op = inbox[i].op
    <3>1. \A i \in DOMAIN inbox : inbox[i] \in Request
      BY DEF Typed, ClientTyped
    <3> QED
      BY <1>3, <2>1, <3>1 DEF ClientTimeout
  <2>3. client' # "begin"
    BY <1>3 DEF ClientTimeout
  <2> QED
    BY <1>3, <2>2, <2>3 DEF ClientTimeout
<1> QED
  BY <1>1, <1>2, <1>3 DEF ClientStep

(* Two versions with the same image are one: each installs a file. *)
LEMMA OneImage ==
  ASSUME NEW v \in Versions, NEW w \in Versions, ImageOf(v) = ImageOf(w)
  PROVE  v = w
<1>1. PICK p \in Has[v] : p \in Paths
  BY VersionsAssumption
<1>2. ImageOf(v)[p] = v /\ ImageOf(w)[p] \in {w, Absent}
  BY <1>1 DEF ImageOf
<1> QED
  BY <1>2, VersionsAssumption

LEMMA SessionStep ==
  ASSUME Calm, ~Fault, ~Missed, ~BootUnread, [Next]_vars
  PROVE Session'
<1> USE DEF Calm, Session, BeginComing, IInv, Jobs, Guarded, NoWipeWhileGuarded, run, host,
   flash
<1>1. ASSUME NEW m \in Packages, Prepare(m) PROVE Session'
  BY <1>1 DEF Prepare
<1>2. CASE ConfirmBoot
  BY <1>2 DEF ConfirmBoot
<1>3. CASE ConfirmFails \/ (\E m \in Packages : PrepareFails(m))
  BY <1>3 DEF ConfirmFails, PrepareFails
<1>9. CASE InactivityTimeout
  BY <1>9 DEF InactivityTimeout, Polling, StartAbort, CurrentPhase
<1>10. CASE PollFails
  BY <1>10 DEF PollFails, PollError, Polling, StartAbort, LoopReset
<1>11. CASE Reboot \/ Crash
  BY <1>11 DEF Reboot, Crash, Restart
<1>14. CASE UNCHANGED vars
  BY <1>14 DEF vars
<1> QED
  BY <1>1, <1>2, <1>3, <1>9, <1>10, <1>11, <1>14, SessionBoot, SessionHandler, SessionApply,
     SessionRollback, SessionWipe, SessionClient DEF Next, NormalStep

(* Staging is kept. *)
LEMMA StagingHandler == ASSUME Calm, ~Fault, ~Missed, HandlerStep PROVE Staging'
<1> USE DEF Calm, Session, Staging, NoBackup, IInv, Jobs, EntrySteps, ApplySteps,
   RestoreSteps, run, host, flash
<1>1. CASE HandleBegin \/ DenyBegin \/ RejectBegin
  BY <1>1 DEF HandleBegin, DenyBegin, RejectBegin, Take, Polling, StartAbort
<1>2. CASE SaveBegin
  BY <1>2 DEF SaveBegin
<1>3. CASE WriteManifest
  BY <1>3 DEF WriteManifest, Return
<1>4. CASE HandleFile
  <2>1. disk'["backup"] = disk["backup"]
    BY <1>4 DEF HandleFile, Put, Typed, FilesTyped, Slots
  <2> QED
    BY <1>4, <2>1 DEF HandleFile, AnswerNow, Take, Polling
<1>5. CASE HandleAbort
  BY <1>5 DEF HandleAbort, Take, Polling, StartAbort, AnswerNow, loop
<1>6. CASE HandleCommit
  BY <1>6 DEF HandleCommit, Verified, Take, Polling, AnswerNow, CurrentPhase, Installed,
     loop
<1>7. CASE BuildTransaction \/ WriteTransaction \/ SaveApplying
  BY <1>7 DEF BuildTransaction, WriteTransaction, SaveApplying, Installed, loop
<1>8. CASE SavePending
  BY <1>8 DEF SavePending, Return
<1> QED
  BY <1>1, <1>2, <1>3, <1>4, <1>5, <1>6, <1>7, <1>8 DEF HandlerStep

LEMMA StagingApply == ASSUME Calm, ~Fault, ApplyStep PROVE Staging'
<1> USE DEF Calm, Session, Staging, NoBackup, IInv, Jobs, EntrySteps, ApplySteps,
   RestoreSteps, run, host, flash
<1>1. CASE ApplyBlocked
  BY <1>1 DEF ApplyBlocked, Entry, Journal
<1>2. CASE ApplyFault
  BY <1>2 DEF ApplyFault
<1>3. CASE ApplyDone
  BY <1>3 DEF ApplyDone
<1>4. CASE ~ApplyBlocked /\ ~ApplyFault /\ ~ApplyDone
  <2>1. /\ Applying /\ UNCHANGED job
        /\ {pc, pc'} \cap {"wipe", "saveBegin", "writeManifest", "savePending"} = {}
    BY <1>4 DEF ApplyStep, NextFile, NextDelete, CopyFresh, CopyBackup, SyncBackupTmp,
       RenameBackup, SyncBackup, RemoveLive, InstallFresh, SyncInstalled, Applying,
       AfterRemove
  <2>2. phase = "applying"
    BY <1>4 DEF ApplyStep, NextFile, NextDelete, CopyFresh, CopyBackup, SyncBackupTmp,
       RenameBackup, SyncBackup, RemoveLive, InstallFresh, SyncInstalled
  <2>3. disk'["stage"] = disk["stage"]
    BY <1>4 DEF ApplyStep, NextFile, NextDelete, CopyFresh, CopyBackup, SyncBackupTmp,
       RenameBackup, SyncBackup, RemoveLive, InstallFresh, SyncInstalled, Put, Rename, Sync,
       Typed, FilesTyped, Slots
  <2> QED
    BY <2>1, <2>2, <2>3 DEF Applying, Installed
<1> QED
  BY <1>1, <1>2, <1>3, <1>4

LEMMA StagingWipe == ASSUME Calm, ~Fault, WipeStep PROVE Staging'
<1> USE DEF Calm, Session, Staging, NoBackup, IInv, Jobs, EntrySteps, ApplySteps,
   RestoreSteps, run, host, flash
<1>1. CASE WipeNext
  <2>1. CASE job # "begin"
    BY <1>1, <2>1 DEF WipeNext
  <2>2. CASE job = "begin" /\ wipe = <<"stage", "backup", "txn">>
    BY <1>1, <2>2 DEF WipeNext
  <2>3. CASE job = "begin" /\ wipe = <<"backup", "txn">>
    <3>1. Remove("backup") /\ Head(wipe) = "backup"
      BY <1>1, <2>3 DEF WipeNext
    <3> QED
      BY <1>1, <2>3, <3>1 DEF WipeNext, Remove, ClearSlots, EmptySlot, Slots
  <2>4. CASE job = "begin" /\ NoBackup
    <3>1. NoBackup'
      BY <1>1, <2>4 DEF WipeNext, Remove, ClearSlots, EmptySlot, Slots
    <3> QED
      BY <1>1, <2>4, <3>1 DEF WipeNext
  <2> QED
    BY <1>1, <2>1, <2>2, <2>3, <2>4 DEF WipeNext
<1>2. CASE WipeDone
  BY <1>2 DEF WipeDone, Return, Guarded
<1>3. CASE ClearAborted
  BY <1>3 DEF ClearAborted, Return
<1>4. CASE ClearRecovered
  BY <1>4 DEF ClearRecovered
<1> QED
  BY <1>1, <1>2, <1>3, <1>4 DEF WipeStep

LEMMA StagingStep ==
  ASSUME Calm, ~Fault, ~Missed, ~BootUnread, [Next]_vars
  PROVE Staging'
<1> USE DEF Calm, Session, Staging, NoBackup, IInv, Jobs, EntrySteps, ApplySteps,
   RestoreSteps, run, host, flash
<1>1. ASSUME NEW m \in Packages, Prepare(m) PROVE Staging'
  BY <1>1 DEF Prepare
<1>2. CASE ConfirmBoot \/ ConfirmFails \/ (\E m \in Packages : PrepareFails(m))
  BY <1>2 DEF ConfirmBoot, ConfirmFails, PrepareFails
<1>3. CASE BootStep
  BY <1>3 DEF BootStep, Booting, ArmHealthCheck, ArmFails, OtaUnavailable, StartRecovery,
     NothingToRecover, Covered, CleanAbandoned, BootNormal, EnterOta, StartAbort,
     RecoveryError
<1>4. CASE RollbackStep
  <2>1. CASE UndoFailed \/ SaveStaging
    BY <2>1 DEF UndoFailed, SaveStaging
  <2>2. CASE RecoveryFailed
    BY <2>2 DEF RecoveryFailed, Recovery
  <2>3. CASE ~UndoFailed /\ ~SaveStaging /\ ~RecoveryFailed
    <3>1. /\ job \in {"undo", "recover"} /\ job' = job
          /\ pc' \notin {"wipe", "saveBegin", "writeManifest"}
      BY <1>4, <2>3 DEF RollingBack, RollbackStep, RollbackPath, RestoreCopy, RestoreSync,
         RestoreRemove, RestoreRename, RestoreDone, RestoreFault, RollbackDone
    <3> QED
      BY <3>1
  <2> QED
    BY <2>1, <2>2, <2>3
<1>5. CASE InactivityTimeout
  BY <1>5 DEF InactivityTimeout, StartAbort
<1>6. CASE PollFails
  BY <1>6 DEF PollFails, PollError, Polling, StartAbort, LoopReset
<1>7. CASE Reboot \/ Crash
  BY <1>7 DEF Reboot, Crash, Restart
<1>8. CASE ClientStep
  BY <1>8 DEF ClientStep, ClientStart, ClientSend, ClientTimeout, loop, Installed
<1>9. CASE UNCHANGED vars
  BY <1>9 DEF vars, loop, Installed
<1> QED
  BY <1>1, <1>2, <1>3, <1>4, <1>5, <1>6, <1>7, <1>8, <1>9, StagingHandler, StagingApply,
     StagingWipe DEF Next, NormalStep

(* Reading the live tree path by path, and slots as functions. *)
LEMMA WholeWhen ==
  ASSUME FilesTyped, NEW v \in Versions, \A p \in Paths : disk["live"][p] = ImageOf(v)[p]
  PROVE  Whole(v)
<1>1. disk["live"] = [p \in Paths |-> disk["live"][p]]
  BY DEF FilesTyped, Slots
<1> QED
  BY <1>1 DEF Whole, ImageOf

LEMMA SameSlot ==
  ASSUME FilesTyped, disk' \in [Slots -> [Paths -> Contents]], NEW s \in Slots,
         \A p \in Paths : disk'[s][p] = disk[s][p]
  PROVE  disk'[s] = disk[s]
<1>1. disk[s] \in [Paths -> Contents] /\ disk'[s] \in [Paths -> Contents]
  BY DEF FilesTyped
<1> QED
  BY <1>1

(* A path the journal does not name is in neither image. *)
LEMMA OutsideImage ==
  ASSUME NEW j, Original(j), manifest \in Packages, NEW p \in Paths \ DOMAIN j
  PROVE  ImageOf(manifest.from)[p] = Absent /\ ImageOf(manifest.to)[p] = Absent
BY DEF Original, Installed, Deleted, ImageOf

LEMMA GuardedManifest == ASSUME Calm, phase \in Guarded PROVE manifest \in Packages
BY DEF Calm, IInv, Covered, Typed, ControlTyped

(* Image is kept by what leaves the live and backup files alone, then by  *)
(* the parts of Next.                                                     *)
LEMMA ImageFrame ==
  ASSUME Image, UNCHANGED <<phase, manifest, txn, confirmed>>,
         disk'["live"] = disk["live"], disk'["backup"] = disk["backup"],
         pc' \in {"writeTxn", "saveApplying"} => pc' = pc /\ journal' = journal,
         job' = "commit" /\ pc' \in {"wipe", "savePending"}
           => job = "commit" /\ pc \in {"wipe", "savePending"},
         phase = "boot_pending" /\ armed' => armed
  PROVE  Image'
BY DEF Image, Whole, Original, Installed, Deleted

LEMMA ImageBoot == ASSUME Calm, ~Fault, ~BootUnread, BootStep PROVE Image'
<1>1. UNCHANGED <<disk, manifest, txn, confirmed>>
  BY DEF BootStep, ArmHealthCheck, ArmFails, OtaUnavailable, StartRecovery,
     NothingToRecover, CleanAbandoned, BootNormal, EnterOta, flash
<1>2. job' # "commit" /\ pc' \notin {"writeTxn", "saveApplying"}
  BY DEF BootStep, Booting, ArmHealthCheck, ArmFails, OtaUnavailable, StartRecovery,
     NothingToRecover, RecoveryError, CleanAbandoned, BootNormal, EnterOta, StartAbort
<1>3. CASE UNCHANGED <<phase, armed>>
  BY <1>1, <1>2, <1>3, ImageFrame DEF Calm
<1>4. CASE ArmHealthCheck
  BY <1>1, <1>2, <1>4 DEF ArmHealthCheck, Calm, Image, Guarded, Whole, Original, Installed,
     Deleted
<1>5. CASE EnterOta \/ OtaUnavailable
  BY <1>1, <1>2, <1>5 DEF EnterOta, OtaUnavailable, Calm, Image, Guarded, Whole
<1> QED
  BY <1>3, <1>4, <1>5 DEF BootStep, ArmFails, StartRecovery, NothingToRecover,
     RecoveryError, CleanAbandoned, BootNormal, flash, run

LEMMA ImageHandler == ASSUME Calm, ~Fault, ~Missed, HandlerStep PROVE Image'
<1> USE DEF Calm, IInv, Jobs, EntrySteps, ApplySteps, RestoreSteps, flash
<1>0. disk'["live"] = disk["live"] /\ disk'["backup"] = disk["backup"]
  BY DEF HandlerStep, HandleBegin, DenyBegin, RejectBegin, SaveBegin, WriteManifest,
     HandleFile, HandleAbort, HandleCommit, BuildTransaction, WriteTransaction,
     SaveApplying, SavePending, Put, Typed, FilesTyped, Slots
<1>1. CASE HandleBegin \/ DenyBegin \/ RejectBegin \/ HandleFile \/ HandleAbort \/ HandleCommit
  <2>1. /\ UNCHANGED <<phase, manifest, txn, confirmed, armed>>
        /\ pc' \notin {"writeTxn", "saveApplying", "savePending"}
        /\ ~(job' = "commit" /\ pc' = "wipe")
    BY <1>1 DEF HandleBegin, DenyBegin, RejectBegin, HandleFile, HandleAbort, HandleCommit,
       Take, Polling, StartAbort, AnswerNow, run
  <2> QED
    BY <1>0, <2>1, ImageFrame
<1>2. CASE SaveBegin
  BY <1>2 DEF SaveBegin, Image, Whole, Guarded, Session, NoWipeWhileGuarded
<1>3. CASE WriteManifest
  BY <1>3 DEF WriteManifest, Return, Image, Whole, Session, NoWipeWhileGuarded, Guarded
<1>4. CASE BuildTransaction
  <2>1. Whole(confirmed) /\ manifest.from = confirmed
    BY <1>4 DEF BuildTransaction, Image, Guarded, Staging
  <2>2. manifest \in Packages
    BY <1>4 DEF BuildTransaction, Typed, ControlTyped
  <2>3. Installed(manifest) \cup Deleted(manifest) \subseteq Paths
    BY <2>2, VersionsAssumption DEF Installed, Deleted, Packages
  <2>4. Original(journal)'
    BY <1>4, <2>1, <2>3 DEF BuildTransaction, Originals, Original, Whole, Installed,
       Deleted, ImageOf
  <2> QED
    BY <1>4, <2>4 DEF BuildTransaction, Image, Whole, Guarded
<1>5. CASE WriteTransaction
  BY <1>5 DEF WriteTransaction, Image, Whole, Guarded, Original, Installed, Deleted, loop
<1>6. CASE SaveApplying
  <2>1. /\ Original(txn) /\ Whole(confirmed) /\ NoBackup /\ manifest \in Packages
        /\ manifest.from = confirmed
    BY <1>6 DEF SaveApplying, Image, Guarded, Staging, Journal, Typed, ControlTyped
  <2>2. \A p \in Paths \ DOMAIN txn : disk["live"][p] = Absent
    BY <2>1, OutsideImage DEF Whole
  <2>3. DOMAIN txn \subseteq Paths
    BY <2>1, VersionsAssumption DEF Original, Installed, Deleted, Packages
  <2>4. Original(txn)'
    BY <1>6, <2>1 DEF SaveApplying, Original, Installed, Deleted
  <2>5. (\A p \in DOMAIN txn : disk["backup"][p] \in {Absent, txn[p]})'
    BY <1>6, <2>1, <2>3 DEF SaveApplying, NoBackup
  <2>6. (\A p \in Paths \ DOMAIN txn : disk["live"][p] = Absent)'
    BY <1>6, <2>2 DEF SaveApplying
  <2> QED
    BY <1>6, <2>4, <2>5, <2>6 DEF SaveApplying, Image, Guarded
<1>7. CASE SavePending
  BY <1>0, <1>7 DEF SavePending, Return, Image, Whole, Guarded, Original, Installed, Deleted
<1> QED
  BY <1>1, <1>2, <1>3, <1>4, <1>5, <1>6, <1>7 DEF HandlerStep

LEMMA ImageApply == ASSUME Calm, ~Fault, ApplyStep PROVE Image'
<1> USE DEF Calm, IInv, Jobs, EntrySteps, ApplySteps, RestoreSteps, flash
<1>1. phase = "applying" /\ UNCHANGED <<phase, manifest, txn, confirmed>> /\ job = "commit"
  BY DEF ApplyStep, NextFile, NextDelete, CopyFresh, CopyBackup, SyncBackupTmp,
     RenameBackup, SyncBackup, RemoveLive, InstallFresh, SyncInstalled, ApplyDone,
     ApplyFault, ApplyBlocked, ApplyFails, Applying
<1>2. CASE ApplyDone
  <2>1. manifest \in Packages /\ Original(txn)
    BY <1>1, GuardedManifest DEF Guarded, Image
  <2>2. \A p \in Paths : disk["live"][p] = ImageOf(manifest.to)[p]
    BY <1>1, <1>2, <2>1, OutsideImage DEF ApplyDone, Entry, Image, Guarded
  <2>3. Whole(manifest.to)
    BY <2>1, <2>2, WholeWhen DEF Typed, Packages
  <2> QED
    BY <1>1, <1>2, <2>3 DEF ApplyDone, Image, Whole, Original, Installed, Deleted, Guarded
<1>3. CASE ~ApplyDone
  <2>0. pc' \notin {"writeTxn", "saveApplying", "wipe", "savePending"}
    BY <1>3 DEF ApplyStep, NextFile, NextDelete, CopyFresh, CopyBackup, SyncBackupTmp,
       RenameBackup, SyncBackup, RemoveLive, InstallFresh, SyncInstalled, ApplyFault,
       ApplyBlocked, ApplyFails, StartUndo, AfterRemove
  <2>1. \A p \in Paths : p # cur => /\ disk'["live"][p] = disk["live"][p]
                                   /\ disk'["backup"][p] = disk["backup"][p]
    BY <1>3 DEF ApplyStep, NextFile, NextDelete, CopyFresh, CopyBackup, SyncBackupTmp,
       RenameBackup, SyncBackup, RemoveLive, InstallFresh, SyncInstalled, ApplyFault,
       ApplyBlocked, ApplyFails, Put, Rename, Sync, Typed, FilesTyped, Slots
  <2>2. disk'["live"] = disk["live"] \/ (pc \in EntrySteps /\ cur \in DOMAIN txn)
    BY <1>3 DEF ApplyStep, NextFile, NextDelete, CopyFresh, CopyBackup, SyncBackupTmp,
       RenameBackup, SyncBackup, RemoveLive, InstallFresh, SyncInstalled, ApplyFault,
       ApplyBlocked, ApplyFails, Put, Rename, Sync, Typed, FilesTyped, Slots, Entry
  <2>3. disk'["backup"] = disk["backup"] \/ (disk'["backup"][cur] = txn[cur])
    BY <1>3 DEF ApplyStep, NextFile, NextDelete, CopyFresh, CopyBackup, SyncBackupTmp,
       RenameBackup, SyncBackup, RemoveLive, InstallFresh, SyncInstalled, ApplyFault,
       ApplyBlocked, ApplyFails, Put, Rename, Sync, Typed, FilesTyped, Slots, Journal
  <2>4. DOMAIN txn \subseteq Paths
    BY <1>1 DEF Covered, Guarded
  <2> QED
    BY <1>1, <2>0, <2>1, <2>2, <2>3, <2>4 DEF Image, Guarded, Original, Installed, Deleted
<1> QED
  BY <1>2, <1>3

LEMMA ImageRollback == ASSUME Calm, ~Fault, RollbackStep PROVE Image'
<1> USE DEF Calm, IInv, Jobs, EntrySteps, ApplySteps, RestoreSteps, flash
<1>1. job = "recover" /\ phase \in Guarded /\ pc \in {"rollback"} \cup RestoreSteps
  BY DEF RollbackStep, RollbackPath, RestoreCopy, RestoreSync, RestoreRemove, RestoreRename,
     RestoreDone, RestoreFault, RollbackDone, SaveStaging, UndoFailed, RecoveryFailed,
     RollingBack, Session, Guarded
<1>2. ~SaveStaging /\ ~UndoFailed /\ ~RestoreFault
  BY <1>1 DEF SaveStaging, UndoFailed, RestoreFault
<1>3. UNCHANGED <<phase, manifest, txn, confirmed, armed>>
  BY <1>2 DEF RollbackStep, RollbackPath, RestoreCopy, RestoreSync, RestoreRemove,
     RestoreRename, RestoreDone, RollbackDone, RecoveryFailed, RecoveryError, RollingBack,
     run
<1>4. pc' \notin {"writeTxn", "saveApplying"} /\ job' # "commit"
  BY <1>1, <1>2 DEF RollbackStep, RollbackPath, RestoreCopy, RestoreSync, RestoreRemove,
     RestoreRename, RestoreDone, RollbackDone, RecoveryFailed, RecoveryError
<1>5. disk'["backup"] = disk["backup"]
  BY <1>2 DEF RollbackStep, RollbackPath, RestoreCopy, RestoreSync, RestoreRemove,
     RestoreRename, RestoreDone, RollbackDone, RecoveryFailed, Put, Rename, Sync, Typed,
     FilesTyped, Slots
<1>6. \A p \in Paths \ DOMAIN txn : disk'["live"][p] = disk["live"][p]
  <2>1. ASSUME NEW q \in Paths, RollbackPath(q), NEW p \in Paths \ DOMAIN txn
        PROVE disk'["live"][p] = disk["live"][p]
    <3>1. q # p
      BY <1>1, <2>1 DEF RollbackPath, Recovery
    <3> QED
      BY <2>1, <3>1 DEF RollbackPath, Put, Typed, FilesTyped, Slots
  <2> QED
    BY <1>1, <1>2, <2>1 DEF RollbackStep, RestoreCopy, RestoreSync, RestoreRemove,
       RestoreRename, RestoreDone, RollbackDone, RecoveryFailed, Put, Rename, Sync, Typed,
       FilesTyped, Slots, Recovery
<1>7. ~(phase' = "applied_pending_boot" \/ (phase' = "boot_pending" /\ armed'))
  BY <1>1, <1>3 DEF Session
<1>8. Original(txn)'
  BY <1>1, <1>3 DEF Image, Original, Installed, Deleted
<1> QED
  BY <1>1, <1>3, <1>4, <1>5, <1>6, <1>7, <1>8 DEF Image

LEMMA ImageWipe == ASSUME Calm, ~Fault, WipeStep PROVE Image'
<1> USE DEF Calm, IInv, Jobs, EntrySteps, ApplySteps, RestoreSteps, flash
<1>1. CASE WipeNext
  <2>1. disk'["live"] = disk["live"] /\ UNCHANGED <<phase, armed, confirmed, job, pc>>
    BY <1>1 DEF WipeNext, Remove, ClearSlots, Typed, FilesTyped, Slots, run
  <2>2. CASE phase \notin Guarded
    BY <1>1, <2>1, <2>2 DEF WipeNext, Image, Whole, Guarded
  <2>3. CASE phase \in Guarded
    <3>1. job = "commit" /\ wipe = <<"stage">>
      BY <1>1, <2>3 DEF WipeNext, Session, NoWipeWhileGuarded
    <3>2. Head(wipe) = "stage"
      BY <3>1
    <3>3. UNCHANGED <<manifest, txn>> /\ disk'["backup"] = disk["backup"]
      BY <1>1, <3>2 DEF WipeNext, Remove, ClearSlots, Typed, FilesTyped, Slots
    <3> QED
      BY <1>1, <2>1, <3>1, <3>3, ImageFrame DEF WipeNext
  <2> QED
    BY <2>2, <2>3
<1>2. CASE WipeDone
  <2>1. /\ UNCHANGED <<disk, manifest, txn, phase, armed, confirmed>>
        /\ pc' \notin {"writeTxn", "saveApplying", "wipe"}
    BY <1>2 DEF WipeDone, Return, run
  <2>2. pc' = "savePending" => job = "commit"
    BY <1>2 DEF WipeDone, Return
  <2> QED
    BY <1>2, <2>1, <2>2, ImageFrame DEF WipeDone
<1>3. CASE ClearAborted
  BY <1>3 DEF ClearAborted, Return, Image, Whole, Guarded, Session, NoWipeWhileGuarded
<1>4. CASE ClearRecovered
  BY <1>4 DEF ClearRecovered, Recovery, Image, Whole, Guarded
<1> QED
  BY <1>1, <1>2, <1>3, <1>4 DEF WipeStep

(* The image on trial is the one the trial ends with. *)
LEMMA SettledIs ==
  ASSUME Calm, mode = "normal", phase = "boot_pending"
  PROVE  Settled \in Versions /\ Whole(Settled)
<1>1. Whole(manifest.to) /\ manifest \in Packages
  BY GuardedManifest DEF Calm, Session, Image, Guarded
<1>2. manifest.to \in Versions
  BY <1>1 DEF Packages
<1> QED
  BY <1>1, <1>2 DEF Settled

LEMMA ImageStep ==
  ASSUME Calm, ~Fault, ~Missed, ~BootUnread, [Next]_vars
  PROVE Image'
<1> USE DEF Calm, IInv, Jobs, EntrySteps, ApplySteps, RestoreSteps, run, host, flash
<1>1. CASE ConfirmBoot \/ (\E m \in Packages : Prepare(m) /\ phase = "boot_pending")
  <2>1. confirmed' \in Versions /\ Whole(confirmed')
    BY <1>1, SettledIs DEF ConfirmBoot, Prepare
  <2>2. job' = "none" /\ pc' = "idle" /\ phase' \notin Guarded /\ disk' = disk
    BY <1>1 DEF ConfirmBoot, Prepare, Guarded
  <2>3. Whole(confirmed)'
    BY <2>1, <2>2 DEF Whole
  <2> QED
    BY <2>2, <2>3 DEF Image, Guarded
<1>2. ASSUME NEW m \in Packages, Prepare(m), phase # "boot_pending" PROVE Image'
  BY <1>2 DEF Prepare, Session, Image, Guarded, Whole
<1>3. CASE ConfirmFails \/ (\E m \in Packages : PrepareFails(m))
  BY <1>3 DEF ConfirmFails, PrepareFails
<1>4. CASE InactivityTimeout
  BY <1>4, ImageFrame DEF InactivityTimeout, StartAbort
<1>5. CASE PollFails
  BY <1>5, ImageFrame DEF PollFails, PollError, StartAbort, LoopReset
<1>6. CASE Reboot
  BY <1>6, ImageFrame DEF Reboot, Sync, Restart
<1>7. CASE Crash
  <2>1. /\ UNCHANGED <<phase, manifest, txn, confirmed>>
        /\ ~armed' /\ job' = "none" /\ pc' = "idle"
        /\ disk' \in [Slots -> [Paths -> Contents]]
    BY <1>7, FilesStep DEF Crash, Restart, Next, Typed, FilesTyped
  <2>2. \A s \in Slots, p \in Paths :
          <<s, p>> \notin unsynced \/ disk[s][p] = Absent => disk'[s][p] = disk[s][p]
    BY <1>7 DEF Crash
  <2>3. disk'["backup"] = disk["backup"]
    <3>1. \A p \in Paths : disk'["backup"][p] = disk["backup"][p]
      BY <2>2 DEF Synced, Slots
    <3> QED
      BY <2>1, <3>1, SameSlot DEF Slots, Typed
  <2>4. phase # "applying" => disk'["live"] = disk["live"]
    <3>1. phase # "applying" => \A p \in Paths : disk'["live"][p] = disk["live"][p]
      BY <2>2 DEF Synced, LiveSynced, Slots
    <3> QED
      BY <2>1, <3>1, SameSlot DEF Slots, Typed
  <2>5. CASE phase # "applying"
    BY <2>1, <2>3, <2>4, <2>5, ImageFrame
  <2>6. CASE phase = "applying"
    <3>1. \A p \in Paths \ DOMAIN txn : disk'["live"][p] = Absent
      BY <2>2, <2>6 DEF Image, Guarded, Slots
    <3>2. Original(txn)'
      BY <2>1, <2>6 DEF Image, Guarded, Original, Installed, Deleted
    <3>3. \A p \in DOMAIN txn : disk'["backup"][p] \in {Absent, txn[p]}
      BY <2>3, <2>6 DEF Image, Guarded
    <3> QED
      BY <2>1, <2>6, <3>1, <3>2, <3>3 DEF Image, Guarded
  <2> QED
    BY <2>5, <2>6
<1>8. CASE ClientStep \/ UNCHANGED vars
  <2>1. UNCHANGED <<flash, armed, confirmed, job, pc, journal>>
    BY <1>8 DEF ClientStep, ClientStart, ClientSend, ClientTimeout, loop, vars
  <2> QED
    BY <2>1, ImageFrame
<1> QED
  BY <1>1, <1>2, <1>3, <1>4, <1>5, <1>6, <1>7, <1>8, ImageBoot, ImageHandler, ImageApply,
     ImageRollback, ImageWipe DEF Next, NormalStep

(* Entry is kept. *)
LEMMA EntryApply == ASSUME Calm, ~Fault, ApplyStep PROVE Entry'
<1>a. phase = "applying"
  BY DEF Calm, IInv, Jobs, EntrySteps, ApplySteps, ApplyStep, NextFile, NextDelete,
     CopyFresh, CopyBackup, SyncBackupTmp, RenameBackup, SyncBackup, RemoveLive,
     InstallFresh, SyncInstalled, ApplyDone, ApplyFault, ApplyBlocked
<1>0. manifest \in Packages /\ Original(txn) /\ DOMAIN txn \subseteq Paths /\ FilesTyped
  BY <1>a, GuardedManifest DEF Calm, Image, IInv, Covered, Guarded, Typed
<1> USE DEF Calm, IInv, Jobs, Journal, EntrySteps, ApplySteps, RestoreSteps, flash,
   Applying, Entry, FilesTyped, Slots, ImageOf, Installed
<1>1. ASSUME NEW p \in Paths, NextFile(p) PROVE Entry'
  BY <1>0, <1>1 DEF NextFile
<1>2. ASSUME NEW p \in Paths, NextDelete(p) PROVE Entry'
  <2>1. p \in DOMAIN txn /\ p \notin Installed(manifest) /\ p \in Has[manifest.from]
        /\ manifest.from \in Versions
    BY <1>0, <1>2 DEF NextDelete, Original, Deleted, Packages
  <2>2. txn[p] # Absent
    BY <1>0, <2>1, VersionsAssumption DEF Original
  <2>3. cur' = p /\ pc' = "copyBackup"
    BY <1>2, <2>1, <2>2 DEF NextDelete
  <2> QED
    BY <1>0, <1>2, <2>1, <2>3 DEF NextDelete
<1>3. CASE CopyFresh
  <2>1. disk["stage"][cur] = manifest.to
    BY <1>3 DEF CopyFresh, Staging
  <2> QED
    BY <1>0, <1>3, <2>1 DEF CopyFresh, Put
<1>4. CASE CopyBackup
  BY <1>0, <1>4 DEF CopyBackup, Put
<1>5. CASE SyncBackupTmp
  BY <1>0, <1>5 DEF SyncBackupTmp, Sync
<1>6. CASE RenameBackup
  BY <1>0, <1>6 DEF RenameBackup, Rename
<1>7. CASE SyncBackup
  BY <1>0, <1>7 DEF SyncBackup, Sync
<1>8. CASE RemoveLive
  <2>1. /\ cur \in DOMAIN txn \ todo /\ cur \in Paths
        /\ disk' = [disk EXCEPT !["live"][cur] = Absent]
        /\ pc' = IF cur \in Installed(manifest) THEN "install" ELSE "syncInstalled"
        /\ cur \in Installed(manifest) => disk["fresh"][cur] = manifest.to
    BY <1>0, <1>8 DEF RemoveLive, Put, AfterRemove
  <2>2. cur \notin Installed(manifest) => ImageOf(manifest.to)[cur] = Absent
    BY <2>1
  <2>3. disk'["live"][cur] = Absent /\ disk'["fresh"][cur] = disk["fresh"][cur]
    BY <1>0, <2>1
  <2>4. \A p \in Paths : p # cur => disk'["live"][p] = disk["live"][p]
    BY <1>0, <2>1
  <2>5. disk'["backup"] = disk["backup"]
    BY <1>0, <2>1
  <2>6. UNCHANGED <<cur, todo, manifest, txn>>
    BY <1>8 DEF RemoveLive
  <2> HIDE DEF ImageOf, Installed
  <2>7. /\ ImageOf(manifest.to)' = ImageOf(manifest.to)
        /\ Installed(manifest)' = Installed(manifest)
    BY <2>6 DEF ImageOf, Installed
  <2> QED
    BY <1>0, <1>8, <2>1, <2>2, <2>3, <2>4, <2>5, <2>6, <2>7 DEF RemoveLive
<1>9. CASE InstallFresh
  <2>1. /\ cur \in DOMAIN txn \ todo /\ cur \in Paths /\ cur \in Installed(manifest)
        /\ disk["fresh"][cur] = manifest.to /\ pc' = "syncInstalled"
        /\ disk' = [disk EXCEPT !["live"][cur] = disk["fresh"][cur],
                                !["fresh"][cur] = Absent]
    BY <1>0, <1>9 DEF InstallFresh, Rename
  <2>2. disk'["live"][cur] = ImageOf(manifest.to)[cur]
    BY <1>0, <2>1
  <2>3. \A p \in Paths : p # cur => disk'["live"][p] = disk["live"][p]
    BY <1>0, <2>1
  <2>4. disk'["backup"] = disk["backup"]
    BY <1>0, <2>1
  <2>5. UNCHANGED <<cur, todo, manifest, txn>>
    BY <1>9 DEF InstallFresh
  <2> HIDE DEF ImageOf, Installed
  <2>6. ImageOf(manifest.to)' = ImageOf(manifest.to)
    BY <2>5 DEF ImageOf
  <2> QED
    BY <1>0, <1>9, <2>1, <2>2, <2>3, <2>4, <2>5, <2>6 DEF InstallFresh
<1>10. CASE SyncInstalled
  <2>1. /\ pc = "syncInstalled" /\ pc' = "apply"
        /\ UNCHANGED <<disk, todo, manifest, txn>>
    BY <1>10 DEF SyncInstalled, Sync
  <2> HIDE DEF ImageOf, Installed
  <2>2. ImageOf(manifest.to)' = ImageOf(manifest.to)
    BY <2>1 DEF ImageOf
  <2> QED
    BY <2>1, <2>2
<1>11. CASE ApplyDone
  BY <1>11 DEF ApplyDone
<1>12. CASE ApplyFault
  BY <1>12 DEF ApplyFault
<1>13. CASE ApplyBlocked
  BY <1>13 DEF ApplyBlocked
<1> QED
  BY <1>1, <1>2, <1>3, <1>4, <1>5, <1>6, <1>7, <1>8, <1>9, <1>10, <1>11, <1>12, <1>13 DEF
     ApplyStep

LEMMA EntryStep ==
  ASSUME Calm, ~Fault, ~Missed, ~BootUnread, [Next]_vars
  PROVE Entry'
<1> USE DEF Calm, IInv, Jobs, EntrySteps, ApplySteps, RestoreSteps
<1>1. CASE SaveApplying
  <2>1. /\ Original(journal) /\ Whole(confirmed) /\ NoBackup /\ txn = journal
    BY <1>1 DEF SaveApplying, Image, Guarded, Staging, Journal
  <2>2. DOMAIN journal \subseteq Paths
    BY <1>1 DEF SaveApplying, Journal
  <2> QED
    BY <1>1, <2>1, <2>2 DEF SaveApplying, Entry, Original, Whole, NoBackup
<1>2. CASE pc' \notin {"apply"} \cup EntrySteps
  BY <1>2 DEF Entry
<1>3. CASE ClientStep \/ UNCHANGED vars
  <2>1. UNCHANGED <<flash, pc, cur, todo>>
    BY <1>3 DEF ClientStep, ClientStart, ClientSend, ClientTimeout, loop, vars
  <2> QED
    BY <2>1 DEF Entry, flash, Installed
<1>4. CASE NormalStep
  BY <1>4, <1>2 DEF NormalStep, Prepare, PrepareFails, ConfirmBoot, ConfirmFails
<1>5. CASE BootStep
  BY <1>5, <1>2 DEF BootStep, Booting, ArmHealthCheck, ArmFails, OtaUnavailable,
     StartRecovery, NothingToRecover, RecoveryError, CleanAbandoned, BootNormal, EnterOta,
     StartAbort
<1>6. CASE HandlerStep /\ ~SaveApplying
  BY <1>6, <1>2 DEF HandlerStep, HandleBegin, DenyBegin, RejectBegin, SaveBegin,
     WriteManifest, HandleFile, HandleAbort, HandleCommit, BuildTransaction,
     WriteTransaction, SavePending, Return, StartAbort, AnswerNow, Take, Polling
<1>7. CASE RollbackStep
  BY <1>7, <1>2 DEF RollbackStep, RollbackPath, RestoreCopy, RestoreSync, RestoreRemove,
     RestoreRename, RestoreDone, RestoreFault, RollbackDone, UndoFailed, RecoveryFailed,
     RecoveryError, SaveStaging, Return
<1>8. CASE WipeStep
  BY <1>8, <1>2 DEF WipeStep, WipeNext, WipeDone, ClearAborted, ClearRecovered, Return
<1>9. CASE InactivityTimeout \/ PollFails \/ Reboot \/ Crash
  BY <1>9, <1>2 DEF InactivityTimeout, PollFails, PollError, StartAbort, Reboot, Crash,
     Restart
<1> QED
  BY <1>1, <1>3, <1>4, <1>5, <1>6, <1>7, <1>8, <1>9, EntryApply DEF Next

(* Recovery is kept. *)
LEMMA RecoveryRollback == ASSUME Calm, ~Fault, RollbackStep PROVE Recovery'
<1>1. job = "recover" /\ pc \in {"rollback"} \cup RestoreSteps /\ phase \in Guarded
  BY DEF RollbackStep, RollbackPath, RestoreCopy, RestoreSync, RestoreRemove, RestoreRename,
     RestoreDone, RestoreFault, RollbackDone, SaveStaging, UndoFailed, RecoveryFailed,
     RollingBack, Session, Calm, IInv, Jobs, EntrySteps, ApplySteps, RestoreSteps, Guarded
<1>2. /\ manifest \in Packages /\ Original(txn) /\ DOMAIN txn \subseteq Paths /\ txn = journal
      /\ FilesTyped
      /\ \A p \in DOMAIN txn : disk["backup"][p] \in {Absent, txn[p]}
      /\ \A p \in Paths \ DOMAIN txn : disk["live"][p] = Absent
      /\ \A p \in DOMAIN txn :
           txn[p] # Absent /\ disk["backup"][p] = Absent => disk["live"][p] = txn[p]
  <2>1. \A p \in DOMAIN txn :
          txn[p] # Absent /\ disk["backup"][p] = Absent => disk["live"][p] = txn[p]
    BY <1>1 DEF Calm, IInv, Covered, Safe
  <2> QED
    BY <1>1, <2>1, GuardedManifest DEF Calm, Image, IInv, Covered, Typed, Journal
<1>3. Recovery
  BY DEF Calm
<1>4. pc \in RestoreSteps => BackedUp(cur)
  BY DEF Calm, IInv, Journal
<1> USE DEF EntrySteps, ApplySteps, RestoreSteps, flash, RollingBack, Recovery, FilesTyped,
   Slots
<1>5. ASSUME NEW p \in Paths, RollbackPath(p) PROVE Recovery'
  <2>1. /\ p \in DOMAIN txn
        /\ disk["backup"][p] # journal[p] /\ journal[p] # Absent =>
             disk["backup"][p] = Absent /\ disk["live"][p] = journal[p]
    BY <1>1, <1>2, <1>3, <1>5 DEF RollbackPath
  <2>2. UNCHANGED <<txn, job, confirmed>> /\ todo' = todo \ {p} /\ pc = "rollback" /\ ~failed
    BY <1>1, <1>3, <1>5 DEF RollbackPath
  <2>3. CASE journal[p] # Absent /\ disk["backup"][p] = journal[p]
    <3>1. disk'["live"] = disk["live"] /\ cur' = p /\ pc' = "restoreCopy" /\ ~failed'
      BY <1>2, <1>5, <2>2, <2>3 DEF RollbackPath, Put
    <3> QED
      BY <1>1, <1>3, <2>1, <2>2, <3>1
  <2>4. CASE journal[p] # Absent /\ disk["backup"][p] # journal[p]
    <3>1. disk'["live"] = disk["live"] /\ pc' = "rollback" /\ ~failed'
      BY <1>2, <1>5, <2>1, <2>2, <2>4 DEF RollbackPath, Put
    <3> QED
      BY <1>1, <1>2, <1>3, <2>1, <2>2, <2>4, <3>1
  <2>5. CASE journal[p] = Absent
    <3>1. pc' = "rollback" /\ ~failed' /\ disk'["live"] = [disk["live"] EXCEPT ![p] = Absent]
      BY <1>2, <1>5, <2>2, <2>5 DEF RollbackPath
    <3> QED
      BY <1>1, <1>2, <1>3, <2>1, <2>2, <2>5, <3>1
  <2> QED
    BY <2>3, <2>4, <2>5
<1>6. CASE RestoreCopy
  BY <1>1, <1>2, <1>3, <1>4, <1>6 DEF RestoreCopy, Put, BackedUp
<1>7. CASE RestoreSync
  BY <1>1, <1>2, <1>3, <1>7 DEF RestoreSync, Sync
<1>8. CASE RestoreRemove
  BY <1>1, <1>2, <1>3, <1>8 DEF RestoreRemove, Put
<1>9. CASE RestoreRename
  BY <1>1, <1>2, <1>3, <1>9 DEF RestoreRename, Rename
<1>10. CASE RestoreDone
  BY <1>1, <1>2, <1>3, <1>10 DEF RestoreDone, Sync
<1>11. CASE RestoreFault \/ SaveStaging \/ UndoFailed
  BY <1>1, <1>11 DEF RestoreFault, SaveStaging, UndoFailed
<1>12. CASE RecoveryFailed
  BY <1>1, <1>3, <1>12 DEF RecoveryFailed
<1>13. CASE RollbackDone
  <2>1. ASSUME NEW p \in Paths PROVE disk["live"][p] = ImageOf(confirmed)[p]
    <3>1. CASE p \in DOMAIN txn
      BY <1>1, <1>2, <1>3, <1>13, <3>1 DEF RollbackDone, Original
    <3>2. CASE p \notin DOMAIN txn
      BY <1>2, <3>2, OutsideImage DEF Original
    <3> QED
      BY <3>1, <3>2
  <2>2. Whole(confirmed)
    BY <2>1, WholeWhen DEF Calm, Typed, ControlTyped
  <2> QED
    BY <1>1, <1>13, <2>2 DEF RollbackDone, Sync, Whole
<1> QED
  BY <1>5, <1>6, <1>7, <1>8, <1>9, <1>10, <1>11, <1>12, <1>13 DEF RollbackStep

LEMMA RecoveryStep ==
  ASSUME Calm, ~Fault, ~Missed, ~BootUnread, [Next]_vars
  PROVE Recovery'
<1> USE DEF Calm, IInv, Jobs, EntrySteps, ApplySteps, RestoreSteps
<1>2. CASE job' # "recover" \/ pc' = "wipe"
  BY <1>2 DEF Recovery
<1>3. CASE ClientStep \/ UNCHANGED vars
  <2>1. UNCHANGED <<flash, job, pc, cur, todo, failed, confirmed>>
    BY <1>3 DEF ClientStep, ClientStart, ClientSend, ClientTimeout, loop, vars
  <2> QED
    BY <2>1 DEF Recovery, flash, Whole
<1>4. CASE NormalStep
  BY <1>4, <1>2 DEF NormalStep, Prepare, PrepareFails, ConfirmBoot, ConfirmFails
<1>5. CASE StartRecovery
  BY <1>5 DEF StartRecovery, Recovery, flash
<1>51. CASE BootStep /\ ~StartRecovery
  BY <1>51, <1>2 DEF BootStep, Booting, ArmHealthCheck, ArmFails, OtaUnavailable,
     NothingToRecover, RecoveryError, CleanAbandoned, BootNormal, EnterOta, StartAbort
<1>6. CASE HandlerStep
  BY <1>6, <1>2 DEF HandlerStep, HandleBegin, DenyBegin, RejectBegin, SaveBegin,
     WriteManifest, HandleFile, HandleAbort, HandleCommit, BuildTransaction,
     WriteTransaction, SavePending, SaveApplying, Return, StartAbort, AnswerNow, Take,
     Polling
<1>7. CASE ApplyStep
  BY <1>7, <1>2 DEF ApplyStep, NextFile, NextDelete, CopyFresh, CopyBackup, SyncBackupTmp,
     RenameBackup, SyncBackup, RemoveLive, InstallFresh, SyncInstalled, ApplyDone,
     ApplyFault, ApplyBlocked, ApplyFails, StartUndo
<1>8. CASE WipeStep
  BY <1>8, <1>2 DEF WipeStep, WipeNext, WipeDone, ClearAborted, ClearRecovered, Return
<1>9. CASE InactivityTimeout \/ PollFails \/ Reboot \/ Crash
  BY <1>9, <1>2 DEF InactivityTimeout, PollFails, PollError, Polling, StartAbort, Reboot,
     Crash, Restart
<1> QED
  BY <1>3, <1>4, <1>5, <1>51, <1>6, <1>7, <1>8, <1>9, RecoveryRollback DEF Next

----------------------------------------------------------------------------
Sound == Typed /\ (faults = 0 => Calm)

LEMMA InitSound == Init => Sound
<1> SUFFICES ASSUME Init PROVE Calm
  BY InitTyped DEF Sound
<1>1. Session
  BY DEF Init, Session, BeginComing, NoWipeWhileGuarded, Guarded
<1>2. Staging
  BY DEF Init, Staging
<1>3. Image
  BY DEF Init, Image, Guarded, Whole, Slots
<1>4. Entry /\ Recovery /\ blind = {}
  BY DEF Init, Entry, Recovery, EntrySteps, ApplySteps
<1> QED
  BY <1>1, <1>2, <1>3, <1>4, InitTyped, InitIInv DEF Calm

(* No error so far means none in this step either. *)
LEMMA NoFault ==
  ASSUME Typed, [Next]_vars, faults' = 0
  PROVE  faults = 0 /\ UNCHANGED blind /\ ~Fault /\ ~Missed /\ ~BootUnread
<1>1. StateReads \in {1, 2}
  BY DEF StateReads
<1>2. ~Fault /\ ~Missed /\ ~BootUnread
  BY <1>1 DEF Typed, Fault, Missed, BootUnread
<1> QED
  BY <1>2, FaultsCounted DEF NoError, errors

LEMMA NextSound == Sound /\ [Next]_vars => Sound'
<1> SUFFICES ASSUME Sound, [Next]_vars PROVE Sound'
  OBVIOUS
<1>1. Typed'
  BY NextTyped DEF Sound
<1>2. ASSUME faults' = 0 PROVE Calm'
  <2>1. Calm /\ UNCHANGED blind /\ ~Fault /\ ~Missed /\ ~BootUnread
    BY <1>2, NoFault DEF Sound
  <2>2. IInv'
    BY <2>1, NextIInv DEF Calm, Session
  <2> QED
    BY <1>1, <2>1, <2>2, SessionStep, StagingStep, ImageStep, EntryStep, RecoveryStep DEF
       Calm
<1> QED
  BY <1>1, <1>2 DEF Sound

(* Until the first I/O error the normal program runs one image, the       *)
(* confirmed one or a new one whose health check is armed, however often  *)
(* power fails in between.  A request for the next update overwrites the  *)
(* phase of the health check (process_fwupdate_message): from then on the *)
(* image that runs counts as confirmed.                                   *)
THEOREM SoundUntilFault == Spec => [](faults = 0 => ImageSound)
<1>1. Sound => (faults = 0 => ImageSound)
  <2> SUFFICES ASSUME Calm, Typed PROVE ImageSound
    BY DEF Sound
  <2>1. mode = "normal" => \/ Whole(confirmed)
                           \/ /\ phase = "boot_pending" /\ armed
                              /\ Whole(manifest.to) /\ manifest \in Packages
    BY GuardedManifest DEF Calm, Session, Image
  <2>2. confirmed \in Versions
    BY DEF Typed, ControlTyped
  <2>3. NeverMixed
    BY <2>1, <2>2 DEF NeverMixed, Packages
  <2>4. UnconfirmedGuarded
    BY <2>1 DEF UnconfirmedGuarded
  <2> QED
    BY <2>3, <2>4, TypedTypeOK DEF ImageSound
<1> QED
  BY <1>1, InitSound, NextSound, PTL DEF Spec

(* Until the first I/O error no handler accepts a begin or an abort that  *)
(* wipes the backups of an install that can still be undone.              *)
THEOREM NoWipeUntilFault == Spec => [](faults = 0 => NoWipeWhileGuarded)
<1>1. Sound => (faults = 0 => NoWipeWhileGuarded)
  BY DEF Sound, Calm, Session
<1> QED
  BY <1>1, InitSound, NextSound, PTL DEF Spec

(* So the hypothesis of AlwaysCovered is free until then: every original  *)
(* file survives, in place or as a verified backup.                       *)
THEOREM CoveredUntilFault == Spec => [](faults = 0 => RollbackCovered)
<1>1. Sound => (faults = 0 => RollbackCovered)
  BY DEF Sound, Calm, IInv, Covered, RollbackCovered
<1> QED
  BY <1>1, InitSound, NextSound, PTL DEF Spec

(* The image of the live tree is the version whose files it holds. *)
LEMMA LiveImageIs ==
  ASSUME NEW v \in Versions, Whole(v) PROVE LiveImage = v
<1>1. \E w \in Versions : Whole(w)
  OBVIOUS
<1>2. PICK w \in Versions : w = LiveImage /\ Whole(w)
  BY <1>1 DEF LiveImage
<1>3. ImageOf(w) = ImageOf(v)
  BY <1>2 DEF Whole
<1> QED
  BY <1>2, <1>3, OneImage

(* Steps that FirmwareTrial does not see. *)
LEMMA TrialFrame ==
  ASSUME Calm, UNCHANGED <<mode, armed, confirmed>>,
         mode = "normal" => disk'["live"] = disk["live"],
         \/ phase' = phase
         \/ /\ phase \notin {"applied_pending_boot", "boot_pending"}
            /\ phase' \notin {"applied_pending_boot", "boot_pending"},
         phase \in Guarded => manifest' = manifest
  PROVE  UNCHANGED <<Runs, confirmed, OnTrial>>
<1>1. Runs' = Runs
  BY DEF Runs, LiveImage, Whole
<1>2. OnTrial' = OnTrial
  BY DEF OnTrial, Guarded
<1> QED
  BY <1>1, <1>2

(* What runs and what is on trial, as far as the phase tells. *)
LEMMA RunsIs ==
  ASSUME Calm
  PROVE  /\ mode # "normal" => Runs = Down
         /\ mode = "normal" /\ phase \notin Guarded => Runs = confirmed
         /\ mode = "normal" /\ phase \in Guarded => Runs = manifest.to
         /\ Runs \in Versions \cup {Down}
         /\ mode = "normal" => Runs \in Versions /\ OnTrial = NoTrial
         /\ phase \in Guarded => manifest.to \in Versions
<1>1. phase \in Guarded => manifest.to \in Versions
  BY GuardedManifest DEF Packages
<1>2. mode = "normal" /\ phase \in Guarded => Whole(manifest.to)
  BY DEF Calm, Session, Image
<1>3. phase \notin Guarded => Whole(confirmed) /\ confirmed \in Versions
  BY DEF Calm, Image, Typed, ControlTyped
<1>4. mode = "normal" => OnTrial = NoTrial
  BY DEF Calm, Session, OnTrial, Guarded
<1> QED
  BY <1>1, <1>2, <1>3, <1>4, LiveImageIs DEF Runs

(* A reset stops the device or drops the trial that was not armed. *)
LEMMA TrialRestart ==
  ASSUME Calm, Restart, UNCHANGED <<phase, manifest, confirmed>>
  PROVE  [Firmware!Next]_<<Runs, confirmed, OnTrial>>
<1>1. Runs' = Down
  BY DEF Restart, Runs
<1>2. OnTrial' = OnTrial \/ OnTrial' = NoTrial
  BY DEF Restart, OnTrial
<1>3. CASE OnTrial' = OnTrial
  BY <1>1, <1>3 DEF Firmware!Next, Firmware!Stop
<1>4. CASE OnTrial' = NoTrial /\ OnTrial # NoTrial
  BY <1>1, <1>4, RunsIs DEF Firmware!Next, Firmware!DropTrial
<1> QED
  BY <1>2, <1>3, <1>4

(* Every step is a step of FirmwareTrial or a stutter. *)
LEMMA TrialStep ==
  ASSUME Calm, ~Fault, ~Missed, ~BootUnread, [Next]_vars
  PROVE  [Firmware!Next]_<<Runs, confirmed, OnTrial>>
<1> USE DEF IInv, Jobs, EntrySteps, ApplySteps, RestoreSteps
<1>1. ASSUME NEW m \in Packages, Prepare(m), phase # "boot_pending"
      PROVE  UNCHANGED <<Runs, confirmed, OnTrial>>
  <2>1. phase \notin Guarded
    BY <1>1 DEF Prepare, Calm, Session
  <2> QED
    BY <1>1, <2>1, TrialFrame DEF Prepare, Guarded
<1>2. CASE ConfirmBoot \/ (\E m \in Packages : Prepare(m) /\ phase = "boot_pending")
  <2>1. Settled \in Versions /\ Whole(Settled) /\ mode = "normal"
    BY <1>2, SettledIs DEF ConfirmBoot, Prepare
  <2>2. confirmed' = Runs
    BY <1>2, <2>1, LiveImageIs DEF ConfirmBoot, Prepare, Runs
  <2>3. UNCHANGED <<Runs, OnTrial>>
    BY <1>2, <2>1 DEF ConfirmBoot, Prepare, Runs, LiveImage, Whole, OnTrial, run
  <2>4. Runs # Down
    BY <2>1, RunsIs, VersionsAssumption
  <2> QED
    BY <2>2, <2>3, <2>4 DEF Firmware!Next, Firmware!Confirm
<1>3. CASE BootStep
  <2>1. mode = "boot" /\ Runs = Down
    BY <1>3, RunsIs DEF BootStep, Booting, ArmHealthCheck, ArmFails, OtaUnavailable,
       StartRecovery, NothingToRecover, CleanAbandoned, BootNormal, EnterOta
  <2>2. CASE ArmHealthCheck
    BY <2>1, <2>2 DEF ArmHealthCheck, Runs, OnTrial
  <2>3. CASE BootNormal /\ phase \notin Guarded
    <3>1. Runs' = confirmed
      BY <2>3, LiveImageIs DEF BootNormal, Runs, LiveImage, Whole, flash, Calm, Image,
         Typed, ControlTyped
    <3>2. OnTrial = NoTrial /\ OnTrial' = NoTrial /\ confirmed' = confirmed
      BY <2>3 DEF BootNormal, OnTrial, Guarded, flash
    <3> QED
      BY <2>1, <3>1, <3>2 DEF Firmware!Next, Firmware!StartConfirmed
  <2>4. CASE BootNormal /\ phase \in Guarded
    <3>1. phase = "boot_pending" /\ armed
      BY <2>4 DEF BootNormal, Guarded
    <3>2. Whole(manifest.to) /\ manifest.to \in Versions
      BY <2>4, <3>1, RunsIs DEF Calm, Image
    <3>3. Runs' = manifest.to
      BY <2>4, <3>2, LiveImageIs DEF BootNormal, Runs, LiveImage, Whole, flash
    <3>4. OnTrial = manifest.to /\ OnTrial' = NoTrial /\ confirmed' = confirmed
      BY <2>1, <2>4, <3>1 DEF BootNormal, OnTrial, flash
    <3> QED
      BY <2>1, <3>2, <3>3, <3>4, VersionsAssumption DEF Firmware!Next, Firmware!StartTrial
  <2>5. CASE EnterOta \/ OtaUnavailable
    BY <2>1, <2>5 DEF EnterOta, OtaUnavailable, Runs, OnTrial, run
  <2>6. CASE StartRecovery \/ CleanAbandoned
    BY <2>6, TrialFrame DEF StartRecovery, CleanAbandoned, flash, run
  <2>7. CASE NothingToRecover
    BY <2>7 DEF NothingToRecover, Calm, Covered, MustRecover, Guarded
  <2>8. CASE ArmFails
    BY <2>8 DEF ArmFails
  <2> QED
    BY <1>3, <2>2, <2>3, <2>4, <2>5, <2>6, <2>7, <2>8 DEF BootStep
<1>4. CASE HandlerStep
  <2>1. mode = "ota" /\ UNCHANGED <<mode, armed, confirmed>>
    BY <1>4 DEF HandlerStep, HandleBegin, DenyBegin, RejectBegin, SaveBegin, WriteManifest,
       HandleFile, HandleAbort, HandleCommit, BuildTransaction, WriteTransaction,
       SavePending, SaveApplying, Take, Polling, run, Calm
  <2>2. CASE SavePending
    <3>1. phase = "applying" /\ phase' = "applied_pending_boot" /\ UNCHANGED manifest
      BY <2>2 DEF SavePending, Calm
    <3>2. OnTrial' = manifest.to /\ manifest.to \in Versions
      BY <3>1, RunsIs DEF OnTrial, Guarded
    <3>3. Runs = Down /\ Runs' = Down
      BY <2>1 DEF Runs
    <3> QED
      BY <2>1, <3>2, <3>3 DEF Firmware!Next, Firmware!Install
  <2>3. CASE SaveBegin
    BY <2>1, <2>3, TrialFrame DEF SaveBegin, Calm, Session, NoWipeWhileGuarded, Guarded
  <2>4. CASE WriteManifest
    BY <2>1, <2>4, TrialFrame DEF WriteManifest, Calm, Session, NoWipeWhileGuarded
  <2>5. CASE SaveApplying
    BY <2>1, <2>5, TrialFrame DEF SaveApplying, Calm
  <2>6. CASE ~SavePending /\ ~SaveBegin /\ ~WriteManifest /\ ~SaveApplying
    <3>1. UNCHANGED <<phase, manifest>>
      BY <1>4, <2>6 DEF HandlerStep, HandleBegin, DenyBegin, RejectBegin, HandleFile,
         HandleAbort, HandleCommit, BuildTransaction, WriteTransaction, flash
    <3> QED
      BY <2>1, <3>1, TrialFrame
  <2> QED
    BY <2>2, <2>3, <2>4, <2>5, <2>6
<1>5. CASE ApplyStep
  <2>1. job = "commit" /\ UNCHANGED <<phase, manifest, mode, armed, confirmed>>
    BY <1>5 DEF ApplyStep, NextFile, NextDelete, CopyFresh, CopyBackup, SyncBackupTmp,
       RenameBackup, SyncBackup, RemoveLive, InstallFresh, SyncInstalled, ApplyDone,
       ApplyFault, ApplyBlocked, ApplyFails, Applying, run, flash, Calm
  <2> QED
    BY <2>1, TrialFrame DEF Calm
<1>6. CASE RollbackStep
  <2>1. job = "recover" /\ pc # "wipe" /\ UNCHANGED <<phase, manifest, armed, confirmed>>
    BY <1>6 DEF RollbackStep, RollbackPath, RestoreCopy, RestoreSync, RestoreRemove,
       RestoreRename, RestoreDone, RestoreFault, RollbackDone, SaveStaging, UndoFailed,
       RecoveryFailed, RecoveryError, RollingBack, run, flash, Calm, Session
  <2>2. ~RecoveryFailed
    BY <2>1 DEF RecoveryFailed, Calm, Recovery
  <2>3. UNCHANGED mode
    BY <1>6, <2>1, <2>2 DEF RollbackStep, RollbackPath, RestoreCopy, RestoreSync,
       RestoreRemove, RestoreRename, RestoreDone, RestoreFault, RollbackDone, SaveStaging,
       UndoFailed, RollingBack, run
  <2> QED
    BY <2>1, <2>3, TrialFrame DEF Calm
<1>7. CASE WipeStep
  <2>0. mode # "normal"
    BY <1>7 DEF WipeStep, WipeNext, WipeDone, ClearAborted, ClearRecovered, Calm
  <2>1. CASE WipeNext
    <3>1. phase \in Guarded => manifest' = manifest
      <4>1. ASSUME phase \in Guarded PROVE job = "commit" /\ wipe = <<"stage">>
        BY <2>1, <4>1 DEF WipeNext, Calm, Session, NoWipeWhileGuarded
      <4>2. Head(<<"stage">>) = "stage"
        OBVIOUS
      <4> QED
        BY <2>1, <4>1, <4>2 DEF WipeNext, Remove
    <3> QED
      BY <2>0, <2>1, <3>1, TrialFrame DEF WipeNext, run
  <2>2. CASE WipeDone
    BY <2>0, <2>2, TrialFrame DEF WipeDone, run, flash
  <2>3. CASE ClearAborted /\ job # "clean"
    <3>1. phase \notin Guarded
      BY <2>3 DEF ClearAborted, Calm, Session, NoWipeWhileGuarded
    <3> QED
      BY <2>0, <2>3, <3>1, TrialFrame DEF ClearAborted, Guarded
  <2>4. CASE ClearAborted /\ job = "clean"
    <3>1. /\ phase \notin Guarded /\ phase' = "none" /\ mode' = "normal"
          /\ UNCHANGED <<disk, confirmed>>
      BY <2>4 DEF ClearAborted, Calm
    <3>2. Runs' = confirmed
      BY <3>1, LiveImageIs DEF Runs, LiveImage, Whole, Calm, Image, Typed, ControlTyped
    <3>3. OnTrial = NoTrial /\ OnTrial' = NoTrial
      BY <3>1 DEF OnTrial, Guarded
    <3> QED
      BY <2>0, <3>1, <3>2, <3>3, RunsIs DEF Firmware!Next, Firmware!StartConfirmed
  <2>5. CASE ClearRecovered
    <3>1. phase' = "none" /\ UNCHANGED <<mode, armed, confirmed, manifest>>
      BY <2>5 DEF ClearRecovered, run
    <3>2. OnTrial = NoTrial /\ OnTrial' = NoTrial
      BY <2>5, <3>1 DEF ClearRecovered, OnTrial, Calm, Session
    <3> QED
      BY <2>0, <3>1, <3>2 DEF Runs
  <2> QED
    BY <1>7, <2>1, <2>2, <2>3, <2>4, <2>5 DEF WipeStep
<1>8. CASE InactivityTimeout \/ PollFails
  BY <1>8, TrialFrame DEF InactivityTimeout, PollFails, PollError, run, flash
<1>9. CASE Reboot \/ Crash
  BY <1>9, TrialRestart DEF Reboot, Crash
<1>10. CASE ClientStep \/ UNCHANGED vars
  BY <1>10, TrialFrame DEF ClientStep, ClientStart, ClientSend, ClientTimeout, vars, run,
     flash
<1>11. CASE ConfirmFails \/ (\E m \in Packages : PrepareFails(m))
  BY <1>11 DEF ConfirmFails, PrepareFails
<1> QED
  BY <1>1, <1>2, <1>3, <1>4, <1>5, <1>6, <1>7, <1>8, <1>9, <1>10, <1>11 DEF Next, NormalStep

(* As long as no I/O error occurs the device is a FirmwareTrial: one new  *)
(* version on trial at a time, kept once the running program confirms it  *)
(* or is asked for the next update, or dropped for the old.               *)
THEOREM TrialUntilFault == Spec /\ [](faults = 0) => OneTrial
<1>1. Init => Firmware!Init
  <2> SUFFICES ASSUME Init PROVE Firmware!Init
    OBVIOUS
  <2>1. Whole(confirmed) /\ confirmed \in Versions
    BY DEF Init, Whole, Slots
  <2> QED
    BY <2>1, LiveImageIs DEF Init, Firmware!Init, Runs, OnTrial
<1>2. Sound /\ faults = 0 /\ [Next]_vars /\ (faults = 0)'
        => [Firmware!Next]_<<Runs, confirmed, OnTrial>>
  BY NoFault, TrialStep DEF Sound
<1> QED
  BY <1>1, <1>2, InitSound, NextSound, PTL DEF Spec, OneTrial, Firmware!Spec, Firmware!vars

----------------------------------------------------------------------------
(* One I/O error.  The files every version has are replaced by an update:  *)
(* as long as no rollback and no install is under way they are those of    *)
(* one version and flushed.                                                *)
SharedPaths == {p \in Paths : \A w \in Versions : p \in Has[w]}

(* A file that was not seen when the originals were recorded may be gone. *)
Lost(c) == "file" \in blind /\ c = Absent
OneVersion(f) == \E v \in Versions : \A p \in SharedPaths : f[p] = v \/ Lost(f[p])

Installing == pc \in {"apply"} \cup EntrySteps
Rolling == job \in {"undo", "recover"} /\ pc \in {"rollback"} \cup RestoreSteps

(* The live tree may be a mixture: the next boot must recover it, or the   *)
(* rollback that runs restores it.                                         *)
Underway ==
  \/ Installing
  \/ Rolling /\ (job = "undo" => phase = "applying")
  \/ job = "none" /\ mode \in {"boot", "halted"} /\ MustRecover

Flushed(p) == <<"live", p>> \notin unsynced
SharedTree ==
  Underway \/ (OneVersion(disk["live"]) /\ \A p \in SharedPaths : Flushed(p))

(* A journal, on flash or in memory, holds the shared files of one version. *)
WholeJournal(j) == SharedPaths \subseteq DOMAIN j /\ OneVersion(j)
SharedJournal ==
  /\ txn # NoTxn => WholeJournal(txn)
  /\ pc \in {"writeTxn", "saveApplying"} \/ Installing \/ Rolling => WholeJournal(journal)
  /\ job = "recover" /\ Rolling => MustRecover

Before(p) == disk["live"][p] = journal[p]
Kept(p) == Before(p) /\ Flushed(p)
Missing(p) == Lost(journal[p])
Staged(p) == disk["stage"][p] = manifest.to

(* The install: to do = kept, done = replaced and backed up, unless the    *)
(* journal misses the file.                                                *)
SharedEntry ==
  /\ job = "commit" /\ pc \notin {"wipe", "savePending"} => manifest # NoManifest
  /\ pc = "build" => \A p \in SharedPaths : Staged(p)
  /\ pc \in {"writeTxn", "saveApplying"} =>
       \A p \in SharedPaths : (Kept(p) \/ Missing(p)) /\ Staged(p)
  /\ Installing =>
       /\ \A p \in SharedPaths \cap todo : (Kept(p) \/ Missing(p)) /\ Staged(p)
       /\ \A p \in SharedPaths \ todo :
            \/ disk["live"][p] = manifest.to /\ (BackedUp(p) \/ Missing(p)) /\ Flushed(p)
            \/ pc \in EntrySteps /\ p = cur

SharedCurrent ==
  /\ pc \in EntrySteps => cur \notin todo
  /\ pc \in EntrySteps /\ cur \in SharedPaths =>
       /\ pc = "copyFresh" => Staged(cur) /\ (Kept(cur) \/ Missing(cur))
       /\ pc \notin {"copyFresh", "syncInstalled"} => disk["fresh"][cur] = manifest.to
       /\ pc \in {"copyBackup", "syncBackupTmp", "renameBackup", "syncBackup"} => Kept(cur)
       /\ pc \in {"syncBackupTmp", "renameBackup"} => disk["backupTmp"][cur] = journal[cur]
       /\ pc = "syncBackup" => BackedUp(cur)
       /\ pc \in {"remove", "install", "syncInstalled"} => BackedUp(cur) \/ Missing(cur)
       /\ pc = "syncInstalled" => disk["live"][cur] = manifest.to

(* The rollback: done = as before, or the recovery is known to have failed. *)
SharedRollback ==
  /\ Rolling =>
       /\ \A p \in SharedPaths \ todo :
            failed \/ Before(p) \/ (pc \in RestoreSteps /\ p = cur)
       /\ pc \in RestoreSteps /\ cur \in SharedPaths =>
            /\ BackedUp(cur) /\ journal[cur] # Absent
            /\ pc \in {"restoreSync", "restoreRemove", "restoreRename"} =>
                 disk["restore"][cur] = journal[cur]
            /\ pc = "restoreDone" => Before(cur)
  /\ job = "undo" /\ Rolling =>
       /\ \A p \in SharedPaths \cap todo : Kept(p) \/ BackedUp(p) \/ Missing(p)
       /\ \A p \in SharedPaths \ todo : Kept(p) \/ (pc \in RestoreSteps /\ p = cur)
       /\ phase # "applying" =>
            \A p \in SharedPaths : Kept(p) /\ disk["backup"][p] = Absent

Even == SharedTree /\ SharedJournal /\ SharedEntry /\ SharedCurrent /\ SharedRollback

(* Jobs does not depend on what is wiped when. *)
LEMMA JobsBoot == ASSUME Jobs, BootStep PROVE Jobs'
<1> USE DEF Jobs, EntrySteps, ApplySteps, RestoreSteps, Guarded, run, loop, flash, Booting
<1>1. CASE ArmHealthCheck \/ ArmFails \/ OtaUnavailable
  BY <1>1 DEF ArmHealthCheck, ArmFails, OtaUnavailable
<1>2. CASE StartRecovery
  BY <1>2 DEF StartRecovery, MustRecover
<1>3. CASE NothingToRecover
  BY <1>3 DEF NothingToRecover, RecoveryError, LoopReset
<1>4. CASE CleanAbandoned
  BY <1>4 DEF CleanAbandoned, StartAbort
<1>5. CASE BootNormal \/ BootUnread \/ EnterOta
  BY <1>5 DEF BootNormal, BootUnread, EnterOta
<1> QED
  BY <1>1, <1>2, <1>3, <1>4, <1>5 DEF BootStep

LEMMA JobsHandler == ASSUME Jobs, HandlerStep PROVE Jobs'
<1> USE DEF Jobs, EntrySteps, ApplySteps, RestoreSteps, Guarded, run, loop, flash, Take,
   Polling, AnswerNow
<1>1. CASE HandleBegin \/ DenyBegin
  BY <1>1 DEF HandleBegin, DenyBegin
<1>2. CASE RejectBegin \/ HandleAbort
  BY <1>2 DEF RejectBegin, HandleAbort, StartAbort
<1>3. CASE SaveBegin
  BY <1>3 DEF SaveBegin, PollError, StartAbort
<1>4. CASE WriteManifest
  BY <1>4 DEF WriteManifest, PollError, StartAbort, Return
<1>5. CASE HandleFile
  BY <1>5 DEF HandleFile
<1>6. CASE HandleCommit
  BY <1>6 DEF HandleCommit, Verified, CurrentPhase
<1>7. CASE BuildTransaction
  BY <1>7 DEF BuildTransaction, Return
<1>8. CASE WriteTransaction \/ SaveApplying
  BY <1>8 DEF WriteTransaction, SaveApplying, StartUndo
<1>9. CASE SavePending
  BY <1>9 DEF SavePending, PollError, StartAbort, Return
<1> QED
  BY <1>1, <1>2, <1>3, <1>4, <1>5, <1>6, <1>7, <1>8, <1>9 DEF HandlerStep

LEMMA JobsApply == ASSUME Jobs, ApplyStep PROVE Jobs'
<1> USE DEF Jobs, EntrySteps, ApplySteps, RestoreSteps, Guarded, run, loop, flash, Applying
<1>1. ASSUME NEW p \in Paths, NextFile(p) \/ NextDelete(p) PROVE Jobs'
  BY <1>1 DEF NextFile, NextDelete
<1>2. CASE CopyFresh \/ CopyBackup \/ SyncBackupTmp \/ RenameBackup \/ SyncBackup
  BY <1>2 DEF CopyFresh, CopyBackup, SyncBackupTmp, RenameBackup, SyncBackup
<1>3. CASE RemoveLive \/ InstallFresh \/ SyncInstalled
  BY <1>3 DEF RemoveLive, InstallFresh, SyncInstalled, AfterRemove
<1>4. CASE ApplyDone
  BY <1>4 DEF ApplyDone
<1>5. CASE ApplyFault \/ ApplyBlocked
  BY <1>5 DEF ApplyFault, ApplyBlocked, ApplyFails, StartUndo
<1> QED
  BY <1>1, <1>2, <1>3, <1>4, <1>5 DEF ApplyStep

LEMMA JobsRollback == ASSUME Jobs, RollbackStep PROVE Jobs'
<1> USE DEF Jobs, EntrySteps, ApplySteps, RestoreSteps, Guarded, run, loop, flash,
   RollingBack
<1>1. ASSUME NEW p \in Paths, RollbackPath(p) PROVE Jobs'
  BY <1>1 DEF RollbackPath
<1>2. CASE RestoreCopy \/ RestoreSync \/ RestoreRemove \/ RestoreRename
  BY <1>2 DEF RestoreCopy, RestoreSync, RestoreRemove, RestoreRename
<1>3. CASE RestoreDone \/ RestoreFault
  BY <1>3 DEF RestoreDone, RestoreFault
<1>4. CASE RollbackDone
  BY <1>4 DEF RollbackDone
<1>5. CASE UndoFailed \/ RecoveryFailed
  BY <1>5 DEF UndoFailed, RecoveryFailed, RecoveryError, Return
<1>6. CASE SaveStaging
  BY <1>6 DEF SaveStaging, PollError, StartAbort
<1> QED
  BY <1>1, <1>2, <1>3, <1>4, <1>5, <1>6 DEF RollbackStep

LEMMA JobsWipe == ASSUME Jobs, WipeStep PROVE Jobs'
<1> USE DEF Jobs, EntrySteps, ApplySteps, RestoreSteps, Guarded, run, loop, flash
<1>1. CASE WipeNext
  <2>1. Tail(<<"stage">>) = <<>> /\ <<"stage">> # <<>> /\ Head(<<"stage">>) = "stage"
    OBVIOUS
  <2>2. job = "commit" => wipe' = <<>>
    BY <1>1, <2>1 DEF WipeNext
  <2>3. UNCHANGED <<job, pc, mode, phase>>
    BY <1>1 DEF WipeNext
  <2> QED
    BY <1>1, <2>2, <2>3 DEF WipeNext
<1>2. CASE WipeDone
  BY <1>2 DEF WipeDone, Return
<1>3. CASE ClearAborted
  BY <1>3 DEF ClearAborted, Return
<1>4. CASE ClearRecovered
  BY <1>4 DEF ClearRecovered, RecoveryError
<1> QED
  BY <1>1, <1>2, <1>3, <1>4 DEF WipeStep

LEMMA JobsStep == ASSUME Jobs, [Next]_vars PROVE Jobs'
<1> USE DEF Jobs, EntrySteps, ApplySteps, RestoreSteps, Guarded, run, loop, flash
<1>1. ASSUME NEW m \in Packages, Prepare(m) \/ PrepareFails(m) PROVE Jobs'
  BY <1>1 DEF Prepare, PrepareFails, Fault, errors
<1>2. CASE ConfirmBoot
  BY <1>2 DEF ConfirmBoot, errors
<1>3. CASE ConfirmFails \/ Reboot \/ Crash
  BY <1>3 DEF ConfirmFails, Reboot, Crash, Restart
<1>4. CASE InactivityTimeout \/ PollFails
  BY <1>4 DEF InactivityTimeout, PollFails, PollError, StartAbort, Polling
<1> HIDE DEF Jobs
<1>5. CASE ClientStep \/ UNCHANGED vars
  <2>1. UNCHANGED <<mode, phase, manifest, job, pc, wipe, blind>>
    BY <1>5 DEF ClientStep, ClientStart, ClientSend, ClientTimeout, vars, errors
  <2> QED
    BY <2>1 DEF Jobs
<1> QED
  BY <1>1, <1>2, <1>3, <1>4, <1>5, JobsBoot, JobsHandler, JobsApply, JobsRollback, JobsWipe
     DEF Next, NormalStep

(* What the shared files of an image, a package and a journal are. *)
LEMMA SharedPath == ASSUME NEW p \in SharedPaths PROVE p \in Paths
BY DEF SharedPaths

LEMMA PackagePaths ==
  ASSUME NEW m \in Packages
  PROVE  /\ SharedPaths \subseteq Installed(m)
         /\ Installed(m) \subseteq Paths /\ Deleted(m) \subseteq Paths
         /\ m.to \in Versions
BY VersionsAssumption DEF Packages, Installed, Deleted, SharedPaths

LEMMA WholeIsOne == ASSUME NEW v \in Versions PROVE OneVersion(ImageOf(v))
BY DEF OneVersion, ImageOf, SharedPaths, Lost

LEMMA SameVersion ==
  ASSUME NEW f, NEW g, OneVersion(f), \A p \in SharedPaths : g[p] = f[p]
  PROVE  OneVersion(g)
BY DEF OneVersion, Lost

LEMMA JournalHas ==
  ASSUME NEW j, WholeJournal(j), NEW p \in SharedPaths
  PROVE  p \in DOMAIN j /\ (j[p] # Absent \/ Lost(j[p]))
BY VersionsAssumption DEF WholeJournal, OneVersion, Lost

(* The tree stays as it is. *)
LEMMA TreeKept ==
  ASSUME blind \subseteq blind', SharedTree, ~Underway, \A p \in SharedPaths : disk'["live"][p] = disk["live"][p],
         \A p \in SharedPaths : Flushed(p) => Flushed(p)'
  PROVE  OneVersion(disk["live"])' /\ (\A p \in SharedPaths : Flushed(p))'
BY DEF SharedTree, OneVersion, Lost

LEMMA TreeUnchanged ==
  ASSUME blind \subseteq blind', SharedTree, UNCHANGED <<disk, unsynced>>
  PROVE  Underway \/ SharedTree'
BY DEF SharedTree, Flushed, OneVersion, Lost

(* Outside a commit and a rollback only the tree and the journal on flash  *)
(* count.                                                                  *)
Elsewhere == pc \in {"idle", "wipe", "clearState", "saveBegin", "writeManifest", "savePending",
                     "saveStaging"}

LEMMA IdleEven ==
  ASSUME blind \subseteq blind', Even, SharedTree', txn' = txn \/ txn' = NoTxn, Elsewhere',
         (job = "commit" /\ pc \notin {"wipe", "savePending"} => manifest # NoManifest)'
  PROVE  Even'
<1>1. SharedJournal'
  BY DEF Even, SharedJournal, Elsewhere, Installing, Rolling, EntrySteps, ApplySteps,
     RestoreSteps, WholeJournal, OneVersion, Lost
<1>2. SharedEntry' /\ SharedCurrent'
  BY DEF SharedEntry, SharedCurrent, Elsewhere, Installing, EntrySteps, ApplySteps
<1>3. SharedRollback'
  BY DEF SharedRollback, Elsewhere, Rolling, RestoreSteps
<1> QED
  BY <1>1, <1>2, <1>3 DEF Even

(* Steps that leave the flash, the loops and the journal alone. *)
LEMMA FrameEven ==
  ASSUME blind \subseteq blind', Even, UNCHANGED <<disk, unsynced, phase, manifest, txn, mode, armed, job, pc, cur,
                           todo, journal, failed>>
  PROVE  Even'
<1>1. SharedTree'
  BY DEF Even, SharedTree, Underway, Installing, Rolling, MustRecover, Flushed, OneVersion,
     Lost
<1>2. SharedJournal'
  BY DEF Even, SharedJournal, Installing, Rolling, MustRecover, WholeJournal, OneVersion,
     Lost
<1>3. SharedEntry' /\ SharedCurrent'
  BY DEF Even, SharedEntry, SharedCurrent, Installing, Kept, Before, Flushed, Staged,
     BackedUp, Missing, Lost
<1>4. SharedRollback'
  BY DEF Even, SharedRollback, Rolling, Kept, Before, Flushed, BackedUp, Missing, Lost
<1> QED
  BY <1>1, <1>2, <1>3, <1>4 DEF Even

LEMMA EvenBoot ==
  ASSUME blind \subseteq blind', Typed, Jobs, Even, BootStep, ~BootUnread PROVE Even'
<1> USE DEF Booting
<1>1. CASE StartRecovery
  <2> USE <1>1 DEF StartRecovery, flash, run
  <2>1. SharedTree'
    BY DEF SharedTree, Underway, Rolling
  <2>2. SharedJournal'
    BY DEF Even, SharedJournal, Installing, Rolling, EntrySteps, ApplySteps, WholeJournal,
       OneVersion, MustRecover, Lost
  <2>3. SharedEntry' /\ SharedCurrent'
    BY DEF SharedEntry, SharedCurrent, Installing, EntrySteps, ApplySteps
  <2>4. SharedRollback'
    <3>1. SharedPaths \ todo' = {}
      BY DEF Even, SharedJournal, WholeJournal
    <3> QED
      BY <3>1 DEF SharedRollback, Rolling, RestoreSteps
  <2> QED
    BY <2>1, <2>2, <2>3, <2>4 DEF Even
<1>2. CASE ~StartRecovery
  <2>1. /\ UNCHANGED <<disk, unsynced, txn>> /\ Elsewhere' /\ job' # "commit"
    BY <1>2 DEF BootStep, ArmHealthCheck, ArmFails, NothingToRecover, RecoveryError,
       CleanAbandoned, StartAbort, BootNormal, EnterOta, OtaUnavailable, loop, flash, run,
       Elsewhere
  <2>2. SharedTree'
    <3>1. CASE Underway
      <4>1. MustRecover /\ mode = "boot" /\ pc = "idle"
        BY <1>2, <3>1 DEF BootStep, ArmHealthCheck, ArmFails, NothingToRecover,
           CleanAbandoned, BootNormal, EnterOta, OtaUnavailable, Underway, Installing,
           Rolling, EntrySteps, ApplySteps, RestoreSteps
      <4>2. NothingToRecover
        BY <1>2, <4>1 DEF BootStep, ArmHealthCheck, ArmFails, NothingToRecover,
           CleanAbandoned, BootNormal, EnterOta, OtaUnavailable, MustRecover
      <4> QED
        BY <4>1, <4>2 DEF NothingToRecover, RecoveryError, SharedTree, Underway,
           MustRecover, flash
    <3>2. CASE ~Underway
      BY <2>1, <3>2, TreeUnchanged DEF Even
    <3> QED
      BY <3>1, <3>2
  <2> QED
    BY <2>1, <2>2, IdleEven
<1> QED
  BY <1>1, <1>2

LEMMA WipeKeeps ==
  ASSUME Typed, NEW S \in SUBSET (Slots \ {"live"}), ClearSlots(S)
  PROVE  /\ disk'["live"] = disk["live"]
         /\ \A p \in SharedPaths : Flushed(p) => Flushed(p)'
BY DEF ClearSlots, Flushed, Typed, FilesTyped, Slots

LEMMA EvenWipe == ASSUME blind \subseteq blind', Typed, Jobs, Even, WipeStep PROVE Even'
<1>1. ~Underway
  BY DEF WipeStep, WipeNext, WipeDone, ClearAborted, ClearRecovered, Underway, Installing,
     Rolling, EntrySteps, ApplySteps, RestoreSteps, Jobs
<1>2. Elsewhere' /\ (job' = "commit" => pc' \in {"wipe", "savePending"})
  BY DEF WipeStep, WipeNext, WipeDone, ClearAborted, ClearRecovered, Return, RecoveryError,
     Elsewhere, Jobs
<1>3. /\ txn' \in {txn, NoTxn}
      /\ UNCHANGED <<disk, unsynced>> \/ (\E S \in SUBSET (Slots \ {"live"}) : ClearSlots(S))
  BY DEF WipeStep, WipeNext, Remove, WipeDone, ClearAborted, ClearRecovered, flash, Slots
<1>4. SharedTree'
  BY <1>1, <1>3, TreeKept, TreeUnchanged, WipeKeeps DEF Even, SharedTree
<1> QED
  BY <1>2, <1>3, <1>4, IdleEven

(* A commit in front of its first change, and a failure there.             *)
LEMMA OtaIdle ==
  ASSUME Jobs, mode = "ota", ~Installing, ~Rolling PROVE ~Underway
BY DEF Jobs, Underway

LEMMA HandlerQuiet ==
  ASSUME Jobs, HandlerStep PROVE mode = "ota" /\ ~Installing /\ ~Rolling
BY DEF Jobs, HandlerStep, HandleBegin, RejectBegin, DenyBegin, SaveBegin, WriteManifest,
   HandleFile, HandleAbort, HandleCommit, BuildTransaction, WriteTransaction, SaveApplying,
   SavePending, Take, Polling, Installing, Rolling, EntrySteps, ApplySteps, RestoreSteps

LEMMA EvenBuild == ASSUME blind \subseteq blind', Typed, Jobs, Even, BuildTransaction PROVE Even'
<1>1. ~Underway
  BY HandlerQuiet, OtaIdle DEF HandlerStep
<1>2. SharedTree'
  BY <1>1, TreeUnchanged DEF Even, BuildTransaction, flash
<1>3. CASE Return(FALSE)
  BY <1>2, <1>3, IdleEven DEF BuildTransaction, Return, flash, Elsewhere
<1>4. CASE ~Return(FALSE)
  <2> USE <1>4 DEF BuildTransaction, flash
  <2>1. /\ pc = "build" /\ pc' = "writeTxn" /\ job' = job /\ job = "commit"
        /\ manifest \in Packages
    BY DEF Jobs, Typed, ControlTyped, EntrySteps, ApplySteps, RestoreSteps
  <2>2. \A p \in SharedPaths : p \in Installed(manifest)
    BY <2>1, PackagePaths
  <2>3. \A p \in SharedPaths :
          /\ p \in DOMAIN journal'
          /\ journal'[p] = disk["live"][p] \/ Missing(p)'
    <3>1. \A p \in SharedPaths : p \in DOMAIN Originals /\ Originals[p] = disk["live"][p]
      BY <2>2 DEF Originals
    <3>2. \/ journal' = Originals
          \/ /\ "file" \in blind'
             /\ \E q \in DOMAIN Originals : journal' = [Originals EXCEPT ![q] = Absent]
      BY DEF Missed
    <3>3. Originals = [q \in DOMAIN Originals |-> Originals[q]]
      BY DEF Originals
    <3> QED
      BY <3>1, <3>2, <3>3 DEF Missing, Lost
  <2>4. OneVersion(disk["live"]) /\ \A p \in SharedPaths : Flushed(p)
    BY <1>1 DEF Even, SharedTree
  <2>5. WholeJournal(journal)'
    BY <2>3, <2>4 DEF WholeJournal, OneVersion, Missing, Lost
  <2>6. SharedJournal'
    BY <2>1, <2>5 DEF Even, SharedJournal, Rolling, WholeJournal, OneVersion, Lost
  <2>7. SharedEntry' /\ SharedCurrent'
    BY <2>1, <2>3, <2>4 DEF Even, SharedEntry, SharedCurrent, Installing, EntrySteps,
       ApplySteps, Kept, Before, Flushed, Staged, Missing, Lost
  <2>8. SharedRollback'
    BY <2>1 DEF SharedRollback, Rolling
  <2> QED
    BY <1>2, <2>6, <2>7, <2>8 DEF Even
<1> QED
  BY <1>3, <1>4

(* The journal cannot be written, or "applying" cannot be saved: nothing   *)
(* has been touched and there is no backup to restore.                     *)
LEMMA EvenUndoAtOnce ==
  ASSUME blind \subseteq blind', "file" \notin blind, Typed, Jobs, Even, pc \in {"writeTxn", "saveApplying"}, StartUndo, NoBackup,
         UNCHANGED <<disk, unsynced, mode, armed>>, txn' \in {txn, journal}
  PROVE  Even'
<1> USE DEF StartUndo
<1>1. job' = "undo" /\ pc' = "rollback"
  OBVIOUS
<1>2. \A p \in SharedPaths : Kept(p)' /\ disk'["backup"][p] = Absent
  BY SharedPath DEF Even, SharedEntry, Kept, Before, Flushed, NoBackup, Missing, Lost
<1>3. WholeJournal(journal)
  BY DEF Even, SharedJournal
<1>4. SharedTree'
  <2>1. OneVersion(disk'["live"])
    BY <1>2, <1>3, SameVersion DEF WholeJournal, Kept, Before, Missing, Lost
  <2> QED
    BY <1>2, <2>1 DEF SharedTree, Kept, OneVersion, Lost, Missing
<1>5. SharedJournal'
  BY <1>1, <1>3 DEF Even, SharedJournal, WholeJournal, OneVersion, Lost
<1>6. SharedEntry' /\ SharedCurrent'
  BY <1>1 DEF SharedEntry, SharedCurrent, Installing, EntrySteps, ApplySteps
<1>7. SharedRollback'
  BY <1>1, <1>2 DEF SharedRollback, Kept, Before, Flushed, RestoreSteps, Missing, Lost
<1> QED
  BY <1>4, <1>5, <1>6, <1>7 DEF Even

LEMMA EvenWriteTransaction ==
  ASSUME blind \subseteq blind', Typed, Jobs, Even, Fault => NoBackup /\ "file" \notin blind, WriteTransaction PROVE Even'
<1> USE DEF WriteTransaction
<1>1. CASE StartUndo
  <2>1. Fault
    BY <1>1 DEF StartUndo
  <2> QED
    BY <1>1, <2>1, EvenUndoAtOnce DEF run
<1>2. CASE ~StartUndo
  <2>1. ~Underway
    BY HandlerQuiet, OtaIdle DEF HandlerStep
  <2>2. SharedTree'
    BY <2>1, TreeUnchanged DEF Even
  <2>3. pc' = "saveApplying" /\ UNCHANGED <<job, journal, manifest>> /\ txn' = journal
    BY <1>2 DEF loop
  <2>4. SharedJournal'
    BY <2>3 DEF Even, SharedJournal, Rolling, RestoreSteps, WholeJournal, OneVersion, Lost
  <2>5. SharedEntry' /\ SharedCurrent'
    BY <2>3 DEF Even, SharedEntry, SharedCurrent, Installing, EntrySteps, ApplySteps, Kept,
       Before, Flushed, Staged, Missing, Lost
  <2>6. SharedRollback'
    BY <2>3 DEF SharedRollback, Rolling, RestoreSteps
  <2> QED
    BY <2>2, <2>4, <2>5, <2>6 DEF Even
<1> QED
  BY <1>1, <1>2

LEMMA EvenSaveApplying ==
  ASSUME blind \subseteq blind', Typed, Jobs, Even, Fault => NoBackup /\ "file" \notin blind, SaveApplying PROVE Even'
<1> USE DEF SaveApplying
<1>1. CASE StartUndo
  <2>1. Fault
    BY <1>1 DEF StartUndo
  <2> QED
    BY <1>1, <2>1, EvenUndoAtOnce DEF run
<1>2. CASE ~StartUndo
  <2>1. pc' = "apply" /\ UNCHANGED <<job, journal, manifest, txn>> /\ todo' = DOMAIN journal
    BY <1>2
  <2>2. SharedTree'
    BY <2>1 DEF SharedTree, Underway, Installing
  <2>3. SharedJournal'
    BY <2>1 DEF Even, SharedJournal, Rolling, RestoreSteps, WholeJournal, OneVersion, Lost
  <2>4. SharedPaths \ todo' = {}
    BY <2>1 DEF Even, SharedJournal, WholeJournal
  <2>5. SharedEntry' /\ SharedCurrent'
    BY <2>1, <2>4 DEF Even, SharedEntry, SharedCurrent, Installing, EntrySteps, ApplySteps,
       Kept, Before, Flushed, Staged, Jobs, Missing, Lost
  <2>6. SharedRollback'
    BY <2>1 DEF SharedRollback, Rolling, RestoreSteps
  <2> QED
    BY <2>2, <2>3, <2>5, <2>6 DEF Even
<1> QED
  BY <1>1, <1>2

LEMMA EvenCommit == ASSUME blind \subseteq blind', Typed, Jobs, Even, HandleCommit PROVE Even'
<1> USE DEF HandleCommit, flash
<1>1. ~Underway
  BY HandlerQuiet, OtaIdle DEF HandlerStep
<1>2. SharedTree'
  BY <1>1, TreeUnchanged DEF Even
<1>3. CASE Verified
  <2>1. job' = "commit" /\ pc' = "build" /\ UNCHANGED <<disk, manifest, txn>>
    BY <1>3
  <2>2. manifest \in Packages
    BY <1>3 DEF Verified, Typed, ControlTyped
  <2>3. manifest # NoManifest /\ \A p \in SharedPaths : Staged(p)'
    BY <1>3, <2>1, <2>2, PackagePaths DEF Verified, Staged
  <2>4. SharedJournal'
    BY <2>1 DEF Even, SharedJournal, Installing, Rolling, EntrySteps, ApplySteps,
       WholeJournal, OneVersion, Lost
  <2>5. SharedEntry' /\ SharedCurrent'
    BY <2>1, <2>3 DEF SharedEntry, SharedCurrent, Installing, EntrySteps, ApplySteps
  <2>6. SharedRollback'
    BY <2>1 DEF SharedRollback, Rolling
  <2> QED
    BY <1>2, <2>4, <2>5, <2>6 DEF Even
<1>4. CASE ~Verified
  BY <1>2, <1>4, IdleEven DEF AnswerNow, Take, Polling, Elsewhere, Jobs
<1> QED
  BY <1>3, <1>4

LEMMA EvenHandler ==
  ASSUME blind \subseteq blind', Typed, Jobs, Even, HandlerStep,
         Fault /\ pc \in {"writeTxn", "saveApplying"} => NoBackup,
         Fault => "file" \notin blind
  PROVE  Even'
<1>1. CASE HandleCommit \/ BuildTransaction \/ WriteTransaction \/ SaveApplying
  <2>1. WriteTransaction \/ SaveApplying => pc \in {"writeTxn", "saveApplying"}
    BY DEF WriteTransaction, SaveApplying
  <2> QED
    BY <1>1, <2>1, EvenCommit, EvenBuild, EvenWriteTransaction, EvenSaveApplying
<1>2. CASE HandleFile
  <2>1. /\ Elsewhere' /\ job' = "none" /\ txn' = txn
        /\ disk'["live"] = disk["live"] /\ \A p \in Paths : Flushed(p) => Flushed(p)'
    BY <1>2 DEF HandleFile, Take, Polling, AnswerNow, Put, Elsewhere, Jobs, Typed,
       FilesTyped, Slots, Flushed
  <2>2. SharedTree'
    BY <2>1, TreeKept, HandlerQuiet, OtaIdle, SharedPath DEF Even, SharedTree
  <2> QED
    BY <2>1, <2>2, IdleEven
<1>3. CASE HandleBegin \/ RejectBegin \/ DenyBegin \/ SaveBegin \/ WriteManifest
           \/ HandleAbort \/ SavePending
  <2>1. UNCHANGED <<disk, unsynced, txn>>
    BY <1>3 DEF HandleBegin, RejectBegin, DenyBegin, SaveBegin, WriteManifest, HandleAbort,
       SavePending, flash
  <2>2. Elsewhere' /\ job' # "commit"
    BY <1>3 DEF HandleBegin, RejectBegin, DenyBegin, SaveBegin, WriteManifest, HandleAbort,
       SavePending, Take, Polling, Jobs, PollError, StartAbort, Return, Elsewhere,
       AnswerNow, EntrySteps, ApplySteps, RestoreSteps
  <2>3. SharedTree'
    BY <2>1, TreeUnchanged, HandlerQuiet, OtaIdle DEF Even
  <2> QED
    BY <2>1, <2>2, <2>3, IdleEven
<1> QED
  BY <1>1, <1>2, <1>3 DEF HandlerStep

(* The install goes on with the next step of an entry. *)
LEMMA InstallGoesOn ==
  ASSUME blind \subseteq blind', Even, job = "commit", job' = job, UNCHANGED <<txn, journal>>, Installing,
         Installing', SharedEntry', SharedCurrent'
  PROVE  Even'
<1>1. SharedTree'
  BY DEF SharedTree, Underway
<1>2. SharedJournal'
  BY DEF Even, SharedJournal, Rolling, WholeJournal, OneVersion, Lost
<1>3. SharedRollback'
  BY DEF SharedRollback, Rolling
<1> QED
  BY <1>1, <1>2, <1>3 DEF Even

(* An entry fails: each shared file is kept or backed up. *)
LEMMA EvenApplyFails ==
  ASSUME blind \subseteq blind', Typed, Jobs, Even, pc \in EntrySteps \ {"remove"}, ApplyFails
  PROVE  Even'
<1> USE DEF ApplyFails, StartUndo
<1>1. job' = "undo" /\ pc' = "rollback" /\ phase' = "applying" /\ job = "commit"
  BY DEF Jobs, EntrySteps, ApplySteps, RestoreSteps
<1>2. WholeJournal(journal) /\ UNCHANGED <<journal, txn>>
  BY DEF Even, SharedJournal, Installing
<1>3. SharedPaths \ todo' = {}
  BY <1>2 DEF WholeJournal
<1>4. \A p \in SharedPaths : Kept(p) \/ BackedUp(p) \/ Missing(p)
  BY DEF Even, SharedEntry, SharedCurrent, Installing, EntrySteps, ApplySteps
<1>5. /\ disk'["live"] = disk["live"] /\ disk'["backup"] = disk["backup"]
      /\ \A p \in SharedPaths : Flushed(p) => Flushed(p)'
  BY DEF Put, Typed, FilesTyped, Slots, Flushed
<1>6. \A p \in SharedPaths : Kept(p)' \/ BackedUp(p)' \/ Missing(p)'
  BY <1>2, <1>4, <1>5 DEF Kept, Before, BackedUp, Missing, Lost
<1>7. SharedTree'
  BY <1>1 DEF SharedTree, Underway, Rolling
<1>8. SharedJournal'
  BY <1>1, <1>2 DEF Even, SharedJournal, WholeJournal, OneVersion, Lost
<1>9. SharedEntry' /\ SharedCurrent'
  BY <1>1 DEF SharedEntry, SharedCurrent, Installing, EntrySteps, ApplySteps
<1>10. SharedRollback'
  BY <1>1, <1>3, <1>6 DEF SharedRollback, RestoreSteps
<1> QED
  BY <1>7, <1>8, <1>9, <1>10 DEF Even

(* The shared files are replaced, never deleted. *)
LEMMA SharedInstalled ==
  ASSUME Typed, Even, Installing, job = "commit"
  PROVE  manifest \in Packages /\ \A p \in SharedPaths : p \in Installed(manifest)
<1>1. manifest # NoManifest
  BY DEF Even, SharedEntry, Installing, EntrySteps, ApplySteps
<1> QED
  BY <1>1, PackagePaths DEF Typed, ControlTyped

LEMMA EvenApply == ASSUME blind \subseteq blind', Typed, Jobs, Even, ApplyStep PROVE Even'
<1>1. ASSUME NEW p \in Paths, NextFile(p) PROVE Even'
  <2> USE <1>1 DEF NextFile, Applying
  <2>1. SharedEntry'
    BY DEF Even, SharedEntry, Installing, EntrySteps, ApplySteps, Kept, Before, Flushed,
       Staged, BackedUp, Missing, Lost
  <2>2. SharedCurrent'
    BY DEF Even, SharedEntry, SharedCurrent, Installing, EntrySteps, ApplySteps, Staged,
       Kept, Before, Flushed, Missing, Lost
  <2> QED
    BY <2>1, <2>2, InstallGoesOn DEF Installing, EntrySteps, ApplySteps
<1>2. ASSUME NEW p \in Paths, NextDelete(p) PROVE Even'
  <2> USE <1>2 DEF NextDelete, Applying
  <2>1. p \notin SharedPaths /\ Installing /\ Installing'
    BY SharedInstalled DEF Installing, EntrySteps, ApplySteps
  <2>2. SharedEntry'
    BY <2>1 DEF Even, SharedEntry, Installing, EntrySteps, ApplySteps, Kept, Before,
       Flushed, Staged, BackedUp, Missing, Lost
  <2>3. SharedCurrent'
    BY <2>1 DEF SharedCurrent, EntrySteps, ApplySteps
  <2> QED
    BY <2>1, <2>2, <2>3, InstallGoesOn
<1>3. CASE CopyFresh \/ CopyBackup \/ SyncBackupTmp \/ RenameBackup \/ SyncBackup
           \/ RemoveLive \/ InstallFresh
  <2>1. /\ job = "commit" /\ job' = job /\ pc \in EntrySteps /\ pc' \in EntrySteps
        /\ cur \in Paths /\ UNCHANGED <<txn, journal, cur, todo, manifest>>
    BY <1>3 DEF CopyFresh, CopyBackup, SyncBackupTmp, RenameBackup, SyncBackup, RemoveLive,
       InstallFresh, AfterRemove, Applying, EntrySteps, ApplySteps, Typed, ControlTyped
  <2>2. \A p \in SharedPaths \ {cur} :
          /\ disk'["live"][p] = disk["live"][p]
          /\ disk'["backup"][p] = disk["backup"][p]
          /\ disk'["stage"][p] = disk["stage"][p]
          /\ Flushed(p) => Flushed(p)'
    BY <1>3, <2>1, SharedPath DEF CopyFresh, CopyBackup, SyncBackupTmp, RenameBackup,
       SyncBackup, RemoveLive, InstallFresh, Put, Rename, Sync, Typed, FilesTyped, Slots,
       Flushed
  <2>3. SharedEntry'
    <3> DEFINE Done(p) == /\ disk["live"][p] = manifest.to
                          /\ BackedUp(p) \/ Missing(p)
                          /\ Flushed(p)
    <3>1. \A p \in SharedPaths \ {cur} :
            /\ Kept(p) => Kept(p)'
            /\ Missing(p) => Missing(p)'
            /\ Staged(p) => Staged(p)'
            /\ Done(p) => Done(p)'
      BY <2>1, <2>2 DEF Kept, Before, Staged, BackedUp, Missing, Lost
    <3>2. manifest # NoManifest /\ cur \notin todo
      BY <2>1 DEF Even, SharedEntry, SharedCurrent, Installing, EntrySteps, ApplySteps
    <3>3. /\ \A p \in SharedPaths \cap todo : (Kept(p) \/ Missing(p)) /\ Staged(p)
          /\ \A p \in SharedPaths \ todo : Done(p) \/ p = cur
      BY <2>1 DEF Even, SharedEntry, Installing
    <3>4. /\ \A p \in SharedPaths \cap todo' : (Kept(p)' \/ Missing(p)') /\ Staged(p)'
          /\ \A p \in SharedPaths \ todo' : Done(p)' \/ p = cur'
      BY <2>1, <3>1, <3>2, <3>3
    <3> QED
      BY <2>1, <3>2, <3>4 DEF SharedEntry, EntrySteps, ApplySteps
  <2>4. SharedCurrent'
    <3>1. cur \notin todo
      BY <2>1 DEF Even, SharedCurrent
    <3>2. CASE cur \notin SharedPaths
      BY <2>1, <3>1, <3>2 DEF SharedCurrent
    <3>3. CASE cur \in SharedPaths
      <4>1. cur \in Installed(manifest) /\ (journal[cur] = Absent => Missing(cur))
        BY <2>1, <3>3, SharedInstalled, JournalHas DEF Installing, Even, SharedJournal,
           Missing, Lost
      <4>2. CASE CopyFresh
        BY <2>1, <3>1, <3>3, <4>1, <4>2 DEF CopyFresh, Put, Even, SharedCurrent, EntrySteps,
           ApplySteps, Kept, Before, Flushed, Staged, Typed, FilesTyped, Slots, SharedEntry,
           Missing, Lost
      <4>3. CASE CopyBackup
        BY <2>1, <3>1, <3>3, <4>1, <4>3 DEF CopyBackup, Put, Even, SharedCurrent,
           EntrySteps, ApplySteps, Kept, Before, Flushed, Typed, FilesTyped, Slots, Missing,
           Lost
      <4>4. CASE SyncBackupTmp
        BY <2>1, <3>1, <3>3, <4>1, <4>4 DEF SyncBackupTmp, Sync, Even, SharedCurrent,
           EntrySteps, ApplySteps, Kept, Before, Flushed, Missing, Lost
      <4>5. CASE RenameBackup
        BY <2>1, <3>1, <3>3, <4>1, <4>5 DEF RenameBackup, Rename, Even, SharedCurrent,
           EntrySteps, ApplySteps, Kept, Before, Flushed, BackedUp, Typed, FilesTyped,
           Slots, Missing, Lost
      <4>6. CASE SyncBackup
        BY <2>1, <3>1, <3>3, <4>1, <4>6 DEF SyncBackup, Sync, Even, SharedCurrent,
           EntrySteps, ApplySteps, BackedUp, Missing, Lost
      <4>7. CASE RemoveLive
        BY <2>1, <3>1, <3>3, <4>1, <4>7 DEF RemoveLive, AfterRemove, Put, Even,
           SharedCurrent, EntrySteps, ApplySteps, BackedUp, Missing, Lost, Typed,
           FilesTyped, Slots
      <4>8. CASE InstallFresh
        BY <2>1, <3>1, <3>3, <4>1, <4>8 DEF InstallFresh, Rename, Even, SharedCurrent,
           EntrySteps, ApplySteps, BackedUp, Missing, Lost, Typed, FilesTyped, Slots
      <4> QED
        BY <1>3, <4>2, <4>3, <4>4, <4>5, <4>6, <4>7, <4>8
    <3> QED
      BY <3>2, <3>3
  <2> QED
    BY <2>1, <2>3, <2>4, InstallGoesOn DEF Installing
<1>4. CASE SyncInstalled
  <2> USE <1>4 DEF SyncInstalled, Applying, Sync
  <2>1. \A p \in SharedPaths : Flushed(p)'
    BY DEF Flushed
  <2>2. SharedEntry'
    BY <2>1 DEF Even, SharedEntry, SharedCurrent, Installing, EntrySteps, ApplySteps, Kept,
       Before, Staged, BackedUp, Missing, Lost
  <2>3. SharedCurrent'
    BY DEF SharedCurrent, EntrySteps, ApplySteps
  <2> QED
    BY <2>2, <2>3, InstallGoesOn DEF Installing, EntrySteps, ApplySteps
<1>5. CASE ApplyDone
  <2> USE <1>5 DEF ApplyDone, flash
  <2>1. job = "commit" /\ Installing
    BY DEF Jobs, Installing, EntrySteps, ApplySteps, RestoreSteps
  <2>2. \A p \in SharedPaths : disk["live"][p] = manifest.to /\ Flushed(p)
    BY DEF Even, SharedEntry, Installing, EntrySteps, ApplySteps
  <2>3. manifest.to \in Versions
    BY <2>1, SharedInstalled, PackagePaths
  <2>4. SharedTree'
    BY <2>2, <2>3 DEF SharedTree, OneVersion, Flushed, Lost
  <2> QED
    BY <2>4, IdleEven DEF Elsewhere
<1>6. CASE ApplyFault \/ ApplyBlocked
  BY <1>6, EvenApplyFails DEF ApplyFault, ApplyBlocked, EntrySteps, ApplySteps
<1> QED
  BY <1>1, <1>2, <1>3, <1>4, <1>5, <1>6 DEF ApplyStep

(* The rollback goes on with the next step or the next path. *)
LEMMA RollbackGoesOn ==
  ASSUME blind \subseteq blind', Even, job' = job, UNCHANGED <<txn, journal, phase, armed>>, Rolling, Rolling',
         SharedRollback'
  PROVE  Even'
<1>1. WholeJournal(journal)
  BY DEF Even, SharedJournal
<1>2. SharedTree'
  <2>1. CASE job = "undo" /\ phase # "applying"
    <3>1. \A p \in SharedPaths : disk'["live"][p] = journal[p] /\ Flushed(p)'
      BY <2>1 DEF SharedRollback, Kept, Before, Missing, Lost
    <3> QED
      BY <1>1, <3>1, SameVersion DEF WholeJournal, SharedTree, OneVersion, Lost
  <2>2. CASE ~(job = "undo" /\ phase # "applying")
    BY <2>2 DEF SharedTree, Underway
  <2> QED
    BY <2>1, <2>2
<1>3. SharedJournal'
  BY <1>1 DEF Even, SharedJournal, WholeJournal, OneVersion, MustRecover, Lost
<1>4. SharedEntry' /\ SharedCurrent'
  BY DEF SharedEntry, SharedCurrent, Installing, Rolling, EntrySteps, ApplySteps,
     RestoreSteps
<1> QED
  BY <1>2, <1>3, <1>4 DEF Even

(* A path that is not shared does not matter to the others. *)
LEMMA EvenRollbackPath ==
  ASSUME blind \subseteq blind', Typed, Jobs, Even, Fault => job # "undo" /\ "file" \notin blind,
         NEW p \in Paths, RollbackPath(p)
  PROVE  Even'
<1> USE DEF RollbackPath, RollingBack
<1>1. /\ Rolling /\ Rolling' /\ job' = job /\ pc = "rollback"
      /\ UNCHANGED <<txn, journal, phase, armed>> /\ todo' = todo \ {p}
      /\ failed => failed'
  BY DEF Rolling, RestoreSteps, run, Typed, FlagsTyped
<1>2. \A q \in SharedPaths : q \in Paths /\ (journal[q] = Absent => Missing(q))
  BY <1>1, JournalHas, SharedPath DEF Even, SharedJournal, Missing, Lost
<1>3. /\ disk'["backup"] = disk["backup"]
      /\ \A q \in SharedPaths :
           /\ \/ disk'["live"][q] = disk["live"][q]
              \/ q = p /\ journal[p] = Absent /\ disk'["live"][p] = Absent
           /\ Flushed(q) => Flushed(q)'
  BY <1>2 DEF Put, Typed, FilesTyped, Slots, Flushed
<1>4. \A q \in SharedPaths : (Before(q) => Before(q)') /\ (BackedUp(q) => BackedUp(q)')
                             /\ (Kept(q) => Kept(q)') /\ (Missing(q) => Missing(q)')
  BY <1>1, <1>3 DEF Before, BackedUp, Kept, Missing, Lost
<1>5. \/ /\ pc' = "restoreCopy" /\ cur' = p /\ BackedUp(p) /\ journal[p] # Absent
         /\ UNCHANGED failed
      \/ /\ pc' = "rollback" /\ journal[p] # Absent
         /\ failed' \/ Before(p)
         /\ job = "undo" => ~BackedUp(p)
      \/ /\ pc' = "rollback" /\ journal[p] = Absent
         /\ p \in SharedPaths => Kept(p)'
  <2>1. CASE journal[p] # Absent
    BY <1>1, <2>1 DEF BackedUp, Before, Missing, Lost
  <2>2. CASE journal[p] = Absent
    <3>1. CASE Fault
      <4>1. p \notin SharedPaths
        BY <1>2, <2>2, <3>1 DEF Missing, Lost
      <4> QED
        BY <1>1, <2>2, <3>1, <4>1
    <3>2. CASE ~Fault
      <4>1. disk'["live"][p] = Absent /\ Flushed(p)'
        BY <2>2, <3>2 DEF Typed, FilesTyped, Slots, Flushed
      <4> QED
        BY <1>1, <2>2, <3>2, <4>1 DEF Kept, Before, Missing, Lost
    <3> QED
      BY <3>1, <3>2
  <2> QED
    BY <2>1, <2>2
<1>6. SharedRollback'
  <2> USE DEF Even, SharedRollback
  <2>1. \A q \in SharedPaths \ todo' :
          failed' \/ Before(q)' \/ (pc' \in RestoreSteps /\ q = cur')
    BY <1>1, <1>4, <1>5 DEF RestoreSteps, Kept, Missing, Lost
  <2>2. pc' \in RestoreSteps /\ cur' \in SharedPaths =>
          BackedUp(cur)' /\ journal'[cur'] # Absent /\ pc' = "restoreCopy"
    BY <1>1, <1>4, <1>5 DEF RestoreSteps
  <2>3. CASE job = "undo"
    <3>1. \A q \in SharedPaths \cap todo' : Kept(q)' \/ BackedUp(q)' \/ Missing(q)'
      BY <1>1, <1>4, <2>3
    <3>2. \A q \in SharedPaths \ todo' : Kept(q)' \/ (pc' \in RestoreSteps /\ q = cur')
      BY <1>1, <1>4, <1>5, <2>3 DEF RestoreSteps, Missing, Lost
    <3>3. phase # "applying" => \A q \in SharedPaths : Kept(q)' /\ disk'["backup"][q] = Absent
      BY <1>1, <1>3, <1>4, <2>3
    <3> QED
      BY <1>1, <2>1, <2>2, <3>1, <3>2, <3>3
  <2>4. CASE job # "undo"
    BY <1>1, <2>1, <2>2, <2>4
  <2> QED
    BY <2>3, <2>4
<1> QED
  BY <1>1, <1>6, RollbackGoesOn

LEMMA EvenRestore ==
  ASSUME blind \subseteq blind', Typed, Jobs, Even,
         RestoreCopy \/ RestoreSync \/ RestoreRemove \/ RestoreRename
  PROVE  Even'
<1>1. /\ Rolling /\ Rolling' /\ job' = job /\ pc \in RestoreSteps /\ pc' \in RestoreSteps
      /\ UNCHANGED <<txn, journal, phase, armed, cur, todo, failed>> /\ cur \in Paths
  BY DEF RestoreCopy, RestoreSync, RestoreRemove, RestoreRename, RollingBack, Rolling,
     RestoreSteps, run, Typed, ControlTyped
<1>2. \A q \in SharedPaths : q \in Paths
  BY SharedPath
<1>3. /\ disk'["backup"] = disk["backup"]
      /\ \A q \in SharedPaths \ {cur} :
           disk'["live"][q] = disk["live"][q] /\ (Flushed(q) => Flushed(q)')
  BY <1>1, <1>2 DEF RestoreCopy, RestoreSync, RestoreRemove, RestoreRename, Put, Rename,
     Sync, Typed, FilesTyped, Slots, Flushed
<1>4. \A q \in SharedPaths : (BackedUp(q) <=> BackedUp(q)') /\ (Missing(q) => Missing(q)')
  BY <1>1, <1>3 DEF BackedUp, Missing, Lost
<1>5. \A q \in SharedPaths \ {cur} : (Before(q) => Before(q)') /\ (Kept(q) => Kept(q)')
  BY <1>1, <1>3 DEF Before, Kept, Missing, Lost
<1>6. ASSUME cur \in SharedPaths
      PROVE  /\ BackedUp(cur) /\ journal[cur] # Absent
             /\ pc' \in {"restoreSync", "restoreRemove", "restoreRename"} =>
                  disk'["restore"][cur] = journal[cur]
             /\ pc' = "restoreDone" => Before(cur)'
  <2>1. /\ BackedUp(cur) /\ journal[cur] # Absent
        /\ pc \in {"restoreSync", "restoreRemove", "restoreRename"} =>
             disk["restore"][cur] = journal[cur]
    BY <1>1, <1>6 DEF Even, SharedRollback
  <2>2. CASE RestoreCopy
    BY <1>1, <2>1, <2>2 DEF RestoreCopy, Put, BackedUp, Typed, FilesTyped, Slots
  <2>3. CASE RestoreSync
    BY <1>1, <2>1, <2>3 DEF RestoreSync, Sync
  <2>4. CASE RestoreRemove
    BY <1>1, <2>1, <2>4 DEF RestoreRemove, Put, Typed, FilesTyped, Slots
  <2>5. CASE RestoreRename
    BY <1>1, <2>1, <2>5 DEF RestoreRename, Rename, Before, Typed, FilesTyped, Slots,
       Missing, Lost
  <2> QED
    BY <2>1, <2>2, <2>3, <2>4, <2>5
<1>7. SharedRollback'
  <2> USE DEF Even, SharedRollback
  <2>1. /\ \A q \in SharedPaths \ todo' :
             failed' \/ Before(q)' \/ (pc' \in RestoreSteps /\ q = cur')
        /\ pc' \in RestoreSteps /\ cur' \in SharedPaths =>
             /\ BackedUp(cur)' /\ journal'[cur'] # Absent
             /\ pc' \in {"restoreSync", "restoreRemove", "restoreRename"} =>
                  disk'["restore"][cur'] = journal'[cur']
             /\ pc' = "restoreDone" => Before(cur)'
    BY <1>1, <1>4, <1>5, <1>6
  <2>2. CASE job = "undo"
    <3>1. \A q \in SharedPaths \cap todo' : Kept(q)' \/ BackedUp(q)' \/ Missing(q)'
      BY <1>1, <1>4, <1>5, <1>6, <2>2
    <3>2. \A q \in SharedPaths \ todo' : Kept(q)' \/ (pc' \in RestoreSteps /\ q = cur')
      BY <1>1, <1>5, <2>2
    <3>3. ASSUME phase # "applying", NEW q \in SharedPaths
          PROVE  Kept(q)' /\ disk'["backup"][q] = Absent
      BY <1>1, <1>2, <1>3, <1>5, <1>6, <2>2, <3>3 DEF BackedUp
    <3> QED
      BY <1>1, <2>1, <3>1, <3>2, <3>3
  <2>3. CASE job # "undo"
    BY <1>1, <2>1, <2>3
  <2> QED
    BY <2>2, <2>3
<1> QED
  BY <1>1, <1>7, RollbackGoesOn

LEMMA EvenRollback ==
  ASSUME blind \subseteq blind', Typed, Jobs, Even, RollbackStep,
         Fault => job # "undo" /\ "file" \notin blind
  PROVE  Even'
<1>1. ASSUME NEW p \in Paths, RollbackPath(p) PROVE Even'
  BY <1>1, EvenRollbackPath
<1>2. CASE RestoreCopy \/ RestoreSync \/ RestoreRemove \/ RestoreRename
  BY <1>2, EvenRestore
<1>3. CASE RestoreDone
  <2> USE <1>3 DEF RestoreDone, RollingBack, Sync
  <2>1. /\ Rolling /\ Rolling' /\ job' = job /\ pc = "restoreDone" /\ pc' = "rollback"
        /\ UNCHANGED <<disk, txn, journal, phase, armed, todo, failed>>
    BY DEF Rolling, RestoreSteps, run
  <2>2. \A p \in SharedPaths : /\ Before(p) => Kept(p)' /\ Before(p)'
                               /\ Kept(p) => Kept(p)'
                               /\ BackedUp(p) => BackedUp(p)'
                               /\ Missing(p) => Missing(p)'
    BY <2>1 DEF Before, Kept, Flushed, BackedUp, Missing, Lost
  <2>3. cur \in SharedPaths => Before(cur)
    BY <2>1 DEF Even, SharedRollback, RestoreSteps
  <2>4. SharedRollback'
    BY <2>1, <2>2, <2>3 DEF Even, SharedRollback, RestoreSteps
  <2> QED
    BY <2>1, <2>4, RollbackGoesOn
<1>4. CASE RestoreFault
  <2> USE <1>4 DEF RestoreFault, RollingBack
  <2>1. /\ Rolling /\ Rolling' /\ job' = job /\ pc' = "rollback" /\ failed' = TRUE
        /\ UNCHANGED <<txn, journal, phase, armed>> /\ job = "recover"
    BY DEF Rolling, RestoreSteps, run
  <2>2. SharedRollback'
    BY <2>1 DEF SharedRollback, RestoreSteps
  <2> QED
    BY <2>1, <2>2, RollbackGoesOn
<1>5. CASE RollbackDone
  <2> USE <1>5 DEF RollbackDone
  <2>1. CASE Fault /\ failed' = TRUE /\ UNCHANGED <<disk, unsynced, pc>>
    <3>1. /\ Rolling /\ Rolling' /\ job' = job /\ job # "undo"
          /\ UNCHANGED <<txn, journal, phase, armed>> /\ pc' = "rollback"
      BY <2>1 DEF Jobs, Rolling, EntrySteps, ApplySteps, RestoreSteps, run
    <3>2. SharedRollback'
      BY <2>1, <3>1 DEF SharedRollback, RestoreSteps
    <3> QED
      BY <3>1, <3>2, RollbackGoesOn
  <2>2. CASE Sync /\ pc' = IF job = "undo" THEN "saveStaging" ELSE "clearState"
    <3>1. Rolling /\ pc = "rollback" /\ job' = job /\ job # "commit" /\ txn' = txn
      BY DEF Jobs, Rolling, EntrySteps, ApplySteps, RestoreSteps
    <3>2. \A p \in SharedPaths : Before(p)
      BY <3>1 DEF Even, SharedRollback, RestoreSteps
    <3>3. WholeJournal(journal)
      BY <3>1 DEF Even, SharedJournal
    <3>4. OneVersion(disk'["live"]) /\ \A p \in SharedPaths : Flushed(p)'
      BY <2>2, <3>2, <3>3, SameVersion DEF WholeJournal, Before, Sync, Flushed, Missing,
         Lost
    <3>5. SharedTree'
      BY <3>4 DEF SharedTree, OneVersion, Lost
    <3> QED
      BY <2>2, <3>1, <3>5, IdleEven DEF Elsewhere
  <2> QED
    BY <2>1, <2>2
<1>6. CASE UndoFailed
  <2> USE <1>6 DEF UndoFailed
  <2>1. Rolling /\ pc = "rollback" /\ job = "undo"
    BY DEF Rolling
  <2>2. \A p \in SharedPaths : Kept(p)
    BY <2>1 DEF Even, SharedRollback, RestoreSteps
  <2>3. WholeJournal(journal)
    BY <2>1 DEF Even, SharedJournal
  <2>4. OneVersion(disk["live"])
    BY <2>2, <2>3, SameVersion DEF WholeJournal, Kept, Before, Missing, Lost
  <2>5. SharedTree'
    BY <2>2, <2>4 DEF flash, SharedTree, OneVersion, Kept, Flushed, Lost, Missing
  <2> QED
    BY <2>5, IdleEven DEF Return, Elsewhere, flash
<1>7. CASE RecoveryFailed
  <2>1. MustRecover
    BY <1>7 DEF RecoveryFailed, Even, SharedJournal, Rolling
  <2>2. SharedTree'
    BY <1>7, <2>1 DEF RecoveryFailed, RecoveryError, SharedTree, Underway, MustRecover,
       flash
  <2> QED
    BY <1>7, <2>2, IdleEven DEF RecoveryFailed, RecoveryError, Elsewhere, flash
<1>8. CASE SaveStaging
  <2>1. ~Underway /\ job = "undo"
    BY <1>8 DEF SaveStaging, Jobs, Underway, Installing, Rolling, EntrySteps, ApplySteps,
       RestoreSteps
  <2>2. SharedTree'
    BY <1>8, <2>1, TreeUnchanged DEF SaveStaging, Even
  <2> QED
    BY <1>8, <2>1, <2>2, IdleEven DEF SaveStaging, PollError, StartAbort, Elsewhere
<1> QED
  BY <1>1, <1>2, <1>3, <1>4, <1>5, <1>6, <1>7, <1>8 DEF RollbackStep

(* A reset while a mixture is under way leaves it to the next boot; any    *)
(* other finds the shared files flushed.                                   *)
LEMMA EvenRestart ==
  ASSUME blind \subseteq blind', Typed, Jobs, Even, Restart, UNCHANGED <<phase, txn>>,
         \A p \in SharedPaths : Flushed(p) =>
           disk'["live"][p] = disk["live"][p] /\ Flushed(p)'
  PROVE  Even'
<1> USE DEF Restart
<1>1. CASE Underway
  <2>1. phase = "applying" \/ (job \in {"none", "recover"} /\ phase = "boot_pending")
    BY <1>1 DEF Even, Underway, SharedJournal, MustRecover, Jobs, Installing, Rolling
  <2>2. SharedTree'
    BY <2>1 DEF SharedTree, Underway, MustRecover
  <2> QED
    BY <2>2, IdleEven DEF Elsewhere
<1>2. CASE ~Underway
  <2>1. \A p \in SharedPaths : disk'["live"][p] = disk["live"][p] /\ Flushed(p)'
    BY <1>2 DEF Even, SharedTree
  <2>2. SharedTree'
    BY <1>2, <2>1, TreeKept DEF Even, SharedTree
  <2> QED
    BY <2>2, IdleEven DEF Elsewhere
<1> QED
  BY <1>1, <1>2

LEMMA EvenStep ==
  ASSUME blind \subseteq blind', Typed, Jobs, Even, [Next]_vars,
         Fault /\ pc \in {"writeTxn", "saveApplying"} => NoBackup,
         Fault => job # "undo" /\ "file" \notin blind, ~BootUnread
  PROVE  Even'
<1>1. mode \in {"normal", "ota"} /\ pc = "idle" => ~Underway
  BY DEF Jobs, Underway, Installing, Rolling, EntrySteps, ApplySteps, RestoreSteps
<1>2. ASSUME NEW m \in Packages, Prepare(m) \/ PrepareFails(m) PROVE Even'
  <2>1. job = "none" /\ pc = "idle"
    BY <1>2 DEF Prepare, PrepareFails, Jobs
  <2>2. SharedTree'
    BY <1>1, <1>2, <2>1, TreeUnchanged DEF Prepare, PrepareFails, Even
  <2> QED
    BY <1>2, <2>1, <2>2, IdleEven DEF Prepare, PrepareFails, Elsewhere
<1>3. CASE ConfirmBoot
  <2>1. job = "none" /\ pc = "idle"
    BY <1>3 DEF ConfirmBoot, Jobs
  <2>2. SharedTree'
    BY <1>1, <1>3, <2>1, TreeUnchanged DEF ConfirmBoot, Even
  <2> QED
    BY <1>3, <2>1, <2>2, IdleEven DEF ConfirmBoot, Elsewhere
<1>4. CASE ConfirmFails
  <2>1. job = "none" /\ pc = "idle"
    BY <1>4 DEF ConfirmFails, Jobs
  <2>2. SharedTree'
    BY <1>1, <1>4, <2>1, TreeUnchanged DEF ConfirmFails, Even
  <2> QED
    BY <1>4, <2>2, IdleEven DEF ConfirmFails, Restart, Elsewhere
<1>5. CASE InactivityTimeout \/ PollFails
  <2>1. SharedTree'
    BY <1>1, <1>5, TreeUnchanged DEF InactivityTimeout, PollFails, Polling, flash, Even
  <2> QED
    BY <1>5, <2>1, IdleEven DEF InactivityTimeout, PollFails, PollError, StartAbort,
       Polling, flash, Elsewhere
<1>6. CASE Reboot
  BY <1>6, EvenRestart DEF Reboot, Sync, Flushed
<1>7. CASE Crash
  <2>1. ASSUME NEW p \in SharedPaths, Flushed(p)
        PROVE  disk'["live"][p] = disk["live"][p] /\ Flushed(p)'
    BY <1>7, <2>1, SharedPath DEF Crash, Flushed, Slots
  <2> QED
    BY <1>7, <2>1, EvenRestart DEF Crash
<1>8. CASE ClientStep \/ UNCHANGED vars
  BY <1>8, FrameEven DEF ClientStep, ClientStart, ClientSend, ClientTimeout, vars, flash,
     run, loop
<1> QED
  BY <1>2, <1>3, <1>4, <1>5, <1>6, <1>7, <1>8, EvenBoot, EvenHandler, EvenApply,
     EvenRollback, EvenWipe DEF Next, NormalStep

(* Until the second error. *)
SoundToOne == Sound /\ Jobs /\ (faults <= 1 /\ "state" \notin blind => Even)

LEMMA InitToOne == Init => SoundToOne
<1> SUFFICES ASSUME Init PROVE Even /\ Jobs
  BY InitSound DEF SoundToOne
<1>1. SharedTree
  <2>1. OneVersion(disk["live"])
    BY WholeIsOne DEF Init, Slots
  <2> QED
    BY <2>1 DEF Init, SharedTree, Flushed
<1>2. SharedJournal /\ SharedEntry /\ SharedCurrent /\ SharedRollback
  BY DEF Init, SharedJournal, SharedEntry, SharedCurrent, SharedRollback, Installing,
     Rolling, EntrySteps, ApplySteps
<1> QED
  BY <1>1, <1>2, InitIInv DEF Even, IInv

LEMMA NextToOne == SoundToOne /\ [Next]_vars => SoundToOne'
<1> SUFFICES ASSUME SoundToOne, [Next]_vars PROVE SoundToOne'
  OBVIOUS
<1>1. Sound' /\ Jobs'
  BY NextSound, JobsStep DEF SoundToOne
<1>2. ASSUME faults' <= 1, "state" \notin blind' PROVE Even'
  <2>1. faults \in Nat /\ Typed /\ Jobs
    BY DEF SoundToOne, Sound, Typed
  <2>6. ~BootUnread /\ blind \subseteq blind' /\ "state" \notin blind
    <3>1. ~BootUnread
      BY <1>2 DEF BootUnread
    <3> QED
      BY <1>2, <3>1, FaultsCounted DEF NoError, errors, Fault, Missed
  <2>2. faults <= 1 /\ (Fault => faults = 0)
    BY <1>2, <2>1, <2>6, FaultsCounted DEF NoError, errors, Fault, Missed
  <2>3. Fault => Calm
    BY <2>2 DEF SoundToOne, Sound
  <2>4. Fault => job # "undo" /\ "file" \notin blind
    BY <2>3 DEF Calm, Session
  <2>5. Fault /\ pc \in {"writeTxn", "saveApplying"} => NoBackup
    <3>1. pc \in {"writeTxn", "saveApplying"} =>
            job = "commit" /\ mode = "ota" /\ phase = "staging" /\ manifest # NoManifest
      BY <2>1 DEF Jobs, EntrySteps, ApplySteps, RestoreSteps
    <3> QED
      BY <2>3, <3>1 DEF Calm, Staging
  <2> QED
    BY <2>1, <2>2, <2>4, <2>5, <2>6, EvenStep DEF SoundToOne
<1> QED
  BY <1>1, <1>2 DEF SoundToOne

(* One I/O error at any step, in the middle of an install, of the rollback *)
(* of a failed commit or of the recovery of a boot, with any number of     *)
(* resets around it: the normal program never starts with the replaced     *)
(* files of two versions.  The error may be one that _path_exists takes    *)
(* for a missing file, which then is missing after the rollback; it must   *)
(* not be the one that load_ota_state takes for "no update".               *)
THEOREM OneErrorNeverMixes == Spec => [](faults <= 1 => ReplacedNeverMixed)
<1>1. SoundToOne => (faults <= 1 => ReplacedNeverMixed)
  <2> SUFFICES ASSUME SoundToOne, faults <= 1, mode = "normal", "state" \notin blind
               PROVE  OneVersion(disk["live"])
    BY DEF ReplacedNeverMixed, OneVersion, Lost, SharedPaths
  <2>1. ~Underway
    BY DEF SoundToOne, Jobs, Underway, Installing, Rolling, EntrySteps, ApplySteps,
       RestoreSteps
  <2> QED
    BY <2>1 DEF SoundToOne, Even, SharedTree
<1> QED
  BY <1>1, InitToOne, NextToOne, PTL DEF Spec
=============================================================================
