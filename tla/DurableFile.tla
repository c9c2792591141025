---------------------------- MODULE DurableFile ----------------------------
(***************************************************************************)
(* The flat commit helpers of cpynodus_ii/core/filesystem.py and the       *)
(* writers that call them: one document kept under three names, the live   *)
(* path, its ".bak" and its ".tmp".  Every step of commit_file and         *)
(* clear_file is an action, so that a power loss or an OSError can fall    *)
(* between any two of them.                                                *)
(*                                                                         *)
(* Contents are abstracted to whole documents (Docs), an empty file, a     *)
(* file whose bytes are only partly on flash (Torn) and no file (Absent).  *)
(* Directory updates reach the flash in the order they are issued; the     *)
(* bytes of a file are only guaranteed to be there after os.sync().  This  *)
(* is the strength the code relies on ("FAT is not a power-loss-safe       *)
(* journal", filesystem.py): a directory update torn in the middle is not  *)
(* modelled.                                                               *)
(***************************************************************************)
CONSTANTS
  Docs,     \* whole documents
  Absent,   \* there is no file of that name
  Empty,    \* the file exists with size 0
  Torn,     \* the file exists with a size, but not all its bytes
  NoRequest \* abstract request of an idle writer, see Cell below

ASSUME DocsAssumption ==
  /\ Docs \cap {Absent, Empty, Torn, NoRequest} = {}
  /\ Absent # Empty /\ Absent # Torn /\ Empty # Torn
  /\ NoRequest \notin {Absent, Empty, Torn}

VARIABLES
  live, bak, tmp,  \* contents under the three names
  unsynced,        \* the names whose bytes os.sync() has not flushed
  pc,              \* the next step of the writer, clearer or boot code
  doc,             \* the document being written
  moved,           \* commit_file's local: live was renamed to bak
  ret,             \* how the last call ended
  kind             \* "toml": restored at boot; "json": only read through readable_path

vars == <<live, bak, tmp, unsynced, pc, doc, moved, ret, kind>>
files == <<live, bak, tmp>>

Contents == Docs \cup {Absent, Empty, Torn}

(* The steps of one write in order, and those of its error path. *)
WriteSteps == {"fill", "sync", "stat", "dropbak", "move", "presync",
               "install", "finalsync", "restore", "restoresync", "cleanup"}
ClearSteps == {"clearbak", "cleartmp", "clearlive", "clearsync"}
Steps == WriteSteps \cup ClearSteps \cup {"idle", "boot"}

HasBytes(c) == c \notin {Absent, Empty}

(* readable_path: the retained backup only when live is missing or empty. *)
Readable ==
  IF HasBytes(live) THEN live ELSE IF HasBytes(bak) THEN bak ELSE Absent

----------------------------------------------------------------------------
(* A device may start with an empty live file: a truncating writer of an   *)
(* older firmware or a host edit was interrupted.                          *)
Init ==
  /\ live \in Docs \cup {Absent, Empty}
  /\ bak \in Docs \cup {Absent}
  /\ tmp \in {Absent, Torn}
  /\ unsynced = {}
  /\ pc = "idle"
  /\ doc \in Docs
  /\ moved = FALSE
  /\ ret = "none"
  /\ kind \in {"toml", "json"}

Goto(from, to) == pc = from /\ pc' = to

----------------------------------------------------------------------------
(* The writers: open(tmp, "w"), write, close, commit_file.                 *)

OpenTmp(d) ==
  /\ Goto("idle", "fill")
  /\ tmp' = Empty
  /\ doc' = d
  /\ moved' = FALSE
  /\ ret' = "none"
  /\ unsynced' = unsynced \cup {"tmp"}
  /\ UNCHANGED <<live, bak, kind>>

FillTmp ==
  /\ Goto("fill", "sync")
  /\ tmp' = doc
  /\ UNCHANGED <<live, bak, unsynced, doc, moved, ret, kind>>

(* A full disk or an I/O error while writing: the writer never reaches     *)
(* commit_file and removes its temporary.                                  *)
FillFails ==
  /\ Goto("fill", "cleanup")
  /\ tmp' \in {Empty, Torn}
  /\ UNCHANGED <<live, bak, unsynced, doc, moved, ret, kind>>

SyncTmp ==
  /\ Goto("sync", "stat")
  /\ unsynced' = {}
  /\ UNCHANGED <<files, doc, moved, ret, kind>>

(* os.stat: a missing live file is left alone, an empty one is removed so  *)
(* that it can never displace a useful backup.                             *)
StatLive ==
  /\ pc = "stat"
  /\ \/ HasBytes(live) /\ pc' = "dropbak" /\ UNCHANGED live
     \/ ~HasBytes(live) /\ pc' = "presync" /\ live' = Absent
  /\ UNCHANGED <<bak, tmp, unsynced, doc, moved, ret, kind>>

DropBackup ==
  /\ Goto("dropbak", "move")
  /\ bak' = Absent
  /\ UNCHANGED <<live, tmp, unsynced, doc, moved, ret, kind>>

MoveLive ==
  /\ Goto("move", "presync")
  /\ bak' = live
  /\ live' = Absent
  /\ moved' = TRUE
  /\ unsynced' = {IF n = "live" THEN "bak" ELSE n : n \in unsynced}
  /\ UNCHANGED <<tmp, doc, ret, kind>>

SyncMoved ==
  /\ Goto("presync", "install")
  /\ unsynced' = {}
  /\ UNCHANGED <<files, doc, moved, ret, kind>>

(* Mutant: the temporary is copied over the live path instead of renamed.  *)
InstallByCopy ==
  /\ Goto("install", "finalsync")
  /\ live' = tmp
  /\ tmp' = Absent
  /\ unsynced' = {"live"}
  /\ UNCHANGED <<bak, doc, moved, ret, kind>>

Install ==
  /\ Goto("install", "finalsync")
  /\ live' = tmp
  /\ tmp' = Absent
  /\ unsynced' = {IF n = "tmp" THEN "live" ELSE n : n \in unsynced}
  /\ UNCHANGED <<bak, doc, moved, ret, kind>>

SyncInstalled ==
  /\ Goto("finalsync", "idle")
  /\ unsynced' = {}
  /\ ret' = "ok"
  /\ UNCHANGED <<files, doc, moved, kind>>

(* Any call of commit_file raises: the handler looks whether live is gone  *)
(* because of this commit, and only then puts the backup back.             *)
CommitFails ==
  /\ pc \in {"sync", "stat", "dropbak", "move", "presync", "install", "finalsync"}
  /\ pc' = IF moved /\ live = Absent THEN "restore" ELSE "cleanup"
  /\ UNCHANGED <<files, unsynced, doc, moved, ret, kind>>

RestoreBackup ==
  /\ Goto("restore", "restoresync")
  /\ live' = bak
  /\ bak' = Absent
  /\ unsynced' = {IF n = "bak" THEN "live" ELSE n : n \in unsynced}
  /\ UNCHANGED <<tmp, doc, moved, ret, kind>>

RestoreSync ==
  /\ Goto("restoresync", "cleanup")
  /\ unsynced' = {}
  /\ UNCHANGED <<files, doc, moved, ret, kind>>

RestoreFails ==
  /\ pc \in {"restore", "restoresync"}
  /\ pc' = "cleanup"
  /\ UNCHANGED <<files, unsynced, doc, moved, ret, kind>>

(* Mutant: the error path returns without saying how the write ended.      *)
CleanupNoVerdict ==
  /\ Goto("cleanup", "idle")
  /\ tmp' = tmp
  /\ ret' = "pending"
  /\ UNCHANGED <<live, bak, unsynced, doc, moved, kind>>

(* The TOML writers try to remove the temporary, the JSON writers leave it. *)
Cleanup ==
  /\ Goto("cleanup", "idle")
  /\ tmp' \in {Absent, tmp}
  /\ kind = "json" => tmp' = tmp
  /\ ret' = "error"
  /\ UNCHANGED <<live, bak, unsynced, doc, moved, kind>>

----------------------------------------------------------------------------
(* clear_file: the backup first, then the temporary, the live file last,   *)
(* with a sync after each.                                                 *)

BeginClear ==
  /\ Goto("idle", "clearbak")
  /\ kind = "json"
  /\ ret' = "none"
  /\ UNCHANGED <<files, unsynced, doc, moved, kind>>

(* Mutant: the live file goes first.                                       *)
ClearLiveFirst ==
  /\ Goto("clearbak", "cleartmp")
  /\ live' = Absent
  /\ UNCHANGED <<bak, tmp, unsynced, doc, moved, ret, kind>>

ClearBak ==
  /\ Goto("clearbak", "cleartmp")
  /\ bak' = Absent
  /\ UNCHANGED <<live, tmp, unsynced, doc, moved, ret, kind>>

ClearTmp ==
  /\ Goto("cleartmp", "clearlive")
  /\ tmp' = Absent
  /\ UNCHANGED <<live, bak, unsynced, doc, moved, ret, kind>>

ClearLive ==
  /\ Goto("clearlive", "clearsync")
  /\ live' = Absent
  /\ UNCHANGED <<bak, tmp, unsynced, doc, moved, ret, kind>>

ClearDone ==
  /\ Goto("clearsync", "idle")
  /\ ret' = "ok"
  /\ UNCHANGED <<files, unsynced, doc, moved, kind>>

ClearFails ==
  /\ pc \in ClearSteps
  /\ pc' = "idle"
  /\ ret' = "error"
  /\ UNCHANGED <<files, unsynced, doc, moved, kind>>

----------------------------------------------------------------------------
(* Power loss or hard reset at any instant.  Unflushed bytes may or may    *)
(* not have reached the flash.                                             *)
AfterLoss(name, c) == IF name \in unsynced /\ c # Absent THEN {c, Empty, Torn} ELSE {c}

Crash ==
  /\ pc' = "boot"
  /\ live' \in AfterLoss("live", live)
  /\ bak' \in AfterLoss("bak", bak)
  /\ tmp' \in AfterLoss("tmp", tmp)
  /\ unsynced' = {}
  /\ moved' = FALSE
  /\ ret' = "reset"
  /\ UNCHANGED <<doc, kind>>

(* Settings.bootstrap_factory_defaults restores a retained TOML backup     *)
(* before anything looks at the live file; the JSON state files are left   *)
(* as they are and read through readable_path.                             *)
NeedsRestore == kind = "toml" /\ ~HasBytes(live) /\ HasBytes(bak)

BootDropEmpty ==
  /\ pc = "boot"
  /\ NeedsRestore
  /\ live = Empty
  /\ live' = Absent
  /\ UNCHANGED <<bak, tmp, unsynced, pc, doc, moved, ret, kind>>

BootRestore ==
  /\ Goto("boot", "idle")
  /\ NeedsRestore
  /\ live = Absent
  /\ live' = bak
  /\ bak' = Absent
  /\ UNCHANGED <<tmp, unsynced, doc, moved, ret, kind>>

BootReady ==
  /\ Goto("boot", "idle")
  /\ ~NeedsRestore
  /\ UNCHANGED <<files, unsynced, doc, moved, ret, kind>>

----------------------------------------------------------------------------
CommitStep ==
  \/ FillTmp \/ FillFails \/ SyncTmp \/ StatLive \/ DropBackup \/ MoveLive
  \/ SyncMoved \/ Install \/ SyncInstalled
  \/ CommitFails \/ RestoreBackup \/ RestoreSync \/ RestoreFails \/ Cleanup

ClearStep ==
  BeginClear \/ ClearBak \/ ClearTmp \/ ClearLive \/ ClearDone \/ ClearFails

BootStep == BootDropEmpty \/ BootRestore \/ BootReady

Next ==
  \/ \E d \in Docs : OpenTmp(d)
  \/ CommitStep
  \/ ClearStep
  \/ Crash
  \/ BootStep

Spec == Init /\ [][Next]_vars
----------------------------------------------------------------------------
TypeOK ==
  /\ live \in Contents /\ bak \in Contents /\ tmp \in Contents
  /\ unsynced \subseteq {"live", "bak", "tmp"}
  /\ pc \in Steps
  /\ doc \in Docs
  /\ moved \in BOOLEAN
  /\ ret \in {"none", "ok", "error", "reset"}
  /\ kind \in {"toml", "json"}

(* A reset, an I/O error or a read at any instant of a commit finds a      *)
(* whole document under the path that readable_path selects, or none at    *)
(* all: the live and backup names never hold torn bytes, whatever was lost. *)
WholeDocument == live # Torn /\ bak # Torn

(* The commit and clear helpers implement an atomic register: see          *)
(* AtomicCell.  The write takes effect at the rename of tmp onto live.     *)
Cell == INSTANCE AtomicCell WITH
  NoDoc <- Absent,
  val <- Readable,
  req <- IF pc \in WriteSteps THEN doc
         ELSE IF pc \in ClearSteps THEN Absent ELSE NoRequest

AtomicDocument == Cell!Spec
============================================================================
