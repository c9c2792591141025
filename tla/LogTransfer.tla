---------------------------- MODULE LogTransfer ----------------------------
(***************************************************************************)
(* Retrieval of a log of the device over MQTT (features/log_transfer.py)   *)
(* by the host script (scripts/nodus_getlogs.py), while the device appends *)
(* records to the logs and trims them (core/reboot_log.py,                 *)
(* core/recovery_log.py).                                                  *)
(*                                                                         *)
(* A log is the sequence of its records, numbered as they were written and *)
(* all of one length.  A checksum is the sequence it was computed over.    *)
(***************************************************************************)
EXTENDS Naturals, Sequences, FiniteSets, SequencesExt

CONSTANTS
  Files,       \* ALLOWED_LOG_FILES
  Clients,     \* runs of the host script that may overlap
  MaxLog,      \* REBOOT_LOG_MAX_BYTES, in records
  ChunkSize,   \* chunk_size of the requests, in records
  ReuseIds,    \* the operator may give --message-id a second time
  MaxRequests, \* bound: requests in one behaviour
  MaxAppends,  \* bound: records written
  MaxFaults,   \* bound: failed publishes, resets, failed writes
  Missing, Nobody

ASSUME LogTransferAssumption ==
  /\ IsFiniteSet(Files) /\ IsFiniteSet(Clients) /\ ReuseIds \in BOOLEAN
  /\ {MaxLog, ChunkSize} \subseteq Nat \ {0} /\ {MaxRequests, MaxAppends, MaxFaults} \subseteq Nat
  /\ Missing \notin Seq(Nat)
  /\ Nobody \notin [id : Nat, file : Files, size : Nat, offset : Nat, sent : Seq(Nat)]

VARIABLES
  \* flash: the log files and their backups, and the next record number
  log, backup, record,
  \* the device: connected, transport._log_transfer_session, the queue of
  \* publishes, the handled message ids
  connected, session, published, seen,
  \* requests that have reached the device
  received,
  \* the host: the transfers at work and the logs that were stored
  transfer, stored, requests,
  \* history: the log when the session of an id began, the ids whose log was
  \* trimmed meanwhile, those whose session or messages were lost
  begun, cut, excused,
  appends, faults

flash == <<log, backup, record>>
device == <<connected, session, published, seen>>
host == <<transfer, stored, requests>>
history == <<begun, cut, excused>>
bounds == <<appends, faults>>
logVars == <<flash, device, received, host, history, bounds>>

Id == 1..MaxRequests
Records == Seq(Nat)
Session == [id : Id, file : Files, size : Nat, offset : Nat, sent : Records]
Command == [id : Id, file : Files]
Ack(i, ok, size) == [kind |-> "ack", id |-> i, ok |-> ok, size |-> size]
Chunk(i, offset, data) == [kind |-> "chunk", id |-> i, offset |-> offset, data |-> data]
\* A duplicate's result carries no checksum.
Outcome(i, ok, size, sum) == [kind |-> "result", id |-> i, ok |-> ok, size |-> size, sum |-> sum]

Fault == faults < MaxFaults /\ faults' = faults + 1

----------------------------------------------------------------------------
(* The device *)

\* process_log_transfer_message: a new request replaces the session at work.
Get(s, c) ==
  IF c.id \in s.seen
  THEN [s EXCEPT !.out = @ \o <<Ack(c.id, TRUE, 0), Outcome(c.id, TRUE, 0, Missing)>>]
  ELSE IF log[c.file] = Missing
  THEN [s EXCEPT !.seen = @ \cup {c.id},
                 !.out = @ \o <<Ack(c.id, FALSE, 0), Outcome(c.id, FALSE, 0, Missing)>>]
  ELSE [s EXCEPT !.seen = @ \cup {c.id},
                 !.session = [id |-> c.id, file |-> c.file, size |-> Len(log[c.file]),
                              offset |-> 0, sent |-> <<>>],
                 !.out = Append(@, Ack(c.id, TRUE, Len(log[c.file])))]

\* What read returns at an offset of the file as it is now.
Read(f, offset) ==
  LET last == offset + ChunkSize IN
  SubSeq(log[f], offset + 1, IF last < Len(log[f]) THEN last ELSE Len(log[f]))

\* The session ends with the file.
(* Bug: a session never ends. *)
EndsNever(data) == FALSE
Ends(data) == data = <<>>

\* The offset moves on by what was read.
Advanced(s, data) == [s EXCEPT !.offset = @ + Len(data), !.sent = @ \o data]

\* process_log_transfer_session: one chunk, or the end, for each pass.
Stream(s) ==
  LET t == s.session
      data == Read(t.file, t.offset)
  IN
  IF t = Nobody \/ ~connected THEN s
  ELSE IF log[t.file] = Missing
  THEN [s EXCEPT !.session = Nobody, !.out = Append(@, Outcome(t.id, FALSE, 0, Missing))]
  ELSE IF Ends(data)
  THEN [s EXCEPT !.session = Nobody, !.out = Append(@, Outcome(t.id, TRUE, t.size, t.sent))]
  ELSE [s EXCEPT !.session = Advanced(t, data), !.out = Append(@, Chunk(t.id, t.offset, data))]

Handled == FoldLeft(Get, [session |-> session, out |-> published, seen |-> seen], received)
Replaced(s) == IF session # Nobody /\ s.session # Nobody /\ s.session.id # session.id
               THEN {session.id} ELSE {}
\* Requests of one batch replace one another too.
Overtaken(s) == {received[i].id : i \in DOMAIN received} \ {IF s.session = Nobody THEN 0 ELSE s.session.id}
Began(s) ==
  IF s.session # Nobody /\ begun[s.session.id] = Missing
  THEN [begun EXCEPT ![s.session.id] = log[s.session.file]] ELSE begun

\* run_steady_state_iteration: the commands received, then the session.
Pass ==
  LET gets == Handled
      after == Stream(gets)
  IN
  /\ <<gets, after>> # <<[session |-> session, out |-> published, seen |-> seen], gets>>
  /\ session' = after.session /\ published' = after.out /\ seen' = after.seen
  /\ received' = <<>>
  /\ begun' = Began(gets) /\ excused' = excused \cup Replaced(gets) \cup Overtaken(gets)
  /\ UNCHANGED <<flash, connected, host, cut, bounds>>

----------------------------------------------------------------------------
(* The host script, a message at a time (_TransferState) *)

\* _handle_chunk: chunks come without a gap.
(* Bug: the offset is not compared. *)
FitsAlways(t, m) == TRUE
Fits(t, m) == m.offset = Len(t.data)
\* _handle_result: the checksum and the size, where there are any.
(* Bug: the size is not compared. *)
VerifiedSumOnly(t, m) == m.sum = Missing \/ m.sum = t.data
Verified(t, m) == (m.sum = Missing \/ m.sum = t.data) /\ (m.size = 0 \/ m.size = Len(t.data))

Failed(t) == [t EXCEPT !.phase = "failed"]
Handle(t, m) ==
  IF t.phase # "waiting" \/ m.id # t.id THEN t ELSE
  CASE m.kind = "ack" -> IF m.ok THEN t ELSE Failed(t)
    [] m.kind = "chunk" -> IF Fits(t, m) THEN [t EXCEPT !.data = @ \o m.data] ELSE Failed(t)
    [] m.kind = "result" -> IF m.ok /\ Verified(t, m) THEN [t EXCEPT !.phase = "complete"] ELSE Failed(t)

\* _write_file: the log is stored in place of the one stored before.
Store(new) ==
  stored' = [c \in Clients |-> IF transfer[c].phase = "waiting" /\ new[c].phase = "complete"
                               THEN [id |-> new[c].id, data |-> new[c].data] ELSE stored[c]]

\* sync_transport_to_client sends the first message of the queue.
Send ==
  /\ connected /\ published # <<>>
  /\ LET new == [c \in Clients |-> Handle(transfer[c], Head(published))]
     IN transfer' = new /\ Store(new)
  /\ published' = Tail(published)
  /\ UNCHANGED <<flash, connected, session, seen, received, requests, history, bounds>>

\* The connection is lost in a poll, or in a publish: then the message is
\* dropped, for it is not retained.
ConnectionFails ==
  /\ connected /\ Fault /\ connected' = FALSE
  /\ \/ UNCHANGED <<published, excused>>
     \/ /\ published # <<>> /\ published' = Tail(published)
        /\ excused' = excused \cup {Head(published).id}
  /\ UNCHANGED <<flash, session, seen, received, host, begun, cut, appends>>

Connect ==
  /\ ~connected /\ connected' = TRUE
  /\ UNCHANGED <<flash, session, published, seen, received, host, history, bounds>>

\* retrieve_log; the request is lost while the device is not subscribed.
Request(c, f) ==
  /\ transfer[c].phase # "waiting"
  /\ \E i \in Id :
       /\ i = requests + 1 \/ (ReuseIds /\ i = transfer[c].id)
       /\ requests' = IF i = requests + 1 THEN i ELSE requests
       /\ transfer' = [transfer EXCEPT ![c] = [id |-> i, phase |-> "waiting", data |-> <<>>]]
       /\ IF connected THEN received' = Append(received, [id |-> i, file |-> f]) /\ UNCHANGED excused
          ELSE excused' = excused \cup {i} /\ UNCHANGED received
  /\ UNCHANGED <<flash, device, stored, begun, cut, bounds>>

Timeout(c) ==
  /\ transfer[c].phase = "waiting"
  /\ transfer' = [transfer EXCEPT ![c] = Failed(@)]
  /\ UNCHANGED <<flash, device, received, stored, requests, history, bounds>>

----------------------------------------------------------------------------
(* The writers of the logs *)

\* The backup is put back first where the file is missing or empty.
Restored(f) == IF log[f] \in {Missing, <<>>} /\ backup[f] # Missing THEN backup[f]
               ELSE IF log[f] = Missing THEN <<>> ELSE log[f]
Trimmed(r) == IF Len(r) > MaxLog THEN SubSeq(r, Len(r) - MaxLog + 1, Len(r)) ELSE r
Streaming(f) == IF session # Nobody /\ session.file = f THEN {session.id} ELSE {}
AfterRestore(f) == IF log[f] = Restored(f) \/ (log[f] = Missing /\ backup[f] = Missing) THEN backup
                   ELSE [backup EXCEPT ![f] = Missing]

\* append_recovery_event, append_reboot_traceback with _trim_reboot_log.
AppendRecord(f) ==
  LET long == Append(Restored(f), record)
      trims == Len(long) > MaxLog
  IN
  /\ appends < MaxAppends /\ appends' = appends + 1 /\ record' = record + 1
  /\ log' = [log EXCEPT ![f] = Trimmed(long)]
  /\ backup' = IF trims THEN [backup EXCEPT ![f] = long] ELSE AfterRestore(f)
  /\ cut' = IF trims THEN cut \cup Streaming(f) ELSE cut
  /\ UNCHANGED <<device, received, host, begun, excused, faults>>

\* The trim fails: the log is longer than its limit for a while.
TrimFails(f) ==
  LET long == Append(Restored(f), record) IN
  /\ Fault /\ appends < MaxAppends /\ appends' = appends + 1 /\ record' = record + 1
  /\ Len(long) > MaxLog
  /\ log' = [log EXCEPT ![f] = long] /\ backup' = AfterRestore(f)
  /\ UNCHANGED <<device, received, host, history>>

Reset ==
  /\ connected' = FALSE /\ session' = Nobody /\ published' = <<>> /\ seen' = {}
  /\ received' = <<>>
  /\ excused' = excused \cup (1..requests)
  /\ UNCHANGED <<host, begun, cut>>

DeviceResets ==
  /\ Fault /\ Reset
  /\ UNCHANGED <<flash, appends>>

\* Power fails between the two renames of commit_file.
ResetInTrim(f) ==
  LET long == Append(Restored(f), record) IN
  /\ Fault /\ appends < MaxAppends /\ appends' = appends + 1 /\ record' = record + 1
  /\ Len(long) > MaxLog
  /\ log' = [log EXCEPT ![f] = Missing] /\ backup' = [backup EXCEPT ![f] = long]
  /\ Reset

----------------------------------------------------------------------------
LogInit ==
  /\ log = [f \in Files |-> <<1, 2>>] /\ backup = [f \in Files |-> Missing] /\ record = 3
  /\ connected = TRUE /\ session = Nobody /\ published = <<>> /\ seen = {} /\ received = <<>>
  /\ transfer = [c \in Clients |-> [id |-> 0, phase |-> "idle", data |-> <<>>]]
  /\ stored = [c \in Clients |-> [id |-> 0, data |-> <<>>]] /\ requests = 0
  /\ begun = [i \in Id |-> Missing] /\ cut = {} /\ excused = {}
  /\ appends = 0 /\ faults = 0

LogNext ==
  \/ Pass \/ Send \/ ConnectionFails \/ Connect
  \/ \E c \in Clients : Timeout(c) \/ \E f \in Files : Request(c, f)
  \/ \E f \in Files : AppendRecord(f) \/ TrimFails(f) \/ ResetInTrim(f)
  \/ DeviceResets

LogSpec == LogInit /\ [][LogNext]_logVars
\* The loop goes round and reconnects; nobody has to wait for the time-out.
FairSpec == LogSpec /\ WF_logVars(Pass) /\ WF_logVars(Send) /\ WF_logVars(Connect)

----------------------------------------------------------------------------
(* Properties *)

\* Every variable has its type.
LogTypeOK ==
  /\ \A f \in Files : log[f] = Missing \/ log[f] \in Records
  /\ \A f \in Files : backup[f] = Missing \/ backup[f] \in Records
  /\ connected \in BOOLEAN /\ session \in Session \cup {Nobody}
  /\ session # Nobody => session.offset = Len(session.sent)
  /\ seen \subseteq Id /\ received \in Seq(Command)
  /\ \A c \in Clients : transfer[c].phase \in {"idle", "waiting", "complete", "failed"}
                        /\ transfer[c].data \in Records
  /\ cut \cup excused \subseteq Id

\* A log that is stored is the file as it was when its session began, whatever
\* was appended, lost, replaced or restarted meanwhile, unless the device has
\* trimmed that file during the transfer.
StoredWhole ==
  \A c \in Clients : stored[c].id \notin {0} \cup cut => stored[c].data = begun[stored[c].id]

\* Every variable has its type - offsets stay within the file - and what is
\* stored is whole.
StoreSound == LogTypeOK /\ StoredWhole

\* docs/mqtt.md:218-219: a stored log, whose final file checksum was compared,
\* is the file it was asked for.
StoredIsTheFile ==
  \A c \in Clients : stored[c].id # 0 => stored[c].data = begun[stored[c].id]

\* Every transfer is ended by the device, not by the host's time-out, unless
\* its session was replaced or one of its messages was lost.
DeviceEndsIt ==
  \A c \in Clients :
    (transfer[c].phase = "waiting") ~> (transfer[c].phase # "waiting" \/ transfer[c].id \in excused)
============================================================================
