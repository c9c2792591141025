---------------------------- MODULE OtaTransfer ----------------------------
(***************************************************************************)
(* The push of one file inside an update: the chunk protocol between the   *)
(* host client (scripts/ota_package.py, _push_file_chunks and its caller)  *)
(* and the /ota/file* handlers of cpynodus_ii/ota/http.py.                 *)
(*                                                                         *)
(* The client has one request open at a time; when it stops waiting, the   *)
(* request is gone or still in the device's accept queue, to be handled    *)
(* with nobody listening.  OtaUpdate takes the whole push as one step,     *)
(* HandleFile: it ends with the right copy staged and the client told so,  *)
(* or with the client giving up.                                           *)
(***************************************************************************)
EXTENDS Integers, Sequences, Functions

CONSTANTS
  Size,      \* bytes of the file; the manifest check refuses an empty one
  ChunkSize, \* --chunk-size
  Faults,    \* the kinds of fault that may happen
  MaxFaults  \* bound: faults in one push

FaultKinds == {"lost", "io", "flash", "hash"}

ASSUME TransferAssumption ==
  /\ {Size, ChunkSize} \subseteq Nat \ {0} /\ MaxFaults \in Nat
  /\ Faults \subseteq FaultKinds

VARIABLES
  \* device: the staged copy
  staged,
  \* client: its next request, the offset, which push of this file and which
  \* attempt at file/end it is, whether it waits, and how the push ended
  step, offset, push, attempt, waiting, verdict,
  \* requests on their way, in order
  inbox,
  \* the faults so far
  faults

client == <<step, offset, push, attempt, waiting, verdict>>
vars == <<staged, client, inbox, faults>>

(* A staged copy: its length, and whether its bytes are those of the file. *)
Missing == [size |-> -1, right |-> FALSE]
Copy(n, right) == [size |-> n, right |-> right]
Copies == {Missing} \cup [size : 0..Size, right : BOOLEAN]

Fault(kind) ==
  kind \in Faults /\ Len(faults) < MaxFaults /\ faults' = Append(faults, kind)

----------------------------------------------------------------------------
(* The client.                                                             *)
ChunkLength ==
  IF offset + ChunkSize <= Size THEN ChunkSize ELSE Size - offset

Request(op) ==
  [op |-> op, offset |-> offset, heard |-> TRUE,
   length |-> IF op = "chunk" THEN ChunkLength ELSE 0]

Send ==
  /\ verdict = "none" /\ ~waiting
  /\ inbox' = Append(inbox, Request(step))
  /\ waiting' = TRUE
  /\ UNCHANGED <<staged, step, offset, push, attempt, verdict, faults>>

Abort == [op |-> "abort", offset |-> 0, length |-> 0, heard |-> FALSE]

(* The push raises or is refused: push_ota_package aborts the update.      *)
GiveUp(queue) ==
  /\ verdict' = "failed"
  /\ waiting' = FALSE
  /\ inbox' = Append(queue, Abort)
  /\ UNCHANGED <<step, offset, push, attempt>>

(* Bug: one attempt too few. *)
TwoAttempts == 2

(* file/end is tried three times; no other request is repeated.            *)
MaxAttempts == 3

(* No answer in time: the request never arrived, or is still waiting.      *)
TimeOut ==
  /\ waiting
  /\ Fault("lost")
  /\ \E kept \in {0, 1} :
       LET n == Len(inbox)
           queue == IF kept = 0 THEN SubSeq(inbox, 1, n - 1)
                                ELSE [inbox EXCEPT ![n].heard = FALSE]
       IN IF step = "end" /\ attempt < MaxAttempts
          THEN /\ inbox' = queue
               /\ attempt' = attempt + 1
               /\ waiting' = FALSE
               /\ UNCHANGED <<step, offset, push, verdict>>
          ELSE GiveUp(queue)
  /\ UNCHANGED staged

(* The device's answers, which only a client that still waits receives.    *)
Rest == Tail(inbox)
Heard == Head(inbox).heard

Unheard ==
  /\ ~Heard
  /\ inbox' = Rest
  /\ UNCHANGED client

Accepted(next, at) ==
  \/ Unheard
  \/ /\ Heard
     /\ inbox' = Rest
     /\ waiting' = FALSE
     /\ step' = next /\ offset' = at
     /\ verdict' = IF next = "done" THEN "accepted" ELSE verdict
     /\ UNCHANGED <<push, attempt>>

Refused ==
  \/ Unheard
  \/ Heard /\ GiveUp(Rest)

(* _file_retryable_rejection: the file is pushed once more. *)
Mismatched ==
  \/ Unheard
  \/ /\ Heard /\ push = 1
     /\ inbox' = Rest
     /\ waiting' = FALSE
     /\ step' = "begin" /\ offset' = 0 /\ push' = 2 /\ attempt' = 1
     /\ UNCHANGED verdict
  \/ Heard /\ push = 2 /\ GiveUp(Rest)

----------------------------------------------------------------------------
(* The device: one request at a time, each handler from start to end.  The *)
(* queue is served in order and an abort is the client's last request, so  *)
(* that no handler here finds another phase than "staging".                *)
Handle(op) == inbox # <<>> /\ Head(inbox).op = op

(* _handle_file_begin; the file is truncated before the error or not.      *)
HandleBegin ==
  /\ Handle("begin")
  /\ \/ /\ staged' = Copy(0, TRUE)
        /\ Accepted("chunk", 0)
        /\ UNCHANGED faults
     \/ /\ Fault("io")
        /\ staged' \in {staged, Copy(0, TRUE)}
        /\ Refused

(* _handle_file_chunk.  A failed append leaves any part of the chunk; a    *)
(* write can also go wrong unnoticed, which is what the digest is for.     *)
HandleChunk ==
  /\ Handle("chunk")
  /\ LET r == Head(inbox)
         end == staged.size + r.length
         next == IF end >= Size THEN "end" ELSE "chunk"
     IN \/ /\ staged.size # r.offset \/ end > Size
           /\ Refused
           /\ UNCHANGED <<staged, faults>>
        \/ /\ staged.size = r.offset /\ end <= Size
           /\ \/ staged' = Copy(end, staged.right) /\ Accepted(next, end)
                   /\ UNCHANGED faults
              \/ Fault("flash") /\ staged' = Copy(end, FALSE)
                   /\ Accepted(next, end)
              \/ /\ Fault("io")
                 /\ \E part \in 0..r.length :
                      staged' = Copy(staged.size + part, staged.right)
                 /\ Refused

(* Bug: the length is checked, the digest is not. *)
HandleEndBySize ==
  /\ Handle("end")
  /\ UNCHANGED staged
  /\ IF staged.size = Size THEN Accepted("done", offset) ELSE Mismatched
  /\ UNCHANGED faults

(* _handle_file_end: size and digest of what is on flash. *)
HandleEnd ==
  /\ Handle("end")
  /\ UNCHANGED staged
  /\ \/ /\ staged = Copy(Size, TRUE)
        /\ Accepted("done", offset)
        /\ UNCHANGED faults
     \/ /\ staged # Copy(Size, TRUE)
        /\ Mismatched
        /\ UNCHANGED faults
     \/ Fault("hash") /\ Refused

(* _handle_file: the body has been checked before it is written. *)
HandleWhole ==
  /\ Handle("whole")
  /\ \/ /\ staged' = Copy(Size, TRUE)
        /\ Accepted("done", offset)
        /\ UNCHANGED faults
     \/ /\ Fault("io")
        /\ \/ staged' = staged
           \/ \E part \in 0..Size : staged' = Copy(part, TRUE)
        /\ Refused

(* _handle_abort, see OtaUpdate: the workspace is cleared. *)
HandleAbort ==
  /\ inbox # <<>> /\ Head(inbox).op = "abort"
  /\ staged' = Missing
  /\ inbox' = Rest
  /\ UNCHANGED <<client, faults>>

----------------------------------------------------------------------------
(* The stage is empty once /ota/begin has been answered; --chunk-size 0    *)
(* selects the whole-file endpoint.                                        *)
Init ==
  /\ staged = Missing
  /\ step \in {"begin", "whole"} /\ offset = 0 /\ push = 1 /\ attempt = 1
  /\ waiting = FALSE /\ verdict = "none"
  /\ inbox = <<>> /\ faults = <<>>

Device ==
  \/ HandleBegin \/ HandleChunk \/ HandleEnd \/ HandleWhole \/ HandleAbort

Next == Send \/ TimeOut \/ Device
Spec == Init /\ [][Next]_vars

----------------------------------------------------------------------------
(* Properties.                                                             *)
Ops == {"begin", "chunk", "end", "whole", "abort"}

(* Every variable keeps its type; in particular the staged copy never      *)
(* grows beyond the size the manifest gives.                               *)
TypeOK ==
  /\ staged \in Copies
  /\ step \in {"begin", "chunk", "end", "whole", "done"}
  /\ offset \in 0..Size /\ push \in {1, 2} /\ attempt \in 1..MaxAttempts
  /\ waiting \in BOOLEAN /\ verdict \in {"none", "accepted", "failed"}
  /\ inbox \in Seq([op : Ops, offset : 0..Size, length : 0..Size,
                    heard : BOOLEAN])
  /\ faults \in Seq(Faults) /\ Len(faults) <= MaxFaults

(* Two lost answers to file/end do not end an update: the third attempt    *)
(* finds the same copy.                                                    *)
EndSurvivesLoss ==
  verdict = "failed" /\ step = "end" /\ Range(faults) = {"lost"}
    => Len(faults) > 2

(* Every variable has its type, and lost answers alone do not fail a push  *)
(* at its last step.                                                       *)
PushSound == TypeOK /\ EndSurvivesLoss

(* A lost answer to a chunk does not end the update either: the device     *)
(* reports its offset for the client to go on from.                        *)
ChunkSurvivesLoss == verdict = "failed" => step # "chunk"

(* The push seen by OtaUpdate: one step to the right copy or to a failure. *)
(* A file the client counts as accepted is staged whole and stays so,      *)
(* whatever is still on its way when the client goes on.                   *)
Push == INSTANCE FilePush WITH
  outcome <- verdict,
  copy <- IF staged = Copy(Size, TRUE) THEN "whole" ELSE "torn"
PushIsOneStep == Push!Spec

============================================================================
