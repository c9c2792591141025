------------------------ MODULE HostExchangeProofs ------------------------
(***************************************************************************)
(* Theorems about the exchanges of the host with the device in which a     *)
(* request or its answer is lost or late: the push of a file by the OTA    *)
(* client (OtaTransfer) and the commands of the WeeWX controller           *)
(* (WeewxAutomation).                                                      *)
(*                                                                         *)
(* The push of a file is one step for the rest of the update, for every    *)
(* file, chunk size and number of faults: only the last request can have a *)
(* listener, everything before it is a repeated file/end, and a file/end   *)
(* changes nothing (PushImplemented).  While nothing but requests and      *)
(* answers are lost the staged copy is what the client has sent, so that   *)
(* only a third lost file/end fails a push there (Sound).                  *)
(*                                                                         *)
(* For all the books of rules the controller attributes a switch to a rule *)
(* on no more than the device has answered for, it forgets a rule that     *)
(* promises to put the switch back only when it is back, and no edit or    *)
(* restart loses what it has done.                                         *)
(***************************************************************************)
EXTENDS OtaTransfer, WeewxAutomation, SequenceTheorems, FiniteSetTheorems,
        WellFoundedInduction, TLAPS

-----------------------------------------------------------------------------
(* The push of a file (OtaTransfer).                                       *)

Steps == {"begin", "chunk", "end", "whole", "done"}
Req == [op : Ops, offset : 0..Size, length : 0..Size, heard : BOOLEAN]

(* What the client's steps rest on.                                        *)
Typed ==
  /\ inbox \in Seq(Req) /\ waiting \in BOOLEAN
  /\ step \in Steps /\ offset \in 0..Size
  /\ verdict \in {"none", "accepted", "failed"}

(* The open request is the last one, and it is the client's current step. *)
LastOpen ==
  /\ \A i \in 1..Len(inbox) :
       inbox[i].heard => waiting /\ i = Len(inbox) /\ inbox[i].op = step
  /\ waiting => /\ verdict = "none" /\ Len(inbox) > 0
                /\ inbox[Len(inbox)].heard

(* What the client has stopped waiting for while the push goes on. *)
OnlyEnds ==
  verdict # "failed" =>
    \A i \in 1..Len(inbox) : inbox[i].heard \/ inbox[i].op = "end"

Done ==
  /\ verdict = "accepted" => staged = Copy(Size, TRUE)
  /\ verdict = "none" => step # "done"

Inv == Typed /\ LastOpen /\ OnlyEnds /\ Done

-----------------------------------------------------------------------------
(* Queues. *)
LEMMA AppendFacts ==
  ASSUME NEW R, NEW q \in Seq(R), NEW e \in R
  PROVE  /\ Append(q, e) \in Seq(R) /\ Len(Append(q, e)) = Len(q) + 1
         /\ \A i \in 1..Len(q) : Append(q, e)[i] = q[i]
         /\ Append(q, e)[Len(q) + 1] = e
OBVIOUS

LEMMA TailFacts ==
  ASSUME NEW R, NEW q \in Seq(R), q # <<>>
  PROVE  /\ Tail(q) \in Seq(R) /\ Len(Tail(q)) = Len(q) - 1
         /\ \A i \in 1..Len(q) - 1 : Tail(q)[i] = q[i + 1]
         /\ Head(q) = q[1] /\ Head(q) \in R /\ Len(q) \in Nat \ {0}
OBVIOUS

LEMMA CutFacts ==
  ASSUME NEW R, NEW q \in Seq(R), NEW n, n = Len(q), n > 0
  PROVE  /\ SubSeq(q, 1, n - 1) \in Seq(R) /\ Len(SubSeq(q, 1, n - 1)) = n - 1
         /\ \A i \in 1..n - 1 : SubSeq(q, 1, n - 1)[i] = q[i]
<1> DEFINE m == n - 1
<1>1. n \in Nat /\ m \in Nat /\ \A i \in 1..m : q[i] \in R
  OBVIOUS
<1> HIDE DEF m
<1>2. /\ SubSeq(q, 1, m) \in Seq(R)
      /\ Len(SubSeq(q, 1, m)) = (IF 1 <= m THEN m - 1 + 1 ELSE 0)
      /\ \A i \in 1..m - 1 + 1 : SubSeq(q, 1, m)[i] = q[1 + i - 1]
  BY <1>1, SubSeqProperties
<1>3. m - 1 + 1 = m /\ \A i \in 1..m : 1 + i - 1 = i
  BY <1>1
<1>4. SubSeq(q, 1, m) \in Seq(R) /\ Len(SubSeq(q, 1, m)) = m
        /\ \A i \in 1..m : SubSeq(q, 1, m)[i] = q[i]
  BY <1>1, <1>2, <1>3
<1> QED BY <1>4 DEF m

(* A request that is heard is alone in the queue by the time it is handled. *)
LEMMA HeardIsLast ==
  ASSUME Inv, inbox # <<>>, Heard
  PROVE  Rest = <<>> /\ waiting /\ verdict = "none" /\ Head(inbox).op = step
<1>1. Len(inbox) \in Nat \ {0} /\ Head(inbox) = inbox[1] /\ Rest \in Seq(Req)
        /\ Len(Rest) = Len(inbox) - 1
  BY TailFacts DEF Inv, Typed, Rest
<1>2. inbox[1].heard
  BY <1>1 DEF Heard
<1>3. Len(inbox) = 1 /\ inbox[1].op = step
  BY <1>1, <1>2 DEF Inv, LastOpen
<1>4. Len(Rest) = 0
  BY <1>1, <1>3
<1>5. Rest = <<>>
  <2> DEFINE r == Rest
  <2>1. r \in Seq(Req) /\ Len(r) = 0
    BY <1>1, <1>4
  <2> HIDE DEF r
  <2>2. r # <<>> => Len(r) \in Nat \ {0}
    BY <2>1, EmptySeq
  <2>3. r = <<>>
    BY <2>1, <2>2
  <2> QED BY <2>3 DEF r
<1>6. waiting /\ verdict = "none"
  BY <1>1, <1>2 DEF Inv, LastOpen
<1> QED BY <1>1, <1>3, <1>5, <1>6

(* A request that writes and is not heard finds the push failed. *)
LEMMA WriterHeardOrFailed ==
  ASSUME Inv, inbox # <<>>, Head(inbox).op # "end"
  PROVE  Heard \/ verdict = "failed"
<1>1. Len(inbox) \in Nat \ {0} /\ Head(inbox) = inbox[1]
  BY TailFacts DEF Inv, Typed
<1> QED BY <1>1 DEF Inv, OnlyEnds, Heard

(* The client's half of the invariant; Done's first conjunct is the        *)
(* device's.                                                               *)
ClientInv ==
  Typed /\ LastOpen /\ OnlyEnds /\ (verdict = "none" => step # "done")

LEMMA UnheardKeeps ==
  ASSUME Inv, inbox # <<>>, Unheard PROVE ClientInv'
<1> DEFINE n == Len(inbox)
<1>1. /\ n \in Nat \ {0} /\ Head(inbox) = inbox[1]
      /\ Rest \in Seq(Req) /\ Len(Rest) = n - 1
      /\ \A i \in 1..n - 1 : Rest[i] = inbox[i + 1]
  BY TailFacts DEF Inv, Typed, Rest
<1>2. ~inbox[1].heard /\ inbox' = Rest
        /\ UNCHANGED <<step, offset, waiting, verdict>>
  BY <1>1 DEF Unheard, Heard, client
<1>3. Typed'
  BY <1>1, <1>2 DEF Inv, Typed
<1>4. LastOpen'
  <2>1. ASSUME NEW i \in 1..n - 1, Rest[i].heard
        PROVE  waiting /\ i = n - 1 /\ Rest[i].op = step
    BY <1>1, <2>1 DEF Inv, LastOpen
  <2>2. ASSUME waiting
        PROVE  verdict = "none" /\ n - 1 > 0 /\ Rest[n - 1].heard
    <3>1. n # 1
      BY <1>2, <2>2 DEF Inv, LastOpen
    <3> QED BY <1>1, <2>2, <3>1 DEF Inv, LastOpen
  <2> HIDE DEF n
  <2> QED BY <1>1, <1>2, <2>1, <2>2 DEF LastOpen
<1>5. OnlyEnds'
  BY <1>1, <1>2 DEF Inv, OnlyEnds
<1>6. verdict' = "none" => step' # "done"
  BY <1>2 DEF Inv, Done
<1> QED BY <1>3, <1>4, <1>5, <1>6 DEF ClientInv

(* Giving up leaves nobody listening. *)
LEMMA GiveUpKeeps ==
  ASSUME Inv, NEW q \in Seq(Req), \A i \in 1..Len(q) : ~q[i].heard, GiveUp(q)
  PROVE  ClientInv'
<1> DEFINE e == Abort
<1>1. e \in Req /\ ~e.heard
  BY TransferAssumption DEF Abort, Req, Ops
<1>2. inbox' = Append(q, e) /\ ~waiting' /\ waiting' \in BOOLEAN
        /\ verdict' = "failed" /\ UNCHANGED <<step, offset>>
  BY DEF GiveUp
<1> HIDE DEF e
<1>3. \A i \in 1..Len(inbox') : ~inbox'[i].heard
  BY <1>1, <1>2, AppendFacts
<1>4. Typed'
  BY <1>1, <1>2, AppendFacts DEF Inv, Typed
<1> QED BY <1>2, <1>3, <1>4 DEF ClientInv, LastOpen, OnlyEnds

LEMMA AcceptedKeeps ==
  ASSUME Inv, inbox # <<>>, NEW next \in Steps,
         NEW at \in 0..Size, Accepted(next, at)
  PROVE  /\ ClientInv'
         /\ verdict' = verdict \/ (verdict = "none" /\ verdict' = "accepted"
                                     /\ next = "done")
<1>1. CASE Unheard
  BY <1>1, UnheardKeeps DEF Unheard, client
<1>2. CASE ~Unheard
  <2>1. Heard /\ inbox' = Rest /\ waiting' = FALSE /\ step' = next
          /\ offset' = at
          /\ verdict' = (IF next = "done" THEN "accepted" ELSE verdict)
    BY <1>2 DEF Accepted
  <2>2. Rest = <<>> /\ verdict = "none"
    BY <2>1, HeardIsLast
  <2>3. Len(inbox') = 0 /\ inbox' \in Seq(Req)
    BY <2>1, <2>2
  <2>4. Typed'
    BY <2>1, <2>2, <2>3 DEF Inv, Typed
  <2> QED BY <2>1, <2>2, <2>3, <2>4 DEF ClientInv, LastOpen, OnlyEnds
<1> QED BY <1>1, <1>2

LEMMA RefusedKeeps ==
  ASSUME Inv, inbox # <<>>, Refused
  PROVE  /\ ClientInv'
         /\ verdict' = verdict \/ (verdict = "none" /\ verdict' = "failed")
<1>1. CASE Unheard
  BY <1>1, UnheardKeeps DEF Unheard, client
<1>2. CASE Heard /\ GiveUp(Rest)
  <2>1. Rest = <<>> /\ verdict = "none" /\ verdict' = "failed"
    BY <1>2, HeardIsLast DEF GiveUp
  <2>2. Rest \in Seq(Req) /\ \A i \in 1..Len(Rest) : ~Rest[i].heard
    BY <2>1
  <2> QED BY <1>2, <2>1, <2>2, GiveUpKeeps
<1> QED BY <1>1, <1>2 DEF Refused

LEMMA MismatchedKeeps ==
  ASSUME Inv, inbox # <<>>, Mismatched
  PROVE  /\ ClientInv'
         /\ verdict' = verdict \/ (verdict = "none" /\ verdict' = "failed")
<1>1. CASE Refused
  BY <1>1, RefusedKeeps
<1>2. CASE ~Refused
  <2>1. Heard
    BY <1>2 DEF Mismatched, Refused
  <2>2. inbox' = Rest /\ ~waiting' /\ waiting' \in BOOLEAN
          /\ step' = "begin" /\ offset' = 0 /\ verdict' = verdict
    BY <1>2 DEF Mismatched, Refused
  <2>3. Rest = <<>>
    BY <2>1, HeardIsLast
  <2>4. Len(inbox') = 0 /\ inbox' \in Seq(Req)
    BY <2>3, <2>2
  <2>5. Typed'
    <3>1. step' \in Steps /\ offset' \in 0..Size /\ waiting' \in BOOLEAN
      BY <2>2, TransferAssumption DEF Steps
    <3>2. verdict' \in {"none", "accepted", "failed"}
      BY <2>2 DEF Inv, Typed
    <3> QED BY <2>4, <3>1, <3>2 DEF Typed
  <2> QED BY <2>4, <2>5, <2>2 DEF ClientInv, LastOpen, OnlyEnds
<1> QED BY <1>1, <1>2

-----------------------------------------------------------------------------
LEMMA SendKeeps ==
  ASSUME Inv, Send PROVE Inv' /\ verdict' = verdict
<1> DEFINE n == Len(inbox)
           e == Request(step)
<1>1. n \in Nat /\ inbox \in Seq(Req)
  BY DEF Inv, Typed
<1>2. ChunkLength \in 0..Size
  BY TransferAssumption DEF ChunkLength, Inv, Typed
<1>3. e \in Req /\ e.heard /\ e.op = step
  <2>1. step \in Ops /\ offset \in 0..Size
    BY DEF Inv, Typed, Done, Send, Steps, Ops
  <2>2. e = [op |-> step, offset |-> offset, heard |-> TRUE,
             length |-> IF step = "chunk" THEN ChunkLength ELSE 0]
    BY DEF Request
  <2> HIDE DEF e
  <2> QED BY <1>2, <2>1, <2>2, TransferAssumption DEF Req
<1> HIDE DEF e
<1>4. inbox' = Append(inbox, e) /\ waiting' /\ waiting' \in BOOLEAN
        /\ UNCHANGED <<staged, step, offset, verdict>> /\ verdict = "none"
        /\ ~waiting
  BY DEF Send, e
<1>5. /\ inbox' \in Seq(Req) /\ Len(inbox') = n + 1
      /\ \A i \in 1..n : inbox'[i] = inbox[i]
      /\ inbox'[n + 1] = e
  BY <1>1, <1>3, <1>4, AppendFacts
<1>6. \A i \in 1..n : ~inbox[i].heard
  BY <1>4 DEF Inv, LastOpen
<1>7. Typed'
  BY <1>4, <1>5 DEF Inv, Typed
<1>8. LastOpen'
  <2>1. ASSUME NEW i \in 1..n + 1, inbox'[i].heard
        PROVE  i = n + 1 /\ inbox'[i].op = step
    BY <1>1, <1>3, <1>5, <1>6, <2>1
  <2> QED BY <1>1, <1>3, <1>4, <1>5, <2>1 DEF LastOpen
<1>9. OnlyEnds'
  <2>1. ASSUME NEW i \in 1..n + 1
        PROVE  inbox'[i].heard \/ inbox'[i].op = "end"
    <3>1. CASE i = n + 1
      BY <1>3, <1>5, <3>1
    <3>2. CASE i # n + 1
      <4>1. i \in 1..n
        BY <1>1, <3>2
      <4> QED BY <1>4, <1>5, <4>1 DEF Inv, OnlyEnds
    <3> QED BY <3>1, <3>2
  <2> QED BY <1>5, <2>1 DEF OnlyEnds
<1>10. Done'
  BY <1>4 DEF Inv, Done
<1> QED BY <1>4, <1>7, <1>8, <1>9, <1>10 DEF Inv

LEMMA TimeOutKeeps ==
  ASSUME Inv, TimeOut
  PROVE  Inv' /\ (verdict' = verdict \/ verdict = "none")
<1> DEFINE n == Len(inbox)
           queue(kept) == IF kept = 0 THEN SubSeq(inbox, 1, n - 1)
                                      ELSE [inbox EXCEPT ![n].heard = FALSE]
<1>1. n \in Nat \ {0} /\ inbox \in Seq(Req) /\ inbox[n].heard
        /\ inbox[n].op = step /\ inbox[n] \in Req
  BY DEF Inv, Typed, LastOpen, TimeOut
<1>2. verdict = "none"
  BY DEF Inv, LastOpen, TimeOut
<1>3. \A i \in 1..n - 1 : ~inbox[i].heard /\ inbox[i].op = "end"
  BY <1>1, <1>2 DEF Inv, LastOpen, OnlyEnds
<1>4. PICK kept \in {0, 1} :
        IF step = "end" /\ attempt < MaxAttempts
        THEN /\ inbox' = queue(kept)
             /\ waiting' = FALSE
             /\ UNCHANGED <<step, offset, verdict>>
        ELSE GiveUp(queue(kept))
  BY DEF TimeOut
<1> DEFINE q == queue(kept)
<1>5. /\ q \in Seq(Req)
      /\ \A i \in 1..Len(q) : ~q[i].heard
      /\ step = "end" => \A i \in 1..Len(q) : q[i].op = "end"
  <2>1. CASE kept = 0
    <3>1. q = SubSeq(inbox, 1, n - 1)
      BY <2>1
    <3> HIDE DEF q
    <3>2. q \in Seq(Req) /\ Len(q) = n - 1
            /\ \A i \in 1..n - 1 : q[i] = inbox[i]
      <4>1. inbox \in Seq(Req) /\ n = Len(inbox) /\ n > 0
        BY <1>1
      <4> HIDE DEF n
      <4> QED BY <3>1, <4>1, CutFacts
    <3> QED BY <1>3, <3>2
  <2>2. CASE kept = 1
    <3> DEFINE e == [inbox[n] EXCEPT !.heard = FALSE]
    <3>1. q = [inbox EXCEPT ![n] = e]
      BY <2>2
    <3> HIDE DEF q
    <3>2. e \in Req /\ ~e.heard /\ e.op = step
      BY <1>1 DEF Req
    <3> HIDE DEF e
    <3>3. q \in Seq(Req) /\ Len(q) = n /\ q[n] = e
            /\ \A i \in 1..n - 1 : q[i] = inbox[i]
      <4>1. n \in 1..Len(inbox) /\ inbox \in Seq(Req) /\ n = Len(inbox)
        BY <1>1
      <4>2. \A i \in 1..n - 1 : i \in 1..n /\ i # n
        BY <1>1
      <4> HIDE DEF n
      <4> QED BY <3>1, <3>2, <4>1, <4>2, ExceptSeq
    <3>4. ASSUME NEW i \in 1..n PROVE i = n \/ i \in 1..n - 1
      BY <1>1
    <3> QED BY <1>3, <3>2, <3>3, <3>4
  <2> QED BY <2>1, <2>2
<1>6. CASE step = "end" /\ attempt < MaxAttempts
  <2>1. inbox' = q /\ ~waiting' /\ waiting' \in BOOLEAN
          /\ UNCHANGED <<step, offset, verdict>>
    BY <1>4, <1>6
  <2> HIDE DEF q
  <2>2. Typed'
    BY <1>5, <2>1 DEF Inv, Typed
  <2>3. LastOpen' /\ OnlyEnds'
    BY <1>5, <1>6, <2>1 DEF LastOpen, OnlyEnds
  <2>4. Done'
    BY <1>2, <2>1 DEF Inv, Done
  <2> QED BY <2>1, <2>2, <2>3, <2>4 DEF Inv
<1>7. CASE ~(step = "end" /\ attempt < MaxAttempts)
  <2>1. GiveUp(q)
    BY <1>4, <1>7
  <2> HIDE DEF q
  <2>2. ClientInv'
    BY <1>5, <2>1, GiveUpKeeps
  <2>3. verdict' = "failed"
    BY <2>1 DEF GiveUp
  <2> QED BY <1>2, <2>2, <2>3 DEF ClientInv, Inv, Done
<1> QED BY <1>6, <1>7

(* A handler whose request is not a file/end. *)
LEMMA WriterNotAccepted ==
  ASSUME Inv, inbox # <<>>, Head(inbox).op # "end"
  PROVE  verdict # "accepted"
BY WriterHeardOrFailed, HeardIsLast

LEMMA DeviceKeeps ==
  ASSUME Inv, Device
  PROVE  Inv' /\ (verdict' = verdict \/ verdict = "none")
<1>0. verdict = "accepted" => staged = Copy(Size, TRUE)
  BY DEF Inv, Done
<1>1. CASE HandleBegin
  <2>1. inbox # <<>> /\ Head(inbox).op # "end"
          /\ (Accepted("chunk", 0) \/ Refused)
    BY <1>1 DEF HandleBegin, Handle
  <2>2. ClientInv' /\ verdict' # "accepted"
          /\ (verdict' = verdict \/ verdict = "none")
    <3>1. 0 \in 0..Size /\ "chunk" \in Steps
      BY TransferAssumption DEF Steps
    <3> QED BY <2>1, <3>1, WriterNotAccepted, AcceptedKeeps, RefusedKeeps
  <2> QED BY <2>2 DEF ClientInv, Inv, Done
<1>2. CASE HandleChunk
  <2>1. inbox # <<>> /\ Head(inbox).op # "end"
    BY <1>2 DEF HandleChunk, Handle
  <2>2. CASE Refused
    <3>1. ClientInv' /\ verdict' # "accepted"
            /\ (verdict' = verdict \/ verdict = "none")
      BY <2>1, <2>2, WriterNotAccepted, RefusedKeeps
    <3> QED BY <3>1 DEF ClientInv, Inv, Done
  <2>3. CASE ~Refused
    <3> DEFINE end == staged.size + Head(inbox).length
               next == IF end >= Size THEN "end" ELSE "chunk"
    <3>1. Accepted(next, end) /\ staged.size = Head(inbox).offset /\ end <= Size
      BY <1>2, <2>3 DEF HandleChunk
    <3>2. next \in Steps /\ next # "done"
      BY DEF Steps
    <3>3. end \in 0..Size
      <4>1. Head(inbox) \in Req
        BY <2>1, TailFacts DEF Inv, Typed
      <4> QED BY <3>1, <4>1, TransferAssumption DEF Req
    <3> HIDE DEF next, end
    <3>4. ClientInv' /\ verdict' # "accepted"
            /\ (verdict' = verdict \/ verdict = "none")
      BY <2>1, <3>1, <3>2, <3>3, WriterNotAccepted, AcceptedKeeps
    <3> QED BY <3>4 DEF ClientInv, Inv, Done
  <2> QED BY <2>2, <2>3
<1>3. CASE HandleEnd
  <2>1. inbox # <<>> /\ staged' = staged /\ offset \in 0..Size
    BY <1>3 DEF HandleEnd, Handle, Inv, Typed
  <2>2. CASE staged = Copy(Size, TRUE) /\ Accepted("done", offset)
    <3>1. ClientInv' /\ (verdict' = verdict \/ verdict = "none")
      BY <2>1, <2>2, AcceptedKeeps DEF Steps
    <3> QED BY <2>1, <2>2, <3>1 DEF ClientInv, Inv, Done
  <2>3. CASE Mismatched \/ Refused
    <3>1. ClientInv' /\ (verdict' = verdict
            \/ (verdict = "none" /\ verdict' = "failed"))
      BY <2>1, <2>3, MismatchedKeeps, RefusedKeeps
    <3> QED BY <1>0, <2>1, <3>1 DEF ClientInv, Inv, Done
  <2> QED BY <1>3, <2>2, <2>3 DEF HandleEnd
<1>4. CASE HandleWhole
  <2>1. inbox # <<>> /\ Head(inbox).op # "end" /\ offset \in 0..Size
    BY <1>4 DEF HandleWhole, Handle, Inv, Typed
  <2>2. CASE staged' = Copy(Size, TRUE) /\ Accepted("done", offset)
    <3>1. ClientInv' /\ (verdict' = verdict \/ verdict = "none")
      BY <2>1, <2>2, AcceptedKeeps DEF Steps
    <3> QED BY <2>2, <3>1 DEF ClientInv, Inv, Done
  <2>3. CASE Refused
    <3>1. ClientInv' /\ verdict' # "accepted"
            /\ (verdict' = verdict \/ verdict = "none")
      BY <2>1, <2>3, WriterNotAccepted, RefusedKeeps
    <3> QED BY <3>1 DEF ClientInv, Inv, Done
  <2> QED BY <1>4, <2>2, <2>3 DEF HandleWhole
<1>5. CASE HandleAbort
  <2>1. inbox # <<>> /\ Head(inbox).op = "abort"
    BY <1>5 DEF HandleAbort
  <2>2. ~Heard
    BY <2>1, HeardIsLast DEF Inv, Typed, Steps
  <2>3. verdict = "failed" /\ verdict' = verdict
    BY <1>5, <2>1, <2>2, WriterHeardOrFailed DEF HandleAbort, client
  <2>4. ClientInv'
    BY <1>5, <2>1, <2>2, UnheardKeeps DEF HandleAbort, Unheard
  <2> QED BY <2>3, <2>4 DEF ClientInv, Inv, Done
<1> QED BY <1>1, <1>2, <1>3, <1>4, <1>5 DEF Device

-----------------------------------------------------------------------------
LEMMA InvInit == ASSUME Init PROVE Inv
<1>1. inbox = <<>> /\ Len(inbox) = 0 /\ inbox \in Seq(Req)
  BY DEF Init
<1>2. verdict = "none" /\ ~waiting /\ waiting \in BOOLEAN /\ offset = 0
        /\ step \in Steps /\ step # "done"
  BY DEF Init, Steps
<1>3. Typed
  BY <1>1, <1>2, TransferAssumption DEF Typed
<1> QED BY <1>1, <1>2, <1>3 DEF Inv, LastOpen, OnlyEnds, Done

LEMMA InvStep ==
  ASSUME Inv, [Next]_vars
  PROVE  Inv' /\ (verdict' = verdict \/ verdict = "none")
<1>1. CASE UNCHANGED vars
  BY <1>1 DEF vars, client, Inv, Typed, LastOpen, OnlyEnds, Done
<1>2. CASE Next
  BY <1>2, SendKeeps, TimeOutKeeps, DeviceKeeps DEF Next
<1> QED BY <1>1, <1>2

(* The chunk protocol implements the one-step push that OtaUpdate takes    *)
(* for granted, whatever is lost, late or badly written.                   *)
THEOREM PushImplemented == Spec => PushIsOneStep
<1>1. Init => Push!Init
  <2> SUFFICES ASSUME Init PROVE Push!Init
    OBVIOUS
  <2>1. staged # Copy(Size, TRUE)
    BY TransferAssumption DEF Init, Missing, Copy
  <2> QED BY <2>1 DEF Init, Push!Init
<1>2. Inv /\ Inv' /\ (verdict' = verdict \/ verdict = "none")
        => [Push!Next]_<<verdict,
              IF staged = Copy(Size, TRUE) THEN "whole" ELSE "torn">>
  <2> SUFFICES ASSUME Inv, Inv', verdict' = verdict \/ verdict = "none"
               PROVE  [Push!Next]_<<verdict,
                 IF staged = Copy(Size, TRUE) THEN "whole" ELSE "torn">>
    OBVIOUS
  <2> DEFINE c == IF staged = Copy(Size, TRUE) THEN "whole" ELSE "torn"
  <2>1. c' \in {"torn", "whole"}
    OBVIOUS
  <2>2. verdict \in {"none", "accepted", "failed"}
          /\ verdict' \in {"none", "accepted", "failed"}
    BY DEF Inv, Typed
  <2>3. (verdict = "accepted" => c = "whole")
          /\ (verdict' = "accepted" => c' = "whole")
    BY DEF Inv, Done
  <2> HIDE DEF c
  <2>4. [Push!Next]_<<verdict, c>>
    BY <2>1, <2>2, <2>3 DEF Push!Next, Push!Write, Push!Accept, Push!Fail, Push!Clean, c
  <2> QED BY <2>4 DEF c
<1>3. Inv /\ [Next]_vars
        => Inv' /\ (verdict' = verdict \/ verdict = "none")
  BY InvStep
<1>4. Init => Inv
  BY InvInit
<1> QED BY <1>1, <1>2, <1>3, <1>4, PTL DEF Spec, PushIsOneStep, Push!Spec

----------------------------------------------------------------------------
(* The rest of the types. *)
Counted ==
  /\ staged \in Copies /\ push \in {1, 2} /\ attempt \in 1..MaxAttempts
  /\ faults \in Seq(Faults) /\ Len(faults) <= MaxFaults

(* While nothing but answers and requests are lost, the staged copy is     *)
(* exactly what the client has sent, and each further attempt at file/end  *)
(* has cost one loss.                                                      *)
OnlyLost == \A i \in 1..Len(faults) : faults[i] = "lost"
Exact ==
  /\ push = 1 /\ Len(faults) >= attempt - 1
  /\ step = "chunk" => staged = Copy(offset, TRUE) /\ offset < Size
  /\ step = "end" => staged = Copy(Size, TRUE)
  /\ \A i \in 1..Len(inbox) :
       inbox[i].heard /\ inbox[i].op = "chunk" =>
         inbox[i].offset = offset /\ inbox[i].length = ChunkLength
Lossy ==
  OnlyLost =>
    /\ verdict = "none" => Exact
    /\ verdict = "failed" /\ step = "end" => Len(faults) > 2

(* A fault is counted, and one that is not a loss is the end of OnlyLost. *)
LEMMA FaultIs ==
  ASSUME Counted, NEW kind, Fault(kind)
  PROVE  /\ faults' \in Seq(Faults) /\ Len(faults') <= MaxFaults
         /\ Len(faults') = Len(faults) + 1
         /\ OnlyLost' => OnlyLost /\ kind = "lost"
<1>1. /\ faults \in Seq(Faults) /\ kind \in Faults /\ faults' = Append(faults, kind)
      /\ Len(faults) < MaxFaults /\ MaxFaults \in Nat /\ Len(faults) \in Nat
  BY TransferAssumption DEF Counted, Fault
<1>2. /\ faults' \in Seq(Faults) /\ Len(faults') = Len(faults) + 1
      /\ \A i \in 1..Len(faults) : faults'[i] = faults[i]
      /\ faults'[Len(faults) + 1] = kind
  BY <1>1
<1> QED BY <1>1, <1>2 DEF OnlyLost

(* The client counts its pushes and attempts within their bounds. *)
LEMMA ClientCounted ==
  ASSUME Counted, NEW next, NEW at,
         Unheard \/ Accepted(next, at) \/ Refused \/ Mismatched
  PROVE  push' \in {1, 2} /\ attempt' \in 1..MaxAttempts
BY DEF Counted, Unheard, Accepted, Refused, Mismatched, GiveUp, client, MaxAttempts

(* The staged copy stays within the file, whatever the device handles. *)
LEMMA CountedDevice == ASSUME Inv, Counted, Device PROVE Counted'
<1>1. \A n \in 0..Size, b \in BOOLEAN : Copy(n, b) \in Copies
  BY DEF Copy, Copies
<1>2. 0 \in 0..Size /\ Size \in 0..Size
  BY TransferAssumption
<1>3. (UNCHANGED faults \/ \E kind : Fault(kind))
        => faults' \in Seq(Faults) /\ Len(faults') <= MaxFaults
  BY FaultIs DEF Counted
<1>4. CASE HandleChunk
  <2> DEFINE r == Head(inbox)
  <2>1. r \in Req /\ (Unheard \/ Refused \/ \E next, at : Accepted(next, at))
        /\ (UNCHANGED faults \/ \E kind : Fault(kind))
    BY <1>4, TailFacts DEF HandleChunk, Handle, Inv, Typed
  <2>2. CASE staged' = staged
    BY <1>3, <2>1, <2>2, ClientCounted DEF Counted
  <2>3. CASE staged' # staged
    <3>1. /\ staged.size = r.offset /\ staged.size + r.length <= Size
          /\ \/ staged' = Copy(staged.size + r.length, staged.right)
             \/ staged' = Copy(staged.size + r.length, FALSE)
             \/ \E part \in 0..r.length : staged' = Copy(staged.size + part, staged.right)
      BY <1>4, <2>3 DEF HandleChunk
    <3>2. r.offset \in 0..Size /\ r.length \in 0..Size
      BY <2>1 DEF Req
    <3>3. staged.size \in 0..Size /\ staged.right \in BOOLEAN
      BY <3>1, <3>2 DEF Counted, Copies, Missing
    <3>4. \A k \in 0..r.length : staged.size + k \in 0..Size
      BY <3>1, <3>2, <3>3, TransferAssumption
    <3>5. staged' \in Copies
      <4>1. r.length \in 0..r.length
        BY <3>2, TransferAssumption
      <4>2. \E k \in 0..r.length, b \in BOOLEAN : staged' = Copy(staged.size + k, b)
        BY <3>1, <3>3, <4>1
      <4>3. PICK k \in 0..r.length, b \in BOOLEAN : staged' = Copy(staged.size + k, b)
        BY <4>2
      <4>4. staged.size + k \in 0..Size
        BY <3>4
      <4> QED BY <1>1, <4>3, <4>4
    <3> QED BY <1>3, <2>1, <3>5, ClientCounted DEF Counted
  <2> QED BY <2>2, <2>3
<1>5. CASE HandleBegin \/ HandleEnd \/ HandleWhole
  <2>1. staged' \in Copies
    BY <1>1, <1>2, <1>5 DEF HandleBegin, HandleEnd, HandleWhole, Counted
  <2>2. (Unheard \/ Refused \/ Mismatched \/ \E next, at : Accepted(next, at))
        /\ (UNCHANGED faults \/ \E kind : Fault(kind))
    BY <1>5 DEF HandleBegin, HandleEnd, HandleWhole
  <2> QED BY <1>3, <2>1, <2>2, ClientCounted DEF Counted
<1>6. CASE HandleAbort
  BY <1>6 DEF HandleAbort, Counted, Copies, client
<1> QED BY <1>4, <1>5, <1>6 DEF Device

(* Every step keeps the types. *)
LEMMA CountedStep == ASSUME Inv, Counted, [Next]_vars PROVE Counted'
<1>1. CASE Send \/ UNCHANGED vars
  BY <1>1 DEF Send, vars, client, Counted
<1>2. CASE TimeOut
  <2>1. faults' \in Seq(Faults) /\ Len(faults') <= MaxFaults
    BY <1>2, FaultIs DEF TimeOut
  <2>2. push' \in {1, 2} /\ attempt' \in 1..MaxAttempts /\ UNCHANGED staged
    BY <1>2 DEF TimeOut, GiveUp, Counted, MaxAttempts
  <2> QED BY <2>1, <2>2 DEF Counted
<1> QED BY <1>1, <1>2, CountedDevice DEF Next

(* What the device answers while only losses have happened: a request that *)
(* is heard finds the copy the client expects.                             *)
LEMMA LossyDevice == ASSUME Inv, Inv', Counted, Lossy, Device PROVE Lossy'
<1> SUFFICES ASSUME OnlyLost'
             PROVE  /\ verdict' = "none" => Exact'
                    /\ verdict' = "failed" /\ step' = "end" => Len(faults') > 2
  BY DEF Lossy
<1>0. UNCHANGED faults \/ \E kind : Fault(kind)
  BY DEF Device, HandleBegin, HandleChunk, HandleEnd, HandleWhole, HandleAbort
<1>1. OnlyLost /\ Len(faults') >= Len(faults) /\ \A kind : kind # "lost" => ~Fault(kind)
  BY <1>0, FaultIs DEF OnlyLost, Counted
<1>2. inbox # <<>> /\ Head(inbox) = inbox[1] /\ inbox[1] \in Req
  BY TailFacts DEF Device, HandleBegin, HandleChunk, HandleEnd, HandleWhole, HandleAbort,
     Handle, Inv, Typed
<1>3. CASE ~Heard
  <2>1. inbox' = Rest /\ UNCHANGED client
    BY <1>3, <1>1 DEF Device, HandleBegin, HandleChunk, HandleEnd, HandleWhole, HandleAbort,
       Accepted, Refused, Mismatched, Unheard
  <2>2. CASE verdict = "none"
    <3>1. HandleEnd /\ UNCHANGED staged
      BY <1>2, <1>3, <2>2, WriterHeardOrFailed DEF Device, HandleBegin, HandleChunk,
         HandleEnd, HandleWhole, HandleAbort, Handle
    <3>2. \A i \in 1..Len(Rest) : i + 1 \in 1..Len(inbox) /\ Rest[i] = inbox[i + 1]
      BY <1>2, TailFacts DEF Inv, Typed, Rest
    <3>3. Exact
      BY <1>1, <2>2 DEF Lossy
    <3>4. Len(faults') >= attempt' - 1
      BY <1>1, <2>1, <3>3 DEF Exact, client, Counted
    <3> QED BY <2>1, <2>2, <3>1, <3>2, <3>3, <3>4 DEF Exact, client, ChunkLength
  <2>3. CASE verdict # "none"
    BY <1>1, <2>1, <2>3 DEF Lossy, client, Counted
  <2> QED BY <2>2, <2>3
<1>4. CASE Heard
  <2>1. Rest = <<>> /\ verdict = "none" /\ Head(inbox).op = step /\ Exact
    BY <1>1, <1>2, <1>4, HeardIsLast DEF Lossy
  <2>2. CASE HandleBegin
    <3>1. staged' = Copy(0, TRUE) /\ step' = "chunk" /\ offset' = 0 /\ inbox' = <<>>
          /\ UNCHANGED <<push, attempt, faults, verdict>>
      BY <1>1, <1>4, <2>1, <2>2 DEF HandleBegin, Accepted, Unheard
    <3> QED BY <2>1, <3>1, TransferAssumption DEF Exact
  <2>3. CASE HandleChunk
    <3> DEFINE end == staged.size + Head(inbox).length
               next == IF end >= Size THEN "end" ELSE "chunk"
    <3>1. step = "chunk" /\ Head(inbox).offset = offset /\ Head(inbox).length = ChunkLength
      BY <1>2, <1>4, <2>1, <2>3 DEF HandleChunk, Handle, Exact, Heard, Inv, Typed
    <3>2. staged = Copy(offset, TRUE) /\ offset < Size /\ offset \in 0..Size
      BY <2>1, <3>1 DEF Exact, Inv, Typed
    <3>3. staged.size = offset /\ staged.right = TRUE /\ end <= Size /\ end \in 0..Size
      BY <3>1, <3>2, TransferAssumption DEF Copy, ChunkLength
    <3>4. /\ staged' = Copy(end, TRUE) /\ Accepted(next, end) /\ UNCHANGED faults
      <4>1. ~Fault("flash") /\ ~Fault("io")
        BY <1>1
      <4>2. ~(staged.size # Head(inbox).offset \/ end > Size)
        BY <3>1, <3>3, TransferAssumption
      <4> QED BY <2>3, <3>3, <4>1, <4>2 DEF HandleChunk
    <3> HIDE DEF end
    <3>5. step' = next /\ offset' = end /\ inbox' = <<>> /\ UNCHANGED <<push, attempt, verdict>>
      BY <1>4, <2>1, <3>4 DEF Accepted, Unheard
    <3>6. step' = "chunk" => end < Size
      BY <3>3, <3>5, TransferAssumption
    <3>7. step' = "end" => end = Size
      BY <3>3, <3>5, TransferAssumption
    <3>8. Exact'
      <4> HIDE DEF next
      <4>1. staged' = Copy(offset', TRUE) /\ Len(inbox') = 0
        BY <3>4, <3>5
      <4>2. push' = 1 /\ Len(faults') >= attempt' - 1
        BY <2>1, <3>4, <3>5 DEF Exact
      <4>3. \A i \in 1..Len(inbox') : FALSE
        BY <4>1
      <4> HIDE DEF end
      <4>4. /\ step' = "chunk" => staged' = Copy(offset', TRUE) /\ offset' < Size
            /\ step' = "end" => staged' = Copy(Size, TRUE)
        BY <3>5, <3>6, <3>7, <4>1
      <4> QED BY <4>2, <4>3, <4>4 DEF Exact
    <3>9. verdict' = "none"
      BY <2>1, <3>5
    <3> QED BY <3>8, <3>9
  <2>4. CASE HandleEnd
    <3>1. step = "end" /\ staged = Copy(Size, TRUE)
      BY <2>1, <2>4 DEF HandleEnd, Handle, Exact
    <3>2. verdict' = "accepted"
      BY <1>1, <1>4, <2>4, <3>1 DEF HandleEnd, Accepted, Unheard
    <3> QED BY <3>2
  <2>5. CASE HandleWhole
    <3>1. verdict' = "accepted"
      BY <1>1, <1>4, <2>5 DEF HandleWhole, Accepted, Unheard
    <3> QED BY <3>1
  <2>6. CASE HandleAbort
    BY <2>1, <2>6 DEF HandleAbort, Inv, Typed, Steps
  <2> QED BY <2>2, <2>3, <2>4, <2>5, <2>6 DEF Device
<1> QED BY <1>3, <1>4

(* The client counts a loss for every attempt. *)
LEMMA LossyStep == ASSUME Inv, Inv', Counted, Lossy, [Next]_vars PROVE Lossy'
<1>1. CASE UNCHANGED vars
  BY <1>1 DEF vars, client, Lossy, OnlyLost, Exact, ChunkLength
<1>2. CASE Send
  <2> DEFINE n == Len(inbox)
  <2>1. /\ verdict = "none" /\ ~waiting /\ inbox' = Append(inbox, Request(step))
        /\ UNCHANGED <<staged, step, offset, push, attempt, verdict, faults>>
    BY <1>2 DEF Send
  <2>2. /\ Len(inbox') = n + 1 /\ inbox'[n + 1] = Request(step) /\ n \in Nat
        /\ \A i \in 1..n : inbox'[i] = inbox[i] /\ ~inbox'[i].heard
    BY <2>1 DEF Inv, Typed, LastOpen
  <2>3. ASSUME NEW i \in 1..Len(inbox'), inbox'[i].heard, inbox'[i].op = "chunk"
        PROVE  inbox'[i].offset = offset /\ inbox'[i].length = ChunkLength
    <3>1. i = n + 1
      BY <2>2, <2>3
    <3> QED BY <2>2, <2>3, <3>1 DEF Request
  <2>4. ASSUME Exact PROVE Exact'
    BY <2>1, <2>3, <2>4 DEF Exact, ChunkLength
  <2> QED BY <2>1, <2>4 DEF Lossy, OnlyLost
<1>3. CASE TimeOut
  <2>1. verdict = "none" /\ Fault("lost")
    BY <1>3 DEF TimeOut, Inv, LastOpen
  <2> SUFFICES ASSUME OnlyLost'
               PROVE  /\ verdict' = "none" => Exact'
                      /\ verdict' = "failed" /\ step' = "end" => Len(faults') > 2
    BY DEF Lossy
  <2>2. Exact /\ Len(faults') = Len(faults) + 1
    BY <2>1, FaultIs DEF Lossy
  <2>3. CASE step = "end" /\ attempt < MaxAttempts
    <3>1. /\ attempt' = attempt + 1 /\ ~waiting'
          /\ UNCHANGED <<staged, step, offset, push, verdict>>
      BY <1>3, <2>3 DEF TimeOut
    <3>2. \A i \in 1..Len(inbox') : ~inbox'[i].heard
      BY <3>1 DEF Inv, LastOpen
    <3>3. Len(faults') >= attempt' - 1
      BY <2>2, <3>1 DEF Exact, Counted
    <3> QED BY <2>1, <2>2, <2>3, <3>1, <3>2, <3>3 DEF Exact
  <2>4. CASE ~(step = "end" /\ attempt < MaxAttempts)
    <3>1. verdict' = "failed" /\ step' = step
      BY <1>3, <2>4 DEF TimeOut, GiveUp
    <3>2. step = "end" => Len(faults) + 1 > 2
      BY <2>2, <2>4 DEF Exact, Counted, MaxAttempts
    <3> QED BY <2>2, <3>1, <3>2
  <2> QED BY <2>3, <2>4
<1> QED BY <1>1, <1>2, <1>3, LossyDevice DEF Next

(* Nothing is staged, sent or lost at first. *)
LEMMA InitLossy == ASSUME Init PROVE Counted /\ Lossy
<1>1. Missing \in Copies /\ 1 \in 1..MaxAttempts /\ MaxFaults \in Nat /\ <<>> \in Seq(Faults)
  BY TransferAssumption DEF Copies, MaxAttempts
<1>2. Counted
  BY <1>1 DEF Init, Counted
<1>3. Exact /\ verdict = "none"
  <2>1. Len(inbox) = 0 /\ Len(faults) = 0 /\ attempt = 1 /\ push = 1 /\ verdict = "none"
        /\ step # "chunk" /\ step # "end"
    BY DEF Init
  <2>2. \A i \in 1..Len(inbox) : FALSE
    BY <2>1
  <2>3. Len(faults) >= attempt - 1
    BY <2>1
  <2> QED BY <2>1, <2>2, <2>3, Zenon DEF Exact
<1> QED BY <1>2, <1>3 DEF Lossy

(* The invariants say what PushSound says. *)
LEMMA InvPushSound == Inv /\ Counted /\ Lossy => PushSound
<1> SUFFICES ASSUME Inv, Counted, Lossy PROVE PushSound
  OBVIOUS
<1>1. TypeOK
  BY DEF TypeOK, Inv, Typed, Req, Counted, Steps
<1>2. ASSUME Range(faults) = {"lost"} PROVE OnlyLost
  BY <1>2 DEF OnlyLost, Range, Counted
<1> QED BY <1>1, <1>2 DEF PushSound, EndSurvivesLoss, Lossy

(* For every file and chunk size, and whatever goes wrong: the staged copy *)
(* never grows beyond the file (_handle_file_chunk), and lost answers      *)
(* alone do not fail a push at file/end before the third (_post_file_end). *)
THEOREM Sound == Spec => []PushSound
<1>1. Init => Inv /\ Counted /\ Lossy
  BY InvInit, InitLossy
<1>2. Inv /\ Counted /\ Lossy /\ [Next]_vars => (Inv /\ Counted /\ Lossy)'
  BY InvStep, CountedStep, LossyStep
<1> QED BY <1>1, <1>2, InvPushSound, PTL DEF Spec

-----------------------------------------------------------------------------
(* The controller of the switches (WeewxAutomation).                       *)

(* Numbers and sets.                                                       *)
(* Induction, with the property as the set of the numbers that have it.    *)
LEMMA SetInduction ==
  ASSUME NEW S, 0 \in S, \A n \in Nat : n \in S => n + 1 \in S
  PROVE  \A n \in Nat : n \in S
<1> DEFINE R == OpToRel(<, Nat)
           T == Nat \ S
<1>1. IsWellFoundedOn(R, Nat)
  BY NatLessThanWellFounded
<1>2. \A a, b \in Nat : a < b => <<a, b>> \in R
  BY DEF OpToRel
<1> HIDE DEF R
<1> SUFFICES ASSUME T # {} PROVE FALSE
  OBVIOUS
<1>3. PICK y \in T : \A z \in T : ~(<<z, y>> \in R)
  BY <1>1, WFMin
<1>4. y # 0 /\ y - 1 \in Nat /\ y - 1 < y /\ (y - 1) + 1 = y
  BY <1>3
<1>5. y - 1 \notin T
  BY <1>2, <1>3, <1>4
<1> QED BY <1>3, <1>4, <1>5

(* The values of a function on a finite set are finitely many.             *)
LEMMA ImageFacts ==
  ASSUME NEW S, IsFiniteSet(S), NEW f, DOMAIN f = S, f = [x \in S |-> f[x]]
  PROVE  LET T == {f[x] : x \in S} IN IsFiniteSet(T) /\ Cardinality(T) <= Cardinality(S)
<1> DEFINE T == {f[x] : x \in S}
<1>1. f \in Surjection(S, T)
  BY DEF Surjection
<1> HIDE DEF T
<1>2. IsFiniteSet(T) /\ Cardinality(T) <= Cardinality(S)
  BY <1>1, FS_Surjection
<1> QED BY <1>2 DEF T

(* A finite set of numbers has a bound among them.                         *)
LEMMA HasGreatest ==
  ASSUME NEW T, IsFiniteSet(T), T \subseteq Nat
  PROVE  \E x \in {0} \cup T : \A y \in {0} \cup T : x >= y
<1> DEFINE Bounded(U) == \E x \in {0} \cup U : \A y \in {0} \cup U : x >= y
           S == {n \in Nat : \A U \in SUBSET T : Cardinality(U) = n => Bounded(U)}
<1>1. 0 \in S
  <2>1. ASSUME NEW U \in SUBSET T, Cardinality(U) = 0 PROVE Bounded(U)
    <3>1. U = {}
      BY <2>1, FS_Subset, FS_EmptySet
    <3> QED BY <3>1
  <2> QED BY <2>1
<1>2. ASSUME NEW n \in Nat, n \in S PROVE n + 1 \in S
  <2>1. ASSUME NEW U \in SUBSET T, Cardinality(U) = n + 1 PROVE Bounded(U)
    <3>1. IsFiniteSet(U) /\ U # {}
      <4>1. IsFiniteSet(U)
        BY FS_Subset
      <4> QED BY <2>1, <4>1, FS_EmptySet
    <3>2. PICK u \in U : TRUE
      BY <3>1
    <3>3. Cardinality(U \ {u}) = n
      <4>1. Cardinality(U \ {u}) = Cardinality(U) - 1
        BY <3>1, <3>2, FS_RemoveElement
      <4> QED BY <2>1, <4>1
    <3>4. Bounded(U \ {u})
      BY <1>2, <3>3
    <3>5. PICK x \in {0} \cup (U \ {u}) : \A y \in {0} \cup (U \ {u}) : x >= y
      BY <3>4
    <3>6. CASE x >= u BY <3>5, <3>6
    <3>7. CASE ~(x >= u)
      <4>1. \A y \in {0} \cup U : u >= y
        BY <3>5, <3>7
      <4> QED BY <4>1, <3>2
    <3> QED BY <3>6, <3>7
  <2> HIDE DEF Bounded
  <2> QED BY <2>1
<1> HIDE DEF S
<1>3. \A n \in Nat : n \in S
  BY <1>1, <1>2, SetInduction
<1>4. Cardinality(T) \in S
  BY <1>3, FS_CardinalityType
<1> QED BY <1>4 DEF S

LEMMA TimeBoundFacts ==
  ASSUME NEW T, IsFiniteSet(T), T \subseteq Nat
  PROVE  TimeBound(T) \in Nat /\ \A t \in T : t <= TimeBound(T)
<1>1. \E x \in {0} \cup T : \A y \in {0} \cup T : x >= y
  BY HasGreatest
<1>2. TimeBound(T) \in {0} \cup T /\ \A y \in {0} \cup T : TimeBound(T) >= y
  BY <1>1, Zenon DEF TimeBound, Max
<1>3. TimeBound(T) \in Nat
  <2>1. {0} \cup T \subseteq Nat
    OBVIOUS
  <2> QED BY <1>2, <2>1, Zenon
<1>4. ASSUME NEW t \in T PROVE t <= TimeBound(T)
  BY <1>2, <1>3
<1> QED BY <1>3, <1>4

(* The bounds of the timers are what the rules of any book ask for.        *)
LEMMA RuleTextFacts ==
  /\ IsFiniteSet(RuleTexts) /\ RuleTexts \subseteq Rule
  /\ \A b \in Books : b # NoRule => b \in RuleTexts
<1>1. RuleTexts \subseteq Books /\ RuleTexts \subseteq Rule
  BY WeewxAssumption DEF RuleTexts
<1> QED BY <1>1, WeewxAssumption, FS_Subset DEF RuleTexts

LEMMA RuleFields ==
  ASSUME NEW b \in Rule
  PROVE  /\ b.name \in Names /\ b.state \in BOOLEAN /\ b.falseAction \in FalseActions
         /\ b.stale \in {"off", "hold"} /\ b.delay \in Nat /\ b.minOn \in Nat
         /\ b.minOff \in Nat /\ b.retry \in Nat \ {0} /\ b.groups \subseteq SUBSET Conditions
BY DEF Rule

LEMMA BoundFacts ==
  /\ MaxAge \in Nat /\ MaxDelay \in Nat /\ MaxCool \in Nat
  /\ CleanupRetry \in 0..MaxCool
  /\ \A b \in Books : b # NoRule => b.delay \in 0..MaxDelay /\ b.retry \in 0..MaxCool
<1> DEFINE On == {b.minOn : b \in RuleTexts}
           Off == {b.minOff : b \in RuleTexts}
           Delays == {b.delay : b \in RuleTexts}
           Retries == {b.retry : b \in RuleTexts}
           on == [b \in RuleTexts |-> b.minOn]
           off == [b \in RuleTexts |-> b.minOff]
           delays == [b \in RuleTexts |-> b.delay]
           retries == [b \in RuleTexts |-> b.retry]
<1>1. IsFiniteSet(RuleTexts) /\ RuleTexts \subseteq Rule
  BY RuleTextFacts
<1>2. IsFiniteSet(On) /\ On \subseteq Nat
  <2>1. On = {on[b] : b \in RuleTexts} /\ DOMAIN on = RuleTexts
          /\ on = [b \in RuleTexts |-> on[b]]
    OBVIOUS
  <2>2. On \subseteq Nat
    BY <1>1, RuleFields
  <2> HIDE DEF On, on
  <2> QED BY <1>1, <2>1, <2>2, ImageFacts
<1>3. IsFiniteSet(Off) /\ Off \subseteq Nat
  <2>1. Off = {off[b] : b \in RuleTexts} /\ DOMAIN off = RuleTexts
          /\ off = [b \in RuleTexts |-> off[b]]
    OBVIOUS
  <2>2. Off \subseteq Nat
    BY <1>1, RuleFields
  <2> HIDE DEF Off, off
  <2> QED BY <1>1, <2>1, <2>2, ImageFacts
<1>4. IsFiniteSet(Delays) /\ Delays \subseteq Nat
  <2>1. Delays = {delays[b] : b \in RuleTexts} /\ DOMAIN delays = RuleTexts
          /\ delays = [b \in RuleTexts |-> delays[b]]
    OBVIOUS
  <2>2. Delays \subseteq Nat
    BY <1>1, RuleFields
  <2> HIDE DEF Delays, delays
  <2> QED BY <1>1, <2>1, <2>2, ImageFacts
<1>5. IsFiniteSet(Retries) /\ Retries \subseteq Nat
  <2>1. Retries = {retries[b] : b \in RuleTexts} /\ DOMAIN retries = RuleTexts
          /\ retries = [b \in RuleTexts |-> retries[b]]
    OBVIOUS
  <2>2. Retries \subseteq Nat
    BY <1>1, RuleFields
  <2> HIDE DEF Retries, retries
  <2> QED BY <1>1, <2>1, <2>2, ImageFacts
<1>6. MaxAge = TimeBound(On \cup Off) /\ MaxDelay = TimeBound(Delays)
      /\ MaxCool = TimeBound({CleanupRetry} \cup Retries)
  BY DEF MaxAge, MaxDelay, MaxCool
<1>7. /\ \A b \in RuleTexts : b.delay \in Delays /\ b.retry \in Retries
  OBVIOUS
<1> HIDE DEF On, Off, Delays, Retries
<1>8. IsFiniteSet(On \cup Off) /\ On \cup Off \subseteq Nat
  BY <1>2, <1>3, FS_Union
<1>9. IsFiniteSet({CleanupRetry} \cup Retries) /\ {CleanupRetry} \cup Retries \subseteq Nat
  BY <1>5, FS_Singleton, FS_Union, WeewxAssumption
<1>10. MaxAge \in Nat
  BY <1>6, <1>8, TimeBoundFacts
<1>11. MaxDelay \in Nat /\ \A t \in Delays : t <= MaxDelay
  BY <1>4, <1>6, TimeBoundFacts
<1>12. MaxCool \in Nat /\ \A t \in {CleanupRetry} \cup Retries : t <= MaxCool
  BY <1>6, <1>9, TimeBoundFacts
<1>13. ASSUME NEW b \in Books, b # NoRule
       PROVE b.delay \in 0..MaxDelay /\ b.retry \in 0..MaxCool
  <2>1. b \in RuleTexts
    BY <1>13, RuleTextFacts
  <2>2. b.delay <= MaxDelay /\ b.retry <= MaxCool
    BY <1>7, <1>11, <1>12, <2>1
  <2>3. b.delay \in Nat /\ b.retry \in Nat
    BY <1>1, <2>1, RuleFields
  <2> QED BY <1>11, <1>12, <2>2, <2>3
<1>14. CleanupRetry \in 0..MaxCool
  BY <1>12, WeewxAssumption
<1> QED BY <1>10, <1>11, <1>12, <1>13, <1>14

-----------------------------------------------------------------------------
(* The two queues of WeewxAutomation.                                      *)
(* Only the document that a new connection brings may exceed the wire.     *)
IsAnswer(m) == m.kind \in {"ack", "result"}
WireFits == Len(wire) <= MaxWire \/ (Len(wire) = 1 /\ ~IsAnswer(wire[1]))

(* A message id is on its way to the device once, or on its way back.      *)
IdsApart ==
  /\ \A i, j \in 1..Len(outbox) : outbox[i].id = outbox[j].id => i = j
  /\ \A i \in 1..Len(outbox), j \in 1..Len(wire) :
       IsAnswer(wire[j]) => wire[j].id # outbox[i].id

QueueInv ==
  /\ outbox \in Seq(Command) /\ Len(outbox) <= MaxOutbox
  /\ wire \in Seq(Message) /\ Len(wire) <= MaxWire + 1
  /\ WireFits /\ IdsApart

LEMMA Bounds == MaxOutbox \in Nat /\ MaxWire \in Nat /\ Timeout \in Nat \ {0}
BY WeewxAssumption

LEMMA MessageFacts ==
  ASSUME NEW m \in Message
  PROVE  m.on \in BOOLEAN /\ (IsAnswer(m) => m.id \in Ids)
BY DEF Message, IsAnswer

LEMMA AnswerFacts ==
  ASSUME NEW c \in Command, NEW ok \in BOOLEAN
  PROVE  /\ Ack(c, ok) \in Message /\ Outcome(c, ok) \in Message
         /\ Ack(c, ok).id = c.id /\ Outcome(c, ok).id = c.id
         /\ c.id \in Ids /\ c.want \in BOOLEAN
BY DEF Message, Command, Ack, Outcome

LEMMA StateFacts ==
  ASSUME NEW on \in BOOLEAN
  PROVE  /\ StateIs(on) \in Message /\ ~IsAnswer(StateIs(on))
         /\ [kind |-> "meta", on |-> on] \in Message /\ ~IsAnswer([kind |-> "meta", on |-> on])
         /\ [kind |-> "state", on |-> on] \in Message
         /\ ~IsAnswer([kind |-> "state", on |-> on])
BY DEF Message, StateIs, IsAnswer

LEMMA RangeFacts ==
  ASSUME NEW n \in Nat
  PROVE  IsFiniteSet(1..n) /\ Cardinality(1..n) = n
<1>1. IsFiniteSet(1..n) /\ Cardinality(1..n) = IF 1 > n THEN 0 ELSE n - 1 + 1
  BY FS_Interval, 1 \in Int, n \in Int
<1> QED BY <1>1

(* There is always an id to give to a command.                             *)
LEMMA FreshId ==
  ASSUME QueueInv
  PROVE  \E i \in Ids : i \notin UsedIds
<1> DEFINE S == {outbox[i].id : i \in DOMAIN outbox}
           D == {j \in DOMAIN wire : wire[j].kind \in {"ack", "result"}}
           T == {wire[i].id : i \in D}
           f == [i \in DOMAIN outbox |-> outbox[i].id]
           g == [i \in D |-> wire[i].id]
<1>1. DOMAIN outbox = 1..Len(outbox) /\ DOMAIN wire = 1..Len(wire)
      /\ Len(outbox) \in Nat /\ Len(wire) \in Nat
  BY DEF QueueInv
<1>2. IsFiniteSet(S) /\ Cardinality(S) <= MaxOutbox
  <2>1. IsFiniteSet(DOMAIN outbox) /\ Cardinality(DOMAIN outbox) = Len(outbox)
    BY <1>1, RangeFacts
  <2>2. S = {f[i] : i \in DOMAIN outbox} /\ DOMAIN f = DOMAIN outbox
        /\ f = [i \in DOMAIN outbox |-> f[i]]
    OBVIOUS
  <2> HIDE DEF S, f
  <2>3. IsFiniteSet(S) /\ Cardinality(S) <= Cardinality(DOMAIN outbox)
    BY <2>1, <2>2, ImageFacts
  <2>4. Cardinality(S) \in Nat
    BY <2>3, FS_CardinalityType
  <2> QED BY <1>1, <2>1, <2>3, <2>4, Bounds DEF QueueInv
<1>3. IsFiniteSet(D) /\ Cardinality(D) <= MaxWire
  <2>1. IsFiniteSet(1..Len(wire)) /\ Cardinality(1..Len(wire)) = Len(wire)
    BY <1>1, RangeFacts
  <2>2. IsFiniteSet(D) /\ Cardinality(D) <= Cardinality(1..Len(wire))
    BY <1>1, <2>1, FS_Subset
  <2>3. Cardinality(D) \in Nat
    BY <2>2, FS_CardinalityType
  <2>4. CASE Len(wire) <= MaxWire
    BY <1>1, <2>1, <2>2, <2>3, <2>4, Bounds
  <2>5. CASE Len(wire) = 1 /\ ~IsAnswer(wire[1])
    <3>1. D = {}
      BY <1>1, <2>5 DEF IsAnswer
    <3>2. Cardinality(D) = 0
      BY <3>1, FS_EmptySet
    <3> QED BY <2>2, <3>2, Bounds
  <2> QED BY <2>4, <2>5 DEF QueueInv, WireFits
<1>4. IsFiniteSet(T) /\ Cardinality(T) <= MaxWire
  <2>1. T = {g[i] : i \in D} /\ DOMAIN g = D /\ g = [i \in D |-> g[i]]
    OBVIOUS
  <2> HIDE DEF T, D, g
  <2>2. IsFiniteSet(T) /\ Cardinality(T) <= Cardinality(D)
    BY <1>3, <2>1, ImageFacts
  <2>3. Cardinality(T) \in Nat /\ Cardinality(D) \in Nat
    BY <1>3, <2>2, FS_CardinalityType
  <2> QED BY <1>3, <2>2, <2>3, Bounds
<1>5. UsedIds = S \cup T
  BY DEF UsedIds
<1> HIDE DEF S, T
<1>6. IsFiniteSet(S \cup T) /\ Cardinality(S \cup T) <= Cardinality(S) + Cardinality(T)
  <2>1. IsFiniteSet(S \cup T)
        /\ Cardinality(S \cup T) = Cardinality(S) + Cardinality(T) - Cardinality(S \cap T)
    BY <1>2, <1>4, FS_Union
  <2>2. IsFiniteSet(S \cap T)
    BY <1>2, FS_Subset, S \cap T \in SUBSET S
  <2>3. Cardinality(S \cap T) \in Nat /\ Cardinality(S) \in Nat /\ Cardinality(T) \in Nat
    BY <1>2, <1>4, <2>2, FS_CardinalityType
  <2> QED BY <2>1, <2>3
<1>7. SUFFICES ASSUME Ids \subseteq S \cup T PROVE FALSE
  BY <1>5
<1>8. Cardinality(Ids) <= Cardinality(S \cup T)
  BY <1>6, <1>7, FS_Subset
<1>9. Cardinality(S \cup T) \in Nat /\ Cardinality(S) \in Nat /\ Cardinality(T) \in Nat
      /\ Cardinality(Ids) \in Nat
  BY <1>2, <1>4, <1>6, FS_CardinalityType, WeewxAssumption
<1>10. Cardinality(Ids) > MaxOutbox + MaxWire
  BY WeewxAssumption
<1> QED BY <1>2, <1>4, <1>6, <1>8, <1>9, <1>10, Bounds

LEMMA NewPendingFacts ==
  ASSUME QueueInv, NEW want \in BOOLEAN, NEW release \in Names \cup {Nothing}
  PROVE  LET p == NewPending(want, release) IN
         /\ p \in Pending /\ p.id \in Ids /\ p.id \notin UsedIds
         /\ p.want = want /\ p.release = release /\ ~p.ack /\ ~p.result
<1> DEFINE i == CHOOSE i \in Ids : i \notin UsedIds
<1>1. i \in Ids /\ i \notin UsedIds
  BY FreshId
<1>2. NewPending(want, release) =
        [id |-> i, want |-> want, age |-> 0, ack |-> FALSE, result |-> FALSE,
         seen |-> FALSE, release |-> release]
  BY DEF NewPending
<1> HIDE DEF i
<1>3. 0 \in 0..(Timeout + 1)
  BY Bounds
<1> QED BY <1>1, <1>2, <1>3 DEF Pending

LEMMA NotUsed ==
  ASSUME QueueInv, NEW i, i \notin UsedIds
  PROVE  /\ \A k \in 1..Len(outbox) : outbox[k].id # i
         /\ \A j \in 1..Len(wire) : IsAnswer(wire[j]) => wire[j].id # i
<1>1. DOMAIN outbox = 1..Len(outbox) /\ DOMAIN wire = 1..Len(wire)
  BY DEF QueueInv
<1> QED BY <1>1 DEF UsedIds, IsAnswer

LEMMA SendCommandKeeps ==
  ASSUME QueueInv, NEW want \in BOOLEAN, NEW release \in Names \cup {Nothing}, NEW retry,
         SendCommand(want, release, retry), wire' = wire
  PROVE  /\ QueueInv' /\ cool' = retry
         /\ pend' # Nothing => /\ pend' \in Pending /\ pend'.want = want
              /\ pend'.release = release
                               /\ ~pend'.ack /\ ~pend'.result
<1> DEFINE p == NewPending(want, release)
           e == [id |-> p.id, want |-> want]
<1>1. p \in Pending /\ p.id \in Ids /\ p.id \notin UsedIds
      /\ p.want = want /\ p.release = release /\ ~p.ack /\ ~p.result
  BY NewPendingFacts
<1>2. \/ pend' = p /\ Len(outbox) < MaxOutbox /\ outbox' = Append(outbox, e)
      \/ pend' = p /\ outbox' = outbox
      \/ pend' = Nothing /\ outbox' = outbox
  BY DEF SendCommand
<1>3. cool' = retry
  BY DEF SendCommand
<1>4. \A k \in 1..Len(outbox) : outbox[k].id # p.id
  BY <1>1, NotUsed
<1>5. \A j \in 1..Len(wire) : IsAnswer(wire[j]) => wire[j].id # p.id
  BY <1>1, NotUsed
<1>6. e \in Command /\ e.id = p.id
  BY <1>1 DEF Command
<1> HIDE DEF p, e
<1>7. ASSUME outbox' = outbox PROVE QueueInv'
  BY <1>7 DEF QueueInv, WireFits, IdsApart, IsAnswer
<1>8. ASSUME Len(outbox) < MaxOutbox, outbox' = Append(outbox, e) PROVE QueueInv'
  <2>1. outbox' \in Seq(Command) /\ Len(outbox') = Len(outbox) + 1 /\ Len(outbox) \in Nat
        /\ (\A i \in 1..Len(outbox) : outbox'[i] = outbox[i]) /\ outbox'[Len(outbox) + 1] = e
    BY <1>6, <1>8, AppendFacts DEF QueueInv
  <2>2. Len(outbox') <= MaxOutbox
    BY <1>8, <2>1, Bounds
  <2>3. \A i \in 1..Len(outbox') : \/ i \in 1..Len(outbox) /\ outbox'[i] = outbox[i]
                                   \/ i = Len(outbox) + 1 /\ outbox'[i] = e
    BY <2>1
  <2>4. \A i, j \in 1..Len(outbox') : outbox'[i].id = outbox'[j].id => i = j
    BY <1>4, <1>6, <2>3 DEF QueueInv, IdsApart
  <2>5. \A i \in 1..Len(outbox'), j \in 1..Len(wire) :
          IsAnswer(wire[j]) => wire[j].id # outbox'[i].id
    BY <1>5, <1>6, <2>3 DEF QueueInv, IdsApart
  <2> QED BY <2>1, <2>2, <2>4, <2>5 DEF QueueInv, WireFits, IdsApart, IsAnswer
<1> QED BY <1>1, <1>2, <1>3, <1>7, <1>8

(* What the broker passes on joins the wire behind what was there.         *)
LEMMA ToldFacts ==
  ASSUME wire \in Seq(Message), NEW ms \in Seq(Message)
  PROVE  LET w == Told(ms) IN
         /\ w \in Seq(Message) /\ Len(w) <= Len(wire) + Len(ms)
         /\ Len(wire) \in Nat /\ Len(ms) \in Nat /\ Len(w) \in Nat
         /\ \A j \in 1..Len(w) : \/ j \in 1..Len(wire) /\ w[j] = wire[j]
                                 \/ \E k \in 1..Len(ms) : w[j] = ms[k]
<1>1. CASE link = "up"
  <2> DEFINE w == wire \o ms
  <2>1. /\ w \in Seq(Message) /\ Len(w) = Len(wire) + Len(ms)
        /\ \A i \in 1..Len(w) : w[i] = IF i <= Len(wire) THEN wire[i] ELSE ms[i - Len(wire)]
    BY ConcatProperties
  <2>2. Told(ms) = w
    BY <1>1 DEF Told
  <2>3. Len(wire) \in Nat /\ Len(ms) \in Nat
    OBVIOUS
  <2> HIDE DEF w
  <2>4. ASSUME NEW j \in 1..Len(w), j > Len(wire)
        PROVE  j - Len(wire) \in 1..Len(ms) /\ w[j] = ms[j - Len(wire)]
    BY <2>1, <2>3, <2>4
  <2>5. ASSUME NEW j \in 1..Len(w), j <= Len(wire) PROVE j \in 1..Len(wire) /\ w[j] = wire[j]
    BY <2>1, <2>3, <2>5
  <2>6. Len(w) \in Nat /\ Len(w) <= Len(wire) + Len(ms)
    BY <2>1, <2>3
  <2>7. \A j \in 1..Len(w) : j \in Nat /\ (j > Len(wire) \/ j <= Len(wire))
    BY <2>3, <2>6
  <2>8. \A j \in 1..Len(w) : \/ j \in 1..Len(wire) /\ w[j] = wire[j]
                            \/ \E k \in 1..Len(ms) : w[j] = ms[k]
    BY <2>4, <2>5, <2>7
  <2> QED BY <2>1, <2>2, <2>3, <2>6, <2>8
<1>2. CASE link # "up"
  <2>1. Told(ms) = wire
    BY <1>2 DEF Told
  <2>2. Len(wire) \in Nat /\ Len(ms) \in Nat /\ Len(wire) <= Len(wire) + Len(ms)
    OBVIOUS
  <2> QED BY <2>1, <2>2
<1> QED BY <1>1, <1>2

(* The wire grows by messages without an id, or is cut.                    *)
LEMMA WireKeeps ==
  ASSUME QueueInv, outbox' = outbox, wire' \in Seq(Message),
         Len(wire') <= MaxWire \/ (Len(wire') = 1 /\ ~IsAnswer(wire'[1])),
         \A j \in 1..Len(wire') : IsAnswer(wire'[j])
           => \E k \in 1..Len(wire) : wire'[j] = wire[k]
  PROVE  QueueInv'
<1>1. Len(wire') \in Nat
  OBVIOUS
<1>2. WireFits' /\ Len(wire') <= MaxWire + 1
  BY <1>1, Bounds DEF WireFits, IsAnswer
<1>3. IdsApart'
  BY DEF QueueInv, IdsApart, IsAnswer
<1> QED BY <1>2, <1>3 DEF QueueInv

(* The device takes the first command and may answer it.                   *)
LEMMA PopKeeps ==
  ASSUME QueueInv, outbox # <<>>, outbox' = Tail(outbox), NEW ms \in Seq(Message),
         wire' = Told(ms), Len(wire) + Len(ms) <= MaxWire \/ wire' = wire,
         \A k \in 1..Len(ms) : IsAnswer(ms[k]) => ms[k].id = Head(outbox).id
  PROVE  /\ QueueInv'
         /\ \A i \in 1..Len(outbox') : outbox'[i] = outbox[i + 1] /\ i + 1 \in 1..Len(outbox)
<1>1. /\ outbox' \in Seq(Command) /\ Len(outbox') = Len(outbox) - 1
      /\ \A i \in 1..Len(outbox) - 1 : outbox'[i] = outbox[i + 1]
      /\ Head(outbox) = outbox[1] /\ Len(outbox) \in Nat \ {0}
  BY TailFacts DEF QueueInv
<1>2. \A i \in 1..Len(outbox') : outbox'[i] = outbox[i + 1] /\ i + 1 \in 1..Len(outbox)
  BY <1>1
<1>3. /\ wire' \in Seq(Message) /\ Len(wire') <= Len(wire) + Len(ms)
      /\ Len(wire) \in Nat /\ Len(ms) \in Nat /\ Len(wire') \in Nat
      /\ \A j \in 1..Len(wire') : \/ j \in 1..Len(wire) /\ wire'[j] = wire[j]
                                  \/ \E k \in 1..Len(ms) : wire'[j] = ms[k]
  BY ToldFacts DEF QueueInv
<1>4. Len(outbox') <= MaxOutbox
  BY <1>1, Bounds DEF QueueInv
<1>5. WireFits' /\ Len(wire') <= MaxWire + 1
  BY <1>3, Bounds DEF QueueInv, WireFits, IsAnswer
<1>6. \A i, j \in 1..Len(outbox') : outbox'[i].id = outbox'[j].id => i = j
  <2>1. ASSUME NEW i \in 1..Len(outbox'), NEW j \in 1..Len(outbox'),
               outbox'[i].id = outbox'[j].id
        PROVE  i + 1 = j + 1
    BY <1>2, <2>1 DEF QueueInv, IdsApart
  <2> QED BY <2>1
<1>7. ASSUME NEW i \in 1..Len(outbox'), NEW j \in 1..Len(wire'), IsAnswer(wire'[j])
      PROVE  wire'[j].id # outbox'[i].id
  <2>1. CASE j \in 1..Len(wire) /\ wire'[j] = wire[j]
    BY <1>2, <1>7, <2>1 DEF QueueInv, IdsApart
  <2>2. CASE \E k \in 1..Len(ms) : wire'[j] = ms[k]
    <3>1. wire'[j].id = outbox[1].id
      BY <1>1, <1>7, <2>2
    <3>2. 1 # i + 1 /\ 1 \in 1..Len(outbox)
      BY <1>1
    <3>3. outbox[1].id # outbox[i + 1].id
      BY <1>2, <3>2 DEF QueueInv, IdsApart
    <3> QED BY <1>2, <3>1, <3>3
  <2> QED BY <1>3, <2>1, <2>2
<1>8. IdsApart'
  BY <1>6, <1>7 DEF IdsApart, IsAnswer
<1> QED BY <1>1, <1>2, <1>3, <1>4, <1>5, <1>8 DEF QueueInv

-----------------------------------------------------------------------------
(* What the rule decides.                                                  *)
LEMMA ResultFacts ==
  /\ RuleResult \in {"yes", "no", "unknown"}
  /\ \A c \in Conditions : Result(c) \in {"yes", "no", "unknown"}
BY DEF RuleResult, Result, Conditions

(* A result on incomplete readings is what every completion of them gives: *)
(* the least and the greatest completion decide, for a group holds the     *)
(* more, the more of its conditions hold.                                  *)
LEMMA ExactResult == book \in Books => ResultIsExact
<1> SUFFICES ASSUME book \in Rule PROVE ResultIsExact
  BY WeewxAssumption DEF ResultIsExact
<1> DEFINE Possible(c) == CASE Result(c) = "yes" -> {TRUE} [] Result(c) = "no" -> {FALSE}
                          [] OTHER -> BOOLEAN
           Meets(f) == \E g \in book.groups : \A c \in g : f[c]
           Completions == {h \in [Conditions -> BOOLEAN] : \A c \in Conditions : h[c] \in Possible(c)}
           Outcomes == {Meets(f) : f \in Completions}
           least == [c \in Conditions |-> Result(c) = "yes"]
           greatest == [c \in Conditions |-> Result(c) # "no"]
<1>1. book.groups \subseteq SUBSET Conditions
  BY RuleFields
<1>2. least \in Completions /\ greatest \in Completions
  <2>1. \A c \in Conditions : (Result(c) = "yes") \in Possible(c)
    OBVIOUS
  <2>2. \A c \in Conditions : (Result(c) # "no") \in Possible(c)
    OBVIOUS
  <2> QED BY <2>1, <2>2
<1>3. ASSUME NEW h \in Completions, NEW c \in Conditions
      PROVE  (Result(c) = "yes" => h[c]) /\ (h[c] => Result(c) # "no")
  <2>1. h[c] \in Possible(c)
    OBVIOUS
  <2>2. Result(c) = "yes" => Possible(c) = {TRUE}
    OBVIOUS
  <2>3. Result(c) = "no" => Possible(c) = {FALSE}
    OBVIOUS
  <2> HIDE DEF Possible, Completions
  <2>4. ASSUME Result(c) = "yes" PROVE h[c]
    <3>1. h[c] \in {TRUE}
      BY <2>1, <2>2, <2>4
    <3> QED BY <3>1
  <2>5. Result(c) = "no" => ~h[c]
    BY <2>1, <2>3, Zenon
  <2> QED BY <2>4, <2>5
<1>4. Meets(least) <=> RuleResult = "yes"
  <2>1. ASSUME NEW g \in book.groups
        PROVE  (\A c \in g : Result(c) = "yes") <=> GroupResult(g) = "yes"
    BY DEF GroupResult
  <2>2. Meets(least) <=> \E g \in book.groups : \A c \in g : Result(c) = "yes"
    BY <1>1
  <2>3. RuleResult = "yes" <=> \E g \in book.groups : GroupResult(g) = "yes"
    BY DEF RuleResult
  <2> HIDE DEF Meets, least
  <2> QED BY <2>1, <2>2, <2>3
<1>5. ~Meets(greatest) <=> RuleResult = "no"
  <2>1. ASSUME NEW g \in book.groups
        PROVE  (\E c \in g : Result(c) = "no") <=> GroupResult(g) = "no"
    BY DEF GroupResult
  <2>2. ~Meets(greatest) <=> \A g \in book.groups : \E c \in g : Result(c) = "no"
    BY <1>1
  <2>3. RuleResult = "no" <=> \A g \in book.groups : GroupResult(g) = "no"
    <3>1. \A g \in book.groups : GroupResult(g) = "no" => ~(GroupResult(g) = "yes")
      OBVIOUS
    <3>2. (\E g \in book.groups : GroupResult(g) = "yes") => RuleResult = "yes"
      BY DEF RuleResult
    <3>3. ~(\E g \in book.groups : GroupResult(g) = "yes") =>
            (RuleResult = "no" <=> \A g \in book.groups : GroupResult(g) = "no")
      BY DEF RuleResult
    <3> QED BY <3>1, <3>2, <3>3
  <2> HIDE DEF Meets, greatest
  <2> QED BY <2>1, <2>2, <2>3
<1>6. ASSUME NEW h \in Completions
      PROVE (Meets(least) => Meets(h)) /\ (Meets(h) => Meets(greatest))
  <2>1. \A c \in Conditions : (least[c] => h[c]) /\ (h[c] => greatest[c])
    BY <1>3
  <2> HIDE DEF least, greatest, Completions
  <2> QED BY <1>1, <2>1
<1>7. \A f : Meets(f) \in BOOLEAN
  OBVIOUS
<1> HIDE DEF Meets, Completions, least, greatest
<1>8. RuleResult = "yes" <=> Outcomes = {TRUE}
  <2>1. CASE Meets(least)
    <3>1. \A h \in Completions : Meets(h) = TRUE
      BY <1>6, <1>7, <2>1
    <3>2. Outcomes = {TRUE}
      BY <1>2, <3>1
    <3> QED BY <1>4, <2>1, <3>2
  <2>2. CASE ~Meets(least)
    <3>1. Meets(least) = FALSE /\ Meets(least) \in Outcomes
      BY <1>2, <1>7, <2>2
    <3> HIDE DEF Outcomes
    <3> QED BY <1>4, <2>2, <3>1
  <2> QED BY <2>1, <2>2
<1>9. RuleResult = "no" <=> Outcomes = {FALSE}
  <2>1. CASE ~Meets(greatest)
    <3>1. \A h \in Completions : Meets(h) = FALSE
      BY <1>6, <1>7, <2>1
    <3>2. Outcomes = {FALSE}
      BY <1>2, <3>1
    <3> QED BY <1>5, <2>1, <3>2
  <2>2. CASE Meets(greatest)
    <3>1. Meets(greatest) = TRUE /\ Meets(greatest) \in Outcomes
      BY <1>2, <1>7, <2>2
    <3> HIDE DEF Outcomes
    <3> QED BY <1>5, <2>2, <3>1
  <2> QED BY <2>1, <2>2
<1> QED BY <1>8, <1>9 DEF ResultIsExact, Meets, Completions

-----------------------------------------------------------------------------
(* The memory of the service.                                              *)
Known == BOOLEAN \cup {Nothing}

ControllerTyped ==
  /\ relay \in BOOLEAN /\ meta \in BOOLEAN /\ dirty \in BOOLEAN /\ open \in BOOLEAN
  /\ held \in BOOLEAN
  /\ file \in Books /\ book \in Books /\ level \in {"low", "middle", "high", "stale"}
  /\ link \in {"down", "meta", "up"}
  /\ state \in Known /\ age \in 0..MaxAge
  /\ pend \in Pending \cup {Nothing} /\ cool \in 0..MaxCool
  /\ due \in [Names -> (0..MaxDelay) \cup {Nothing}]
  /\ active \in [Names -> Known] /\ disk \in [Names -> Known] /\ behind \in BOOLEAN
  /\ left \in 0..MaxEvents

(* A command that gives a state back asks for the state that is remembered *)
(* for its rule, or for OFF because of stale_action.                       *)
Justified(n, want, a) ==
  a[n] # Nothing => want = a[n] \/ (StaleOff(n) /\ a[n] = TRUE /\ want = FALSE)
ReleaseInv ==
  pend # Nothing /\ pend.release # Nothing => Justified(pend.release, pend.want, active)

(* The runtime file holds what is remembered, but for a failed save or read. *)
Saved == behind \/ disk = active

IInv == ControllerTyped /\ QueueInv /\ Saved /\ AnsweredIsDone /\ ReleaseInv

(* When a state may be let go.                                             *)
MayForget(n) ==
  \/ book # NoRule /\ ~Restores(n)
  \/ SwitchSays(n, active[n])
  \/ StaleOff(n) /\ active[n] /\ SwitchSays(n, FALSE)

LEMMA TypedIsType == QueueInv => (ControllerTyped <=> WeewxTypeOK)
BY DEF ControllerTyped, WeewxTypeOK, QueueInv, Known

LEMMA BookFacts ==
  ASSUME ControllerTyped, book # NoRule
  PROVE  book \in Rule /\ book \in RuleTexts /\ book.name \in Names
<1>1. book \in RuleTexts
  BY RuleTextFacts DEF ControllerTyped
<1> QED BY <1>1, RuleTextFacts, RuleFields

LEMMA HoldingFacts == ControllerTyped => Holding \in BOOLEAN
BY DEF ControllerTyped, Holding

LEMMA UnexpiredFacts ==
  ControllerTyped => Unexpired \in {pend, Nothing} /\ Unexpired \in Pending \cup {Nothing}
BY DEF ControllerTyped, Unexpired

LEMMA CleanedFacts ==
  ASSUME ControllerTyped
  PROVE  /\ Cleaned \in [Names -> Known]
         /\ \A n \in Names : \/ Cleaned[n] = active[n] /\ (active[n] = Nothing \/ ~Dropped(n))
                             \/ Cleaned[n] = Nothing /\ Dropped(n)
<1>1. \A n \in Names : active[n] \in Known
  BY DEF ControllerTyped
<1> QED BY <1>1 DEF Cleaned, Known

(* What is left of the memory is what the rule of the channel gives back.  *)
LEMMA CleanedRestores ==
  ASSUME ControllerTyped, book # NoRule, NEW n \in Names, Cleaned[n] # Nothing
  PROVE  Restores(n) /\ Cleaned[n] = active[n]
BY CleanedFacts DEF Dropped

LEMMA FalseFacts ==
  ASSUME ControllerTyped, book # NoRule
  PROVE  FalseDesired \in Known
<1>1. book.falseAction \in FalseActions /\ book.state \in BOOLEAN /\ book.name \in Names
  BY BookFacts, RuleFields
<1>2. Cleaned[book.name] \in Known
  BY <1>1, CleanedFacts
<1> QED BY <1>1, <1>2 DEF FalseDesired, FalseActions, Known

LEMMA DesiredFacts ==
  ASSUME ControllerTyped, book # NoRule
  PROVE  /\ Desired \in Known
         /\ RuleResult = "unknown" /\ Desired # Nothing => book.stale = "off" /\ Desired = FALSE
         /\ RuleResult = "no" /\ book.falseAction = "previous_state"
              => Desired = Cleaned[book.name]
<1>1. book.state \in BOOLEAN /\ book.stale \in {"off", "hold"}
  BY BookFacts, RuleFields
<1>2. CASE RuleResult = "yes"
  BY <1>1, <1>2 DEF Desired, Known
<1>3. CASE RuleResult = "no"
  <2>1. Desired = FalseDesired
    BY <1>3 DEF Desired
  <2>2. book.falseAction = "previous_state" => FalseDesired = Cleaned[book.name]
    BY DEF FalseDesired
  <2> QED BY <1>3, <2>1, <2>2, FalseFacts
<1>4. CASE RuleResult = "unknown"
  BY <1>1, <1>4 DEF Desired, Known
<1> QED BY <1>2, <1>3, <1>4, ResultFacts

LEMMA KeptFacts ==
  ASSUME ControllerTyped, book # NoRule, state # Nothing
  PROVE  /\ Kept \in [Names -> Known]
         /\ \A n \in Names : n # book.name => Kept[n] = Cleaned[n]
         /\ RuleResult # "yes" /\ ~(Desired # Nothing /\ state = Desired) => Kept = Cleaned
         /\ RuleResult # "yes" /\ Desired # Nothing /\ state = Desired
               => Kept = [Cleaned EXCEPT ![book.name] = Nothing]
         /\ RuleResult = "yes" => Kept[book.name] = Cleaned[book.name]
              \/ Kept[book.name] # Nothing
<1>1. Cleaned \in [Names -> Known] /\ book.name \in Names /\ state \in Known
  BY CleanedFacts, BookFacts DEF ControllerTyped
<1>2. Nothing \in Known
  BY DEF Known
<1>3. \/ RuleResult = "yes" /\ Kept = [Cleaned EXCEPT ![book.name] = state]
      \/ /\ RuleResult # "yes" /\ Desired # Nothing /\ state = Desired
         /\ Kept = [Cleaned EXCEPT ![book.name] = Nothing]
      \/ /\ ~(RuleResult # "yes" /\ Desired # Nothing /\ state = Desired)
         /\ Kept = Cleaned
  BY DEF Kept
<1> QED BY <1>1, <1>2, <1>3

(* With a rule whose result is not "yes", what is still remembered for it  *)
(* is justified by what it asks for.                                       *)
LEMMA DesiredJustified ==
  ASSUME ControllerTyped, book # NoRule, RuleResult # "yes", Desired # Nothing,
         NEW n, n = book.name, Cleaned[n] # Nothing
  PROVE  Desired = Cleaned[n] \/ (StaleOff(n) /\ Cleaned[n] = TRUE /\ Desired = FALSE)
<1>1. n \in Names /\ book \in RuleTexts /\ Cleaned[n] \in Known
  BY BookFacts, CleanedFacts
<1>2. book.falseAction = "previous_state"
  BY <1>1, CleanedRestores DEF Restores
<1>3. CASE RuleResult = "no"
  BY <1>2, <1>3, DesiredFacts
<1>4. CASE RuleResult = "unknown"
  <2>1. book.stale = "off" /\ Desired = FALSE
    BY <1>4, DesiredFacts
  <2>2. StaleOff(n)
    BY <1>1, <1>2, <2>1 DEF StaleOff
  <2>3. Cleaned[n] = TRUE \/ Cleaned[n] = FALSE
    BY <1>1 DEF Known
  <2> QED BY <2>1, <2>2, <2>3
<1> QED BY <1>3, <1>4, ResultFacts

(* Cleaning lets go of a state only when another rule has the channel or   *)
(* the channel is in it.                                                   *)
LEMMA CleanedForgets ==
  ASSUME ControllerTyped, state' = state, NEW n \in Names, active[n] # Nothing,
         Cleaned[n] = Nothing
  PROVE  MayForget(n)
<1>1. Dropped(n)
  BY CleanedFacts
<1> QED BY <1>1 DEF Dropped, MayForget, SwitchSays

LEMMA KeptForgets ==
  ASSUME ControllerTyped, state' = state, book # NoRule, state # Nothing,
         NEW n \in Names, active[n] # Nothing, Kept[n] = Nothing
  PROVE  MayForget(n)
<1>1. CASE Cleaned[n] = Nothing
  BY <1>1, CleanedForgets
<1>2. CASE Cleaned[n] # Nothing
  <2>1. n = book.name /\ RuleResult # "yes" /\ Desired # Nothing /\ state = Desired
    BY <1>2, KeptFacts, ResultFacts
  <2>2. Desired = Cleaned[n] \/ (StaleOff(n) /\ Cleaned[n] = TRUE /\ Desired = FALSE)
    BY <1>2, <2>1, DesiredJustified
  <2>3. Cleaned[n] = active[n]
    BY <1>2, CleanedRestores
  <2> QED BY <2>1, <2>2, <2>3 DEF MayForget, SwitchSays
<1> QED BY <1>1, <1>2

(* The command under way survives what keeps the queues and drops memory.  *)
LEMMA UnexpiredKeeps ==
  ASSUME IInv, pend' = Unexpired, outbox' = outbox, wire' = wire, active' = Cleaned
  PROVE  QueueInv' /\ AnsweredIsDone' /\ ReleaseInv'
<1>1. QueueInv'
  BY DEF IInv, QueueInv, WireFits, IdsApart, IsAnswer
<1>2. pend' = Nothing \/ pend' = pend
  BY UnexpiredFacts DEF IInv
<1>3. AnsweredIsDone'
  BY <1>2 DEF IInv, AnsweredIsDone
<1>4. ReleaseInv'
  <2>1. SUFFICES ASSUME pend' # Nothing, pend'.release # Nothing,
                        active'[pend'.release] # Nothing
                 PROVE  Justified(pend.release, pend.want, active) /\ pend' = pend
                        /\ active'[pend.release] = active[pend.release]
    BY DEF ReleaseInv, Justified, StaleOff
  <2>2. pend' = pend /\ pend \in Pending
    BY <1>2, <2>1 DEF IInv, ControllerTyped
  <2>3. pend.release \in Names
    BY <2>1, <2>2 DEF Pending
  <2>4. active'[pend.release] = active[pend.release]
    BY <2>1, <2>2, <2>3, CleanedFacts DEF IInv
  <2> QED BY <2>1, <2>2, <2>4 DEF IInv, ReleaseInv
<1> QED BY <1>1, <1>3, <1>4

(* So does a command that has just gone out.                               *)
LEMMA SentKeeps ==
  ASSUME IInv, NEW want \in BOOLEAN, NEW release \in Names \cup {Nothing}, NEW retry,
         SendCommand(want, release, retry), wire' = wire,
         release # Nothing => Justified(release, want, active')
  PROVE  QueueInv' /\ AnsweredIsDone' /\ ReleaseInv' /\ cool' = retry
           /\ pend' \in Pending \cup {Nothing}
<1>1. /\ QueueInv' /\ cool' = retry
      /\ pend' # Nothing => /\ pend' \in Pending /\ pend'.want = want /\ pend'.release = release
                            /\ ~pend'.ack /\ ~pend'.result
  BY SendCommandKeeps DEF IInv
<1>2. AnsweredIsDone'
  BY <1>1 DEF AnsweredIsDone
<1>3. ReleaseInv'
  BY <1>1 DEF ReleaseInv, Justified, StaleOff
<1> QED BY <1>1, <1>2, <1>3

LEMMA SpendFacts ==
  ASSUME ControllerTyped, NEW e, Spend(e)
  PROVE  left' \in 0..MaxEvents
BY WeewxAssumption DEF ControllerTyped, Spend

(* A save, and one that fails, completely or halfway.                      *)
LEMMA SaveFacts ==
  ASSUME IInv, NEW a \in [Names -> Known], NEW partly, partly \subseteq [Names -> Known],
         Save(a, partly)
  PROVE  /\ active' = a /\ disk' \in [Names -> Known] /\ behind' \in BOOLEAN
         /\ left' \in 0..MaxEvents /\ Saved'
BY SpendFacts DEF Save, IInv, ControllerTyped, Saved

LEMMA RememberFacts ==
  ASSUME IInv, NEW a \in [Names -> Known], Remember(a)
  PROVE  /\ active' = a /\ disk' \in [Names -> Known] /\ behind' \in BOOLEAN
         /\ left' \in 0..MaxEvents /\ Saved'
<1>1. CASE a = active
  BY <1>1 DEF Remember, memory, IInv, ControllerTyped, Saved
<1>2. CASE a # active
  <2>1. Save(a, Halfway)
    BY <1>2 DEF Remember
  <2>2. Halfway \subseteq [Names -> Known]
    BY DEF Halfway, IInv, ControllerTyped, Known
  <2> QED BY <2>1, <2>2, SaveFacts
<1> QED BY <1>1, <1>2

LEMMA EvaluateKeeps ==
  ASSUME IInv, Evaluate
  PROVE  IInv' /\ \A n \in Names : active[n] # Nothing /\ active'[n] = Nothing => MayForget(n)
<1> USE DEF IInv
<1>1. /\ relay' = relay /\ meta' = meta /\ dirty' = dirty /\ wire' = wire
      /\ file' = file /\ level' = level /\ open' = open /\ link' = link /\ book' = book
      /\ state' = state /\ age' = age
  BY DEF Evaluate, device, world, channel
<1>2. Cleaned \in [Names -> Known]
  BY CleanedFacts
<1>3. ASSUME held' \in BOOLEAN, pend' \in Pending \cup {Nothing}, cool' \in 0..MaxCool,
             due' \in [Names -> (0..MaxDelay) \cup {Nothing}],
             NEW a \in [Names -> Known], Remember(a)
      PROVE  ControllerTyped' /\ Saved'
  BY <1>1, <1>3, RememberFacts DEF ControllerTyped
<1>4. CASE EvaluateNoRule
  <2>1. active' = Cleaned /\ Remember(Cleaned) /\ held' = held /\ due' = due
    BY <1>2, <1>4, RememberFacts DEF EvaluateNoRule
  <2>2. \A n \in Names : active[n] # Nothing /\ active'[n] = Nothing => MayForget(n)
    BY <1>1, <2>1, CleanedForgets
  <2>3. CASE NoSend
    <3>1. pend' = Unexpired /\ cool' = cool /\ outbox' = outbox
      BY <2>3 DEF NoSend
    <3>2. ControllerTyped' /\ Saved'
      BY <1>2, <1>3, <2>1, <3>1, UnexpiredFacts DEF ControllerTyped
    <3> QED BY <1>1, <2>1, <2>2, <3>1, <3>2, UnexpiredKeeps
  <2>4. ASSUME NEW n \in Names, Cleaned[n] # Nothing, SendCommand(Cleaned[n], n, CleanupRetry)
        PROVE  IInv'
    <3>1. Cleaned[n] \in BOOLEAN
      BY <1>2, <2>4 DEF Known
    <3>2. Justified(n, Cleaned[n], active')
      BY <2>1 DEF Justified
    <3>3. QueueInv' /\ AnsweredIsDone' /\ ReleaseInv' /\ cool' = CleanupRetry
          /\ pend' \in Pending \cup {Nothing}
      BY <1>1, <2>4, <3>1, <3>2, SentKeeps
    <3>4. ControllerTyped' /\ Saved'
      BY <1>2, <1>3, <2>1, <3>3, BoundFacts DEF ControllerTyped
    <3> QED BY <3>3, <3>4
  <2> QED BY <1>4, <2>2, <2>3, <2>4 DEF EvaluateNoRule
<1>5. CASE EvaluateWaiting
  <2>1. active' = Cleaned /\ Remember(Cleaned) /\ held' = Holding /\ due' = due
        /\ pend' = Unexpired /\ cool' = cool /\ outbox' = outbox
    BY <1>2, <1>5, RememberFacts DEF EvaluateWaiting, NoSend
  <2>2. \A n \in Names : active[n] # Nothing /\ active'[n] = Nothing => MayForget(n)
    BY <1>1, <2>1, CleanedForgets
  <2>3. ControllerTyped' /\ Saved'
    BY <1>2, <1>3, <2>1, UnexpiredFacts, HoldingFacts DEF ControllerTyped
  <2> QED BY <1>1, <2>1, <2>2, <2>3, UnexpiredKeeps
<1>6. CASE EvaluateRule
  <2>1. book # NoRule /\ state # Nothing /\ Unexpired = Nothing /\ held' = Holding
    BY <1>6 DEF EvaluateRule
  <2>2. held' \in BOOLEAN /\ due' \in [Names -> (0..MaxDelay) \cup {Nothing}]
    <3>1. book.name \in Names /\ book.delay \in 0..MaxDelay
      BY <2>1, BookFacts, BoundFacts DEF ControllerTyped
    <3>2. due[book.name] \in (0..MaxDelay) \cup {Nothing}
      BY <3>1 DEF ControllerTyped
    <3>3. DueNow \in 0..MaxDelay
      BY <3>1, <3>2 DEF DueNow
    <3>4. due' = [due EXCEPT ![book.name] =
                    IF RuleResult = "yes" THEN (IF book.delay > 0 THEN DueNow ELSE @) ELSE Nothing]
      BY <1>6 DEF EvaluateRule
    <3>5. (IF RuleResult = "yes" THEN (IF book.delay > 0 THEN DueNow ELSE due[book.name]) ELSE Nothing)
            \in (0..MaxDelay) \cup {Nothing}
      BY <3>2, <3>3
    <3>6. due' \in [Names -> (0..MaxDelay) \cup {Nothing}]
      BY <3>1, <3>4, <3>5 DEF ControllerTyped
    <3> QED BY <2>1, <3>6, HoldingFacts
  <2>3. CASE Waits
    <3>1. active' = Cleaned /\ Remember(Cleaned) /\ pend' = Unexpired /\ cool' = cool
            /\ outbox' = outbox
      BY <1>2, <1>6, <2>3, RememberFacts DEF EvaluateRule, NoSend
    <3>2. \A n \in Names : active[n] # Nothing /\ active'[n] = Nothing => MayForget(n)
      BY <1>1, <3>1, CleanedForgets
    <3>3. ControllerTyped' /\ Saved'
      BY <1>2, <1>3, <2>2, <3>1, UnexpiredFacts DEF ControllerTyped
    <3> QED BY <1>1, <3>1, <3>2, <3>3, UnexpiredKeeps
  <2>4. CASE ~Waits
    <3>2. Kept \in [Names -> Known]
      BY <2>1, KeptFacts
    <3>1. active' = Kept /\ Remember(Kept)
      BY <1>6, <2>4, <3>2, RememberFacts DEF EvaluateRule
    <3>3. \A n \in Names : active[n] # Nothing /\ active'[n] = Nothing => MayForget(n)
      BY <1>1, <2>1, <3>1, KeptForgets
    <3>4. CASE NoSend
      <4>1. pend' = Nothing /\ cool' = cool /\ outbox' = outbox
        BY <2>1, <3>4 DEF NoSend
      <4>2. ControllerTyped' /\ Saved'
        BY <1>3, <2>2, <3>1, <3>2, <4>1 DEF ControllerTyped
      <4>3. QueueInv' /\ AnsweredIsDone' /\ ReleaseInv'
        BY <1>1, <4>1 DEF QueueInv, WireFits, IdsApart, IsAnswer, AnsweredIsDone, ReleaseInv
      <4> QED BY <3>3, <4>2, <4>3
    <3>5. CASE ~(Desired = Nothing \/ state = Desired \/ cool > 0 \/ Dwells)
      <4> DEFINE n == book.name
                 mine == RuleResult # "yes" /\ Kept[n] # Nothing
                 release == IF mine THEN n ELSE Nothing
      <4>1. SendCommand(Desired, release, book.retry)
        BY <1>6, <2>4, <3>5 DEF EvaluateRule
      <4>2. Desired \in BOOLEAN /\ n \in Names /\ book.retry \in 0..MaxCool
        BY <2>1, <3>5, DesiredFacts, BookFacts, BoundFacts DEF Known, ControllerTyped
      <4>3. release \in Names \cup {Nothing}
        BY <4>2
      <4>4. ASSUME release # Nothing PROVE Justified(release, Desired, active')
        <5>1. mine /\ release = n
          BY <4>4
        <5>2. Kept = Cleaned
          BY <2>1, <3>5, <5>1, KeptFacts
        <5>3. Cleaned[n] # Nothing
          BY <5>1, <5>2
        <5>4. Desired = Cleaned[n] \/ (StaleOff(n) /\ Cleaned[n] = TRUE /\ Desired = FALSE)
          BY <2>1, <3>5, <5>1, <5>3, DesiredJustified
        <5> HIDE DEF mine, n, release
        <5> QED BY <3>1, <5>1, <5>2, <5>4 DEF Justified
      <4> HIDE DEF n, mine, release
      <4>5. QueueInv' /\ AnsweredIsDone' /\ ReleaseInv' /\ cool' = book.retry
            /\ pend' \in Pending \cup {Nothing}
        BY <1>1, <4>1, <4>2, <4>3, <4>4, SentKeeps
      <4>6. ControllerTyped' /\ Saved'
        BY <1>3, <2>2, <3>1, <3>2, <4>2, <4>5
      <4> QED BY <3>3, <4>5, <4>6
    <3> QED BY <1>6, <2>4, <3>4, <3>5 DEF EvaluateRule
  <2> QED BY <2>3, <2>4
<1> QED BY <1>4, <1>5, <1>6 DEF Evaluate

(* Steps that leave the queues, the command under way and the memory.      *)
LEMMA QuietKeeps ==
  ASSUME IInv, outbox' = outbox, wire' = wire, pend' = pend, active' = active, disk' = disk,
         behind' = behind
  PROVE  QueueInv' /\ Saved' /\ AnsweredIsDone' /\ ReleaseInv'
BY DEF IInv, QueueInv, WireFits, IdsApart, IsAnswer, Saved, AnsweredIsDone,
   ReleaseInv, Justified, StaleOff

(* Steps that only move messages keep what is said of the command, where   *)
(* no command goes out.                                                    *)
LEMMA AnsweredKeeps ==
  ASSUME IInv, outbox' = outbox, pend' \in {pend, Nothing}
  PROVE  AnsweredIsDone'
BY DEF IInv, AnsweredIsDone

LEMMA MemoryKeeps ==
  ASSUME IInv, active' = active, disk' = disk, behind' = behind, pend' \in {pend, Nothing}
  PROVE  Saved' /\ ReleaseInv'
BY DEF IInv, Saved, ReleaseInv, Justified, StaleOff

(* An answer, or the state, completes the command that gives a state back. *)
LEMMA FinishKeeps ==
  ASSUME IInv, pend # Nothing, NEW p \in Pending, Finish(p), outbox' = outbox,
         p.release = pend.release, p.want = pend.want, p.id = pend.id,
         (p.ack \/ p.result) => \A i \in DOMAIN outbox : outbox[i].id # p.id
  PROVE  /\ pend' \in Pending \cup {Nothing} /\ active' \in [Names -> Known]
         /\ disk' \in [Names -> Known] /\ behind' \in BOOLEAN /\ left' \in 0..MaxEvents /\ Saved'
         /\ AnsweredIsDone' /\ ReleaseInv'
         /\ \A n \in Names : active[n] # Nothing /\ active'[n] = Nothing =>
              /\ n = pend.release /\ p.seen
              /\ pend.want = active[n] \/ (StaleOff(n) /\ active[n] = TRUE /\ pend.want = FALSE)
<1> USE DEF IInv
<1>1. active \in [Names -> Known] /\ Nothing \in Known
  BY DEF ControllerTyped, Known
<1>2. CASE Complete(p) /\ p.release # Nothing
  <2> DEFINE a == [active EXCEPT ![p.release] = Nothing]
  <2>2. p.release \in Names /\ p.seen
    BY <1>2 DEF Pending, Complete
  <2>3. a \in [Names -> Known] /\ {} \subseteq [Names -> Known]
    BY <1>1, <2>2
  <2>6. pend' = Nothing /\ Save(a, {})
    BY <1>2 DEF Finish
  <2> HIDE DEF a
  <2>7. /\ active' = a /\ disk' \in [Names -> Known] /\ behind' \in BOOLEAN
        /\ left' \in 0..MaxEvents /\ Saved'
    BY <2>3, <2>6, SaveFacts
  <2>1. pend' = Nothing /\ active' = [active EXCEPT ![p.release] = Nothing]
    BY <2>6, <2>7 DEF a
  <2>4. \A n \in Names : active[n] # Nothing /\ active'[n] = Nothing => n = pend.release
    BY <1>1, <2>1, <2>2
  <2>5. Justified(pend.release, pend.want, active)
    BY <1>2 DEF ReleaseInv
  <2> QED BY <2>1, <2>2, <2>3, <2>4, <2>5, <2>7 DEF Justified, AnsweredIsDone, ReleaseInv
<1>3. CASE ~(Complete(p) /\ p.release # Nothing)
  <2>1. pend' \in {p, Nothing} /\ UNCHANGED <<active, disk, behind, left>>
    BY <1>3 DEF Finish, memory
  <2>2. AnsweredIsDone'
    BY <2>1 DEF AnsweredIsDone
  <2>3. ReleaseInv'
    BY <2>1 DEF ReleaseInv, Justified, StaleOff
  <2>4. /\ active' \in [Names -> Known] /\ disk' \in [Names -> Known] /\ behind' \in BOOLEAN
        /\ left' \in 0..MaxEvents /\ Saved'
    BY <2>1 DEF ControllerTyped, Saved
  <2> QED BY <2>1, <2>2, <2>3, <2>4
<1> QED BY <1>2, <1>3

LEMMA MovedFacts == ASSUME ControllerTyped, NEW on PROVE Moved(on) \in 0..MaxAge
BY BoundFacts DEF ControllerTyped, Moved

(* The head of the wire is taken.                                          *)
LEMMA TakeKeeps ==
  ASSUME QueueInv, outbox' = outbox, wire # <<>>, wire' = Tail(wire)
  PROVE  QueueInv' /\ Head(wire) \in Message /\ Head(wire) = wire[1] /\ 1 \in 1..Len(wire)
<1>1. /\ wire' \in Seq(Message) /\ Len(wire') = Len(wire) - 1
      /\ \A i \in 1..Len(wire) - 1 : wire'[i] = wire[i + 1]
      /\ Head(wire) = wire[1] /\ Head(wire) \in Message /\ Len(wire) \in Nat \ {0}
  BY TailFacts DEF QueueInv
<1>2. \A j \in 1..Len(wire') : \E k \in 1..Len(wire) : wire'[j] = wire[k]
  <2>1. ASSUME NEW j \in 1..Len(wire') PROVE j + 1 \in 1..Len(wire) /\ wire'[j] = wire[j + 1]
    BY <1>1
  <2> QED BY <2>1
<1>3. Len(wire') <= MaxWire
  BY <1>1, Bounds DEF QueueInv
<1>4. QueueInv'
  BY <1>1, <1>2, <1>3, Bounds, WireKeeps
<1> QED BY <1>1, <1>4

LEMMA OnMetaKeeps ==
  ASSUME IInv, OnMeta
  PROVE  IInv' /\ active' = active
<1> DEFINE m == [kind |-> "state", on |-> relay]
<1>1. /\ wire # <<>> /\ state' = Head(wire).on /\ age' = Moved(Head(wire).on)
      /\ wire' = Append(Tail(wire), m) /\ link' = "up"
      /\ relay' = relay /\ meta' = meta /\ dirty' = dirty /\ outbox' = outbox /\ file' = file
      /\ level' = level /\ open' = open /\ book' = book /\ held' = held /\ pend' = pend
      /\ cool' = cool /\ due' = due /\ active' = active /\ disk' = disk /\ behind' = behind /\ left' = left
  BY DEF OnMeta, device, world, timers, memory
<1>2. m \in Message /\ ~IsAnswer(m)
  BY StateFacts DEF IInv, ControllerTyped
<1>3. /\ Tail(wire) \in Seq(Message) /\ Len(Tail(wire)) = Len(wire) - 1
      /\ \A i \in 1..Len(wire) - 1 : Tail(wire)[i] = wire[i + 1]
      /\ Head(wire) = wire[1] /\ Head(wire) \in Message /\ Len(wire) \in Nat \ {0}
  BY <1>1, TailFacts DEF IInv, QueueInv
<1> HIDE DEF m
<1>4. /\ wire' \in Seq(Message) /\ Len(wire') = Len(wire)
      /\ \A j \in 1..Len(wire) - 1 : wire'[j] = wire[j + 1]
      /\ wire'[Len(wire)] = m
  BY <1>1, <1>2, <1>3, AppendFacts
<1>5. ASSUME NEW j \in 1..Len(wire'), IsAnswer(wire'[j])
      PROVE  \E k \in 1..Len(wire) : wire'[j] = wire[k]
  <2>1. j # Len(wire)
    BY <1>2, <1>4, <1>5
  <2>2. j \in 1..Len(wire) /\ Len(wire) \in Nat
    BY <1>3, <1>4
  <2>3. j \in 1..Len(wire) - 1 /\ j + 1 \in 1..Len(wire)
    BY <2>1, <2>2
  <2> QED BY <1>4, <2>3
<1>6. QueueInv'
  <2>1. Len(wire) = 1 => ~IsAnswer(wire'[1])
    BY <1>2, <1>4
  <2>2. Len(wire') <= MaxWire \/ (Len(wire') = 1 /\ ~IsAnswer(wire'[1]))
    BY <1>4, <2>1 DEF IInv, QueueInv, WireFits
  <2> QED BY <1>1, <1>4, <1>5, <2>2, WireKeeps DEF IInv
<1>7. ControllerTyped'
  <2>1. state' \in BOOLEAN /\ age' \in 0..MaxAge
    BY <1>1, <1>3, MessageFacts, MovedFacts DEF IInv
  <2> QED BY <1>1, <2>1 DEF IInv, ControllerTyped, Known
<1> QED BY <1>1, <1>6, <1>7, AnsweredKeeps, MemoryKeeps DEF IInv

LEMMA OnStateKeeps ==
  ASSUME IInv, OnState
  PROVE  IInv' /\ \A n \in Names : active[n] # Nothing /\ active'[n] = Nothing => MayForget(n)
<1> DEFINE on == Head(wire).on
           p == [pend EXCEPT !.seen = (on = pend.want)]
<1>1. /\ wire # <<>> /\ state' = on /\ age' = Moved(on) /\ wire' = Tail(wire)
      /\ relay' = relay /\ meta' = meta /\ dirty' = dirty /\ outbox' = outbox /\ file' = file
      /\ level' = level /\ open' = open /\ link' = link /\ book' = book /\ held' = held
      /\ cool' = cool /\ due' = due
  BY DEF OnState, device, world, rules, timers
<1>2. QueueInv' /\ on \in BOOLEAN
  BY <1>1, TakeKeeps, MessageFacts DEF IInv
<1>3. state' \in Known /\ age' \in 0..MaxAge
  BY <1>1, <1>2, MovedFacts DEF Known, IInv
<1>4. CASE pend = Nothing
  <2>1. pend' = pend /\ UNCHANGED <<active, disk, behind, left>>
    BY <1>4 DEF OnState, memory
  <2>2. ControllerTyped'
    BY <1>1, <1>3, <2>1 DEF IInv, ControllerTyped
  <2>3. AnsweredIsDone' /\ Saved' /\ ReleaseInv'
    BY <1>1, <2>1, AnsweredKeeps, MemoryKeeps
  <2> QED BY <1>2, <2>1, <2>2, <2>3 DEF IInv
<1>5. CASE pend # Nothing
  <2>1. pend \in Pending
    BY <1>5 DEF IInv, ControllerTyped
  <2>2. /\ p \in Pending /\ p.release = pend.release /\ p.want = pend.want /\ p.id = pend.id
        /\ p.ack = pend.ack /\ p.result = pend.result /\ p.seen = (on = pend.want)
    BY <2>1 DEF Pending
  <2>3. Finish(p)
    BY <1>5 DEF OnState
  <2> HIDE DEF p, on
  <2>4. (p.ack \/ p.result) => \A i \in DOMAIN outbox : outbox[i].id # p.id
    BY <1>5, <2>2 DEF IInv, AnsweredIsDone
  <2>5. /\ pend' \in Pending \cup {Nothing} /\ active' \in [Names -> Known]
        /\ disk' \in [Names -> Known] /\ behind' \in BOOLEAN /\ left' \in 0..MaxEvents /\ Saved'
        /\ AnsweredIsDone' /\ ReleaseInv'
        /\ \A n \in Names : active[n] # Nothing /\ active'[n] = Nothing =>
             /\ n = pend.release /\ p.seen
             /\ pend.want = active[n] \/ (StaleOff(n) /\ active[n] = TRUE /\ pend.want = FALSE)
    BY <1>1, <1>5, <2>2, <2>3, <2>4, FinishKeeps
  <2>6. ControllerTyped' /\ Saved'
    BY <1>1, <1>3, <2>5 DEF IInv, ControllerTyped
  <2>7. ASSUME NEW n \in Names, active[n] # Nothing, active'[n] = Nothing PROVE MayForget(n)
    <3>1. p.seen
            /\ (pend.want = active[n] \/ (StaleOff(n) /\ active[n] = TRUE /\ pend.want = FALSE))
      BY <2>5, <2>7
    <3>2. state' = pend.want
      BY <1>1, <2>2, <3>1
    <3> QED BY <3>1, <3>2 DEF MayForget, SwitchSays
  <2> QED BY <1>2, <2>5, <2>6, <2>7 DEF IInv
<1> QED BY <1>4, <1>5

LEMMA OnResponseKeeps ==
  ASSUME IInv, OnResponse
  PROVE  IInv' /\ \A n \in Names : active[n] # Nothing /\ active'[n] = Nothing => MayForget(n)
<1> DEFINE m == Head(wire)
           p == IF m.kind = "ack" THEN [pend EXCEPT !.ack = TRUE] ELSE [pend EXCEPT !.result = TRUE]
<1>1. /\ wire # <<>> /\ IsAnswer(m) /\ wire' = Tail(wire)
      /\ relay' = relay /\ meta' = meta /\ dirty' = dirty /\ outbox' = outbox /\ file' = file
      /\ level' = level /\ open' = open /\ link' = link /\ book' = book /\ held' = held
      /\ state' = state /\ age' = age /\ cool' = cool /\ due' = due
  BY DEF OnResponse, IsAnswer, device, world, rules, channel, timers
<1>2. QueueInv' /\ m = wire[1] /\ 1 \in 1..Len(wire)
  BY <1>1, TakeKeeps DEF IInv
<1>3. CASE pend' \in {pend, Nothing} /\ UNCHANGED <<active, disk, behind, left>>
  <2>1. ControllerTyped'
    BY <1>1, <1>3 DEF IInv, ControllerTyped
  <2>2. AnsweredIsDone' /\ Saved' /\ ReleaseInv'
    BY <1>1, <1>3, AnsweredKeeps, MemoryKeeps
  <2> QED BY <1>2, <1>3, <2>1, <2>2 DEF IInv
<1>4. CASE Answers(m) /\ Finish(p)
  <2>1. pend # Nothing /\ pend \in Pending /\ m.id = pend.id
    BY <1>4 DEF IInv, ControllerTyped, Answers
  <2>2. /\ p \in Pending /\ p.release = pend.release /\ p.want = pend.want /\ p.id = pend.id
        /\ p.seen = pend.seen
    BY <2>1 DEF Pending
  <2>3. \A i \in DOMAIN outbox : outbox[i].id # p.id
    <3>1. DOMAIN outbox = 1..Len(outbox)
      BY DEF IInv, QueueInv
    <3>2. \A i \in 1..Len(outbox) : m.id # outbox[i].id
      BY <1>1, <1>2 DEF IInv, QueueInv, IdsApart
    <3> QED BY <2>1, <2>2, <3>1, <3>2
  <2> HIDE DEF p, m
  <2>4. /\ pend' \in Pending \cup {Nothing} /\ active' \in [Names -> Known]
        /\ disk' \in [Names -> Known] /\ behind' \in BOOLEAN /\ left' \in 0..MaxEvents /\ Saved'
        /\ AnsweredIsDone' /\ ReleaseInv'
        /\ \A n \in Names : active[n] # Nothing /\ active'[n] = Nothing =>
             /\ n = pend.release /\ p.seen
             /\ pend.want = active[n] \/ (StaleOff(n) /\ active[n] = TRUE /\ pend.want = FALSE)
    BY <1>1, <1>4, <2>1, <2>2, <2>3, FinishKeeps
  <2>5. ControllerTyped' /\ Saved'
    BY <1>1, <2>4 DEF IInv, ControllerTyped
  <2>6. \A n \in Names : active[n] # Nothing /\ active'[n] = Nothing => MayForget(n)
    BY <2>1, <2>2, <2>4 DEF MayForget, SwitchSays
  <2> QED BY <1>2, <2>4, <2>5, <2>6 DEF IInv
<1> QED BY <1>3, <1>4 DEF OnResponse, memory

(* The connection, the process and time.                                   *)
LEMMA LinkKeeps ==
  ASSUME IInv, Disconnect \/ Connect
  PROVE  IInv' /\ active' = active
<1>1. /\ relay' = relay /\ meta' = meta /\ dirty' = dirty /\ outbox' = outbox /\ file' = file
      /\ level' = level /\ open' = open /\ book' = book /\ held' = held
      /\ state' = state /\ age' = age /\ pend' = pend /\ cool' = cool /\ due' = due
      /\ active' = active /\ disk' = disk /\ behind' = behind
      /\ left' \in {left, left - 1} /\ (left' = left \/ left > 0) /\ link' \in {"down", "meta"}
      /\ wire' \in {<<>>, <<[kind |-> "meta", on |-> meta]>>}
  BY DEF Disconnect, Connect, Spend, device, world, channel, timers, memory
<1>2. [kind |-> "meta", on |-> meta] \in Message /\ ~IsAnswer([kind |-> "meta", on |-> meta])
  BY StateFacts DEF IInv, ControllerTyped
<1>3. QueueInv'
  <2>1. CASE wire' = <<>>
    <3>1. wire' \in Seq(Message) /\ Len(wire') = 0
      BY <2>1
    <3> QED BY <1>1, <3>1, Bounds, WireKeeps DEF IInv
  <2>2. CASE wire' = <<[kind |-> "meta", on |-> meta]>>
    <3>1. wire' \in Seq(Message) /\ Len(wire') = 1 /\ wire'[1] = [kind |-> "meta", on |-> meta]
      BY <1>2, <2>2
    <3>2. \A j \in 1..Len(wire') : ~IsAnswer(wire'[j])
      BY <1>2, <3>1
    <3> QED BY <1>1, <1>2, <3>1, <3>2, WireKeeps DEF IInv
  <2> QED BY <1>1, <2>1, <2>2
<1>4. ControllerTyped'
  <2>1. left' \in 0..MaxEvents
    BY <1>1, WeewxAssumption DEF IInv, ControllerTyped
  <2> QED BY <1>1, <2>1 DEF IInv, ControllerTyped
<1> QED BY <1>1, <1>3, <1>4, AnsweredKeeps, MemoryKeeps DEF IInv

LEMMA RestartKeeps ==
  ASSUME IInv, Restart
  PROVE  IInv' /\ (active' = active \/ behind \/ behind')
<1>1. /\ relay' = relay /\ meta' = meta /\ dirty' = dirty /\ outbox' = outbox /\ file' = file
      /\ level' = level /\ open' = open /\ book' = file /\ held' = FALSE /\ link' = "down"
      /\ wire' = <<>> /\ state' = Nothing /\ age' = 0 /\ pend' = Nothing /\ cool' = 0
      /\ due' = [n \in Names |-> Nothing] /\ disk' = disk
      /\ (active' = disk /\ ~behind') \/ (active' = Forgotten /\ behind')
  BY DEF Restart, device, world
<1>2. /\ active' = active \/ behind \/ behind'
      /\ Saved' /\ active' \in [Names -> Known] /\ behind' \in BOOLEAN
  BY <1>1 DEF IInv, ControllerTyped, Saved, Known, Forgotten, Restart
<1>3. QueueInv'
  <2>1. wire' \in Seq(Message) /\ Len(wire') = 0
    BY <1>1
  <2> QED BY <1>1, <2>1, Bounds, WireKeeps DEF IInv
<1>4. ControllerTyped'
  <2>1. left' \in 0..MaxEvents
    BY SpendFacts DEF Restart, IInv
  <2>2. 0 \in 0..MaxAge /\ 0 \in 0..MaxCool
    BY BoundFacts
  <2> QED BY <1>1, <1>2, <2>1, <2>2 DEF IInv, ControllerTyped, Known
<1>5. ReleaseInv'
  BY <1>1 DEF ReleaseInv
<1> QED BY <1>1, <1>2, <1>3, <1>4, <1>5, AnsweredKeeps DEF IInv

LEMMA TickKeeps ==
  ASSUME IInv, Tick
  PROVE  IInv' /\ active' = active
<1>1. /\ relay' = relay /\ meta' = meta /\ dirty' = dirty /\ outbox' = outbox /\ wire' = wire
      /\ file' = file /\ level' = level /\ open' = open /\ link' = link /\ book' = book
      /\ held' = held /\ state' = state /\ active' = active /\ disk' = disk /\ behind' = behind
      /\ left' = left
      /\ age' = (IF age < MaxAge THEN age + 1 ELSE age) /\ cool' = Down(cool)
      /\ due' = [n \in Names |-> IF due[n] = Nothing THEN Nothing ELSE Down(due[n])]
      /\ pend' = IF pend = Nothing
           \/ pend.age > Timeout THEN pend ELSE [pend EXCEPT !.age = @ + 1]
  BY DEF Tick, device, world, rules, memory
<1>2. age' \in 0..MaxAge /\ cool' \in 0..MaxCool
  BY <1>1, BoundFacts DEF IInv, ControllerTyped, Down
<1>3. due' \in [Names -> (0..MaxDelay) \cup {Nothing}]
  <2>1. ASSUME NEW n \in Names, due[n] # Nothing PROVE Down(due[n]) \in 0..MaxDelay
    <3>1. due[n] \in 0..MaxDelay
      BY <2>1 DEF IInv, ControllerTyped
    <3> QED BY <3>1, BoundFacts DEF Down
  <2> QED BY <1>1, <2>1
<1>4. \/ pend' = pend
      \/ /\ pend # Nothing /\ pend' \in Pending
         /\ pend'.id = pend.id /\ pend'.ack = pend.ack /\ pend'.result = pend.result
         /\ pend'.release = pend.release /\ pend'.want = pend.want
  <2>1. CASE pend = Nothing \/ pend.age > Timeout
    BY <1>1, <2>1
  <2>2. CASE pend # Nothing /\ ~(pend.age > Timeout)
    <3>1. pend \in Pending /\ pend.age \in 0..(Timeout + 1)
      BY <2>2 DEF IInv, ControllerTyped, Pending
    <3>2. pend.age + 1 \in 0..(Timeout + 1)
      BY <2>2, <3>1, Bounds
    <3>3. pend' = [pend EXCEPT !.age = pend.age + 1]
      BY <1>1, <2>2
    <3> QED BY <2>2, <3>1, <3>2, <3>3 DEF Pending
  <2> QED BY <2>1, <2>2
<1>5. ControllerTyped'
  BY <1>1, <1>2, <1>3, <1>4 DEF IInv, ControllerTyped
<1>6. QueueInv' /\ Saved'
  BY <1>1 DEF IInv, QueueInv, WireFits, IdsApart, IsAnswer, Saved
<1>7. AnsweredIsDone' /\ ReleaseInv'
  BY <1>1, <1>4 DEF IInv, AnsweredIsDone, ReleaseInv, Justified, StaleOff
<1> QED BY <1>1, <1>5, <1>6, <1>7 DEF IInv

-----------------------------------------------------------------------------
(* What the device says of one command.                                    *)
LEMMA ShortSeqs ==
  ASSUME NEW M, NEW a \in M, NEW b \in M, NEW c \in M
  PROVE  /\ <<a>> \in Seq(M) /\ Len(<<a>>) = 1 /\ <<a>>[1] = a
         /\ <<a, b>> \in Seq(M) /\ Len(<<a, b>>) = 2 /\ <<a, b>>[1] = a /\ <<a, b>>[2] = b
         /\ <<a, b, c>> \in Seq(M) /\ Len(<<a, b, c>>) = 3
         /\ <<a, b, c>>[1] = a /\ <<a, b, c>>[2] = b /\ <<a, b, c>>[3] = c
OBVIOUS

(* The device takes a command: executed, refused or lost.                  *)
LEMMA SwitchStepKeeps ==
  ASSUME IInv, Execute \/ Refuse \/ Lose
  PROVE  IInv' /\ active' = active
<1> DEFINE c == Head(outbox)
<1>1. /\ outbox # <<>> /\ outbox' = Tail(outbox) /\ meta' = meta /\ file' = file
      /\ level' = level /\ open' = open /\ link' = link /\ book' = book /\ held' = held
      /\ state' = state /\ age' = age /\ pend' = pend /\ cool' = cool /\ due' = due
      /\ active' = active /\ disk' = disk /\ behind' = behind
  BY DEF Execute, Refuse, Lose, device, world, rules, channel, timers, memory
<1>2. c \in Command /\ c.want \in BOOLEAN
  BY <1>1, TailFacts, AnswerFacts DEF IInv, QueueInv
<1>3. /\ Ack(c, TRUE) \in Message /\ Outcome(c, TRUE) \in Message
      /\ Ack(c, FALSE) \in Message /\ Outcome(c, FALSE) \in Message
      /\ Ack(c, TRUE).id = c.id /\ Outcome(c, TRUE).id = c.id
      /\ Ack(c, FALSE).id = c.id /\ Outcome(c, FALSE).id = c.id
  BY <1>2, AnswerFacts
<1>4. StateIs(c.want) \in Message /\ ~IsAnswer(StateIs(c.want))
  BY <1>2, StateFacts
<1>5. relay' \in BOOLEAN /\ dirty' \in BOOLEAN /\ left' \in 0..MaxEvents
  <2>1. CASE Execute
    BY <1>2, <2>1 DEF Execute, IInv, ControllerTyped
  <2>2. CASE Refuse
    BY <2>2, SpendFacts DEF Refuse, IInv, ControllerTyped, device
  <2>3. CASE Lose
    BY <2>3, SpendFacts DEF Lose, IInv, ControllerTyped, device
  <2> QED BY <2>1, <2>2, <2>3
<1>6. ControllerTyped'
  BY <1>1, <1>5 DEF IInv, ControllerTyped
<1>7. \E ms \in Seq(Message) :
        /\ wire' = Told(ms) /\ (Len(wire) + Len(ms) <= MaxWire \/ wire' = wire)
        /\ \A k \in 1..Len(ms) : IsAnswer(ms[k]) => ms[k].id = c.id
  <2>1. CASE Execute
    <3> DEFINE ms == <<Ack(c, TRUE), Outcome(c, TRUE), StateIs(c.want)>>
    <3>1. wire' = Told(ms) /\ Len(wire) + 3 <= MaxWire
      BY <2>1 DEF Execute
    <3>2. ms \in Seq(Message) /\ Len(ms) = 3
          /\ ms[1] = Ack(c, TRUE) /\ ms[2] = Outcome(c, TRUE) /\ ms[3] = StateIs(c.want)
      BY <1>3, <1>4, ShortSeqs
    <3> HIDE DEF ms, c
    <3>3. ASSUME NEW k \in 1..Len(ms), IsAnswer(ms[k]) PROVE ms[k].id = c.id
      <4>1. k = 1 \/ k = 2 \/ k = 3
        BY <3>2
      <4> QED BY <1>3, <1>4, <3>2, <3>3, <4>1
    <3> QED BY <3>1, <3>2, <3>3
  <2>2. CASE Refuse
    <3>1. CASE wire' = Told(<<Ack(c, FALSE)>>)
      <4> DEFINE ms == <<Ack(c, FALSE)>>
      <4>1. wire' = Told(ms) /\ Len(wire) + 2 <= MaxWire /\ Len(wire) \in Nat
        BY <2>2, <3>1 DEF Refuse, IInv, QueueInv
      <4>2. ms \in Seq(Message) /\ Len(ms) = 1 /\ ms[1] = Ack(c, FALSE)
        BY <1>3, ShortSeqs
      <4> HIDE DEF ms, c
      <4>3. ASSUME NEW k \in 1..Len(ms) PROVE ms[k].id = c.id
        <5>1. k = 1
          BY <4>2
        <5> QED BY <1>3, <4>2, <5>1
      <4>4. Len(wire) + Len(ms) <= MaxWire
        BY <4>1, <4>2, Bounds
      <4> QED BY <4>1, <4>2, <4>3, <4>4
    <3>2. CASE wire' = Told(<<Ack(c, TRUE), Outcome(c, FALSE)>>)
      <4> DEFINE ms == <<Ack(c, TRUE), Outcome(c, FALSE)>>
      <4>1. wire' = Told(ms) /\ Len(wire) + 2 <= MaxWire
        BY <2>2, <3>2 DEF Refuse
      <4>2. ms \in Seq(Message) /\ Len(ms) = 2 /\ ms[1] = Ack(c, TRUE)
              /\ ms[2] = Outcome(c, FALSE)
        BY <1>3, ShortSeqs
      <4> HIDE DEF ms, c
      <4>3. ASSUME NEW k \in 1..Len(ms) PROVE ms[k].id = c.id
        <5>1. k = 1 \/ k = 2
          BY <4>2
        <5> QED BY <1>3, <4>2, <5>1
      <4> QED BY <4>1, <4>2, <4>3
    <3> QED BY <2>2, <3>1, <3>2 DEF Refuse
  <2>3. CASE Lose
    <3>1. wire' = wire
      BY <2>3 DEF Lose
    <3>2. wire \o <<>> = wire /\ <<>> \in Seq(Message) /\ Len(<<>>) = 0
      BY ConcatEmptySeq DEF IInv, QueueInv
    <3>3. Told(<<>>) = wire
      BY <3>2 DEF Told
    <3>4. \A k \in 1..Len(<<>>) : IsAnswer(<<>>[k]) => <<>>[k].id = c.id
      BY <3>2
    <3> QED BY <3>1, <3>2, <3>3, <3>4
  <2> QED BY <2>1, <2>2, <2>3
<1>8. /\ QueueInv'
      /\ \A i \in 1..Len(outbox') : outbox'[i] = outbox[i + 1] /\ i + 1 \in 1..Len(outbox)
  <2>1. PICK ms \in Seq(Message) :
          /\ wire' = Told(ms) /\ (Len(wire) + Len(ms) <= MaxWire \/ wire' = wire)
          /\ \A k \in 1..Len(ms) : IsAnswer(ms[k]) => ms[k].id = c.id
    BY <1>7
  <2> QED BY <1>1, <2>1, PopKeeps DEF IInv
<1>9. AnsweredIsDone'
  <2>1. DOMAIN outbox = 1..Len(outbox) /\ DOMAIN outbox' = 1..Len(outbox')
    BY <1>8 DEF IInv, QueueInv
  <2> QED BY <1>1, <1>8, <2>1 DEF IInv, AnsweredIsDone
<1> QED BY <1>1, <1>6, <1>8, <1>9, MemoryKeeps DEF IInv

(* A change by hand, and the refresh of the metadata.                      *)
LEMMA StateToldKeeps ==
  ASSUME IInv, Manual \/ RefreshMeta
  PROVE  IInv' /\ active' = active
<1>1. /\ outbox' = outbox /\ file' = file
      /\ level' = level /\ open' = open /\ link' = link /\ book' = book /\ held' = held
      /\ state' = state /\ age' = age /\ pend' = pend /\ cool' = cool /\ due' = due
      /\ active' = active /\ disk' = disk /\ behind' = behind /\ Len(wire) + 1 <= MaxWire
  BY DEF Manual, RefreshMeta, device, world, rules, channel, timers, memory
<1>2. relay' \in BOOLEAN /\ dirty' \in BOOLEAN /\ meta' \in BOOLEAN /\ left' \in 0..MaxEvents
  <2>1. CASE Manual
    BY <2>1, SpendFacts DEF Manual, IInv, ControllerTyped
  <2>2. CASE RefreshMeta
    BY <2>2 DEF RefreshMeta, IInv, ControllerTyped
  <2> QED BY <2>1, <2>2
<1>3. ControllerTyped'
  BY <1>1, <1>2 DEF IInv, ControllerTyped
<1>4. wire' = wire \/ \E m \in Message : ~IsAnswer(m) /\ wire' = Append(wire, m)
  <2>1. CASE Manual
    <3>1. StateIs(~relay) \in Message /\ ~IsAnswer(StateIs(~relay))
      BY StateFacts DEF IInv, ControllerTyped
    <3>2. wire' = Told(<<StateIs(~relay)>>)
      BY <2>1 DEF Manual
    <3>3. wire \o <<StateIs(~relay)>> = Append(wire, StateIs(~relay))
      BY <3>1 DEF IInv, QueueInv
    <3> QED BY <3>1, <3>2, <3>3 DEF Told
  <2>2. CASE RefreshMeta
    <3>1. [kind |-> "meta", on |-> relay] \in Message
            /\ ~IsAnswer([kind |-> "meta", on |-> relay])
      BY StateFacts DEF IInv, ControllerTyped
    <3> QED BY <2>2, <3>1 DEF RefreshMeta
  <2> QED BY <2>1, <2>2
<1>5. QueueInv'
  <2>1. CASE wire' = wire
    BY <1>1, <2>1 DEF IInv, QueueInv, WireFits, IdsApart, IsAnswer
  <2>2. ASSUME NEW m \in Message, ~IsAnswer(m), wire' = Append(wire, m) PROVE QueueInv'
    <3>1. /\ wire' \in Seq(Message) /\ Len(wire') = Len(wire) + 1 /\ Len(wire) \in Nat
          /\ (\A i \in 1..Len(wire) : wire'[i] = wire[i]) /\ wire'[Len(wire) + 1] = m
      BY <2>2, AppendFacts DEF IInv, QueueInv
    <3>2. ASSUME NEW j \in 1..Len(wire'), IsAnswer(wire'[j])
          PROVE  \E k \in 1..Len(wire) : wire'[j] = wire[k]
      <4>1. j # Len(wire) + 1
        BY <2>2, <3>1, <3>2
      <4>2. j \in 1..Len(wire)
        BY <3>1, <4>1
      <4> QED BY <3>1, <4>2
    <3>3. Len(wire') <= MaxWire
      BY <1>1, <3>1
    <3> QED BY <1>1, <3>1, <3>2, <3>3, WireKeeps DEF IInv
  <2> QED BY <1>4, <2>1, <2>2
<1> QED BY <1>1, <1>3, <1>5, AnsweredKeeps, MemoryKeeps DEF IInv

LEMMA WorldKeeps ==
  ASSUME IInv, Reload \/ Weather \/ Edit \/ UNCHANGED weewxVars
  PROVE  IInv' /\ active' = active
<1>1. /\ relay' = relay /\ meta' = meta /\ dirty' = dirty /\ outbox' = outbox /\ wire' = wire
      /\ link' = link /\ state' = state /\ age' = age /\ pend' = pend /\ cool' = cool
      /\ due' = due
      /\ active' = active /\ disk' = disk /\ behind' = behind
  BY DEF Reload, Weather, Edit, weewxVars, device, world, rules, channel, timers, memory
<1>2. QueueInv' /\ Saved' /\ AnsweredIsDone' /\ ReleaseInv'
  BY <1>1, QuietKeeps
<1>3. /\ file' \in Books /\ book' \in Books /\ level' \in {"low", "middle", "high", "stale"}
      /\ open' \in BOOLEAN /\ held' \in BOOLEAN /\ left' \in 0..MaxEvents
  <2>1. CASE Reload
    BY <2>1 DEF Reload, world, IInv, ControllerTyped
  <2>2. CASE Weather
    BY <2>2, SpendFacts DEF Weather, rules, IInv, ControllerTyped
  <2>3. CASE Edit
    BY <2>3, SpendFacts DEF Edit, rules, IInv, ControllerTyped
  <2>4. CASE UNCHANGED weewxVars
    BY <2>4 DEF weewxVars, world, rules, IInv, ControllerTyped
  <2> QED BY <2>1, <2>2, <2>3, <2>4
<1>4. ControllerTyped'
  BY <1>1, <1>3 DEF IInv, ControllerTyped
<1> QED BY <1>1, <1>2, <1>4 DEF IInv

-----------------------------------------------------------------------------
LEMMA WeewxInitIInv == WeewxInit => IInv
<1> SUFFICES ASSUME WeewxInit PROVE IInv
  OBVIOUS
<1>1. ControllerTyped
  <2>1. 0 \in 0..MaxAge /\ 0 \in 0..MaxCool /\ MaxEvents \in 0..MaxEvents
    BY BoundFacts, WeewxAssumption
  <2>2. due \in [Names -> (0..MaxDelay) \cup {Nothing}] /\ active \in [Names -> Known]
          /\ disk = active /\ behind = FALSE
    BY DEF WeewxInit, Known
  <2> QED BY <2>1, <2>2 DEF WeewxInit, ControllerTyped, Known
<1>2. wire \in Seq(Message) /\ outbox \in Seq(Command) /\ Len(wire) = 0 /\ Len(outbox) = 0
  BY DEF WeewxInit
<1>3. QueueInv
  BY <1>2, Bounds DEF QueueInv, WireFits, IdsApart
<1> QED BY <1>1, <1>3 DEF WeewxInit, IInv, Saved, AnsweredIsDone, ReleaseInv

(* Each step keeps the invariant and lets go only of what it may.          *)
LEMMA WeewxStep ==
  ASSUME IInv, [WeewxNext]_weewxVars
  PROVE  IInv' /\ \A n \in Names : LetGo(n) => MayForget(n) \/ (Restart /\ (behind \/ behind'))
<1>1. CASE Evaluate     BY <1>1, EvaluateKeeps DEF LetGo
<1>2. CASE OnMeta       BY <1>2, OnMetaKeeps DEF LetGo
<1>3. CASE OnState      BY <1>3, OnStateKeeps DEF LetGo
<1>4. CASE OnResponse   BY <1>4, OnResponseKeeps DEF LetGo
<1>5. CASE Disconnect \/ Connect
  BY <1>5, LinkKeeps DEF LetGo
<1>6. CASE Restart      BY <1>6, RestartKeeps DEF LetGo
<1>7. CASE Tick         BY <1>7, TickKeeps DEF LetGo
<1>8. CASE Execute \/ Refuse \/ Lose
  BY <1>8, SwitchStepKeeps DEF LetGo
<1>9. CASE Manual \/ RefreshMeta
  BY <1>9, StateToldKeeps DEF LetGo
<1>10. CASE Reload \/ Weather \/ Edit \/ UNCHANGED weewxVars
  BY <1>10, WorldKeeps DEF LetGo
<1> QED
  BY <1>1, <1>2, <1>3, <1>4, <1>5, <1>6, <1>7, <1>8, <1>9, <1>10 DEF WeewxNext, OnMessage

LEMMA WeewxIInv == WeewxSpec => []IInv
<1>1. IInv /\ [WeewxNext]_weewxVars => IInv'
  BY WeewxStep
<1> QED BY WeewxInitIInv, <1>1, PTL DEF WeewxSpec

(* Every variable has its type; a rule decides on incomplete readings what *)
(* any completion of them would decide (_rule_result); an answer counts    *)
(* for its own command only (update_response).                             *)
THEOREM DecisionsAreSound == WeewxSpec => []DecisionsSound
<1>1. IInv => DecisionsSound
  BY TypedIsType, ExactResult DEF IInv, DecisionsSound, ControllerTyped
<1> QED BY <1>1, WeewxIInv, PTL

(* The state before a rule is let go only when another rule has the        *)
(* channel or it was heard to be back (_finish_completed,                  *)
(* _cleanup_inactive_actions), or OFF under stale_action "off" - or when   *)
(* the service restarts and the runtime file could not be written since,   *)
(* or not be read (_save_runtime, _load_runtime).                          *)
THEOREM ForgottenOnlyOnceBack == WeewxSpec => ForgottenOnceBack
<1>1. IInv /\ [WeewxNext]_weewxVars =>
        [\A n \in Names : LetGo(n) =>
           \/ book # NoRule /\ ~Restores(n)
           \/ SwitchSays(n, active[n])
           \/ StaleOff(n) /\ active[n] /\ SwitchSays(n, FALSE)
           \/ Restart /\ (behind \/ behind')]_weewxVars
  BY WeewxStep DEF MayForget
<1> QED BY <1>1, WeewxIInv, PTL DEF WeewxSpec, ForgottenOnceBack
=============================================================================
