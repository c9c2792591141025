------------------------- MODULE FlashFilesProofs -------------------------
(***************************************************************************)
(* Theorems about the files of the flash: how one is written               *)
(* (DurableFile), and how a log among them - whose trim is such a write -  *)
(* reaches the host while it grows (LogTransfer).                          *)
(*                                                                         *)
(* For every set of documents the names a reader can be sent to never hold *)
(* torn bytes, and the commit and clear helpers implement the atomic       *)
(* register of AtomicCell.  For all numbers of files, clients, records and *)
(* faults a log that the host stores is the file as it was when its        *)
(* session began, unless the device trimmed it meanwhile.                  *)
(***************************************************************************)
EXTENDS DurableFile, LogTransfer, SequenceTheorems, FiniteSetTheorems,
        WellFoundedInduction, TLAPS

-----------------------------------------------------------------------------
(* A file is written (DurableFile).                                        *)

(* Where each step of a write, a clear or a recovery has left the names.   *)
BeforeInstall == {"sync", "stat", "dropbak", "move", "presync", "install"}

NamesInv ==
  /\ live \in Docs \cup {Absent, Empty}
  /\ bak \in Docs \cup {Absent}
  /\ unsynced \subseteq {"tmp"}

StepInv ==
  /\ pc \in BeforeInstall => tmp = doc
  /\ pc \in {"stat", "dropbak", "move", "presync", "install"} => unsynced = {}
  /\ pc \in {"fill", "sync", "stat", "dropbak", "move"} => ~moved
  /\ pc \in {"dropbak", "move"} => live \in Docs
  /\ pc \in {"presync", "install"} => live = Absent
  /\ pc \in {"presync", "install"} /\ moved => bak \in Docs
  /\ pc = "finalsync" => live = doc
  /\ pc = "restore" => live = Absent /\ bak \in Docs
  /\ pc = "restoresync" => live \in Docs
  /\ pc \in {"cleartmp", "clearlive", "clearsync"} => bak = Absent
  /\ pc = "clearsync" => live = Absent

IInv == TypeOK /\ NamesInv /\ StepInv

LEMMA InitIInv == Init => IInv
  BY DocsAssumption DEF Init, IInv, TypeOK, NamesInv, StepInv, Contents, Steps, WriteSteps,
     ClearSteps, BeforeInstall

(* The invariant is kept by each action; only Crash and the renames move   *)
(* contents between names.                                                 *)
LEMMA NextIInv == IInv /\ [Next]_vars => IInv'
<1> SUFFICES ASSUME IInv, [Next]_vars PROVE IInv'
  OBVIOUS
<1> USE DocsAssumption DEF IInv, TypeOK, NamesInv, StepInv, Contents, Steps, WriteSteps,
   ClearSteps, BeforeInstall, HasBytes, Goto, files
<1>1. ASSUME NEW d \in Docs, OpenTmp(d) PROVE IInv'
  BY <1>1 DEF OpenTmp
<1>2. CASE CommitStep
  <2>1. CASE FillTmp       BY <2>1 DEF FillTmp
  <2>2. CASE FillFails     BY <2>2 DEF FillFails
  <2>3. CASE SyncTmp       BY <2>3 DEF SyncTmp
  <2>4. CASE StatLive      BY <2>4 DEF StatLive
  <2>5. CASE DropBackup    BY <2>5 DEF DropBackup
  <2>6. CASE MoveLive      BY <2>6 DEF MoveLive
  <2>7. CASE SyncMoved     BY <2>7 DEF SyncMoved
  <2>8. CASE Install       BY <2>8 DEF Install
  <2>9. CASE SyncInstalled BY <2>9 DEF SyncInstalled
  <2>10. CASE CommitFails  BY <2>10 DEF CommitFails
  <2>11. CASE RestoreBackup BY <2>11 DEF RestoreBackup
  <2>12. CASE RestoreSync  BY <2>12 DEF RestoreSync
  <2>13. CASE RestoreFails BY <2>13 DEF RestoreFails
  <2>14. CASE Cleanup      BY <2>14 DEF Cleanup
  <2> QED
    BY <1>2, <2>1, <2>2, <2>3, <2>4, <2>5, <2>6, <2>7, <2>8, <2>9, <2>10,
       <2>11, <2>12, <2>13, <2>14 DEF CommitStep
<1>3. CASE ClearStep
  BY <1>3 DEF ClearStep, BeginClear, ClearBak, ClearTmp, ClearLive, ClearDone, ClearFails
<1>4. CASE Crash
  BY <1>4 DEF Crash, AfterLoss
<1>5. CASE BootStep
  BY <1>5 DEF BootStep, BootDropEmpty, BootRestore, BootReady, NeedsRestore
<1>6. CASE UNCHANGED vars
  BY <1>6 DEF vars
<1> QED
  BY <1>1, <1>2, <1>3, <1>4, <1>5, <1>6 DEF Next

LEMMA SpecIInv == Spec => []IInv
  BY InitIInv, NextIInv, PTL DEF Spec

(* Type correctness of the commit helpers.                                 *)
THEOREM TypeCorrect == Spec => []TypeOK
<1>1. IInv => TypeOK
  BY DEF IInv
<1> QED
  BY <1>1, SpecIInv, PTL

(* The live and backup names of a document never hold torn bytes, for any  *)
(* documents, failures and resets (commit_file, clear_file).               *)
THEOREM DocumentsStayWhole == Spec => []WholeDocument
<1>1. IInv => WholeDocument
  BY DocsAssumption DEF IInv, NamesInv, WholeDocument
<1> QED
  BY <1>1, SpecIInv, PTL

----------------------------------------------------------------------------
(* Every step of the helpers is a step of the register or changes nothing  *)
(* that a reader or a caller can see.                                      *)
LEMMA NextSimulates == IInv /\ [Next]_vars => [Cell!Next]_(Cell!vars)
<1> SUFFICES ASSUME IInv, [Next]_vars PROVE [Cell!Next]_(Cell!vars)
  OBVIOUS
<1> USE DocsAssumption DEF IInv, TypeOK, NamesInv, StepInv, Contents, Steps, WriteSteps,
   ClearSteps, BeforeInstall, HasBytes, Goto, files, Readable, Cell!Next, Cell!vars,
   Cell!Request, Cell!TakeEffect, Cell!ReturnOk, Cell!ReturnError, Cell!Reset
<1>1. ASSUME NEW d \in Docs, OpenTmp(d) PROVE [Cell!Next]_(Cell!vars)
  BY <1>1 DEF OpenTmp
<1>2. CASE CommitStep
  <2>1. CASE FillTmp       BY <2>1 DEF FillTmp
  <2>2. CASE FillFails     BY <2>2 DEF FillFails
  <2>3. CASE SyncTmp       BY <2>3 DEF SyncTmp
  <2>4. CASE StatLive      BY <2>4 DEF StatLive
  <2>5. CASE DropBackup    BY <2>5 DEF DropBackup
  <2>6. CASE MoveLive      BY <2>6 DEF MoveLive
  <2>7. CASE SyncMoved     BY <2>7 DEF SyncMoved
  <2>8. CASE Install       BY <2>8 DEF Install
  <2>9. CASE SyncInstalled BY <2>9 DEF SyncInstalled
  <2>10. CASE CommitFails  BY <2>10 DEF CommitFails
  <2>11. CASE RestoreBackup BY <2>11 DEF RestoreBackup
  <2>12. CASE RestoreSync  BY <2>12 DEF RestoreSync
  <2>13. CASE RestoreFails BY <2>13 DEF RestoreFails
  <2>14. CASE Cleanup      BY <2>14 DEF Cleanup
  <2> QED
    BY <1>2, <2>1, <2>2, <2>3, <2>4, <2>5, <2>6, <2>7, <2>8, <2>9, <2>10,
       <2>11, <2>12, <2>13, <2>14 DEF CommitStep
<1>3. CASE ClearStep
  BY <1>3 DEF ClearStep, BeginClear, ClearBak, ClearTmp, ClearLive, ClearDone, ClearFails
<1>4. CASE Crash
  BY <1>4 DEF Crash, AfterLoss
<1>5. CASE BootStep
  BY <1>5 DEF BootStep, BootDropEmpty, BootRestore, BootReady, NeedsRestore
<1>6. CASE UNCHANGED vars
  BY <1>6 DEF vars
<1> QED
  BY <1>1, <1>2, <1>3, <1>4, <1>5, <1>6 DEF Next

(* commit_file and clear_file implement an atomic, durable register.       *)
THEOREM AtomicRegister == Spec => AtomicDocument
<1>1. Init => Cell!Init
  BY DocsAssumption DEF Init, Cell!Init, Readable, HasBytes, WriteSteps, ClearSteps
<1> QED
  BY <1>1, SpecIInv, NextSimulates, PTL DEF Spec, AtomicDocument, Cell!Spec

-----------------------------------------------------------------------------
(* A log is fetched (LogTransfer).                                         *)

(* What travels, and what the host keeps.                                  *)
LogFile == Records \cup {Missing}
Acks == [kind : {"ack"}, id : Id, ok : BOOLEAN, size : Nat]
Chunks == [kind : {"chunk"}, id : Id, offset : Nat, data : Records]
Results == [kind : {"result"}, id : Id, ok : BOOLEAN, size : Nat, sum : LogFile]
Messages == Acks \cup Chunks \cup Results
Transfers ==
  [id : Id \cup {0}, phase : {"idle", "waiting", "complete", "failed"}, data : Records]
Stores == [id : Id \cup {0}, data : Records]

Typed ==
  /\ log \in [Files -> LogFile] /\ backup \in [Files -> LogFile] /\ record \in Nat
  /\ connected \in BOOLEAN /\ session \in Session \cup {Nobody}
  /\ session # Nobody => session.offset = Len(session.sent)
  /\ published \in Seq(Messages) /\ seen \subseteq Id /\ received \in Seq(Command)
  /\ transfer \in [Clients -> Transfers] /\ stored \in [Clients -> Stores]
  /\ requests \in 0..MaxRequests /\ begun \in [Id -> LogFile]
  /\ cut \subseteq Id /\ excused \subseteq Id

(* A log that exists has a record.                                         *)
NoneEmpty == \A f \in Files : log[f] # <<>> /\ backup[f] # <<>>

(* An id is new when its request is sent, and until the device sees it.    *)
IdsFresh ==
  /\ \A k \in 1..Len(received) : received[k].id <= requests /\ received[k].id \notin seen
                                 /\ begun[received[k].id] = Missing
  /\ \A k, l \in 1..Len(received) : received[k].id = received[l].id => k = l
  /\ \A i \in Id : i > requests => i \notin seen /\ begun[i] = Missing

(* What has been sent is the log up to the offset, and the log still       *)
(* begins as it was when the session began.                                *)
Begins(r, whole) == Len(r) <= Len(whole) /\ \A i \in 1..Len(r) : r[i] = whole[i]
Faithful(t, started) ==
  /\ log[t.file] # Missing /\ started # Missing /\ t.size > 0
  /\ t.id \notin cut => /\ t.size = Len(started) /\ Begins(started, log[t.file])
                        /\ Begins(t.sent, log[t.file])
SessionInv == session # Nobody => Faithful(session, begun[session.id])

(* A checksum of the size the log had is the checksum of that log.         *)
Truthful(m, started) ==
  m.kind = "result" /\ m.ok =>
    /\ m.sum # Missing /\ m.size > 0 /\ started # Missing
    /\ m.id \notin cut /\ Len(m.sum) = m.size => m.sum = started
MessagesInv == \A j \in 1..Len(published) : Truthful(published[j], begun[published[j].id])

StoredInv ==
  \A c \in Clients : stored[c].id \notin {0} \cup cut =>
    stored[c].data = begun[stored[c].id] /\ begun[stored[c].id] # Missing

History == NoneEmpty /\ IdsFresh /\ SessionInv /\ MessagesInv /\ StoredInv

-----------------------------------------------------------------------------
(* Numbers.                                                                *)
(* Induction, with the property as the set of the numbers that have it.    *)
LEMMA SetInduction ==
  ASSUME NEW S, 0 \in S, \A n \in Nat : n \in S => n + 1 \in S
  PROVE  \A n \in Nat : n \in S
<1> DEFINE R == OpToRel(<, Nat)
           T == Nat \ S
<1>1. IsWellFoundedOn(R, Nat)
  BY NatLessThanWellFounded
<1>2. \A a, b \in Nat : a < b => <<a, b>> \in R
  BY DEF OpToRel
<1> HIDE DEF R
<1> SUFFICES ASSUME T # {} PROVE FALSE
  OBVIOUS
<1>3. PICK y \in T : \A z \in T : ~(<<z, y>> \in R)
  BY <1>1, WFMin
<1>4. y # 0 /\ y - 1 \in Nat /\ y - 1 < y /\ (y - 1) + 1 = y
  BY <1>3
<1>5. y - 1 \notin T
  BY <1>2, <1>3, <1>4
<1> QED BY <1>3, <1>4, <1>5

(* Of a range the fold takes the last index first.                         *)
LEMMA MaxOfRange ==
  ASSUME NEW n \in Nat, NEW s \in SUBSET (1..n), n \in s
  PROVE  Max(s) = n
<1>1. n \in s /\ \A y \in s : n >= y
  OBVIOUS
<1>2. Max(s) \in s /\ \A y \in s : Max(s) >= y
  BY <1>1, Zenon DEF Max
<1>3. Max(s) \in 1..n
  BY <1>2
<1>4. Max(s) >= n /\ n >= Max(s)
  BY <1>1, <1>2
<1> QED BY <1>3, <1>4

-----------------------------------------------------------------------------
(* Sequences of records.                                                   *)
LEMMA LogBounds ==
  MaxLog \in Nat \ {0} /\ ChunkSize \in Nat \ {0} /\ MaxRequests \in Nat
    /\ Missing \notin Records
BY LogTransferAssumption DEF Records

LEMMA BeginsWhole ==
  ASSUME NEW r \in Records, NEW whole \in Records, Begins(r, whole), Len(r) = Len(whole)
  PROVE  r = whole
BY SeqEqual DEF Begins, Records

LEMMA BeginsMore ==
  ASSUME NEW r \in Records, NEW whole \in Records, Begins(r, whole), NEW e \in Nat
  PROVE  Append(whole, e) \in Records /\ Append(whole, e) # <<>> /\ Begins(r, Append(whole, e))
<1>1. /\ Append(whole, e) \in Records /\ Len(Append(whole, e)) = Len(whole) + 1
      /\ \A i \in 1..Len(whole) : Append(whole, e)[i] = whole[i]
  BY DEF Records
<1>2. Len(r) \in Nat /\ Len(whole) \in Nat
  BY DEF Records
<1>3. Append(whole, e) # <<>>
  <2>1. Append(whole, e) = <<>> => Len(Append(whole, e)) = 0
    OBVIOUS
  <2> QED BY <1>1, <1>2, <2>1
<1> QED BY <1>1, <1>2, <1>3 DEF Begins

LEMMA ReadFacts ==
  ASSUME Typed, NEW f \in Files, log[f] # Missing, NEW offset \in Nat
  PROVE  LET d == Read(f, offset) IN
         /\ d \in Records /\ Len(log[f]) \in Nat
         /\ d = <<>> => offset >= Len(log[f])
         /\ d # <<>> => offset + Len(d) <= Len(log[f])
         /\ \A i \in 1..Len(d) : d[i] = log[f][offset + i]
<1> DEFINE w == log[f]
           last == IF offset + ChunkSize < Len(w) THEN offset + ChunkSize ELSE Len(w)
           d == SubSeq(w, offset + 1, last)
<1>1. w \in Seq(Nat) /\ Len(w) \in Nat
  BY DEF Typed, LogFile, Records
<1>2. Read(f, offset) = d
  BY DEF Read
<1>3. last \in Nat /\ last <= Len(w) /\ (offset < Len(w) => last > offset)
      /\ (offset >= Len(w) => last = Len(w))
  BY <1>1, LogBounds
<1> HIDE DEF w, last
<1>4. CASE offset < Len(w)
  <2>1. offset + 1 \in 1..Len(w) + 1 /\ last \in (offset + 1) - 1..Len(w)
    BY <1>1, <1>3, <1>4
  <2>2. d \in Seq(Nat) /\ Len(d) = last - (offset + 1) + 1
        /\ \A i \in 1..last - (offset + 1) + 1 : d[i] = w[(offset + 1) + i - 1]
    BY <1>1, <2>1, SubSeqProperties
  <2> HIDE DEF d
  <2>3. Len(d) = last - offset /\ Len(d) > 0 /\ \A i \in 1..Len(d) : d[i] = w[offset + i]
    <3>1. Len(d) = last - offset /\ Len(d) > 0
      BY <1>1, <1>3, <1>4, <2>2
    <3>2. \A i \in 1..Len(d) : i \in 1..last - (offset + 1) + 1
            /\ (offset + 1) + i - 1 = offset + i
      BY <1>1, <1>3, <2>2
    <3> QED BY <2>2, <3>1, <3>2
  <2>4. d # <<>> /\ offset + Len(d) <= Len(w)
    BY <1>1, <1>3, <2>3
  <2> QED BY <1>1, <1>2, <2>2, <2>3, <2>4 DEF Records, w
<1>5. CASE offset >= Len(w)
  <2>1. d = <<>>
    BY <1>1, <1>3, <1>5
  <2> HIDE DEF d
  <2>2. Len(d) = 0 /\ d \in Records
    BY <2>1 DEF Records
  <2> QED BY <1>1, <1>2, <1>5, <2>1, <2>2 DEF w
<1> QED BY <1>1, <1>4, <1>5

(* A chunk that was read continues what has been sent.                     *)
LEMMA SentContinues ==
  ASSUME Typed, NEW f \in Files, log[f] # Missing, NEW r \in Records, Begins(r, log[f]),
         NEW d, d = Read(f, Len(r)), d # <<>>
  PROVE  r \o d \in Records /\ Begins(r \o d, log[f])
<1>1. /\ d \in Records /\ Len(log[f]) \in Nat /\ Len(r) + Len(d) <= Len(log[f])
      /\ \A i \in 1..Len(d) : d[i] = log[f][Len(r) + i]
      /\ Len(r) \in Nat /\ Len(d) \in Nat
  <2>1. Len(r) \in Nat
    BY DEF Records
  <2>2. /\ d \in Records /\ Len(log[f]) \in Nat /\ Len(r) + Len(d) <= Len(log[f])
        /\ \A i \in 1..Len(d) : d[i] = log[f][Len(r) + i]
    BY <2>1, ReadFacts
  <2> QED BY <2>1, <2>2 DEF Records
<1>2. /\ r \o d \in Seq(Nat) /\ Len(r \o d) = Len(r) + Len(d)
      /\ \A i \in 1..Len(r \o d) : (r \o d)[i] = IF i <= Len(r) THEN r[i] ELSE d[i - Len(r)]
  BY <1>1, ConcatProperties DEF Records
<1>3. ASSUME NEW i \in 1..Len(r \o d) PROVE (r \o d)[i] = log[f][i]
  <2>1. CASE i <= Len(r)
    BY <1>1, <1>2, <2>1 DEF Begins
  <2>2. CASE i > Len(r)
    <3>1. i - Len(r) \in 1..Len(d) /\ Len(r) + (i - Len(r)) = i
      BY <1>1, <1>2, <2>2
    <3>2. (r \o d)[i] = d[i - Len(r)]
      BY <1>1, <1>2, <2>2
    <3> QED BY <1>1, <3>1, <3>2
  <2> QED BY <1>1, <1>2, <2>1, <2>2
<1> QED BY <1>1, <1>2, <1>3 DEF Begins, Records

-----------------------------------------------------------------------------
(* The requests of a pass, one after the other.                            *)
FoldState == [session : Session \cup {Nobody}, out : Seq(Messages), seen : SUBSET Id]
Before == [session |-> session, out |-> published, seen |-> seen]
GetFold(g, n) ==
  g = [s \in SUBSET (1..n) |->
         IF s = {} THEN Before ELSE Get(g[s \ {Max(s)}], received[Max(s)])]

LEMMA GetExists == \A n \in Nat : \E g : GetFold(g, n)
<1> DEFINE S == {n \in Nat : \E g : GetFold(g, n)}
<1>1. 0 \in S
  <2>1. GetFold([s \in SUBSET (1..0) |-> Before], 0)
    BY DEF GetFold
  <2> QED BY <2>1
<1>2. ASSUME NEW n \in Nat, n \in S PROVE n + 1 \in S
  <2>1. PICK g : GetFold(g, n)
    BY <1>2
  <2> DEFINE h == [s \in SUBSET (1..n+1) |->
                    IF n + 1 \in s THEN Get(g[s \ {n + 1}], received[n + 1]) ELSE g[s]]
  <2>2. ASSUME NEW s \in SUBSET (1..n+1)
        PROVE  h[s] = IF s = {} THEN Before ELSE Get(h[s \ {Max(s)}], received[Max(s)])
    <3>1. CASE n + 1 \in s
      <4>1. Max(s) = n + 1 /\ s \ {n + 1} \in SUBSET (1..n)
        BY <3>1, MaxOfRange
      <4>2. h[s] = Get(g[s \ {n + 1}], received[n + 1]) /\ h[s \ {n + 1}] = g[s \ {n + 1}]
        BY <3>1, <4>1
      <4> QED BY <3>1, <4>1, <4>2
    <3>2. CASE n + 1 \notin s
      <4>1. s \subseteq 1..n
        BY <3>2
      <4>2. s \ {Max(s)} \subseteq s
        OBVIOUS
      <4>3. s \in SUBSET (1..n) /\ s \ {Max(s)} \in SUBSET (1..n) /\ n + 1 \notin s \ {Max(s)}
        BY <3>2, <4>1, <4>2
      <4> QED BY <2>1, <3>2, <4>3 DEF GetFold
    <3> QED BY <3>1, <3>2
  <2>3. GetFold(h, n + 1)
    BY <2>2 DEF GetFold
  <2> HIDE DEF h
  <2> QED BY <2>3
<1> HIDE DEF S
<1>3. \A n \in Nat : n \in S
  BY <1>1, <1>2, SetInduction
<1> QED BY <1>3 DEF S

LEMMA GetSteps ==
  ASSUME received \in Seq(Command)
  PROVE  \E h : /\ h[0] = Before
                /\ \A k \in 1..Len(received) : h[k] = Get(h[k - 1], received[k])
                /\ Handled = h[Len(received)]
<1> DEFINE f == CHOOSE g : GetFold(g, Len(received))
           h == [k \in 0..Len(received) |-> f[1..k]]
<1>1. DOMAIN received = 1..Len(received) /\ Len(received) \in Nat
  OBVIOUS
<1>2. Handled = f[1..Len(received)]
  BY <1>1, Zenon DEF Handled, Before, FoldLeft, MapThenFoldSet, GetFold
<1>3. GetFold(f, Len(received))
  BY <1>1, GetExists
<1> HIDE DEF f
<1>4. f[{}] = Before
  BY <1>3 DEF GetFold
<1>5. ASSUME NEW k \in 1..Len(received) PROVE f[1..k] = Get(f[1..(k - 1)], received[k])
  <2>1. k \in 1..k /\ (1..k) \ {k} = 1..(k - 1) /\ 1..k \in SUBSET (1..Len(received))
    OBVIOUS
  <2>2. Max(1..k) = k
    BY <2>1, MaxOfRange
  <2>3. f[1..k] = Get(f[(1..k) \ {Max(1..k)}], received[Max(1..k)])
    BY <1>1, <1>3, <2>1 DEF GetFold
  <2> QED BY <2>1, <2>2, <2>3
<1>6. h[0] = Before /\ (\A k \in 1..Len(received) : h[k] = Get(h[k - 1], received[k]))
      /\ h[Len(received)] = f[1..Len(received)]
  BY <1>4, <1>5
<1> HIDE DEF h
<1> QED BY <1>2, <1>6

(* What one request does to the session, the messages and the ids.         *)
Opened(c) ==
  [id |-> c.id, file |-> c.file, size |-> Len(log[c.file]), offset |-> 0, sent |-> <<>>]
Silent(m) == ~(m.kind = "result" /\ m.ok)

LEMMA MessageTypes ==
  ASSUME NEW i \in Id, NEW ok \in BOOLEAN, NEW n \in Nat, NEW data \in Records
  PROVE  /\ Ack(i, ok, n) \in Messages /\ Silent(Ack(i, ok, n))
         /\ Chunk(i, n, data) \in Messages /\ Silent(Chunk(i, n, data))
         /\ Outcome(i, ok, n, data) \in Messages
         /\ Outcome(i, ok, n, Missing) \in Messages /\ Silent(Outcome(i, FALSE, n, Missing))
<1>1. Ack(i, ok, n) \in Acks /\ Silent(Ack(i, ok, n))
  BY DEF Ack, Acks, Silent
<1>2. Chunk(i, n, data) \in Chunks /\ Silent(Chunk(i, n, data))
  BY DEF Chunk, Chunks, Silent
<1>3. Outcome(i, ok, n, data) \in Results /\ Outcome(i, ok, n, Missing) \in Results
      /\ Silent(Outcome(i, FALSE, n, Missing))
  BY DEF Outcome, Results, LogFile, Silent
<1> QED BY <1>1, <1>2, <1>3 DEF Messages

LEMMA AppendJoins ==
  ASSUME NEW R, NEW q \in Seq(R), NEW e \in R
  PROVE  /\ Append(q, e) \in Seq(R)
         /\ \A j \in 1..Len(Append(q, e)) : (\E i \in 1..Len(q) : Append(q, e)[j] = q[i])
              \/ Append(q, e)[j] = e
OBVIOUS

LEMMA ConcatJoins ==
  ASSUME NEW R, NEW q \in Seq(R), NEW p \in Seq(R)
  PROVE  /\ q \o p \in Seq(R)
         /\ \A j \in 1..Len(q \o p) : \/ \E i \in 1..Len(q) : (q \o p)[j] = q[i]
                                      \/ \E i \in 1..Len(p) : (q \o p)[j] = p[i]
<1>1. /\ q \o p \in Seq(R) /\ Len(q \o p) = Len(q) + Len(p)
      /\ \A i \in 1..Len(q \o p) : (q \o p)[i] = IF i <= Len(q) THEN q[i] ELSE p[i - Len(q)]
  BY ConcatProperties
<1>2. Len(q) \in Nat /\ Len(p) \in Nat
  OBVIOUS
<1>3. ASSUME NEW j \in 1..Len(q \o p)
      PROVE  \/ \E i \in 1..Len(q) : (q \o p)[j] = q[i]
             \/ \E i \in 1..Len(p) : (q \o p)[j] = p[i]
  <2>1. CASE j > Len(q)
    <3>1. j - Len(q) \in 1..Len(p) /\ (q \o p)[j] = p[j - Len(q)]
      BY <1>1, <1>2, <2>1
    <3> QED BY <3>1
  <2>2. CASE j <= Len(q)
    <3>1. j \in 1..Len(q) /\ (q \o p)[j] = q[j]
      BY <1>1, <1>2, <2>2
    <3> QED BY <3>1
  <2> QED BY <1>2, <2>1, <2>2
<1> QED BY <1>1, <1>3

LEMMA PairJoins ==
  ASSUME NEW R, NEW q \in Seq(R), NEW d \in R, NEW e \in R
  PROVE  /\ q \o <<d, e>> \in Seq(R)
         /\ \A j \in 1..Len(q \o <<d, e>>) :
              \/ \E i \in 1..Len(q) : (q \o <<d, e>>)[j] = q[i]
              \/ (q \o <<d, e>>)[j] = d \/ (q \o <<d, e>>)[j] = e
<1>1. <<d, e>> \in Seq(R) /\ \A i \in 1..Len(<<d, e>>) : <<d, e>>[i] = d \/ <<d, e>>[i] = e
  OBVIOUS
<1> QED BY <1>1, ConcatJoins

Level(s) == s.session # Nobody => s.session.offset = Len(s.session.sent)
\* Where the messages come from: those of before, and silent ones.
Comes(new, old) ==
  \A j \in 1..Len(new) : (\E i \in 1..Len(old) : new[j] = old[i]) \/ Silent(new[j])

LEMMA OpenedFacts ==
  ASSUME Typed, NEW c \in Command, log[c.file] # Missing
  PROVE  /\ Opened(c) \in Session /\ Opened(c).offset = Len(Opened(c).sent)
         /\ Len(log[c.file]) \in Nat /\ log[c.file] \in Records
<1>1. c.file \in Files /\ c.id \in Id
  BY DEF Command
<1>2. log[c.file] \in Records /\ Len(log[c.file]) \in Nat
  BY <1>1 DEF Typed, LogFile, Records
<1>3. <<>> \in Records /\ Len(<<>>) = 0
  BY DEF Records
<1> QED BY <1>1, <1>2, <1>3 DEF Opened, Session

LEMMA GetTyped ==
  ASSUME Typed, NEW s \in FoldState, Level(s), NEW c \in Command
  PROVE  /\ Get(s, c) \in FoldState /\ Level(Get(s, c))
         /\ Get(s, c).seen = s.seen \cup {c.id}
         /\ Get(s, c).session = s.session
              \/ (log[c.file] # Missing /\ Get(s, c).session = Opened(c))
         /\ c.id \notin s.seen => Comes(Get(s, c).out, s.out)
<1>1. c.file \in Files /\ c.id \in Id /\ s.out \in Seq(Messages) /\ s.seen \in SUBSET Id
      /\ s.session \in Session \cup {Nobody}
  BY DEF Command, FoldState
<1>2. CASE c.id \in s.seen
  <2> DEFINE d == Ack(c.id, TRUE, 0)
             e == Outcome(c.id, TRUE, 0, Missing)
  <2>1. d \in Messages /\ e \in Messages
    <3>1. <<>> \in Records
      BY DEF Records
    <3> QED BY <1>1, <3>1, MessageTypes
  <2> HIDE DEF d, e
  <2>2. s.out \o <<d, e>> \in Seq(Messages)
    BY <1>1, <2>1, PairJoins
  <2>3. Get(s, c) = [s EXCEPT !.out = s.out \o <<d, e>>]
    BY <1>2 DEF Get, d, e
  <2> QED BY <1>1, <1>2, <2>2, <2>3 DEF FoldState, Level
<1>3. CASE c.id \notin s.seen /\ log[c.file] = Missing
  <2> DEFINE d == Ack(c.id, FALSE, 0)
             e == Outcome(c.id, FALSE, 0, Missing)
  <2>1. d \in Messages /\ e \in Messages /\ Silent(d) /\ Silent(e)
    <3>1. <<>> \in Records
      BY DEF Records
    <3> QED BY <1>1, <3>1, MessageTypes
  <2> HIDE DEF d, e
  <2>2. s.out \o <<d, e>> \in Seq(Messages) /\ Comes(s.out \o <<d, e>>, s.out)
    BY <1>1, <2>1, PairJoins DEF Comes
  <2>3. Get(s, c) = [s EXCEPT !.seen = s.seen \cup {c.id}, !.out = s.out \o <<d, e>>]
    BY <1>3 DEF Get, d, e
  <2>4. s.seen \cup {c.id} \in SUBSET Id
    BY <1>1
  <2> QED BY <1>1, <2>2, <2>3, <2>4 DEF FoldState, Level
<1>4. CASE c.id \notin s.seen /\ log[c.file] # Missing
  <2> DEFINE d == Ack(c.id, TRUE, Len(log[c.file]))
  <2>1. d \in Messages /\ Silent(d)
    <3>1. <<>> \in Records
      BY DEF Records
    <3> QED BY <1>1, <1>4, <3>1, MessageTypes, OpenedFacts
  <2>2. Opened(c) \in Session /\ Opened(c).offset = Len(Opened(c).sent)
    BY <1>4, OpenedFacts
  <2> HIDE DEF d
  <2>3. Append(s.out, d) \in Seq(Messages) /\ Comes(Append(s.out, d), s.out)
    BY <1>1, <2>1, AppendJoins DEF Comes
  <2>4. Get(s, c) = [s EXCEPT !.seen = s.seen \cup {c.id}, !.session = Opened(c),
        !.out = Append(s.out, d)]
    BY <1>4 DEF Get, d, Opened
  <2>5. s.seen \cup {c.id} \in SUBSET Id
    BY <1>1
  <2> HIDE DEF Opened
  <2>6. /\ Get(s, c).seen = s.seen \cup {c.id} /\ Get(s, c).session = Opened(c)
        /\ Get(s, c).out = Append(s.out, d)
    BY <2>4 DEF FoldState
  <2>7. Get(s, c) \in FoldState
    BY <1>1, <2>2, <2>3, <2>4, <2>5 DEF FoldState
  <2> QED BY <1>4, <2>2, <2>3, <2>6, <2>7 DEF Level
<1> QED BY <1>2, <1>3, <1>4

LEMMA ComesOn ==
  ASSUME NEW a \in Seq(Messages), NEW b \in Seq(Messages), NEW e \in Seq(Messages),
         Comes(b, a), Comes(e, b)
  PROVE  Comes(e, a)
<1>1. ASSUME NEW j \in 1..Len(e) PROVE (\E i \in 1..Len(a) : e[j] = a[i]) \/ Silent(e[j])
  <2>1. CASE Silent(e[j])
    BY <2>1
  <2>2. CASE \E k \in 1..Len(b) : e[j] = b[k]
    <3>1. PICK k \in 1..Len(b) : e[j] = b[k]
      BY <2>2
    <3>2. (\E i \in 1..Len(a) : b[k] = a[i]) \/ Silent(b[k])
      BY DEF Comes
    <3> QED BY <3>1, <3>2
  <2> QED BY <2>1, <2>2 DEF Comes
<1> QED BY <1>1 DEF Comes

(* After the requests of a pass.                                           *)
Arrived(k) == {received[l].id : l \in 1..k}
After(s, k) ==
  /\ s \in FoldState /\ Level(s)
  /\ s.seen = seen \cup Arrived(k)
  /\ \/ s.session = session
     \/ \E l \in 1..k : log[received[l].file] # Missing /\ s.session = Opened(received[l])
  /\ IdsFresh => Comes(s.out, published)

LEMMA AfterNone == ASSUME Typed PROVE After(Before, 0)
<1>1. Before \in FoldState /\ Level(Before) /\ Before.seen = seen /\ Before.session = session
      /\ Before.out = published
  BY DEF Typed, Before, FoldState, Level
<1>2. Arrived(0) = {}
  BY DEF Arrived
<1> QED BY <1>1, <1>2 DEF After, Comes

LEMMA AfterOneMore ==
  ASSUME Typed, NEW k \in 1..Len(received), NEW s, After(s, k - 1)
  PROVE  After(Get(s, received[k]), k)
<1> DEFINE c == received[k]
           g == Get(s, c)
<1>1. c \in Command /\ k - 1 \in Nat /\ k \in Nat /\ Len(received) \in Nat
  BY DEF Typed
<1>2. s \in FoldState /\ Level(s)
  BY DEF After
<1>3. /\ g \in FoldState /\ Level(g) /\ g.seen = s.seen \cup {c.id}
      /\ g.session = s.session \/ (log[c.file] # Missing /\ g.session = Opened(c))
      /\ c.id \notin s.seen => Comes(g.out, s.out)
  BY <1>1, <1>2, GetTyped
<1>4. Arrived(k) = Arrived(k - 1) \cup {c.id}
  <2>1. 1..k = (1..(k - 1)) \cup {k}
    BY <1>1
  <2> QED BY <2>1 DEF Arrived
<1>5. g.seen = seen \cup Arrived(k)
  BY <1>3, <1>4 DEF After
<1>6. \/ g.session = session
      \/ \E l \in 1..k : log[received[l].file] # Missing /\ g.session = Opened(received[l])
  <2>1. CASE g.session = s.session
    <3>1. 1..(k - 1) \subseteq 1..k
      BY <1>1
    <3> QED BY <2>1, <3>1 DEF After
  <2>2. CASE log[c.file] # Missing /\ g.session = Opened(c)
    <3>1. k \in 1..k
      BY <1>1
    <3> QED BY <2>2, <3>1
  <2> QED BY <1>3, <2>1, <2>2
<1>7. ASSUME IdsFresh PROVE Comes(g.out, published)
  <2>1. c.id \notin seen
    BY <1>7 DEF IdsFresh
  <2>2. c.id \notin Arrived(k - 1)
    <3> SUFFICES ASSUME NEW l \in 1..(k - 1), received[l].id = c.id PROVE FALSE
      BY DEF Arrived
    <3>1. l \in 1..Len(received) /\ l # k
      BY <1>1
    <3> QED BY <1>7, <3>1 DEF IdsFresh
  <2>3. Comes(g.out, s.out)
    BY <1>3, <2>1, <2>2 DEF After
  <2>4. Comes(s.out, published)
    BY <1>7 DEF After
  <2>5. g.out \in Seq(Messages) /\ s.out \in Seq(Messages) /\ published \in Seq(Messages)
    BY <1>2, <1>3 DEF FoldState, Typed
  <2> HIDE DEF g
  <2> QED BY <2>3, <2>4, <2>5, ComesOn
<1> HIDE DEF g
<1>8. After(g, k)
  BY <1>3, <1>5, <1>6, <1>7 DEF After
<1> QED BY <1>8 DEF g

LEMMA HandledFacts == ASSUME Typed PROVE After(Handled, Len(received))
<1>1. received \in Seq(Command) /\ Len(received) \in Nat
  BY DEF Typed
<1>2. PICK h : /\ h[0] = Before /\ \A k \in 1..Len(received) : h[k] = Get(h[k - 1], received[k])
               /\ Handled = h[Len(received)]
  BY <1>1, GetSteps
<1> DEFINE S == {n \in Nat : n <= Len(received) => After(h[n], n)}
<1>3. 0 \in S
  BY <1>2, AfterNone
<1>4. ASSUME NEW n \in Nat, n \in S PROVE n + 1 \in S
  <2> SUFFICES ASSUME n + 1 <= Len(received) PROVE After(h[n + 1], n + 1)
    OBVIOUS
  <2>1. n + 1 \in 1..Len(received) /\ (n + 1) - 1 = n /\ n <= Len(received)
    BY <1>1
  <2>2. After(h[n], n)
    BY <1>4, <2>1
  <2>3. h[n + 1] = Get(h[n], received[n + 1])
    BY <1>2, <2>1
  <2>4. \A s : After(s, (n + 1) - 1) => After(Get(s, received[n + 1]), n + 1)
    BY <2>1, AfterOneMore
  <2> QED BY <2>1, <2>2, <2>3, <2>4
<1> HIDE DEF S
<1>5. \A n \in Nat : n \in S
  BY <1>3, <1>4, SetInduction
<1>6. Len(received) \in S /\ Len(received) <= Len(received)
  BY <1>1, <1>5
<1>7. After(h[Len(received)], Len(received))
  BY <1>6 DEF S
<1> QED BY <1>2, <1>7

-----------------------------------------------------------------------------
(* A pass of the loop.                                                     *)
LEMMA NobodyIsNobody == Nobody \notin Session
BY LogTransferAssumption DEF Session, Id, Records

LEMMA AdvancedFacts ==
  ASSUME NEW t \in Session, t.offset = Len(t.sent), NEW data \in Records
  PROVE  /\ Advanced(t, data) \in Session
         /\ Advanced(t, data).offset = Len(Advanced(t, data).sent)
         /\ Advanced(t, data).sent = t.sent \o data
<1> DEFINE n == t.offset + Len(data)
           r == t.sent \o data
<1>1. t.sent \in Seq(Nat) /\ t.offset \in Nat /\ data \in Seq(Nat)
  BY DEF Session, Records
<1>2. n \in Nat /\ r \in Records /\ n = Len(r)
  <2>1. t.sent \o data \in Seq(Nat) /\ Len(t.sent \o data) = Len(t.sent) + Len(data)
    BY <1>1, ConcatProperties
  <2>2. Len(data) \in Nat
    BY <1>1
  <2> QED BY <1>1, <2>1, <2>2 DEF Records
<1>3. Advanced(t, data) = [t EXCEPT !.offset = n, !.sent = r]
  BY DEF Advanced
<1> HIDE DEF n, r
<1>4. [t EXCEPT !.offset = n, !.sent = r] \in Session
  BY <1>2 DEF Session
<1>5. [t EXCEPT !.offset = n, !.sent = r].offset = n
        /\ [t EXCEPT !.offset = n, !.sent = r].sent = r
  BY <1>2 DEF Session
<1> QED BY <1>2, <1>3, <1>4, <1>5 DEF r

LEMMA StreamTyped ==
  ASSUME Typed, NEW s \in FoldState, Level(s)
  PROVE  Stream(s) \in FoldState /\ Level(Stream(s)) /\ Stream(s).seen = s.seen
<1> DEFINE t == s.session
           data == Read(t.file, t.offset)
<1>1. s.out \in Seq(Messages) /\ s.seen \in SUBSET Id /\ t \in Session \cup {Nobody}
  BY DEF FoldState
<1>2. CASE t = Nobody \/ ~connected
  BY <1>2 DEF Stream
<1>3. CASE t # Nobody /\ connected /\ log[t.file] = Missing
  <2>1. t.id \in Id /\ <<>> \in Records
    BY <1>1, <1>3 DEF Session, Records
  <2> DEFINE m == Outcome(t.id, FALSE, 0, Missing)
  <2>2. m \in Messages
    BY <2>1, MessageTypes
  <2> HIDE DEF m
  <2>3. Append(s.out, m) \in Seq(Messages)
    BY <1>1, <2>2
  <2>4. Stream(s) = [s EXCEPT !.session = Nobody, !.out = Append(s.out, m)]
    BY <1>3 DEF Stream, m
  <2> QED BY <1>1, <2>3, <2>4 DEF FoldState, Level
<1>4. CASE t # Nobody /\ connected /\ log[t.file] # Missing
  <2>1. /\ t \in Session /\ t.id \in Id /\ t.file \in Files /\ t.size \in Nat
        /\ t.offset \in Nat
        /\ t.sent \in Records /\ t.offset = Len(t.sent)
    BY <1>1, <1>4 DEF Session, Level
  <2>2. data \in Records
    BY <1>4, <2>1, ReadFacts
  <2>3. CASE Ends(data)
    <3> DEFINE m == Outcome(t.id, TRUE, t.size, t.sent)
    <3>1. m \in Messages
      BY <2>1, MessageTypes
    <3> HIDE DEF m
    <3>2. Append(s.out, m) \in Seq(Messages)
      BY <1>1, <3>1
    <3>3. Stream(s) = [s EXCEPT !.session = Nobody, !.out = Append(s.out, m)]
      BY <1>4, <2>3 DEF Stream, m
    <3> QED BY <1>1, <3>2, <3>3 DEF FoldState, Level
  <2>4. CASE ~Ends(data)
    <3> DEFINE m == Chunk(t.id, t.offset, data)
    <3>1. m \in Messages
      BY <2>1, <2>2, MessageTypes
    <3>2. Stream(s) = [s EXCEPT !.session = Advanced(t, data), !.out = Append(s.out, m)]
      BY <1>4, <2>4 DEF Stream
    <3> HIDE DEF m, data
    <3>3. Append(s.out, m) \in Seq(Messages)
      BY <1>1, <3>1
    <3>4. Advanced(t, data) \in Session
            /\ Advanced(t, data).offset = Len(Advanced(t, data).sent)
      BY <2>1, <2>2, AdvancedFacts
    <3> QED BY <1>1, <3>2, <3>3, <3>4 DEF FoldState, Level
  <2> QED BY <2>3, <2>4
<1> QED BY <1>1, <1>2, <1>3, <1>4

(* The log when a session began: it is kept once it is known.              *)
LEMMA BeganTyped ==
  ASSUME Typed, NEW s \in FoldState
  PROVE  /\ Began(s) \in [Id -> LogFile]
         /\ \A i \in Id : begun[i] # Missing => Began(s)[i] = begun[i]
         /\ \A i \in Id : s.session = Nobody \/ i # s.session.id => Began(s)[i] = begun[i]
         /\ s.session # Nobody /\ begun[s.session.id] = Missing
              => Began(s)[s.session.id] = log[s.session.file]
<1>1. CASE s.session # Nobody /\ begun[s.session.id] = Missing
  <2>1. s.session.id \in Id /\ s.session.file \in Files
    BY <1>1 DEF FoldState, Session
  <2>2. Began(s) = [begun EXCEPT ![s.session.id] = log[s.session.file]]
    BY <1>1 DEF Began
  <2> QED BY <1>1, <2>1, <2>2 DEF Typed
<1>2. CASE ~(s.session # Nobody /\ begun[s.session.id] = Missing)
  BY <1>2 DEF Began, Typed
<1> QED BY <1>1, <1>2

LEMMA PassTyped == ASSUME Typed, Pass PROVE Typed'
<1> DEFINE g == Handled
           a == Stream(g)
<1>1. g \in FoldState /\ Level(g) /\ Arrived(Len(received)) \subseteq Id
  <2>1. After(g, Len(received))
    BY HandledFacts
  <2>2. Arrived(Len(received)) \subseteq Id
    <3>1. \A l \in 1..Len(received) : received[l] \in Command
      BY DEF Typed
    <3>2. \A l \in 1..Len(received) : received[l].id \in Id
      BY <3>1 DEF Command
    <3> QED BY <3>2 DEF Arrived
  <2> QED BY <2>1, <2>2 DEF After
<1>2. a \in FoldState /\ Level(a) /\ Began(g) \in [Id -> LogFile]
  BY <1>1, StreamTyped, BeganTyped
<1>3. Replaced(g) \subseteq Id /\ Overtaken(g) \subseteq Id
  <2>1. Replaced(g) \subseteq Id
    BY DEF Replaced, Typed, Session
  <2>2. DOMAIN received = 1..Len(received)
    BY DEF Typed
  <2>3. Overtaken(g) \subseteq Arrived(Len(received))
    BY <2>2 DEF Overtaken, Arrived
  <2> QED BY <1>1, <2>1, <2>3
<1> HIDE DEF g, a
<1>4. /\ session' = a.session /\ published' = a.out /\ seen' = a.seen /\ received' = <<>>
      /\ begun' = Began(g) /\ excused' = excused \cup Replaced(g) \cup Overtaken(g)
      /\ UNCHANGED <<flash, connected, host, cut, bounds>>
  BY DEF Pass, g, a
<1>5. /\ session' \in Session \cup {Nobody} /\ published' \in Seq(Messages)
      /\ seen' \subseteq Id
      /\ session' # Nobody => session'.offset = Len(session'.sent)
      /\ received' \in Seq(Command)
  BY <1>2, <1>4 DEF FoldState, Level
<1> QED BY <1>2, <1>3, <1>4, <1>5 DEF Typed, flash, host

(* The session after the requests of a pass is faithful to its log.        *)
LEMMA HandledFaithful ==
  ASSUME Typed, History, Handled.session # Nobody
  PROVE  /\ Handled.session \in Session
         /\ Faithful(Handled.session, Began(Handled)[Handled.session.id])
         /\ begun[Handled.session.id] = Missing => Handled.session.id <= requests
<1> DEFINE g == Handled
           t == g.session
<1>1. After(g, Len(received)) /\ g \in FoldState
  BY HandledFacts DEF After
<1>2. /\ \A i \in Id : begun[i] # Missing => Began(g)[i] = begun[i]
      /\ begun[t.id] = Missing => Began(g)[t.id] = log[t.file]
  BY <1>1, BeganTyped
<1>3. t \in Session /\ t.id \in Id /\ t.file \in Files
  BY <1>1 DEF FoldState, Session
<1> HIDE DEF g
<1>4. CASE t = session
  <2>1. Faithful(t, begun[t.id]) /\ begun[t.id] # Missing
    BY <1>4 DEF History, SessionInv, Faithful, g
  <2>2. Began(g)[t.id] = begun[t.id]
    BY <1>2, <1>3, <2>1
  <2> QED BY <1>3, <2>1, <2>2 DEF g
<1>5. CASE \E l \in 1..Len(received) :
             log[received[l].file] # Missing /\ t = Opened(received[l])
  <2>1. PICK l \in 1..Len(received) : log[received[l].file] # Missing /\ t = Opened(received[l])
    BY <1>5
  <2>2. received[l].id = t.id /\ received[l].file = t.file /\ t.size = Len(log[t.file])
          /\ t.sent = <<>>
    BY <2>1 DEF Opened
  <2>3. begun[t.id] = Missing /\ t.id <= requests
    BY <2>2 DEF History, IdsFresh
  <2>4. Began(g)[t.id] = log[t.file] /\ log[t.file] # Missing /\ log[t.file] # <<>>
    BY <1>2, <1>3, <2>1, <2>2, <2>3 DEF History, NoneEmpty
  <2>5. log[t.file] \in Seq(Nat) /\ Len(log[t.file]) \in Nat /\ Len(log[t.file]) > 0
    BY <1>3, <2>4 DEF Typed, LogFile, Records
  <2>6. Begins(log[t.file], log[t.file])
    BY <2>5 DEF Begins
  <2>7. Begins(t.sent, log[t.file])
    BY <2>2, <2>5 DEF Begins
  <2>8. Faithful(t, Began(g)[t.id])
    BY <2>2, <2>4, <2>5, <2>6, <2>7 DEF Faithful
  <2> QED BY <1>3, <2>3, <2>8 DEF g
<1> QED BY <1>1, <1>4, <1>5 DEF After, g

(* What a pass publishes and what it goes on with.                         *)
LEMMA StreamTruthful ==
  ASSUME Typed, NEW s \in FoldState, Level(s), NEW started, started \in LogFile,
         s.session # Nobody => Faithful(s.session, started)
  PROVE  /\ Stream(s).session # Nobody => /\ s.session # Nobody
                                          /\ Stream(s).session.id = s.session.id
                                          /\ Faithful(Stream(s).session, started)
         /\ \A j \in 1..Len(Stream(s).out) :
              \/ \E i \in 1..Len(s.out) : Stream(s).out[j] = s.out[i]
              \/ Silent(Stream(s).out[j])
              \/ s.session # Nobody /\ Stream(s).out[j].id = s.session.id
                   /\ Truthful(Stream(s).out[j], started)
<1> DEFINE t == s.session
           data == Read(t.file, t.offset)
<1>1. s.out \in Seq(Messages) /\ t \in Session \cup {Nobody}
  BY DEF FoldState
<1>2. CASE t = Nobody \/ ~connected
  BY <1>2 DEF Stream
<1>3. CASE t # Nobody /\ connected
  <2>1. /\ t \in Session /\ t.id \in Id /\ t.file \in Files /\ t.size \in Nat
        /\ t.offset \in Nat
        /\ t.sent \in Records /\ t.offset = Len(t.sent)
    BY <1>1, <1>3 DEF Session, Level
  <2>2. /\ log[t.file] # Missing /\ started # Missing /\ t.size > 0 /\ started \in Records
        /\ t.id \notin cut => /\ t.size = Len(started) /\ Begins(started, log[t.file])
                              /\ Begins(t.sent, log[t.file])
    BY <1>3 DEF Faithful, LogFile
  <2>3. log[t.file] \in Records /\ data \in Records
    BY <2>1, <2>2, ReadFacts DEF Typed, LogFile
  <2>4. CASE Ends(data)
    <3> DEFINE m == Outcome(t.id, TRUE, t.size, t.sent)
    <3>1. m \in Messages
      BY <2>1, MessageTypes
    <3>2. m.id = t.id /\ m.sum = t.sent /\ m.size = t.size
      BY DEF Outcome
    <3>3. ASSUME t.id \notin cut, Len(t.sent) = t.size PROVE t.sent = started
      <4>1. Len(t.sent) = Len(started) /\ Begins(t.sent, log[t.file])
              /\ Begins(started, log[t.file])
        BY <2>2, <3>3
      <4>2. t.sent \in Seq(Nat) /\ started \in Seq(Nat)
        BY <2>1, <2>2 DEF Records
      <4>3. \A i \in 1..Len(t.sent) : t.sent[i] = started[i]
        BY <4>1 DEF Begins
      <4> QED BY <4>1, <4>2, <4>3, SeqEqual
    <3>4. t.sent # Missing
      BY <2>1, LogBounds
    <3>5. Truthful(m, started)
      BY <2>2, <3>2, <3>3, <3>4 DEF Truthful
    <3>6. Stream(s) = [s EXCEPT !.session = Nobody, !.out = Append(s.out, m)]
      BY <1>3, <2>2, <2>4 DEF Stream
    <3> HIDE DEF m
    <3>7. Stream(s).session = Nobody /\ Stream(s).out = Append(s.out, m)
      BY <3>6 DEF FoldState
    <3>8. \A j \in 1..Len(Append(s.out, m)) :
            (\E i \in 1..Len(s.out) : Append(s.out, m)[j] = s.out[i]) \/ Append(s.out, m)[j] = m
      BY <1>1, <3>1, AppendJoins
    <3> QED BY <1>3, <3>2, <3>5, <3>7, <3>8
  <2>5. CASE ~Ends(data)
    <3> DEFINE m == Chunk(t.id, t.offset, data)
    <3>1. m \in Messages /\ Silent(m)
      BY <2>1, <2>3, MessageTypes
    <3>2. Stream(s) = [s EXCEPT !.session = Advanced(t, data), !.out = Append(s.out, m)]
      BY <1>3, <2>2, <2>5 DEF Stream
    <3>3. data # <<>> /\ data = Read(t.file, Len(t.sent))
      BY <2>1, <2>5 DEF Ends
    <3> HIDE DEF m, data
    <3>4. Stream(s).session = Advanced(t, data) /\ Stream(s).out = Append(s.out, m)
      BY <3>2 DEF FoldState
    <3>5. /\ Advanced(t, data).file = t.file /\ Advanced(t, data).size = t.size
          /\ Advanced(t, data).id = t.id /\ Advanced(t, data).sent = t.sent \o data
      BY <2>1 DEF Advanced, Session
    <3>6. t.id \notin cut => Begins(t.sent \o data, log[t.file])
      BY <2>1, <2>2, <3>3, SentContinues
    <3>7. Faithful(Advanced(t, data), started)
      BY <2>2, <3>5, <3>6 DEF Faithful
    <3>8. \A j \in 1..Len(Append(s.out, m)) :
            (\E i \in 1..Len(s.out) : Append(s.out, m)[j] = s.out[i]) \/ Append(s.out, m)[j] = m
      BY <1>1, <3>1, AppendJoins
    <3> QED BY <1>3, <3>1, <3>4, <3>5, <3>7, <3>8
  <2> QED BY <2>4, <2>5
<1> QED BY <1>2, <1>3

LEMMA MessageIds ==
  ASSUME NEW q \in Seq(Messages)
  PROVE  \A j \in 1..Len(q) : q[j] \in Messages /\ q[j].id \in Id
<1>1. \A j \in 1..Len(q) : q[j] \in Messages
  OBVIOUS
<1>2. \A m \in Messages : m.id \in Id
  BY DEF Messages, Acks, Chunks, Results
<1> QED BY <1>1, <1>2

LEMMA PassHistory == ASSUME Typed, History, Pass PROVE History'
<1> DEFINE g == Handled
           a == Stream(g)
           b == Began(g)
           started == IF g.session = Nobody THEN Missing ELSE b[g.session.id]
<1>1. After(g, Len(received)) /\ g \in FoldState /\ Level(g)
  BY HandledFacts DEF After
<1>2. /\ b \in [Id -> LogFile]
      /\ \A i \in Id : begun[i] # Missing => b[i] = begun[i]
      /\ \A i \in Id : g.session = Nobody \/ i # g.session.id => b[i] = begun[i]
  BY <1>1, BeganTyped
<1>3. g.session # Nobody => /\ g.session \in Session /\ g.session.id \in Id
                            /\ Faithful(g.session, b[g.session.id])
                            /\ begun[g.session.id] = Missing => g.session.id <= requests
  BY HandledFaithful DEF Session
<1>4. /\ session' = a.session /\ published' = a.out /\ seen' = a.seen /\ received' = <<>>
      /\ begun' = b /\ UNCHANGED <<flash, host, cut>>
  BY DEF Pass
<1>5. started \in LogFile
        /\ (g.session # Nobody => Faithful(g.session, started) /\ started = b[g.session.id])
  BY <1>2, <1>3 DEF LogFile
<1> HIDE DEF b, started
<1>6. /\ a.session # Nobody => /\ g.session # Nobody /\ a.session.id = g.session.id
                               /\ Faithful(a.session, started)
      /\ \A j \in 1..Len(a.out) :
           \/ \E i \in 1..Len(g.out) : a.out[j] = g.out[i]
           \/ Silent(a.out[j])
           \/ g.session # Nobody /\ a.out[j].id = g.session.id /\ Truthful(a.out[j], started)
  BY <1>1, <1>5, StreamTruthful
<1>7. a.seen = seen \cup Arrived(Len(received)) /\ Comes(g.out, published)
  <2>1. a.seen = g.seen
    BY <1>1, StreamTyped
  <2> HIDE DEF g, a
  <2> QED BY <1>1, <2>1 DEF After, History
<1> HIDE DEF g, a
<1>8. NoneEmpty'
  BY <1>4 DEF History, NoneEmpty, flash
<1>9. IdsFresh'
  <2>1. requests' = requests /\ Len(received') = 0
    BY <1>4 DEF host
  <2>2. ASSUME NEW i \in Id, i > requests PROVE i \notin a.seen /\ b[i] = Missing
    <3>1. i \notin seen /\ begun[i] = Missing
      BY <2>2 DEF History, IdsFresh
    <3>2. i \notin Arrived(Len(received))
      <4> SUFFICES ASSUME NEW l \in 1..Len(received), received[l].id = i PROVE FALSE
        BY DEF Arrived
      <4>1. received[l].id <= requests
        BY DEF History, IdsFresh
      <4>2. i \in Int /\ requests \in Int
        BY DEF Typed, Id
      <4> QED BY <2>2, <4>1, <4>2
    <3>3. g.session = Nobody \/ i # g.session.id
      <4> SUFFICES ASSUME g.session # Nobody, i = g.session.id PROVE FALSE
        OBVIOUS
      <4>1. i <= requests
        BY <1>3, <3>1
      <4>2. i \in Int /\ requests \in Int
        BY DEF Typed, Id
      <4> QED BY <2>2, <4>1, <4>2
    <3> QED BY <1>2, <1>7, <3>1, <3>2, <3>3
  <2>3. 1..Len(received') = {}
    BY <2>1
  <2> QED BY <1>4, <2>1, <2>2, <2>3 DEF IdsFresh
<1>10. SessionInv'
  <2> SUFFICES ASSUME session' # Nobody PROVE Faithful(session, begun[session.id])'
    BY DEF SessionInv
  <2>1. Faithful(session', begun'[session'.id])
    BY <1>4, <1>5, <1>6
  <2> QED BY <1>4, <2>1 DEF Faithful, flash
<1>11. MessagesInv'
  <2> SUFFICES ASSUME NEW j \in 1..Len(a.out) PROVE Truthful(a.out[j], b[a.out[j].id])
    BY <1>4 DEF MessagesInv, Truthful
  <2>1. \A m : Silent(m) => \A x : Truthful(m, x)
    BY DEF Silent, Truthful
  <2>2. ASSUME NEW i \in 1..Len(published) PROVE Truthful(published[i], b[published[i].id])
    <3>1. Truthful(published[i], begun[published[i].id])
      BY DEF History, MessagesInv
    <3>2. published[i].id \in Id
      BY MessageIds DEF Typed
    <3> QED BY <1>2, <3>1, <3>2 DEF Truthful
  <2>3. CASE \E i \in 1..Len(g.out) : a.out[j] = g.out[i]
    <3>1. PICK i \in 1..Len(g.out) : a.out[j] = g.out[i]
      BY <2>3
    <3>2. (\E k \in 1..Len(published) : g.out[i] = published[k]) \/ Silent(g.out[i])
      BY <1>7 DEF Comes
    <3> QED BY <2>1, <2>2, <3>1, <3>2
  <2>4. CASE g.session # Nobody /\ a.out[j].id = g.session.id /\ Truthful(a.out[j], started)
    BY <1>5, <2>4
  <2> QED BY <1>6, <2>1, <2>3, <2>4
<1>12. StoredInv'
  <2>1. stored' = stored /\ cut' = cut /\ begun' = b
    BY <1>4 DEF host
  <2>2. ASSUME NEW c \in Clients, stored[c].id \notin {0} \cup cut
        PROVE  stored[c].data = b[stored[c].id] /\ b[stored[c].id] # Missing
    <3>1. stored[c].data = begun[stored[c].id] /\ begun[stored[c].id] # Missing
      BY <2>2 DEF History, StoredInv
    <3>2. stored[c].id \in Id
      <4>1. stored[c] \in Stores
        BY DEF Typed
      <4> QED BY <2>2, <4>1 DEF Stores
    <3> QED BY <1>2, <3>1, <3>2
  <2> QED BY <2>1, <2>2 DEF StoredInv
<1> QED BY <1>8, <1>9, <1>10, <1>11, <1>12 DEF History

-----------------------------------------------------------------------------
(* A message reaches the host.                                             *)
LEMMA TailKeeps ==
  ASSUME NEW R, NEW q \in Seq(R), q # <<>>
  PROVE  /\ Tail(q) \in Seq(R) /\ Head(q) \in R /\ Head(q) = q[1] /\ 1 \in 1..Len(q)
         /\ \A j \in 1..Len(Tail(q)) : \E i \in 1..Len(q) : Tail(q)[j] = q[i]
<1>1. Tail(q) \in Seq(R) /\ Len(Tail(q)) = Len(q) - 1 /\ Len(q) \in Nat \ {0} /\ Head(q) = q[1]
  OBVIOUS
<1>2. ASSUME NEW j \in 1..Len(Tail(q)) PROVE j + 1 \in 1..Len(q) /\ Tail(q)[j] = q[j + 1]
  BY <1>1
<1> QED BY <1>1, <1>2

LEMMA HandleFacts ==
  ASSUME NEW t \in Transfers, NEW m \in Messages
  PROVE  /\ Handle(t, m) \in Transfers /\ Handle(t, m).id = t.id
         /\ t.phase = "waiting" /\ Handle(t, m).phase = "complete"
              => /\ m.kind = "result" /\ m.ok /\ m.id = t.id /\ t.id \in Id
                 /\ Verified(t, m) /\ Handle(t, m).data = t.data
<1> DEFINE h == Handle(t, m)
<1>1. t.data \in Records /\ t.phase \in {"idle", "waiting", "complete", "failed"}
        /\ t.id \in Id \cup {0}
  BY DEF Transfers
<1>2. Failed(t) \in Transfers /\ Failed(t).id = t.id /\ Failed(t).phase = "failed"
  BY DEF Failed, Transfers
<1>3. CASE t.phase # "waiting" \/ m.id # t.id
  <2>1. h = t
    BY <1>3 DEF Handle
  <2> QED BY <1>3, <2>1
<1>4. CASE t.phase = "waiting" /\ m.id = t.id /\ m \in Acks
  <2>1. h = IF m.ok THEN t ELSE Failed(t)
    BY <1>4 DEF Handle, Acks
  <2> QED BY <1>2, <1>4, <2>1
<1>5. CASE t.phase = "waiting" /\ m.id = t.id /\ m \in Chunks
  <2>1. h = (IF Fits(t, m) THEN [t EXCEPT !.data = t.data \o m.data] ELSE Failed(t))
    BY <1>5 DEF Handle, Chunks
  <2>2. t.data \o m.data \in Records
    <3>1. t.data \in Seq(Nat) /\ m.data \in Seq(Nat)
      BY <1>1, <1>5 DEF Chunks, Records
    <3> QED BY <3>1, ConcatProperties DEF Records
  <2> DEFINE r == t.data \o m.data
  <2> HIDE DEF r, h
  <2>3. [t EXCEPT !.data = r] \in Transfers /\ [t EXCEPT !.data = r].id = t.id
        /\ [t EXCEPT !.data = r].phase = "waiting"
    BY <1>5, <2>2 DEF Transfers, r
  <2> QED BY <1>2, <2>1, <2>3 DEF r, h
<1>6. CASE t.phase = "waiting" /\ m.id = t.id /\ m \in Results
  <2>1. h = IF m.ok /\ Verified(t, m) THEN [t EXCEPT !.phase = "complete"] ELSE Failed(t)
    BY <1>6 DEF Handle, Results
  <2>2. m.kind = "result" /\ m.id \in Id
    BY <1>6 DEF Results
  <2>3. CASE m.ok /\ Verified(t, m)
    <3>1. h = [t EXCEPT !.phase = "complete"]
      BY <2>1, <2>3
    <3>2. h \in Transfers /\ h.id = t.id /\ h.data = t.data
      BY <3>1 DEF Transfers
    <3> QED BY <1>6, <2>2, <2>3, <3>2
  <2>4. CASE ~(m.ok /\ Verified(t, m))
    BY <1>2, <2>1, <2>4
  <2> QED BY <2>3, <2>4
<1> QED BY <1>3, <1>4, <1>5, <1>6 DEF Messages

LEMMA SendTyped == ASSUME Typed, Send PROVE Typed'
<1> DEFINE m == Head(published)
           new == [c \in Clients |-> Handle(transfer[c], m)]
<1>1. m \in Messages /\ Tail(published) \in Seq(Messages)
  BY TailKeeps DEF Typed, Send
<1>2. /\ published' = Tail(published) /\ transfer' = new /\ Store(new)
      /\ UNCHANGED <<flash, connected, session, seen, received, requests, history>>
  BY DEF Send
<1>3. \A c \in Clients : transfer[c] \in Transfers /\ new[c] = Handle(transfer[c], m)
  BY DEF Typed
<1>4. new \in [Clients -> Transfers]
  BY <1>1, <1>3, HandleFacts
<1>5. \A c \in Clients : stored[c] \in Stores
        /\ [id |-> new[c].id, data |-> new[c].data] \in Stores
  <2> HIDE DEF new
  <2> QED BY <1>4 DEF Typed, Transfers, Stores
<1> HIDE DEF new, m
<1>6. stored' \in [Clients -> Stores]
  BY <1>2, <1>5 DEF Store
<1> QED BY <1>1, <1>2, <1>4, <1>6 DEF Typed, flash, history

LEMMA SendHistory == ASSUME Typed, History, Send PROVE History'
<1> DEFINE m == Head(published)
           new == [c \in Clients |-> Handle(transfer[c], m)]
<1>1. m \in Messages /\ m = published[1] /\ 1 \in 1..Len(published)
      /\ \A j \in 1..Len(Tail(published)) : \E i \in 1..Len(published) : Tail(published)[j] = published[i]
  BY TailKeeps DEF Typed, Send
<1>2. /\ published' = Tail(published) /\ transfer' = new /\ Store(new)
      /\ UNCHANGED <<flash, connected, session, seen, received, requests, history>>
  BY DEF Send
<1>3. NoneEmpty' /\ IdsFresh' /\ SessionInv'
  BY <1>2 DEF History, NoneEmpty, IdsFresh, SessionInv, Faithful, flash, history
<1>4. MessagesInv'
  BY <1>1, <1>2 DEF History, MessagesInv, Truthful, history
<1>5. ASSUME NEW c \in Clients, stored'[c].id \notin {0} \cup cut
      PROVE  stored'[c].data = begun[stored'[c].id] /\ begun[stored'[c].id] # Missing
  <2> DEFINE t == transfer[c]
  <2>1. t \in Transfers /\ new[c] = Handle(t, m)
    BY DEF Typed
  <2>2. stored'[c] = IF t.phase = "waiting" /\ new[c].phase = "complete"
                     THEN [id |-> new[c].id, data |-> new[c].data] ELSE stored[c]
    BY <1>2 DEF Store
  <2> HIDE DEF new, m
  <2>3. CASE t.phase = "waiting" /\ new[c].phase = "complete"
    <3>1. /\ m.kind = "result" /\ m.ok /\ m.id = t.id /\ Verified(t, m)
          /\ new[c].id = t.id /\ new[c].data = t.data
      BY <1>1, <2>1, <2>3, HandleFacts
    <3>2. stored'[c].id = m.id /\ stored'[c].data = t.data
      BY <2>2, <2>3, <3>1
    <3>3. Truthful(m, begun[m.id])
      BY <1>1 DEF History, MessagesInv
    <3>4. m.sum # Missing /\ m.size > 0 /\ begun[m.id] # Missing
            /\ (Len(m.sum) = m.size => m.sum = begun[m.id])
      BY <1>5, <3>1, <3>2, <3>3 DEF Truthful
    <3>5. m.sum = t.data /\ m.size = Len(t.data)
      <4>1. m \in Results
        BY <1>1, <3>1 DEF Messages, Acks, Chunks
      <4>2. m.size \in Nat
        BY <4>1 DEF Results
      <4> QED BY <3>1, <3>4, <4>2 DEF Verified
    <3> QED BY <3>2, <3>4, <3>5
  <2>4. CASE ~(t.phase = "waiting" /\ new[c].phase = "complete")
    BY <1>5, <2>2, <2>4 DEF History, StoredInv
  <2> QED BY <2>3, <2>4
<1>6. StoredInv'
  BY <1>2, <1>5 DEF StoredInv, history
<1> QED BY <1>3, <1>4, <1>6 DEF History

-----------------------------------------------------------------------------
(* The connection, the requests, the time-outs.                            *)
LEMMA ConnectionFailsKeeps ==
  ASSUME Typed, ConnectionFails
  PROVE Typed' /\ (History => History')
<1>1. /\ published' = published \/ (published # <<>> /\ published' = Tail(published))
      /\ connected' = FALSE
      /\ UNCHANGED <<flash, session, seen, received, host, begun, cut>>
  BY DEF ConnectionFails
<1>2. /\ published' \in Seq(Messages)
      /\ \A j \in 1..Len(published') : \E i \in 1..Len(published) : published'[j] = published[i]
  <2>1. published \in Seq(Messages)
    BY DEF Typed
  <2>2. CASE published' = published
    BY <2>1, <2>2
  <2>3. CASE published # <<>> /\ published' = Tail(published)
    BY <2>1, <2>3, TailKeeps
  <2> QED BY <1>1, <2>2, <2>3
<1>3. excused' \subseteq Id
  <2>1. published # <<>> => Head(published).id \in Id
    BY TailKeeps, MessageIds DEF Typed
  <2> QED BY <2>1 DEF ConnectionFails, Typed
<1>4. Typed'
  BY <1>1, <1>2, <1>3 DEF Typed, flash, host
<1>5. ASSUME History PROVE History'
  <2>1. NoneEmpty' /\ IdsFresh' /\ SessionInv' /\ StoredInv'
    BY <1>1, <1>5 DEF History, NoneEmpty, IdsFresh, SessionInv, StoredInv, Faithful, flash,
       host
  <2>2. MessagesInv'
    <3> SUFFICES ASSUME NEW j \in 1..Len(published')
                 PROVE  Truthful(published[j], begun[published[j].id])'
      BY DEF MessagesInv
    <3>1. PICK i \in 1..Len(published) : published'[j] = published[i]
      BY <1>2
    <3>2. Truthful(published[i], begun[published[i].id])
      BY <1>5 DEF History, MessagesInv
    <3> QED BY <1>1, <3>1, <3>2 DEF Truthful
  <2> QED BY <2>1, <2>2 DEF History
<1> QED BY <1>4, <1>5

LEMMA ConnectKeeps == ASSUME Typed, Connect PROVE Typed' /\ (History => History')
<1>1. connected' = TRUE
        /\ UNCHANGED <<flash, session, published, seen, received, host, history>>
  BY DEF Connect
<1>2. Typed'
  BY <1>1 DEF Typed, flash, host, history
<1>3. ASSUME History PROVE History'
  <2>1. NoneEmpty' /\ IdsFresh' /\ SessionInv'
    BY <1>1, <1>3 DEF History, NoneEmpty, IdsFresh, SessionInv, Faithful, flash, host,
       history
  <2>2. MessagesInv' /\ StoredInv'
    BY <1>1, <1>3 DEF History, MessagesInv, StoredInv, Truthful, host, history
  <2> QED BY <2>1, <2>2 DEF History
<1> QED BY <1>2, <1>3

LEMMA TimeoutKeeps ==
  ASSUME Typed, NEW c \in Clients, Timeout(c)
  PROVE Typed' /\ (History => History')
<1>1. /\ transfer' = [transfer EXCEPT ![c] = Failed(transfer[c])]
      /\ UNCHANGED <<flash, device, received, stored, requests, history>>
  BY DEF Timeout
<1>2. Failed(transfer[c]) \in Transfers
  <2>1. transfer[c] \in Transfers
    BY DEF Typed
  <2> QED BY <2>1 DEF Failed, Transfers
<1>3. Typed'
  BY <1>1, <1>2 DEF Typed, flash, device, history
<1>4. ASSUME History PROVE History'
  <2>1. NoneEmpty' /\ IdsFresh' /\ SessionInv'
    BY <1>1, <1>4 DEF History, NoneEmpty, IdsFresh, SessionInv, Faithful, flash, device,
       history
  <2>2. MessagesInv' /\ StoredInv'
    BY <1>1, <1>4 DEF History, MessagesInv, StoredInv, Truthful, device, history
  <2> QED BY <2>1, <2>2 DEF History
<1> QED BY <1>3, <1>4

LEMMA RequestTyped ==
  ASSUME Typed, NEW c \in Clients, NEW f \in Files, Request(c, f)
  PROVE Typed'
<1>1. PICK i \in Id :
        /\ requests' = IF i = requests + 1 THEN i ELSE requests
        /\ transfer' = [transfer EXCEPT ![c] = [id |-> i, phase |-> "waiting", data |-> <<>>]]
        /\ \/ received' = Append(received, [id |-> i, file |-> f]) /\ UNCHANGED excused
           \/ excused' = excused \cup {i} /\ UNCHANGED received
  BY DEF Request
<1>2. UNCHANGED <<flash, device, stored, begun, cut, bounds>>
  BY DEF Request
<1>3. [id |-> i, phase |-> "waiting", data |-> <<>>] \in Transfers
        /\ [id |-> i, file |-> f] \in Command
  BY DEF Transfers, Command, Records
<1>4. requests' \in 0..MaxRequests
  BY <1>1, LogBounds DEF Typed, Id
<1>5. transfer' \in [Clients -> Transfers]
  <2> DEFINE t == [id |-> i, phase |-> "waiting", data |-> <<>>]
  <2>1. t \in Transfers /\ transfer' = [transfer EXCEPT ![c] = t]
    BY <1>1, <1>3
  <2> HIDE DEF t
  <2> QED BY <2>1 DEF Typed
<1>6. received' \in Seq(Command) /\ excused' \subseteq Id
  <2> DEFINE r == [id |-> i, file |-> f]
  <2>1. r \in Command /\ (received' = Append(received, r) \/ received' = received)
    BY <1>1, <1>3
  <2>2. excused' = excused \cup {i} \/ excused' = excused
    BY <1>1
  <2>3. received \in Seq(Command) /\ excused \subseteq Id
    BY DEF Typed
  <2> HIDE DEF r
  <2>4. received' \in Seq(Command)
    BY <2>1, <2>3
  <2> QED BY <2>2, <2>3, <2>4
<1> QED BY <1>2, <1>4, <1>5, <1>6 DEF Typed, flash, device

LEMMA RequestHistory ==
  ASSUME ReuseIds = FALSE, Typed, History, NEW c \in Clients, NEW f \in Files, Request(c, f)
  PROVE  History'
<1>1. PICK i \in Id :
        /\ i = requests + 1 /\ requests' = i
        /\ received' = Append(received, [id |-> i, file |-> f]) \/ received' = received
  BY DEF Request
<1>2. UNCHANGED <<flash, device, stored, begun, cut, bounds>>
  BY DEF Request
<1>3. NoneEmpty' /\ SessionInv'
  BY <1>2 DEF History, NoneEmpty, SessionInv, Faithful, flash, device
<1>4. MessagesInv' /\ StoredInv'
  BY <1>2 DEF History, MessagesInv, StoredInv, Truthful, device
<1>5. IdsFresh'
  <2>1. requests \in Nat /\ requests' = requests + 1 /\ Len(received) \in Nat
    BY <1>1 DEF Typed
  <2>2. ASSUME NEW k \in 1..Len(received')
        PROVE  \/ k \in 1..Len(received) /\ received'[k] = received[k]
               \/ k = Len(received) + 1 /\ received'[k].id = i
    BY <1>1, <2>1 DEF Typed
  <2>3. i \notin seen /\ begun[i] = Missing /\ i > requests
    BY <1>1, <2>1 DEF History, IdsFresh
  <2>4. \A k \in 1..Len(received) : received[k].id <= requests /\ received[k].id \in Nat
                                    /\ received[k].id \notin seen
                                    /\ begun[received[k].id] = Missing
    <3>1. \A k \in 1..Len(received) : received[k] \in Command
      BY DEF Typed
    <3> QED BY <3>1 DEF Command, Id, History, IdsFresh
  <2>5. seen' = seen /\ begun' = begun
    BY <1>2 DEF device
  <2>6. ASSUME NEW k \in 1..Len(received')
        PROVE  received'[k].id <= requests' /\ received'[k].id \notin seen
                 /\ begun[received'[k].id] = Missing
    <3>1. CASE k \in 1..Len(received) /\ received'[k] = received[k]
      <4>1. received[k].id <= requests /\ received[k].id \in Nat
        BY <2>4, <3>1
      <4> QED BY <2>1, <2>4, <3>1, <4>1
    <3>2. CASE received'[k].id = i
      BY <1>1, <2>1, <2>3, <3>2
    <3> QED BY <2>2, <3>1, <3>2
  <2>7. ASSUME NEW k \in 1..Len(received'), NEW l \in 1..Len(received'),
               received'[k].id = received'[l].id
        PROVE  k = l
    <3>1. \A n \in 1..Len(received) : received[n].id # i
      BY <2>1, <2>3, <2>4
    <3>2. \A m, n \in 1..Len(received) : received[m].id = received[n].id => m = n
      BY DEF History, IdsFresh
    <3> QED BY <2>2, <2>7, <3>1, <3>2
  <2>8. ASSUME NEW n \in Id, n > requests' PROVE n \notin seen /\ begun[n] = Missing
    <3>1. n > requests
      BY <2>1, <2>8 DEF Id
    <3> QED BY <3>1 DEF History, IdsFresh
  <2> QED BY <2>5, <2>6, <2>7, <2>8 DEF IdsFresh
<1> QED BY <1>3, <1>4, <1>5 DEF History

-----------------------------------------------------------------------------
(* The writers of the logs, and the resets.                                *)
LEMMA RestoredFacts ==
  ASSUME Typed, NEW f \in Files
  PROVE  LET long == Append(Restored(f), record) IN
         /\ Restored(f) \in Records /\ long \in Records /\ long # <<>>
         /\ log[f] \notin {Missing, <<>>} => Restored(f) = log[f]
         /\ Trimmed(long) \in Records /\ Trimmed(long) # <<>>
         /\ Len(long) <= MaxLog => Trimmed(long) = long
<1> DEFINE r == Restored(f)
           long == Append(r, record)
<1>1. log[f] \in LogFile /\ backup[f] \in LogFile /\ record \in Nat
  BY DEF Typed
<1>2. r \in Records /\ (log[f] \notin {Missing, <<>>} => r = log[f])
  BY <1>1 DEF Restored, LogFile, Records
<1> HIDE DEF r
<1>3. long \in Seq(Nat) /\ Len(long) = Len(r) + 1 /\ Len(r) \in Nat
  BY <1>1, <1>2 DEF Records
<1>4. long # <<>>
  <2>1. long = <<>> => Len(long) = 0
    OBVIOUS
  <2> QED BY <1>3, <2>1
<1> HIDE DEF long
<1>5. Trimmed(long) \in Records /\ Trimmed(long) # <<>>
        /\ (Len(long) <= MaxLog => Trimmed(long) = long)
  <2>1. CASE Len(long) <= MaxLog
    BY <1>3, <1>4, <2>1, LogBounds DEF Trimmed, Records
  <2>2. CASE Len(long) > MaxLog
    <3> DEFINE s == SubSeq(long, Len(long) - MaxLog + 1, Len(long))
    <3>1. Len(long) - MaxLog + 1 \in 1..Len(long) + 1
            /\ Len(long) \in (Len(long) - MaxLog + 1) - 1..Len(long)
      BY <1>3, <2>2, LogBounds
    <3>2. s \in Seq(Nat) /\ Len(s) = Len(long) - (Len(long) - MaxLog + 1) + 1
      BY <1>3, <3>1, SubSeqProperties
    <3>3. Trimmed(long) = s
      BY <2>2 DEF Trimmed
    <3> HIDE DEF s
    <3>4. Len(s) = MaxLog /\ MaxLog > 0
      BY <1>3, <3>2, LogBounds
    <3>5. s = <<>> => Len(s) = 0
      OBVIOUS
    <3>6. ~(Len(long) <= MaxLog)
      BY <1>3, <2>2, LogBounds
    <3> QED BY <3>2, <3>3, <3>4, <3>5, <3>6 DEF Records
  <2>3. Len(long) \in Nat
    BY <1>3
  <2> QED BY <2>1, <2>2, <2>3, LogBounds
<1> QED BY <1>2, <1>3, <1>4, <1>5 DEF r, long, Records

LEMMA BackupFacts ==
  ASSUME Typed, NEW f \in Files, NEW long \in Records, long # <<>>,
         backup' = AfterRestore(f) \/ backup' = [backup EXCEPT ![f] = long]
  PROVE  /\ backup' \in [Files -> LogFile]
         /\ NoneEmpty => \A k \in Files : backup'[k] # <<>>
<1>1. backup \in [Files -> LogFile] /\ Missing # <<>> /\ Missing \in LogFile /\ long \in LogFile
  <2>1. <<>> \in Records
    BY DEF Records
  <2> QED BY <2>1, LogBounds DEF Typed, LogFile
<1>2. backup' = backup \/ backup' = [backup EXCEPT ![f] = Missing]
        \/ backup' = [backup EXCEPT ![f] = long]
  BY DEF AfterRestore
<1> QED BY <1>1, <1>2 DEF NoneEmpty

LEMMA SessionIdTyped == ASSUME Typed, NEW f \in Files PROVE Streaming(f) \subseteq Id
BY DEF Typed, Streaming, Session

(* A log is longer by a record, or its session is known to be cut.         *)
LEMMA LongerKeeps ==
  ASSUME Typed, NEW f \in Files, NEW new \in Records, new # <<>>, NEW long \in Records,
         long # <<>>,
         backup' = AfterRestore(f) \/ backup' = [backup EXCEPT ![f] = long],
         log' = [log EXCEPT ![f] = new], record' = record + 1,
         cut' = cut \/ cut' = cut \cup Streaming(f),
         UNCHANGED <<device, received, host, begun, excused>>
  PROVE  /\ Typed'
         /\ History /\ (new = Append(Restored(f), record) \/ cut' = cut \cup Streaming(f))
              => History'
<1>1. log' \in [Files -> LogFile] /\ cut' \subseteq Id /\ cut \subseteq cut' /\ record' \in Nat
  BY SessionIdTyped DEF Typed, LogFile
<1>2. Typed'
  BY <1>1, BackupFacts DEF Typed, device, host
<1>3. ASSUME History, new = Append(Restored(f), record) \/ cut' = cut \cup Streaming(f)
      PROVE History'
  <2>1. NoneEmpty'
    <3>1. \A k \in Files : log'[k] # <<>>
      BY <1>3 DEF Typed, History, NoneEmpty
    <3>2. \A k \in Files : backup'[k] # <<>>
      BY <1>3, BackupFacts DEF History
    <3> QED BY <3>1, <3>2 DEF NoneEmpty
  <2>2. IdsFresh'
    BY <1>3 DEF History, IdsFresh, device, host
  <2>3. SessionInv'
    <3> DEFINE t == session
               started == begun[session.id]
    <3> SUFFICES ASSUME t # Nobody PROVE Faithful(session, begun[session.id])'
      BY DEF SessionInv, device
    <3>1. /\ t.file \in Files /\ t.id \in Id /\ t.sent \in Records /\ begun[t.id] \in LogFile
      BY DEF Typed, Session
    <3>2. Faithful(t, started)
      BY <1>3 DEF History, SessionInv
    <3>3. CASE t.file # f
      <4>1. log'[t.file] = log[t.file]
        BY <3>1, <3>3 DEF Typed
      <4> QED BY <1>1, <3>2, <4>1 DEF Faithful, device
    <3>4. CASE t.file = f /\ t.id \in cut'
      <4>1. log'[t.file] # Missing
        BY <3>1, <3>4, LogBounds DEF Typed
      <4> QED BY <3>2, <3>4, <4>1 DEF Faithful, device
    <3>5. CASE t.file = f /\ t.id \notin cut'
      <4>1. log[f] # Missing /\ log[f] # <<>> /\ log[f] \in Records /\ started # Missing
              /\ started \in Records
        BY <1>3, <3>1, <3>2, <3>5 DEF Faithful, History, NoneEmpty, Typed, LogFile
      <4>2. t.id \in Streaming(f)
        BY <3>5 DEF Streaming
      <4>3. log'[f] = Append(log[f], record)
        <5>1. new = Append(Restored(f), record)
          BY <1>3, <3>5, <4>2
        <5>2. Restored(f) = log[f]
          BY <4>1, RestoredFacts
        <5> QED BY <5>1, <5>2 DEF Typed
      <4>4. Begins(started, log[f]) /\ Begins(t.sent, log[f])
        BY <1>1, <3>2, <3>5 DEF Faithful
      <4>5. Begins(started, log'[f]) /\ Begins(t.sent, log'[f]) /\ log'[f] \in Records
        <5>1. record \in Nat
          BY DEF Typed
        <5>2. \A r \in Records : Begins(r, log[f]) => Begins(r, Append(log[f], record))
          BY <4>1, <5>1, BeginsMore
        <5>3. Append(log[f], record) \in Records
          BY <4>1, <5>1 DEF Records
        <5> QED BY <3>1, <4>1, <4>3, <4>4, <5>2, <5>3
      <4>6. log'[f] # Missing
        BY <4>5, LogBounds
      <4> QED BY <1>1, <3>2, <3>5, <4>5, <4>6 DEF Faithful, device
    <3> QED BY <3>3, <3>4, <3>5
  <2>4. MessagesInv'
    BY <1>1, <1>3 DEF History, MessagesInv, Truthful, device
  <2>5. StoredInv'
    BY <1>1, <1>3 DEF History, StoredInv, host
  <2> QED BY <2>1, <2>2, <2>3, <2>4, <2>5 DEF History
<1> QED BY <1>2, <1>3

LEMMA AppendRecordKeeps ==
  ASSUME Typed, NEW f \in Files, AppendRecord(f) PROVE Typed' /\ (History => History')
<1> DEFINE long == Append(Restored(f), record)
<1>1. /\ record' = record + 1 /\ log' = [log EXCEPT ![f] = Trimmed(long)]
      /\ backup' = AfterRestore(f) \/ backup' = [backup EXCEPT ![f] = long]
      /\ IF Len(long) > MaxLog THEN cut' = cut \cup Streaming(f) ELSE cut' = cut
      /\ UNCHANGED <<device, received, host, begun, excused>>
  BY DEF AppendRecord
<1>2. /\ long \in Records /\ long # <<>> /\ Trimmed(long) \in Records /\ Trimmed(long) # <<>>
      /\ Len(long) <= MaxLog => Trimmed(long) = long
  BY RestoredFacts
<1>3. Trimmed(long) = long \/ cut' = cut \cup Streaming(f)
  <2>1. Len(long) \in Nat
    BY <1>2 DEF Records
  <2> QED BY <1>1, <1>2, <2>1, LogBounds
<1>4. cut' = cut \/ cut' = cut \cup Streaming(f)
  BY <1>1
<1> DEFINE new == Trimmed(long)
<1> HIDE DEF new
<1>5. new \in Records /\ new # <<>> /\ log' = [log EXCEPT ![f] = new]
        /\ (new = long \/ cut' = cut \cup Streaming(f))
  BY <1>1, <1>2, <1>3 DEF new
<1> QED BY <1>1, <1>2, <1>4, <1>5, LongerKeeps

LEMMA TrimFailsKeeps ==
  ASSUME Typed, NEW f \in Files, TrimFails(f) PROVE Typed' /\ (History => History')
<1> DEFINE long == Append(Restored(f), record)
<1>1. /\ record' = record + 1 /\ log' = [log EXCEPT ![f] = long] /\ backup' = AfterRestore(f)
      /\ UNCHANGED <<device, received, host, history>>
  BY DEF TrimFails
<1>2. long \in Records /\ long # <<>>
  BY RestoredFacts
<1> QED BY <1>1, <1>2, LongerKeeps DEF history

LEMMA ResetKeeps ==
  ASSUME Typed, Reset, log' \in [Files -> LogFile], backup' \in [Files -> LogFile],
         record' \in Nat
  PROVE  Typed' /\ (History /\ NoneEmpty' => History')
<1>1. /\ connected' = FALSE /\ session' = Nobody /\ published' = <<>> /\ seen' = {}
      /\ received' = <<>>
      /\ excused' = excused \cup (1..requests)
      /\ UNCHANGED <<host, begun, cut>>
  BY DEF Reset
<1>2. 1..requests \subseteq Id
  BY LogBounds DEF Typed, Id
<1>3. Len(published') = 0 /\ Len(received') = 0
  BY <1>1
<1>4. Typed'
  <2>1. session' \in Session \cup {Nobody} /\ published' \in Seq(Messages)
          /\ received' \in Seq(Command)
    BY <1>1
  <2>2. excused' \subseteq Id /\ cut' \subseteq Id /\ seen' \subseteq Id
          /\ connected' \in BOOLEAN
    BY <1>1, <1>2 DEF Typed
  <2>3. /\ transfer' \in [Clients -> Transfers] /\ stored' \in [Clients -> Stores]
        /\ requests' \in 0..MaxRequests /\ begun' \in [Id -> LogFile]
    BY <1>1 DEF Typed, host
  <2> QED BY <1>1, <2>1, <2>2, <2>3 DEF Typed
<1>5. ASSUME History, NoneEmpty' PROVE History'
  <2>1. 1..Len(published') = {} /\ 1..Len(received') = {}
    BY <1>3
  <2>2. IdsFresh' /\ MessagesInv' /\ SessionInv'
    BY <1>1, <1>5, <2>1 DEF History, IdsFresh, MessagesInv, SessionInv, host
  <2>3. StoredInv'
    BY <1>1, <1>5 DEF History, StoredInv, host
  <2> QED BY <1>5, <2>2, <2>3 DEF History
<1> QED BY <1>4, <1>5

LEMMA ResetsKeep ==
  ASSUME Typed, DeviceResets \/ \E f \in Files : ResetInTrim(f)
  PROVE Typed' /\ (History => History')
<1>1. CASE DeviceResets
  <2>1. Reset /\ log' = log /\ backup' = backup /\ record' = record
    BY <1>1 DEF DeviceResets, flash
  <2>2. log' \in [Files -> LogFile] /\ backup' \in [Files -> LogFile] /\ record' \in Nat
    BY <2>1 DEF Typed
  <2>3. History => NoneEmpty'
    BY <2>1 DEF History, NoneEmpty
  <2> QED BY <2>1, <2>2, <2>3, ResetKeeps
<1>2. CASE \E f \in Files : ResetInTrim(f)
  <2>1. PICK f \in Files : ResetInTrim(f)
    BY <1>2
  <2> DEFINE long == Append(Restored(f), record)
  <2>2. /\ Reset /\ record' = record + 1
        /\ log' = [log EXCEPT ![f] = Missing] /\ backup' = [backup EXCEPT ![f] = long]
    BY <2>1 DEF ResetInTrim
  <2>3. long \in Records /\ long # <<>>
    BY RestoredFacts
  <2> HIDE DEF long
  <2>4. log' \in [Files -> LogFile] /\ backup' \in [Files -> LogFile] /\ record' \in Nat
    BY <2>2, <2>3 DEF Typed, LogFile
  <2>5. History => NoneEmpty'
    <3>1. Missing # <<>>
      <4>1. <<>> \in Records
        BY DEF Records
      <4> QED BY <4>1, LogBounds
    <3> QED BY <2>2, <2>3, <3>1 DEF History, NoneEmpty, Typed
  <2> QED BY <2>2, <2>4, <2>5, ResetKeeps
<1> QED BY <1>1, <1>2

-----------------------------------------------------------------------------
LEMMA LogInitInv == LogInit => Typed /\ History
<1> SUFFICES ASSUME LogInit PROVE Typed /\ History
  OBVIOUS
<1>1. <<1, 2>> \in Records /\ <<1, 2>> # <<>> /\ Missing # <<>> /\ <<>> \in Records
  <2>1. <<>> \in Records /\ <<1, 2>> \in Records
    BY DEF Records
  <2> QED BY <2>1, LogBounds
<1>2. Typed
  <2>1. log \in [Files -> LogFile] /\ backup \in [Files -> LogFile] /\ begun \in [Id -> LogFile]
    BY <1>1 DEF LogInit, LogFile
  <2>2. transfer \in [Clients -> Transfers] /\ stored \in [Clients -> Stores]
    BY <1>1 DEF LogInit, Transfers, Stores
  <2>3. requests \in 0..MaxRequests /\ record \in Nat
    BY LogBounds DEF LogInit
  <2> QED BY <2>1, <2>2, <2>3 DEF LogInit, Typed
<1>3. NoneEmpty /\ IdsFresh /\ SessionInv /\ MessagesInv /\ StoredInv
  <2>1. 1..Len(received) = {} /\ 1..Len(published) = {}
    BY DEF LogInit
  <2>2. NoneEmpty
    BY <1>1 DEF LogInit, NoneEmpty
  <2> QED BY <2>1, <2>2 DEF LogInit, IdsFresh, SessionInv, MessagesInv, StoredInv
<1> QED BY <1>2, <1>3 DEF History

LEMMA LogNextTyped == Typed /\ [LogNext]_logVars => Typed'
<1> SUFFICES ASSUME Typed, [LogNext]_logVars PROVE Typed'
  OBVIOUS
<1>1. CASE Pass
  BY <1>1, PassTyped
<1>2. CASE Send
  BY <1>2, SendTyped
<1>3. CASE ConnectionFails \/ Connect
  BY <1>3, ConnectionFailsKeeps, ConnectKeeps
<1>4. CASE \E c \in Clients : Timeout(c) \/ \E f \in Files : Request(c, f)
  BY <1>4, TimeoutKeeps, RequestTyped
<1>5. CASE \E f \in Files : AppendRecord(f) \/ TrimFails(f)
  BY <1>5, AppendRecordKeeps, TrimFailsKeeps
<1>6. CASE DeviceResets \/ \E f \in Files : ResetInTrim(f)
  BY <1>6, ResetsKeep
<1>7. CASE UNCHANGED logVars
  BY <1>7 DEF Typed, logVars, flash, device, host, history
<1> QED BY <1>1, <1>2, <1>3, <1>4, <1>5, <1>6, <1>7 DEF LogNext

LEMMA LogNextHistory ==
  ASSUME ReuseIds = FALSE PROVE Typed /\ History /\ [LogNext]_logVars => History'
<1> SUFFICES ASSUME Typed, History, [LogNext]_logVars PROVE History'
  OBVIOUS
<1>1. CASE Pass
  BY <1>1, PassHistory
<1>2. CASE Send
  BY <1>2, SendHistory
<1>3. CASE ConnectionFails \/ Connect
  BY <1>3, ConnectionFailsKeeps, ConnectKeeps
<1>4. CASE \E c \in Clients : Timeout(c) \/ \E f \in Files : Request(c, f)
  BY <1>4, TimeoutKeeps, RequestHistory
<1>5. CASE \E f \in Files : AppendRecord(f) \/ TrimFails(f)
  BY <1>5, AppendRecordKeeps, TrimFailsKeeps
<1>6. CASE DeviceResets \/ \E f \in Files : ResetInTrim(f)
  BY <1>6, ResetsKeep
<1>7. CASE UNCHANGED logVars
  <2>1. NoneEmpty' /\ IdsFresh' /\ SessionInv'
    BY <1>7 DEF logVars, flash, device, host, history, History, NoneEmpty, IdsFresh,
       SessionInv, Faithful
  <2>2. MessagesInv' /\ StoredInv'
    BY <1>7 DEF logVars, device, host, history, History, MessagesInv, Truthful, StoredInv
  <2> QED BY <2>1, <2>2 DEF History
<1> QED BY <1>1, <1>2, <1>3, <1>4, <1>5, <1>6, <1>7 DEF LogNext

LEMMA TypedIsOK == Typed => LogTypeOK
<1> SUFFICES ASSUME Typed PROVE LogTypeOK
  OBVIOUS
<1>1. \A c \in Clients : transfer[c] \in Transfers
  BY DEF Typed
<1>2. \A c \in Clients : transfer[c].phase \in {"idle", "waiting", "complete", "failed"}
                         /\ transfer[c].data \in Records
  BY <1>1 DEF Transfers
<1> QED BY <1>2 DEF Typed, LogTypeOK, LogFile

(* Whatever the operator, the device and the network do, every variable of *)
(* the exchange has its type: what has been sent reaches just to the       *)
(* offset of the session.                                                  *)
THEOREM LogTypes == LogSpec => []LogTypeOK
<1>1. LogInit => Typed
  BY LogInitInv
<1>2. Typed => LogTypeOK
  BY TypedIsOK
<1> QED BY <1>1, <1>2, LogNextTyped, PTL DEF LogSpec

(* A log that the host stores is the file as it was when its session began *)
(* (process_log_transfer_session, _handle_result), unless the device       *)
(* trimmed the file meanwhile - as long as the operator gives no message   *)
(* id twice.                                                               *)
THEOREM StoredLogsAreWhole == ASSUME ReuseIds = FALSE PROVE LogSpec => []StoreSound
<1>1. LogInit => Typed /\ History
  BY LogInitInv
<1>2. Typed /\ History /\ [LogNext]_logVars => Typed' /\ History'
  BY LogNextTyped, LogNextHistory
<1>3. Typed /\ History => StoreSound
  BY TypedIsOK DEF History, StoredInv, StoreSound, StoredWhole
<1> QED BY <1>1, <1>2, <1>3, PTL DEF LogSpec
=============================================================================
