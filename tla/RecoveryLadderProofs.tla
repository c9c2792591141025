------------------------ MODULE RecoveryLadderProofs ------------------------
(***************************************************************************)
(* The NVM counters bound the resets, for every number of attempts, every  *)
(* time-out and every kind of failure.  What has been observed since the   *)
(* last checkpoint never exceeds what NVM records, and a failure window is *)
(* not older than the run it belongs to, which is why a marked hard reset  *)
(* that was not suppressed has not come too early.  And a window that is   *)
(* full without a reboot has found the ladder used up, since nothing but a *)
(* checkpoint or a reboot takes a step of the ladder back.                 *)
(***************************************************************************)
EXTENDS RecoveryLadder, TLAPS

MarksTyped == nvm \in Marks /\ up \in Nat
Counts ==
  /\ reloads \in Nat /\ reloads <= nvm.warm
  /\ faultResets \in Nat /\ faultResets <= nvm.fault
  /\ fastResets \in Nat /\ fastResets <= (IF nvm.hard THEN 1 ELSE 0)
PoweredOn ==
  mode = "power_on" => reloads = 0 /\ fastResets = 0 /\ faultResets = 0

(* What survives a reboot; the windows that do not. *)
Core == MarksTyped /\ Counts /\ PoweredOn

WindowTyped(w) == w = [count |-> w.count, age |-> w.age]
                    /\ w.count \in Nat /\ w.age \in Int
Young(w) == WindowTyped(w) /\ (w.age <= up \/ up >= Gate)
WindowsYoung == Young(fails) /\ Young(subs)

Inv == Core /\ WindowsYoung

(* The bounds and time-outs are positive. *)
LEMMA Bounds ==
  /\ MaxWarm \in Nat /\ MaxFault \in Nat /\ Gate \in Nat /\ Stable \in Nat
  /\ Gate > 0 /\ MaxWarm > 0
BY LadderAssumption

(* A closed window and one more failure leave a window young. *)
LEMMA ClosedYoung == ASSUME up \in Nat PROVE Young(Closed)
BY DEF Young, WindowTyped, Closed, None

LEMMA CountedYoung ==
  ASSUME up \in Nat, NEW w, Young(w), NEW most \in Nat
  PROVE  Young(Counted(w, most))
<1> DEFINE n == Atmost(w.count + 1, most)
           a == IF w.count = 0 \/ w.age = None THEN 0 ELSE w.age
<1>1. n \in Nat
  BY DEF Atmost, Young, WindowTyped
<1>2. a \in Int /\ (a <= up \/ up >= Gate)
  BY DEF Young, WindowTyped
<1>3. Counted(w, most) = [count |-> n, age |-> a]
  BY DEF Counted
<1> HIDE DEF n, a
<1> QED BY <1>1, <1>2, <1>3 DEF Young, WindowTyped

-----------------------------------------------------------------------------
(* Every way out of a handler keeps Core. *)
LEMMA RunsKeeps == ASSUME Core, NEW next, Runs(next) PROVE Core'
BY DEF Core, MarksTyped, Counts, PoweredOn, Runs, observed

LEMMA HardResetKeeps == ASSUME Core, NEW r, HardReset(r) PROVE Core'
BY DEF Core, MarksTyped, Counts, PoweredOn, HardReset, Rebooted

LEMMA WarmReloadKeeps == ASSUME Core, NEW r, WarmLeft, WarmReload(r) PROVE Core'
<1>1. nvm' \in Marks /\ nvm'.warm = nvm.warm + 1 /\ nvm'.hard = nvm.hard
        /\ nvm'.fault = nvm.fault
  <2>1. nvm = [hard |-> nvm.hard, cleanup |-> nvm.cleanup,
               warm |-> nvm.warm, fault |-> nvm.fault]
          /\ nvm.hard \in BOOLEAN /\ nvm.warm \in 0..MaxWarm
          /\ nvm.fault \in 0..MaxFault
    BY DEF Core, MarksTyped, Marks
  <2>2. nvm' = [hard |-> nvm.hard, cleanup |-> TRUE,
                warm |-> nvm.warm + 1, fault |-> nvm.fault]
    BY <2>1 DEF WarmReload
  <2>3. nvm.warm + 1 \in 0..MaxWarm
    BY <2>1, Bounds DEF WarmLeft
  <2> HIDE DEF Marks
  <2> QED BY <2>1, <2>2, <2>3 DEF Marks
<1>2. reloads' = reloads + 1 /\ fastResets' = fastResets
        /\ faultResets' = faultResets /\ up' = up /\ mode' = "start"
  BY DEF WarmReload, Rebooted
<1>3. nvm.warm \in Nat
  BY DEF Core, MarksTyped, Marks
<1> QED BY <1>1, <1>2, <1>3 DEF Core, MarksTyped, Counts, PoweredOn

LEMMA MarkedHardResetKeeps ==
  ASSUME Core, NEW r, nvm.hard => up >= Gate, MarkedHardReset(r)
  PROVE  Core'
<1>1. nvm' \in Marks /\ nvm'.warm = nvm.warm /\ nvm'.hard
        /\ nvm'.fault = nvm.fault
  BY DEF Core, MarksTyped, Marks, MarkedHardReset
<1>2. reloads' = reloads /\ faultResets' = faultResets /\ up' = up
        /\ mode' = "mcu_reset"
  BY DEF MarkedHardReset, Rebooted
<1>3. fastResets' \in Nat /\ fastResets' <= 1
  <2>1. CASE nvm.hard
    <3>1. ~(up < Gate)
      BY <2>1, Bounds DEF Core, MarksTyped
    <3>2. fastResets' = fastResets + 0
      BY <3>1 DEF MarkedHardReset
    <3> QED BY <2>1, <3>2 DEF Core, Counts
  <2>2. CASE ~nvm.hard
    <3>1. fastResets = 0
      BY <2>2 DEF Core, Counts
    <3> QED BY <3>1 DEF MarkedHardReset
  <2> QED BY <2>1, <2>2
<1> QED BY <1>1, <1>2, <1>3 DEF Core, MarksTyped, Counts, PoweredOn

LEMMA PlannedRebootKeeps == ASSUME Core, NEW r, PlannedReboot(r) PROVE Core'
BY WarmReloadKeeps, HardResetKeeps DEF PlannedReboot

(* A reset that is not suppressed comes from an old window or is the first *)
(* marked one.                                                             *)
LEMMA NotSuppressedIsOld ==
  ASSUME Core, NEW w, Young(w), ~Suppressed(w) PROVE nvm.hard => up >= Gate
BY Bounds DEF Young, WindowTyped, Suppressed, Core, MarksTyped

LEMMA BudgetKeeps ==
  ASSUME Core, NEW w, Young(w), NEW next, Budget(w, next)
  PROVE  Core'
<1>1. CASE BudgetReboots(w) /\ WarmLeft
  BY <1>1, WarmReloadKeeps DEF Budget, BudgetReboot
<1>2. CASE BudgetReboots(w) /\ ~WarmLeft
  <2>1. MarkedHardReset("mqtt_repeated_connect_failures")
    BY <1>2 DEF Budget, BudgetReboot
  <2>2. ~Suppressed(w)
    BY <1>2 DEF BudgetReboots
  <2> QED BY <2>1, <2>2, NotSuppressedIsOld, MarkedHardResetKeeps
<1>3. CASE ~BudgetReboots(w)
  BY <1>3, RunsKeeps DEF Budget
<1> QED BY <1>1, <1>2, <1>3

LEMMA MemoryBudgetKeeps ==
  ASSUME Core, NEW built, NEW next, MemoryBudget(built, next) PROVE Core'
BY RunsKeeps, PlannedRebootKeeps DEF MemoryBudget

(* None of them lets time pass. *)
LEMMA OutTime ==
  ASSUME NEW w, NEW next, NEW built
  PROVE  /\ Runs(next) => up' = up
         /\ Budget(w, next) => up' = up
         /\ MemoryBudget(built, next) => up' = up
BY DEF Budget, BudgetReboot, MemoryBudget, PlannedReboot, WarmReload, HardReset,
   MarkedHardReset, Rebooted, Runs

(* A window is left alone, closed, or counted once or twice. *)
LEMMA WindowsKeep ==
  ASSUME Core, WindowsYoung, up' = up,
         fails' \in {fails, Closed, Counted(fails, FastCount),
                     Counted(Counted(fails, FastCount), FastCount)},
         subs' \in {subs, Closed, Counted(subs, WarmCount)}
  PROVE  WindowsYoung'
<1>1. up \in Nat
  BY DEF Core, MarksTyped
<1>2. FastCount \in Nat /\ WarmCount \in Nat
  BY LadderAssumption
<1>3. Young(fails) /\ Young(subs) /\ Young(Closed)
  BY <1>1, ClosedYoung DEF WindowsYoung
<1>4. Young(Counted(fails, FastCount)) /\ Young(Counted(subs, WarmCount))
  BY <1>1, <1>2, <1>3, CountedYoung
<1>5. Young(Counted(Counted(fails, FastCount), FastCount))
  BY <1>1, <1>2, <1>4, CountedYoung
<1>6. Young(fails') /\ Young(subs')
  BY <1>3, <1>4, <1>5
<1> QED BY <1>6 DEF WindowsYoung, Young, WindowTyped

-----------------------------------------------------------------------------
(* The actions, one step each. *)
LEMMA TopKeeps == ASSUME Inv, Top PROVE Inv'
<1>1. Core /\ WindowsYoung
  BY DEF Inv
<1>2. CASE TimedOut /\ TimeoutReboot
  <2>1. Core'
    BY <1>1, <1>2, HardResetKeeps, PlannedRebootKeeps DEF TimeoutReboot
  <2>2. up' = up
    BY <1>2 DEF TimeoutReboot, PlannedReboot, WarmReload, HardReset, Rebooted
  <2>3. fails' = fails /\ subs' = subs
    BY DEF Top, windows
  <2> QED BY <1>1, <2>1, <2>2, <2>3, WindowsKeep DEF Inv
<1>3. CASE ~TimedOut
  <2>1. UNCHANGED <<nvm, mode, up, observed, fails, subs>>
    BY <1>3 DEF Top, windows
  <2>2. Core'
    BY <1>1, <2>1 DEF Core, MarksTyped, Counts, PoweredOn, observed
  <2> QED BY <1>1, <2>1, <2>2, WindowsKeep DEF Inv
<1> QED BY <1>2, <1>3 DEF Top

LEMMA RebuildsKeep ==
  ASSUME Inv,
         WifiAfterReadyFails \/ RebuildHeld \/ Rebuild
           \/ RebuildAfterConnackTimeout
  PROVE  Inv'
<1>1. Core /\ WindowsYoung /\ Young(fails)
  BY DEF Inv, WindowsYoung
<1>2. fails' = fails /\ subs' = subs
  BY DEF WifiAfterReadyFails, RebuildHeld, Rebuild, RebuildAfterConnackTimeout, windows
<1>3. Core' /\ up' = up
  <2>1. CASE WifiAfterReadyFails
    BY <1>1, <2>1, HardResetKeeps DEF WifiAfterReadyFails, HardReset, Rebooted
  <2>2. CASE RebuildHeld
    <3>1. PICK next : Runs(next)
      BY <2>2 DEF RebuildHeld
    <3> QED BY <1>1, <3>1, RunsKeeps DEF Runs
  <2>3. CASE Rebuild
    <3>1. PICK built : MemoryBudget(built, "connect")
      BY <2>3 DEF Rebuild
    <3> QED BY <1>1, <3>1, MemoryBudgetKeeps, OutTime
  <2>4. CASE RebuildAfterConnackTimeout
    <3>1. CASE fails.age >= Gate
      <4>1. MarkedHardReset("mqtt_repeated_connect_failures")
        BY <2>4, <3>1 DEF RebuildAfterConnackTimeout
      <4>2. up >= Gate
        BY <1>1, <3>1, Bounds DEF Young, WindowTyped, Core, MarksTyped
      <4> QED BY <1>1, <4>1, <4>2, MarkedHardResetKeeps
              DEF MarkedHardReset, Rebooted
    <3>2. CASE ~(fails.age >= Gate)
      <4>1. PICK built : MemoryBudget(built, "connect")
        BY <2>4, <3>2 DEF RebuildAfterConnackTimeout
      <4> QED BY <1>1, <4>1, MemoryBudgetKeeps, OutTime
    <3> QED BY <3>1, <3>2
  <2> QED BY <2>1, <2>2, <2>3, <2>4
<1> QED BY <1>1, <1>2, <1>3, WindowsKeep DEF Inv

(* A failed probe: the window that is counted is the one that is judged. *)
LEMMA ProbeFailsKeeps ==
  ASSUME Core, NEW w, Young(w), ProbeFails(w)
  PROVE  Core' /\ up' = up /\ fails' = w
BY BudgetKeeps, OutTime DEF ProbeFails

LEMMA StageKeeps ==
  ASSUME Core, StageStationReset
  PROVE  Core' /\ up' = up /\ fails' = Closed
BY RunsKeeps DEF StageStationReset, Runs

LEMMA LadderKeeps == ASSUME Inv, Ladder PROVE Inv'
<1> DEFINE w == Counted(subs, WarmCount)
<1>1. Core /\ WindowsYoung /\ Young(subs) /\ WarmCount \in Nat /\ up \in Nat
  BY LadderAssumption DEF Inv, WindowsYoung, Core, MarksTyped
<1>2. Young(w)
  BY <1>1, CountedYoung
<1>3. subs' = w /\ fails' = fails
  BY DEF Ladder
<1>4. Core' /\ up' = up
  <2>1. CASE ~LadderReboots(w)
    <3>1. Runs("top")
      BY <2>1 DEF Ladder
    <3> QED BY <1>1, <3>1, RunsKeeps DEF Runs
  <2>2. CASE LadderReboots(w) /\ WarmLeft
    <3>1. WarmReload("mqtt_startup_not_operational")
      BY <2>2 DEF Ladder
    <3> QED BY <1>1, <2>2, <3>1, WarmReloadKeeps DEF WarmReload, Rebooted
  <2>3. CASE LadderReboots(w) /\ ~WarmLeft
    <3>1. MarkedHardReset("mqtt_repeated_connect_failures")
      BY <2>3 DEF Ladder
    <3>2. ~Suppressed(w)
      BY <2>3 DEF LadderReboots, BudgetReboots
    <3>3. nvm.hard => up >= Gate
      BY <1>1, <1>2, <3>2, NotSuppressedIsOld
    <3> QED BY <1>1, <3>1, <3>3, MarkedHardResetKeeps
            DEF MarkedHardReset, Rebooted
  <2> QED BY <2>1, <2>2, <2>3
<1> QED BY <1>1, <1>3, <1>4, WindowsKeep DEF Inv

LEMMA AttemptKeeps == ASSUME Inv, Attempt PROVE Inv'
<1> DEFINE once == Counted(fails, FastCount)
           twice == Counted(once, FastCount)
<1>1. Core /\ WindowsYoung /\ Young(fails) /\ FastCount \in Nat /\ up \in Nat
  BY LadderAssumption DEF Inv, WindowsYoung, Core, MarksTyped
<1>2. Young(once)
  BY <1>1, CountedYoung
<1>3. Young(twice)
  BY <1>1, <1>2, CountedYoung
<1>4. CASE ConnectFailsForMemory
  BY <1>4, LadderKeeps DEF ConnectFailsForMemory
<1>5. CASE ~ConnectFailsForMemory
  <2>1. subs' = subs
    BY <1>5 DEF Attempt, BuildFails, Connect, ProbePasses, FirstConnackTimeout,
       ConnackTimeout, SocketProgress, ConnectOk, ConnectFailsPlainly, ConnectTimesOut,
       windows
  <2>2. Core' /\ up' = up /\ fails' \in {fails, Closed, once, twice}
    <3>1. CASE BuildFails
      <4>1. MemoryBudget(FALSE, "top") /\ fails' = fails
        BY <3>1 DEF BuildFails
      <4> QED BY <1>1, <4>1, MemoryBudgetKeeps, OutTime
    <3>2. CASE Connect
      <4>1. CASE StageStationReset
        BY <1>1, <4>1, StageKeeps
      <4>2. CASE Budget(fails, "probe") /\ fails' = fails
        BY <1>1, <4>2, BudgetKeeps, OutTime
      <4> QED BY <3>2, <4>1, <4>2 DEF Connect
    <3>3. CASE ProbePasses
      BY <1>1, <3>3, RunsKeeps DEF ProbePasses, Runs, windows
    <3>4. CASE FirstConnackTimeout
      <4>1. CASE ProbeFails(twice)
        BY <1>1, <1>3, <4>1, ProbeFailsKeeps
      <4>2. CASE fails' = once /\ Runs("retried")
        BY <1>1, <4>2, RunsKeeps DEF Runs
      <4> QED BY <3>4, <4>1, <4>2 DEF FirstConnackTimeout
    <3>5. CASE ConnackTimeout
      BY <1>1, <1>2, <3>5, ProbeFailsKeeps DEF ConnackTimeout
    <3>6. CASE SocketProgress
      <4>1. CASE BudgetReboots(once)
        <5>1. fails' = once /\ BudgetReboot
          BY <3>6, <4>1 DEF SocketProgress
        <5>2. Budget(once, "top")
          BY <4>1, <5>1 DEF Budget
        <5> QED BY <1>1, <1>2, <5>1, <5>2, BudgetKeeps, OutTime
      <4>2. CASE ~BudgetReboots(once)
        <5>1. CASE ProbeFails(twice)
          BY <1>1, <1>3, <5>1, ProbeFailsKeeps
        <5>2. CASE fails' = once /\ Runs("handshake")
          BY <1>1, <5>2, RunsKeeps DEF Runs
        <5> QED BY <3>6, <4>2, <5>1, <5>2 DEF SocketProgress
      <4> QED BY <4>1, <4>2
    <3>7. CASE ConnectOk
      BY <1>1, <3>7 DEF ConnectOk, Core, MarksTyped, Counts, PoweredOn, windows
    <3>8. CASE ConnectFailsPlainly
      BY <1>1, <3>8, RunsKeeps DEF ConnectFailsPlainly, Runs
    <3>9. CASE ConnectTimesOut
      <4> DEFINE w == IF pc = "retried" THEN fails ELSE once
      <4>1. Young(w) /\ w \in {fails, once}
        BY <1>1, <1>2
      <4>2. CASE StageStationReset
        BY <1>1, <4>2, StageKeeps
      <4>3. CASE fails' = w /\ Budget(w, "session")
        BY <1>1, <4>1, <4>3, BudgetKeeps, OutTime
      <4>4. CASE fails' = w /\ Runs("session")
        BY <1>1, <4>1, <4>4, RunsKeeps DEF Runs
      <4> QED BY <3>9, <4>2, <4>3, <4>4 DEF ConnectTimesOut
    <3> QED BY <1>5, <3>1, <3>2, <3>3, <3>4, <3>5, <3>6, <3>7, <3>8, <3>9
            DEF Attempt
  <2> QED BY <1>1, <2>1, <2>2, WindowsKeep DEF Inv
<1> QED BY <1>4, <1>5

LEMMA SessionKeeps ==
  ASSUME Inv, Session \/ PassEnds PROVE Inv'
<1>1. Core /\ WindowsYoung /\ up \in Nat
  BY DEF Inv, Core, MarksTyped
<1>2. Housekeeping \in Marks /\ Housekeeping.warm = nvm.warm
        /\ Housekeeping.hard = nvm.hard
        /\ Housekeeping.fault = (IF up >= Stable THEN 0 ELSE nvm.fault)
  BY <1>1, LadderAssumption DEF Core, MarksTyped, Marks, Housekeeping
<1>3. CASE SessionFails
  BY <1>3, LadderKeeps DEF SessionFails
<1>4. CASE SocketPoisoned
  <2>1. Core' /\ up' = up
    BY <1>1, <1>4, HardResetKeeps DEF SocketPoisoned, HardReset, Rebooted
  <2>2. fails' = fails /\ subs' = Counted(subs, WarmCount)
    BY <1>4 DEF SocketPoisoned
  <2> QED BY <1>1, <2>1, <2>2, WindowsKeep DEF Inv
<1>5. CASE Checkpoint
  <2>1. nvm' \in Marks /\ nvm'.warm = 0 /\ nvm'.fault = Housekeeping.fault
    <3> DEFINE h == Housekeeping
    <3>1. nvm' = [h EXCEPT !.warm = 0, !.hard = FALSE]
      BY <1>5 DEF Checkpoint
    <3>2. h \in Marks /\ 0 \in 0..MaxWarm
      BY <1>2, Bounds
    <3> HIDE DEF h
    <3>3. nvm' = [hard |-> FALSE, cleanup |-> h.cleanup,
                  warm |-> 0, fault |-> h.fault]
      BY <3>1, <3>2 DEF Marks
    <3>4. nvm' \in Marks
      BY <3>2, <3>3 DEF Marks
    <3> QED BY <3>3, <3>4 DEF h
  <2>2. reloads' = 0 /\ fastResets' = 0 /\ mode' = mode /\ mode = "running"
          /\ faultResets' = (IF up >= Stable THEN 0 ELSE faultResets)
          /\ up' = up /\ fails' = Closed /\ subs' = Closed
    BY <1>5 DEF Checkpoint, StableRun, At
  <2>3. Core'
    BY <1>1, <1>2, <2>1, <2>2 DEF Core, MarksTyped, Counts, PoweredOn
  <2> QED BY <1>1, <2>2, <2>3, WindowsKeep DEF Inv
<1>6. CASE PassEnds
  <2>1. reloads' = reloads /\ fastResets' = fastResets /\ mode' = mode
          /\ mode = "running" /\ nvm' = Housekeeping
          /\ faultResets' = (IF up >= Stable THEN 0 ELSE faultResets)
          /\ up' = up /\ fails' = fails /\ subs' = subs
    BY <1>6 DEF PassEnds, StableRun, At, windows
  <2>2. Core'
    BY <1>1, <1>2, <2>1 DEF Core, MarksTyped, Counts, PoweredOn
  <2> QED BY <1>1, <2>1, <2>2, WindowsKeep DEF Inv
<1> QED BY <1>3, <1>4, <1>5, <1>6 DEF Session

LEMMA BootKeeps ==
  ASSUME Inv, BootPy \/ Start \/ SafeModePy PROVE Inv'
<1>1. Core /\ WindowsYoung /\ up \in Nat
  BY DEF Inv, Core, MarksTyped
<1>2. CASE BootPy
  <2> DEFINE blank == [hard |-> FALSE, cleanup |-> FALSE,
                       warm |-> 0, fault |-> 0]
  <2>0. blank \in Marks
    BY Bounds DEF Marks
  <2>1. nvm' \in Marks /\ mode' = "start"
          /\ UNCHANGED <<up, fails, subs, reloads, fastResets, faultResets>>
    <3>1. nvm' \in {nvm, blank} /\ nvm \in Marks
      BY <1>1, <1>2 DEF BootPy, Core, MarksTyped
    <3>2. nvm' \in Marks
      BY <2>0, <3>1
    <3> QED BY <1>2, <3>2 DEF BootPy, windows, observed
  <2>2. Counts'
    <3>1. CASE mode = "power_on"
      <4>1. nvm'.warm = 0 /\ nvm'.fault = 0 /\ ~nvm'.hard
        BY <1>2, <3>1 DEF BootPy
      <4>2. reloads = 0 /\ fastResets = 0 /\ faultResets = 0
        BY <1>1, <3>1 DEF Core, PoweredOn
      <4> QED BY <2>1, <4>1, <4>2 DEF Counts
    <3>2. CASE mode # "power_on"
      BY <1>1, <1>2, <2>1, <3>2 DEF BootPy, Core, Counts
    <3> QED BY <3>1, <3>2
  <2>3. Core'
    BY <1>1, <2>1, <2>2 DEF Core, MarksTyped, PoweredOn
  <2> QED BY <1>1, <2>1, <2>3, WindowsKeep DEF Inv
<1>3. CASE Start
  <2>1. nvm' \in Marks /\ nvm'.warm = nvm.warm /\ nvm'.fault = nvm.fault
          /\ nvm'.hard = nvm.hard
    BY <1>1, <1>3 DEF Start, Core, MarksTyped, Marks
  <2>2. mode' = "running" /\ up' = 0 /\ fails' = Closed /\ subs' = Closed
          /\ UNCHANGED <<reloads, fastResets, faultResets>>
    BY <1>3 DEF Start, observed
  <2>3. Core'
    BY <1>1, <2>1, <2>2 DEF Core, MarksTyped, Counts, PoweredOn
  <2>4. WindowsYoung'
    BY <2>2 DEF WindowsYoung, Young, WindowTyped, Closed, None
  <2> QED BY <2>3, <2>4 DEF Inv
<1>4. CASE SafeModePy
  <2>1. UNCHANGED <<up, fails, subs, reloads, fastResets>>
          /\ mode' # "power_on"
    BY <1>4 DEF SafeModePy, windows
  <2>2. nvm' \in Marks /\ nvm'.warm = nvm.warm /\ nvm'.hard = nvm.hard
          /\ \/ nvm'.fault = nvm.fault /\ faultResets' = faultResets
             \/ nvm'.fault = nvm.fault + 1 /\ faultResets' = faultResets + 1
    BY <1>1, <1>4, LadderAssumption DEF SafeModePy, Core, MarksTyped, Marks
  <2>3. nvm.fault \in Nat
    BY <1>1 DEF Core, MarksTyped, Marks
  <2>4. Core'
    BY <1>1, <2>1, <2>2, <2>3 DEF Core, MarksTyped, Counts, PoweredOn
  <2> QED BY <1>1, <2>1, <2>4, WindowsKeep DEF Inv
<1> QED BY <1>2, <1>3, <1>4

(* A tick ages a window and the run it belongs to together. *)
LEMMA TickKeeps == ASSUME Inv, Tick PROVE Inv'
<1>1. Core /\ WindowsYoung /\ up \in Nat
  BY DEF Inv, Core, MarksTyped
<1>2. Settled \in Nat /\ Settled >= Gate /\ Gate \in Nat /\ Long \in Nat
  BY LadderAssumption DEF Settled
<1>3. up' \in Nat /\ (up' = up + 1 \/ up' >= Gate)
  BY <1>1, <1>2 DEF Tick, Older, Atmost, None
<1>4. Core'
  BY <1>1, <1>3 DEF Tick, Core, MarksTyped, Counts, PoweredOn
<1>5. ASSUME NEW w, Young(w), NEW oldest \in Nat
      PROVE  /\ WindowTyped(Aged(w, oldest))
             /\ Aged(w, oldest).age <= up' \/ up' >= Gate
  <2>1. Aged(w, oldest) = [count |-> w.count, age |-> Older(w.age, oldest)]
    BY <1>5 DEF Aged, Young, WindowTyped
  <2>2. w.age \in Int /\ (w.age <= up \/ up >= Gate)
    BY <1>5 DEF Young, WindowTyped
  <2>3. Older(w.age, oldest) \in Int /\ Older(w.age, oldest) <= w.age + 1
    BY <2>2 DEF Older, Atmost, None
  <2>4. Older(w.age, oldest) <= up' \/ up' >= Gate
    <3>1. CASE up >= Gate
      BY <1>1, <1>2, <1>3, <3>1
    <3>2. CASE ~(up >= Gate)
      BY <1>1, <1>2, <1>3, <2>2, <2>3, <3>2
    <3> QED BY <3>1, <3>2
  <2> QED BY <1>5, <2>1, <2>3, <2>4 DEF Young, WindowTyped
<1>6. fails' = Aged(fails, Long) /\ subs' = Aged(subs, Gate)
  BY DEF Tick
<1>7. Young(fails) /\ Young(subs)
  BY <1>1 DEF WindowsYoung
<1>8. WindowTyped(fails') /\ (fails'.age <= up' \/ up' >= Gate)
  BY <1>2, <1>5, <1>6, <1>7
<1>9. WindowTyped(subs') /\ (subs'.age <= up' \/ up' >= Gate)
  BY <1>2, <1>5, <1>6, <1>7
<1>10. WindowsYoung'
  BY <1>8, <1>9 DEF WindowsYoung, Young, WindowTyped
<1> QED BY <1>4, <1>10 DEF Inv

LEMMA EnvironmentKeeps == ASSUME Inv, Environment PROVE Inv'
<1>1. Core /\ WindowsYoung
  BY DEF Inv
<1>2. CASE Tick
  BY <1>2, TickKeeps
<1>3. CASE PowerCycle
  <2>1. UNCHANGED <<nvm, up, fails, subs>> /\ mode' = "power_on"
          /\ reloads' = 0 /\ fastResets' = 0 /\ faultResets' = 0
    BY <1>3 DEF PowerCycle, windows
  <2>2. nvm.warm \in Nat /\ nvm.fault \in Nat
    BY <1>1 DEF Core, MarksTyped, Marks
  <2>3. Core'
    BY <1>1, <2>1, <2>2 DEF Core, MarksTyped, Counts, PoweredOn
  <2> QED BY <1>1, <2>1, <2>3, WindowsKeep DEF Inv
<1>4. CASE HardFault \/ SafeModeEntered \/ LinkLost \/ LinkBack
  <2>1. UNCHANGED <<nvm, up, fails, subs, reloads, fastResets, faultResets>>
          /\ mode' # "power_on"
    BY <1>4 DEF HardFault, SafeModeEntered, LinkLost, LinkBack, Faulted, At, windows,
       observed
  <2>2. Core'
    BY <1>1, <2>1 DEF Core, MarksTyped, Counts, PoweredOn
  <2> QED BY <1>1, <2>1, <2>2, WindowsKeep DEF Inv
<1> QED BY <1>2, <1>3, <1>4 DEF Environment

-----------------------------------------------------------------------------
LEMMA InvInit == ASSUME Init PROVE Inv
<1>1. nvm \in Marks /\ up = 0
  BY Bounds, LadderAssumption DEF Init, Marks
<1>2. Core
  BY <1>1 DEF Init, Core, MarksTyped, Counts, PoweredOn
<1>3. WindowsYoung
  BY <1>1, ClosedYoung DEF Init, WindowsYoung
<1> QED BY <1>2, <1>3 DEF Inv

LEMMA InvStep == ASSUME Inv, [Next]_vars PROVE Inv'
<1>1. CASE UNCHANGED vars
  BY <1>1 DEF vars, windows, observed, Inv, Core, MarksTyped, Counts, PoweredOn,
     WindowsYoung, Young, WindowTyped
<1>2. CASE Loop
  BY <1>2, TopKeeps, RebuildsKeep, AttemptKeeps, SessionKeeps DEF Loop
<1>3. CASE BootPy \/ Start \/ SafeModePy
  BY <1>3, BootKeeps
<1>4. CASE Environment
  BY <1>4, EnvironmentKeeps
<1> QED BY <1>1, <1>2, <1>3, <1>4 DEF Next, Firmware

LEMMA Invariance == Spec => []Inv
<1>1. Init => Inv
  BY InvInit
<1>2. Inv /\ [Next]_vars => Inv'
  BY InvStep
<1> QED BY <1>1, <1>2, PTL DEF Spec

(* _mark_mqtt_subscription_recovery_requested gives out at most MaxWarm    *)
(* reloads between two checkpoints, whatever else restarts the device.     *)
THEOREM ReloadsBounded == Spec => []WarmReloadsBounded
<1>1. Inv => WarmReloadsBounded
  BY Bounds DEF Inv, Core, MarksTyped, Marks, Counts, WarmReloadsBounded
<1> QED BY <1>1, Invariance, PTL

(* safemode.py resets the MCU at most MaxFault times between two runs that *)
(* stay up for Stable.                                                     *)
THEOREM FaultResetsBounded == Spec => []SafeModeBounded
<1>1. Inv => SafeModeBounded
  BY LadderAssumption DEF Inv, Core, MarksTyped, Marks, Counts, SafeModeBounded
<1> QED BY <1>1, Invariance, PTL
-----------------------------------------------------------------------------
(* The values of the variables, one group at a time.                       *)
Modes ==
  /\ mode \in {"power_on", "mcu_reset", "start", "running", "hard_fault",
               "safe_mode", "stopped"}
  /\ pc \in Stages
  /\ link \in {"ready", "down", "ap"}
  /\ conn \in {"down", "draining", "operational"}
Switches ==
  /\ wifiWasReady \in BOOLEAN /\ stationReset \in BOOLEAN
  /\ stationDone \in BOOLEAN /\ connackPending \in BOOLEAN
  /\ adapter \in BOOLEAN /\ ticked \in BOOLEAN
Clocks == faults \in Scenarios /\ up \in 0..Settled /\ outage \in Nat

LEMMA AttemptModes ==
  ASSUME Modes, Attempt PROVE Modes'
<1>1. CASE BuildFails
  BY <1>1 DEF BuildFails, Runs, Rebooted, WarmReload, HardReset, MarkedHardReset,
     MemoryBudget, PlannedReboot, Modes, Stages
<1>2. CASE Connect
  BY <1>2 DEF Connect, Runs, Rebooted, WarmReload, HardReset, MarkedHardReset, Budget,
     BudgetReboot, StageStationReset, Modes, Stages
<1>3. CASE ProbePasses
  BY <1>3 DEF ProbePasses, Runs, Modes, Stages
<1>4. CASE FirstConnackTimeout
  BY <1>4 DEF FirstConnackTimeout, Runs, Rebooted, WarmReload, HardReset, MarkedHardReset,
     Budget, BudgetReboot, ProbeFails, Modes, Stages
<1>5. CASE ConnackTimeout
  BY <1>5 DEF ConnackTimeout, Runs, Rebooted, WarmReload, HardReset, MarkedHardReset,
     Budget, BudgetReboot, ProbeFails, Modes, Stages
<1>6. CASE SocketProgress
  BY <1>6 DEF SocketProgress, Runs, Rebooted, WarmReload, HardReset, MarkedHardReset,
     Budget, BudgetReboot, ProbeFails, Modes, Stages
<1>7. CASE ConnectOk
  BY <1>7 DEF ConnectOk, Modes, Stages
<1>8. CASE ConnectFailsPlainly
  BY <1>8 DEF ConnectFailsPlainly, Runs, Modes, Stages
<1>9. CASE ConnectTimesOut
  BY <1>9 DEF ConnectTimesOut, Runs, Rebooted, WarmReload, HardReset, MarkedHardReset,
     Budget, BudgetReboot, StageStationReset, Modes, Stages
<1>10. CASE ConnectFailsForMemory
  BY <1>10 DEF ConnectFailsForMemory, Runs, Rebooted, WarmReload, HardReset,
     MarkedHardReset, Ladder, Modes, Stages
<1> QED
  BY <1>1, <1>2, <1>3, <1>4, <1>5, <1>6, <1>7, <1>8, <1>9, <1>10 DEF Attempt

LEMMA LoopModes ==
  ASSUME Modes, Loop PROVE Modes'
<1>1. CASE Top
  BY <1>1 DEF Top, TimeoutReboot, PlannedReboot, Runs, Rebooted, WarmReload, HardReset,
     MarkedHardReset, AfterTop, observed, windows, flags, Modes, Stages
<1>2. CASE WifiAfterReadyFails
  BY <1>2 DEF WifiAfterReadyFails, HardReset, Rebooted, Modes, Stages
<1>3. CASE RebuildHeld
  BY <1>3 DEF RebuildHeld, Runs, Modes, Stages
<1>4. CASE Rebuild
  BY <1>4 DEF Rebuild, Runs, Rebooted, WarmReload, HardReset, MarkedHardReset, MemoryBudget,
     PlannedReboot, Modes, Stages
<1>5. CASE RebuildAfterConnackTimeout
  BY <1>5 DEF RebuildAfterConnackTimeout, Runs, Rebooted, WarmReload, HardReset,
     MarkedHardReset, MemoryBudget, PlannedReboot, Modes, Stages
<1>6. CASE Attempt
  BY <1>6, AttemptModes
<1>7. CASE SessionFails
  BY <1>7 DEF SessionFails, Runs, Rebooted, WarmReload, HardReset, MarkedHardReset, Ladder,
     Modes, Stages
<1>8. CASE SocketPoisoned
  BY <1>8 DEF SocketPoisoned, HardReset, Rebooted, Modes, Stages
<1>9. CASE Checkpoint
  BY <1>9 DEF Checkpoint, Modes, Stages
<1>10. CASE PassEnds
  BY <1>10 DEF PassEnds, Modes, Stages
<1> QED
  BY <1>1, <1>2, <1>3, <1>4, <1>5, <1>6, <1>7, <1>8, <1>9, <1>10 DEF Loop,
     Session

LEMMA NextModes ==
  ASSUME Modes, [Next]_vars PROVE Modes'
<1>1. CASE Loop
  BY <1>1, LoopModes
<1>2. CASE BootPy
  BY <1>2 DEF BootPy, Modes, Stages
<1>3. CASE Start
  BY <1>3 DEF Start, Links, Modes, Stages
<1>4. CASE SafeModePy
  BY <1>4 DEF SafeModePy, Modes, Stages
<1>5. CASE HardFault
  BY <1>5 DEF HardFault, Faulted, Modes, Stages
<1>6. CASE SafeModeEntered
  BY <1>6 DEF SafeModeEntered, Faulted, Modes, Stages
<1>7. CASE PowerCycle
  BY <1>7 DEF PowerCycle, Modes, Stages
<1>8. CASE LinkLost
  BY <1>8 DEF LinkLost, Modes, Stages
<1>9. CASE LinkBack
  BY <1>9 DEF LinkBack, Modes, Stages
<1>10. CASE Tick
  BY <1>10 DEF Tick, Modes, Stages
<1>11. CASE UNCHANGED vars
  BY <1>11 DEF vars, Modes, Stages
<1> QED
  BY <1>1, <1>2, <1>3, <1>4, <1>5, <1>6, <1>7, <1>8, <1>9, <1>10, <1>11 DEF
     Next, Firmware, Environment

LEMMA AttemptSwitches ==
  ASSUME Switches, Attempt PROVE Switches'
<1>1. CASE BuildFails
  BY <1>1 DEF BuildFails, Runs, Rebooted, WarmReload, HardReset, MarkedHardReset,
     MemoryBudget, PlannedReboot, flags, Builds, BuiltUnwatched, Switches
<1>2. CASE Connect
  BY <1>2 DEF Connect, Runs, Rebooted, WarmReload, HardReset, MarkedHardReset, Budget,
     BudgetReboot, StageStationReset, flags, Builds, BuiltUnwatched, Switches
<1>3. CASE ProbePasses
  BY <1>3 DEF ProbePasses, Runs, flags, Builds, BuiltUnwatched, Switches
<1>4. CASE FirstConnackTimeout
  BY <1>4 DEF FirstConnackTimeout, Runs, Rebooted, WarmReload, HardReset, MarkedHardReset,
     Budget, BudgetReboot, ProbeFails, flags, Builds, BuiltUnwatched, Switches
<1>5. CASE ConnackTimeout
  BY <1>5 DEF ConnackTimeout, Runs, Rebooted, WarmReload, HardReset, MarkedHardReset,
     Budget, BudgetReboot, ProbeFails, flags, Builds, BuiltUnwatched, Switches
<1>6. CASE SocketProgress
  BY <1>6 DEF SocketProgress, Runs, Rebooted, WarmReload, HardReset, MarkedHardReset,
     Budget, BudgetReboot, ProbeFails, flags, Builds, BuiltUnwatched, Switches
<1>7. CASE ConnectOk
  BY <1>7 DEF ConnectOk, flags, Builds, BuiltUnwatched, Switches
<1>8. CASE ConnectFailsPlainly
  BY <1>8 DEF ConnectFailsPlainly, Runs, flags, Builds, BuiltUnwatched, Switches
<1>9. CASE ConnectTimesOut
  BY <1>9 DEF ConnectTimesOut, Runs, Rebooted, WarmReload, HardReset, MarkedHardReset,
     Budget, BudgetReboot, StageStationReset, flags, Builds, BuiltUnwatched, Switches
<1>10. CASE ConnectFailsForMemory
  BY <1>10 DEF ConnectFailsForMemory, Runs, Rebooted, WarmReload, HardReset,
     MarkedHardReset, Ladder, flags, Builds, BuiltUnwatched, Switches
<1> QED
  BY <1>1, <1>2, <1>3, <1>4, <1>5, <1>6, <1>7, <1>8, <1>9, <1>10 DEF Attempt

LEMMA LoopSwitches ==
  ASSUME Switches, Loop PROVE Switches'
<1>1. CASE Top
  BY <1>1 DEF Top, TimeoutReboot, PlannedReboot, Runs, Rebooted, WarmReload, HardReset,
     MarkedHardReset, AfterTop, flags, Builds, BuiltUnwatched, Switches
<1>2. CASE WifiAfterReadyFails
  BY <1>2 DEF WifiAfterReadyFails, HardReset, Rebooted, flags, Builds, BuiltUnwatched,
     Switches
<1>3. CASE RebuildHeld
  BY <1>3 DEF RebuildHeld, Runs, flags, Builds, BuiltUnwatched, Switches
<1>4. CASE Rebuild
  BY <1>4 DEF Rebuild, Runs, Rebooted, WarmReload, HardReset, MarkedHardReset, MemoryBudget,
     PlannedReboot, flags, Builds, BuiltUnwatched, Switches
<1>5. CASE RebuildAfterConnackTimeout
  BY <1>5 DEF RebuildAfterConnackTimeout, Runs, Rebooted, WarmReload, HardReset,
     MarkedHardReset, MemoryBudget, PlannedReboot, flags, Builds, BuiltUnwatched, Switches
<1>6. CASE Attempt
  BY <1>6, AttemptSwitches
<1>7. CASE SessionFails
  BY <1>7 DEF SessionFails, Runs, Rebooted, WarmReload, HardReset, MarkedHardReset, Ladder,
     flags, Builds, BuiltUnwatched, Switches
<1>8. CASE SocketPoisoned
  BY <1>8 DEF SocketPoisoned, HardReset, Rebooted, flags, Builds, BuiltUnwatched, Switches
<1>9. CASE Checkpoint
  BY <1>9 DEF Checkpoint, flags, Builds, BuiltUnwatched, Switches
<1>10. CASE PassEnds
  BY <1>10 DEF PassEnds, flags, Builds, BuiltUnwatched, Switches
<1> QED
  BY <1>1, <1>2, <1>3, <1>4, <1>5, <1>6, <1>7, <1>8, <1>9, <1>10 DEF Loop,
     Session

LEMMA NextSwitches ==
  ASSUME Switches, [Next]_vars PROVE Switches'
<1>1. CASE Loop
  BY <1>1, LoopSwitches
<1>2. CASE BootPy
  BY <1>2 DEF BootPy, flags, Builds, BuiltUnwatched, Switches
<1>3. CASE Start
  BY <1>3 DEF Start, flags, Builds, BuiltUnwatched, Switches
<1>4. CASE SafeModePy
  BY <1>4 DEF SafeModePy, flags, Builds, BuiltUnwatched, Switches
<1>5. CASE HardFault
  BY <1>5 DEF HardFault, Faulted, flags, Builds, BuiltUnwatched, Switches
<1>6. CASE SafeModeEntered
  BY <1>6 DEF SafeModeEntered, Faulted, flags, Builds, BuiltUnwatched, Switches
<1>7. CASE PowerCycle
  BY <1>7 DEF PowerCycle, flags, Builds, BuiltUnwatched, Switches
<1>8. CASE LinkLost
  BY <1>8 DEF LinkLost, flags, Builds, BuiltUnwatched, Switches
<1>9. CASE LinkBack
  BY <1>9 DEF LinkBack, flags, Builds, BuiltUnwatched, Switches
<1>10. CASE Tick
  BY <1>10 DEF Tick, flags, Builds, BuiltUnwatched, Switches
<1>11. CASE UNCHANGED vars
  BY <1>11 DEF vars, flags, Builds, BuiltUnwatched, Switches
<1> QED
  BY <1>1, <1>2, <1>3, <1>4, <1>5, <1>6, <1>7, <1>8, <1>9, <1>10, <1>11 DEF
     Next, Firmware, Environment

LEMMA SettledPositive == Settled \in Nat /\ OutageCap \in Nat
BY LadderAssumption DEF Settled

(* Every way out of a handler is quick.                                    *)
LEMMA OutClocks ==
  ASSUME NEW w, NEW next, NEW built, NEW r
  PROVE  /\ Runs(next) => up' = up /\ outage' = outage
         /\ HardReset(r) => up' = up /\ outage' = 0
         /\ MarkedHardReset(r) => up' = up /\ outage' = 0
         /\ PlannedReboot(r) => up' = up /\ outage' = 0
         /\ BudgetReboot => up' = up /\ outage' = 0
         /\ Budget(w, next) => up' = up /\ outage' \in {0, outage}
         /\ MemoryBudget(built, next) => up' = up /\ outage' \in {0, outage}
BY DEF Budget, BudgetReboot, MemoryBudget, PlannedReboot, WarmReload, HardReset,
   MarkedHardReset, Rebooted, Runs, observed

LEMMA AttemptClocks ==
  ASSUME Clocks, faults' = faults, Attempt PROVE Clocks'
<1>1. CASE BuildFails
  <2>1. MemoryBudget(FALSE, "top")
    BY <1>1 DEF BuildFails
  <2>2. up' = up /\ outage' \in {0, outage}
    BY <2>1, OutClocks
  <2> QED BY <2>2, SettledPositive DEF Clocks
<1>2. CASE Connect
  BY <1>2, SettledPositive, OutClocks DEF Connect, observed, StageStationReset, Clocks
<1>3. CASE ProbePasses
  BY <1>3, SettledPositive, OutClocks DEF ProbePasses, observed, Clocks
<1>4. CASE FirstConnackTimeout
  BY <1>4, SettledPositive, OutClocks DEF FirstConnackTimeout, observed, ProbeFails, Clocks
<1>5. CASE ConnackTimeout
  BY <1>5, SettledPositive, OutClocks DEF ConnackTimeout, observed, ProbeFails, Clocks
<1>6. CASE SocketProgress
  <2>1. \/ BudgetReboot
        \/ \E w : Budget(w, "top")
        \/ Runs("handshake")
    BY <1>6 DEF SocketProgress, ProbeFails
  <2>2. up' = up /\ outage' \in {0, outage}
    BY <2>1, OutClocks
  <2> QED BY <2>2, SettledPositive DEF Clocks
<1>7. CASE ConnectOk
  BY <1>7, SettledPositive, OutClocks DEF ConnectOk, observed, Clocks
<1>8. CASE ConnectFailsPlainly
  BY <1>8, SettledPositive, OutClocks DEF ConnectFailsPlainly, observed, Clocks
<1>9. CASE ConnectTimesOut
  BY <1>9, SettledPositive, OutClocks DEF ConnectTimesOut, observed, StageStationReset,
     Clocks
<1>10. CASE ConnectFailsForMemory
  BY <1>10, SettledPositive, OutClocks DEF ConnectFailsForMemory, observed, Ladder,
     WarmReload, Rebooted, Clocks
<1> QED
  BY <1>1, <1>2, <1>3, <1>4, <1>5, <1>6, <1>7, <1>8, <1>9, <1>10 DEF Attempt

LEMMA LoopClocks ==
  ASSUME Clocks, faults' = faults, Loop PROVE Clocks'
<1>1. CASE Top
  BY <1>1, SettledPositive, OutClocks DEF Top, observed, TimeoutReboot, Clocks
<1>2. CASE WifiAfterReadyFails
  BY <1>2, SettledPositive, OutClocks DEF WifiAfterReadyFails, observed, Clocks
<1>3. CASE RebuildHeld
  BY <1>3, SettledPositive, OutClocks DEF RebuildHeld, observed, Clocks
<1>4. CASE Rebuild
  BY <1>4, SettledPositive, OutClocks DEF Rebuild, observed, Clocks
<1>5. CASE RebuildAfterConnackTimeout
  BY <1>5, SettledPositive, OutClocks DEF RebuildAfterConnackTimeout, observed, Clocks
<1>6. CASE Attempt
  BY <1>6, AttemptClocks
<1>7. CASE SessionFails
  BY <1>7, SettledPositive, OutClocks DEF SessionFails, observed, Ladder, WarmReload,
     Rebooted, Clocks
<1>8. CASE SocketPoisoned
  BY <1>8, SettledPositive, OutClocks DEF SocketPoisoned, observed, Clocks
<1>9. CASE Checkpoint
  BY <1>9, SettledPositive, OutClocks DEF Checkpoint, observed, Clocks
<1>10. CASE PassEnds
  BY <1>10, SettledPositive, OutClocks DEF PassEnds, observed, Clocks
<1> QED
  BY <1>1, <1>2, <1>3, <1>4, <1>5, <1>6, <1>7, <1>8, <1>9, <1>10 DEF Loop,
     Session

LEMMA NextClocks ==
  ASSUME Clocks, faults' = faults, [Next]_vars PROVE Clocks'
<1>1. CASE Loop
  BY <1>1, LoopClocks
<1>2. CASE BootPy
  BY <1>2, SettledPositive, OutClocks DEF BootPy, observed, Clocks
<1>3. CASE Start
  BY <1>3, SettledPositive, OutClocks DEF Start, observed, Clocks
<1>4. CASE SafeModePy
  BY <1>4, SettledPositive, OutClocks DEF SafeModePy, observed, Clocks
<1>5. CASE HardFault
  BY <1>5, SettledPositive, OutClocks DEF HardFault, observed, Faulted, Clocks
<1>6. CASE SafeModeEntered
  BY <1>6, SettledPositive, OutClocks DEF SafeModeEntered, observed, Faulted, Clocks
<1>7. CASE PowerCycle
  BY <1>7, SettledPositive, OutClocks DEF PowerCycle, observed, Clocks
<1>8. CASE LinkLost
  BY <1>8, SettledPositive, OutClocks DEF LinkLost, observed, Clocks
<1>9. CASE LinkBack
  BY <1>9, SettledPositive, OutClocks DEF LinkBack, observed, Clocks
<1>10. CASE Tick
  BY <1>10, SettledPositive, OutClocks DEF Tick, observed, Older, Atmost, None, Clocks
<1>11. CASE UNCHANGED vars
  BY <1>11, SettledPositive, OutClocks DEF vars, observed, Clocks
<1> QED
  BY <1>1, <1>2, <1>3, <1>4, <1>5, <1>6, <1>7, <1>8, <1>9, <1>10, <1>11 DEF
     Next, Firmware, Environment
-----------------------------------------------------------------------------
(* The failure windows and the recovery phase.                             *)
WindowsTyped ==
  /\ fails \in Windows(FastCount, Long)
  /\ memory \in Windows(MemoryCount, MemoryWait)
  /\ subs \in Windows(WarmCount, Gate)
  /\ fails.count > 0 => fails.age # None   \* a counted failure has a date
PhaseTyped == phase \in Phases

LEMMA CountedTyped ==
  ASSUME NEW most \in Nat, NEW oldest \in Nat, NEW w \in Windows(most, oldest)
  PROVE  /\ Counted(w, most) \in Windows(most, oldest)
         /\ Counted(w, most).age # None
         /\ Aged(w, oldest) \in Windows(most, oldest)
         /\ Closed \in Windows(most, oldest)
<1>1. /\ w.count \in 0..most /\ w.age \in None..oldest
      /\ w = [count |-> w.count, age |-> w.age]
  BY DEF Windows
<1>2. Counted(w, most) \in Windows(most, oldest) /\ Counted(w, most).age # None
  BY <1>1 DEF Counted, Windows, Atmost, None
<1>3. Older(w.age, oldest) \in None..oldest
  BY <1>1 DEF Older, Atmost, None
<1>4. Aged(w, oldest) = [count |-> w.count, age |-> Older(w.age, oldest)]
  BY <1>1 DEF Aged
<1>5. Closed \in Windows(most, oldest)
  BY DEF Closed, Windows, None
<1> QED BY <1>1, <1>2, <1>3, <1>4, <1>5 DEF Windows

LEMMA Limits ==
  /\ FastCount \in Nat /\ MemoryCount \in Nat /\ WarmCount \in Nat
  /\ Long \in Nat /\ MemoryWait \in Nat /\ Gate \in Nat /\ RebuildEvery \in Nat
  /\ Gate <= Long /\ 1 < FastCount /\ FastCount <= WarmCount
BY LadderAssumption

(* Whatever a handler makes of a window.                                   *)
LEMMA WindowsStep ==
  ASSUME WindowsTyped,
         fails' \in {fails, Closed, Counted(fails, FastCount),
                     Counted(Counted(fails, FastCount), FastCount), Aged(fails, Long)},
         memory' \in {memory, Closed, Counted(memory, MemoryCount),
                      Counted(Closed, MemoryCount), Aged(memory, MemoryWait)},
         subs' \in {subs, Closed, Counted(subs, WarmCount), Aged(subs, Gate)}
  PROVE  WindowsTyped'
<1>1. fails' \in Windows(FastCount, Long)
  <2>1. \A w \in Windows(FastCount, Long) :
          /\ Counted(w, FastCount) \in Windows(FastCount, Long)
          /\ Aged(w, Long) \in Windows(FastCount, Long)
          /\ Closed \in Windows(FastCount, Long)
    BY Limits, CountedTyped
  <2> QED BY <2>1 DEF WindowsTyped
<1>2. memory' \in Windows(MemoryCount, MemoryWait)
  <2>1. \A w \in Windows(MemoryCount, MemoryWait) :
          /\ Counted(w, MemoryCount) \in Windows(MemoryCount, MemoryWait)
          /\ Aged(w, MemoryWait) \in Windows(MemoryCount, MemoryWait)
          /\ Closed \in Windows(MemoryCount, MemoryWait)
    BY Limits, CountedTyped
  <2> QED BY <2>1 DEF WindowsTyped
<1>3. subs' \in Windows(WarmCount, Gate)
  <2>1. \A w \in Windows(WarmCount, Gate) :
          /\ Counted(w, WarmCount) \in Windows(WarmCount, Gate)
          /\ Aged(w, Gate) \in Windows(WarmCount, Gate)
          /\ Closed \in Windows(WarmCount, Gate)
    BY Limits, CountedTyped
  <2> QED BY <2>1 DEF WindowsTyped
<1>4. fails'.count > 0 => fails'.age # None
  <2>1. /\ fails \in Windows(FastCount, Long)
        /\ Counted(fails, FastCount) \in Windows(FastCount, Long)
    BY Limits, CountedTyped DEF WindowsTyped
  <2>2. /\ Counted(fails, FastCount).age # None
        /\ Counted(Counted(fails, FastCount), FastCount).age # None
    BY <2>1, Limits, CountedTyped
  <2>3. Aged(fails, Long).count = fails.count
        /\ (fails.age # None => Aged(fails, Long).age # None)
    BY <2>1, Limits DEF Aged, Older, Atmost, Windows, None
  <2>4. CASE fails' \in {fails, Closed}
    BY <2>4 DEF WindowsTyped, Closed
  <2>5. CASE fails' \in {Counted(fails, FastCount), Counted(Counted(fails, FastCount), FastCount)}
    BY <2>2, <2>5
  <2>6. CASE fails' = Aged(fails, Long)
    BY <2>3, <2>6 DEF WindowsTyped
  <2> QED BY <2>4, <2>5, <2>6
<1> QED BY <1>1, <1>2, <1>3, <1>4 DEF WindowsTyped

LEMMA AttemptWindows ==
  ASSUME WindowsTyped, Attempt PROVE WindowsTyped'
<1>1. CASE BuildFails
  BY <1>1, WindowsStep DEF BuildFails, windows, WindowAfter
<1>2. CASE Connect
  BY <1>2, WindowsStep DEF Connect, windows, WindowAfter, StageStationReset
<1>3. CASE ProbePasses
  BY <1>3, WindowsStep DEF ProbePasses, windows, WindowAfter
<1>4. CASE FirstConnackTimeout
  BY <1>4, WindowsStep DEF FirstConnackTimeout, windows, WindowAfter, ProbeFails
<1>5. CASE ConnackTimeout
  BY <1>5, WindowsStep DEF ConnackTimeout, windows, WindowAfter, ProbeFails
<1>6. CASE SocketProgress
  BY <1>6, WindowsStep DEF SocketProgress, windows, WindowAfter, ProbeFails
<1>7. CASE ConnectOk
  BY <1>7, WindowsStep DEF ConnectOk, windows, WindowAfter
<1>8. CASE ConnectFailsPlainly
  BY <1>8, WindowsStep DEF ConnectFailsPlainly, windows, WindowAfter
<1>9. CASE ConnectTimesOut
  BY <1>9, WindowsStep DEF ConnectTimesOut, windows, WindowAfter, StageStationReset
<1>10. CASE ConnectFailsForMemory
  BY <1>10, WindowsStep DEF ConnectFailsForMemory, windows, WindowAfter, Ladder
<1> QED
  BY <1>1, <1>2, <1>3, <1>4, <1>5, <1>6, <1>7, <1>8, <1>9, <1>10 DEF Attempt

LEMMA LoopWindows ==
  ASSUME WindowsTyped, Loop PROVE WindowsTyped'
<1>1. CASE Top
  BY <1>1, WindowsStep DEF Top, windows, WindowAfter
<1>2. CASE WifiAfterReadyFails
  BY <1>2, WindowsStep DEF WifiAfterReadyFails, windows, WindowAfter
<1>3. CASE RebuildHeld
  BY <1>3, WindowsStep DEF RebuildHeld, windows, WindowAfter
<1>4. CASE Rebuild
  BY <1>4, WindowsStep DEF Rebuild, windows, WindowAfter
<1>5. CASE RebuildAfterConnackTimeout
  BY <1>5, WindowsStep DEF RebuildAfterConnackTimeout, windows, WindowAfter
<1>6. CASE Attempt
  BY <1>6, AttemptWindows
<1>7. CASE SessionFails
  BY <1>7, WindowsStep DEF SessionFails, windows, WindowAfter, Ladder
<1>8. CASE SocketPoisoned
  BY <1>8, WindowsStep DEF SocketPoisoned, windows, WindowAfter
<1>9. CASE Checkpoint
  BY <1>9, WindowsStep DEF Checkpoint, windows, WindowAfter
<1>10. CASE PassEnds
  BY <1>10, WindowsStep DEF PassEnds, windows, WindowAfter
<1> QED
  BY <1>1, <1>2, <1>3, <1>4, <1>5, <1>6, <1>7, <1>8, <1>9, <1>10 DEF Loop,
     Session

LEMMA NextWindows ==
  ASSUME WindowsTyped, [Next]_vars PROVE WindowsTyped'
<1>1. CASE Loop
  BY <1>1, LoopWindows
<1>2. CASE BootPy
  BY <1>2, WindowsStep DEF BootPy, windows, WindowAfter
<1>3. CASE Start
  BY <1>3, WindowsStep DEF Start, windows, WindowAfter
<1>4. CASE SafeModePy
  BY <1>4, WindowsStep DEF SafeModePy, windows, WindowAfter
<1>5. CASE HardFault
  BY <1>5, WindowsStep DEF HardFault, windows, WindowAfter, Faulted
<1>6. CASE SafeModeEntered
  BY <1>6, WindowsStep DEF SafeModeEntered, windows, WindowAfter, Faulted
<1>7. CASE PowerCycle
  BY <1>7, WindowsStep DEF PowerCycle, windows, WindowAfter
<1>8. CASE LinkLost
  BY <1>8, WindowsStep DEF LinkLost, windows, WindowAfter
<1>9. CASE LinkBack
  BY <1>9, WindowsStep DEF LinkBack, windows, WindowAfter
<1>10. CASE Tick
  BY <1>10, WindowsStep DEF Tick, windows, WindowAfter
<1>11. CASE UNCHANGED vars
  BY <1>11, WindowsStep DEF vars, windows, WindowAfter
<1> QED
  BY <1>1, <1>2, <1>3, <1>4, <1>5, <1>6, <1>7, <1>8, <1>9, <1>10, <1>11 DEF
     Next, Firmware, Environment

LEMMA PhasesTyped ==
  ASSUME PhaseTyped, WindowsTyped
  PROVE  /\ Advanced \in Phases /\ PhaseOfLadder \in Phases
         /\ Idle \in Phases /\ Started("ap") \in Phases
         /\ \A w \in Windows(FastCount, Long) : PhaseOfWindow(w) \in Phases
         /\ [phase EXCEPT !.age = Older(@, Long),
                           !.rebuild = Older(@, RebuildEvery)] \in Phases
<1>1. Idle \in Phases /\ \A n \in {"ap", "wifi", "mqtt"} : Started(n) \in Phases
  BY Limits DEF Idle, Started, Phases, None
<1>2. \A n \in {"ap", "wifi", "mqtt"} : Ensured(n) \in Phases
  BY <1>1 DEF Ensured, PhaseTyped
<1>3. \A p \in Phases : [p EXCEPT !.rebuild = 0] \in Phases
  BY Limits DEF Phases, None
<1>4. Advanced \in Phases /\ PhaseOfLadder \in Phases
  BY <1>1, <1>2, <1>3 DEF Advanced, PhaseOfLadder
<1>5. \A w \in Windows(FastCount, Long) : PhaseOfWindow(w) \in Phases
  BY Limits DEF PhaseOfWindow, Phases, Windows, None
<1>6. [phase EXCEPT !.age = Older(@, Long), !.rebuild = Older(@, RebuildEvery)] \in Phases
  <2>1. /\ phase = [name |-> phase.name, age |-> phase.age, rebuild |-> phase.rebuild]
        /\ phase.name \in {"idle", "ap", "wifi", "mqtt"}
        /\ phase.age \in None..Long /\ phase.rebuild \in None..RebuildEvery
    BY DEF PhaseTyped, Phases
  <2>2. /\ Older(phase.age, Long) \in None..Long
        /\ Older(phase.rebuild, RebuildEvery) \in None..RebuildEvery
    BY <2>1, Limits DEF Older, Atmost, None
  <2>3. \A a \in None..Long, b \in None..RebuildEvery :
          [phase EXCEPT !.age = a, !.rebuild = b] \in Phases
    BY DEF PhaseTyped, Phases
  <2> QED BY <2>2, <2>3
<1> QED BY <1>1, <1>4, <1>5, <1>6

LEMMA CountedFails ==
  ASSUME WindowsTyped
  PROVE  /\ Counted(fails, FastCount) \in Windows(FastCount, Long)
         /\ Counted(Counted(fails, FastCount), FastCount) \in Windows(FastCount, Long)
BY Limits, CountedTyped DEF WindowsTyped

LEMMA AttemptPhase ==
  ASSUME PhaseTyped, WindowsTyped, Attempt PROVE PhaseTyped'
<1>1. CASE BuildFails
  BY <1>1, PhasesTyped, CountedFails DEF BuildFails, PhaseTyped
<1>2. CASE Connect
  BY <1>2, PhasesTyped, CountedFails DEF Connect, PhaseTyped
<1>3. CASE ProbePasses
  BY <1>3, PhasesTyped, CountedFails DEF ProbePasses, PhaseTyped
<1>4. CASE FirstConnackTimeout
  BY <1>4, PhasesTyped, CountedFails DEF FirstConnackTimeout, ProbeFails, PhaseTyped
<1>5. CASE ConnackTimeout
  BY <1>5, PhasesTyped, CountedFails DEF ConnackTimeout, ProbeFails, PhaseTyped
<1>6. CASE SocketProgress
  BY <1>6, PhasesTyped, CountedFails DEF SocketProgress, ProbeFails, PhaseTyped
<1>7. CASE ConnectOk
  BY <1>7, PhasesTyped, CountedFails DEF ConnectOk, PhaseTyped
<1>8. CASE ConnectFailsPlainly
  BY <1>8, PhasesTyped, CountedFails DEF ConnectFailsPlainly, PhaseTyped
<1>9. CASE ConnectTimesOut
  BY <1>9, PhasesTyped, CountedFails DEF ConnectTimesOut, PhaseTyped
<1>10. CASE ConnectFailsForMemory
  BY <1>10, PhasesTyped, CountedFails DEF ConnectFailsForMemory, Ladder, PhaseTyped
<1> QED
  BY <1>1, <1>2, <1>3, <1>4, <1>5, <1>6, <1>7, <1>8, <1>9, <1>10 DEF Attempt

LEMMA LoopPhase ==
  ASSUME PhaseTyped, WindowsTyped, Loop PROVE PhaseTyped'
<1>1. CASE Top
  BY <1>1, PhasesTyped, CountedFails DEF Top, PhaseTyped
<1>2. CASE WifiAfterReadyFails
  BY <1>2, PhasesTyped, CountedFails DEF WifiAfterReadyFails, PhaseTyped
<1>3. CASE RebuildHeld
  BY <1>3, PhasesTyped, CountedFails DEF RebuildHeld, PhaseTyped
<1>4. CASE Rebuild
  BY <1>4, PhasesTyped, CountedFails DEF Rebuild, PhaseTyped
<1>5. CASE RebuildAfterConnackTimeout
  BY <1>5, PhasesTyped, CountedFails DEF RebuildAfterConnackTimeout, PhaseTyped
<1>6. CASE Attempt
  BY <1>6, AttemptPhase
<1>7. CASE SessionFails
  BY <1>7, PhasesTyped, CountedFails DEF SessionFails, Ladder, PhaseTyped
<1>8. CASE SocketPoisoned
  BY <1>8, PhasesTyped, CountedFails DEF SocketPoisoned, PhaseTyped
<1>9. CASE Checkpoint
  BY <1>9, PhasesTyped, CountedFails DEF Checkpoint, PhaseTyped
<1>10. CASE PassEnds
  BY <1>10, PhasesTyped, CountedFails DEF PassEnds, PhaseTyped
<1> QED
  BY <1>1, <1>2, <1>3, <1>4, <1>5, <1>6, <1>7, <1>8, <1>9, <1>10 DEF Loop,
     Session

LEMMA NextPhase ==
  ASSUME PhaseTyped, WindowsTyped, [Next]_vars PROVE PhaseTyped'
<1>1. CASE Loop
  BY <1>1, LoopPhase
<1>2. CASE BootPy
  BY <1>2, PhasesTyped, CountedFails DEF BootPy, PhaseTyped
<1>3. CASE Start
  BY <1>3, PhasesTyped, CountedFails DEF Start, PhaseTyped
<1>4. CASE SafeModePy
  BY <1>4, PhasesTyped, CountedFails DEF SafeModePy, PhaseTyped
<1>5. CASE HardFault
  BY <1>5, PhasesTyped, CountedFails DEF HardFault, Faulted, PhaseTyped
<1>6. CASE SafeModeEntered
  BY <1>6, PhasesTyped, CountedFails DEF SafeModeEntered, Faulted, PhaseTyped
<1>7. CASE PowerCycle
  BY <1>7, PhasesTyped, CountedFails DEF PowerCycle, PhaseTyped
<1>8. CASE LinkLost
  BY <1>8, PhasesTyped, CountedFails DEF LinkLost, PhaseTyped
<1>9. CASE LinkBack
  BY <1>9, PhasesTyped, CountedFails DEF LinkBack, PhaseTyped
<1>10. CASE Tick
  BY <1>10, PhasesTyped, CountedFails DEF Tick, PhaseTyped
<1>11. CASE UNCHANGED vars
  BY <1>11, PhasesTyped, CountedFails DEF vars, PhaseTyped
<1> QED
  BY <1>1, <1>2, <1>3, <1>4, <1>5, <1>6, <1>7, <1>8, <1>9, <1>10, <1>11 DEF
     Next, Firmware, Environment
-----------------------------------------------------------------------------
(* Every way out of a handler restarts the device or leaves the ladder as  *)
(* it is.                                                                  *)
UsedUp == nvm.warm = MaxWarm /\ nvm.hard

LEMMA OutModes ==
  ASSUME NEW w, NEW next, NEW built, NEW r
  PROVE  /\ Runs(next) => mode' = mode /\ nvm' = nvm /\ pc' = next
         /\ WarmReload(r) => mode' # "running"
         /\ HardReset(r) => mode' # "running"
         /\ MarkedHardReset(r) => mode' # "running"
         /\ PlannedReboot(r) => mode' # "running"
         /\ BudgetReboot => mode' # "running"
         /\ Budget(w, next) =>
              mode' # "running"
                \/ (mode' = mode /\ nvm' = nvm /\ pc' = next /\ ~BudgetReboots(w))
         /\ MemoryBudget(built, next) =>
              mode' # "running" \/ (mode' = mode /\ nvm' = nvm /\ pc' = next)
BY DEF Budget, BudgetReboot, MemoryBudget, PlannedReboot, WarmReload, HardReset,
   MarkedHardReset, Rebooted, Runs

LEMMA RunsOn ==
  ASSUME NEW next, Runs(next) PROVE mode' = mode /\ nvm' = nvm /\ pc' = next
BY DEF Runs

LEMMA MemoryOut ==
  ASSUME NEW built, NEW next, MemoryBudget(built, next)
  PROVE  mode' # "running" \/ (mode' = mode /\ nvm' = nvm /\ pc' = next)
BY OutModes

LEMMA RebootsOut ==
  ASSUME NEW r
  PROVE  WarmReload(r) \/ HardReset(r) \/ MarkedHardReset(r) \/ PlannedReboot(r)
           => mode' # "running"
BY OutModes

(* A full window that the budget lets go on finds the ladder used up.      *)
LEMMA GoesOn ==
  ASSUME nvm \in Marks, NEW w, w.age # None, w.count >= FastCount, ~BudgetReboots(w)
  PROVE  UsedUp
<1>1. ~WarmLeft /\ Suppressed(w)
  BY DEF BudgetReboots, Tripped
<1>2. nvm.warm \in 0..MaxWarm /\ MaxWarm \in Nat
  BY Bounds DEF Marks
<1> QED BY <1>1, <1>2 DEF WarmLeft, Suppressed, UsedUp

Overdue == Attempting /\ fails.count >= FastCount

LEMMA UsedUpStep ==
  ASSUME LadderUsedUp,
         mode' = "running" =>
           /\ mode = "running" /\ nvm'.warm = nvm.warm /\ nvm'.hard = nvm.hard
           /\ Overdue' => Overdue \/ UsedUp
           /\ subs'.count >= WarmCount => subs.count >= WarmCount \/ UsedUp
  PROVE  LadderUsedUp'
BY DEF LadderUsedUp, UsedUp, Overdue

(* The count of a window that is closed, counted or aged.                  *)
LEMMA CountsOf ==
  ASSUME WindowsTyped
  PROVE  /\ Closed.count = 0
         /\ Counted(fails, FastCount).age # None
         /\ Counted(Counted(fails, FastCount), FastCount).age # None
         /\ fails.count = 0 => Counted(fails, FastCount).count < FastCount
         /\ Counted(subs, WarmCount).age # None
         /\ Aged(fails, Long).count = fails.count
         /\ Aged(subs, Gate).count = subs.count
         /\ fails.count \in Nat /\ subs.count \in Nat
<1>1. /\ fails \in Windows(FastCount, Long) /\ subs \in Windows(WarmCount, Gate)
      /\ Counted(fails, FastCount) \in Windows(FastCount, Long)
  BY CountedFails DEF WindowsTyped
<1>2. /\ Counted(fails, FastCount).age # None
      /\ Counted(Counted(fails, FastCount), FastCount).age # None
      /\ Counted(subs, WarmCount).age # None
  BY <1>1, Limits, CountedTyped
<1>3. fails.count = 0 => Counted(fails, FastCount).count < FastCount
  BY Limits DEF Counted, Atmost
<1>4. /\ Aged(fails, Long).count = fails.count /\ Aged(subs, Gate).count = subs.count
      /\ fails.count \in Nat /\ subs.count \in Nat
  BY <1>1 DEF Aged, Windows
<1>5. Closed.count = 0
  BY DEF Closed
<1> QED BY <1>2, <1>3, <1>4, <1>5

LEMMA LadderGoesOn ==
  ASSUME nvm \in Marks, WindowsTyped, LadderUsedUp, mode = "running", Ladder
  PROVE  LadderUsedUp'
<1> DEFINE w == Counted(subs, WarmCount)
<1>1. subs' = w /\ fails' = fails /\ w.age # None
  BY CountsOf DEF Ladder
<1>2. CASE LadderReboots(w)
  <2>1. mode' # "running"
    BY <1>2, OutModes DEF Ladder
  <2> QED BY <2>1, UsedUpStep
<1>3. CASE ~LadderReboots(w)
  <2>1. mode' = mode /\ nvm' = nvm /\ ~Overdue'
    BY <1>3, OutModes DEF Ladder, Overdue, Attempting
  <2>2. w.count >= WarmCount => ~BudgetReboots(w) /\ w.count >= FastCount
    <3>1. w.count \in Nat
      BY Limits, CountedTyped DEF WindowsTyped, Windows
    <3> QED BY <1>3, <3>1, Limits DEF LadderReboots
  <2>3. w.count >= WarmCount => UsedUp
    BY <1>1, <2>2, GoesOn
  <2> QED BY <1>1, <2>1, <2>3, UsedUpStep
<1> QED BY <1>2, <1>3

LEMMA AttemptUsedUp ==
  ASSUME nvm \in Marks, WindowsTyped, LadderUsedUp, Attempt PROVE LadderUsedUp'
<1> DEFINE once == Counted(fails, FastCount)
           twice == Counted(once, FastCount)
<1>1. mode = "running"
  BY DEF Attempt, BuildFails, Connect, ProbePasses, FirstConnackTimeout, ConnackTimeout,
     SocketProgress, ConnectOk, ConnectFailsPlainly, ConnectTimesOut, ConnectFailsForMemory,
     InHandshake, At
<1>2. CASE ConnectFailsForMemory
  BY <1>1, <1>2, LadderGoesOn DEF ConnectFailsForMemory
<1>3. CASE ~ConnectFailsForMemory
  <2>1. subs' = subs
    BY <1>3 DEF Attempt, BuildFails, Connect, ProbePasses, FirstConnackTimeout,
       ConnackTimeout, SocketProgress, ConnectOk, ConnectFailsPlainly, ConnectTimesOut,
       windows
  <2>2. /\ once.age # None /\ twice.age # None /\ Closed.count = 0
        /\ (fails.count = 0 => once.count < FastCount)
        /\ once.count \in Nat /\ FastCount \in Nat /\ FastCount > 1
    <3>1. once.count \in Nat
      BY CountedFails DEF Windows
    <3> QED BY <3>1, CountsOf, Limits
  <2> HIDE DEF once, twice
  <2>3. ASSUME NEW w, NEW next, Budget(w, next)
        PROVE  mode' # "running"
                 \/ (mode' = mode /\ nvm' = nvm /\ pc' = next /\ ~BudgetReboots(w))
    BY <2>3, OutModes
  <2>4. ASSUME ~BudgetReboots(once), once.count >= FastCount PROVE UsedUp
    BY <2>2, <2>4, GoesOn
  <2>5. mode' = "running" =>
          /\ mode' = mode /\ nvm' = nvm
          /\ (Overdue' => Overdue \/ UsedUp)
    <3> USE DEF Overdue, Attempting
    <3>1. CASE BuildFails
      <4>1. \/ PlannedReboot("mqtt_memory_allocation_failures")
            \/ Runs("top")
        BY <3>1 DEF BuildFails, MemoryBudget
      <4> QED BY <4>1, RunsOn, RebootsOut
    <3>2. CASE Connect
      <4>1. CASE StageStationReset
        BY <4>1, OutModes DEF StageStationReset
      <4>2. CASE Budget(fails, "probe") /\ fails' = fails
        <5>1. ASSUME fails.count >= FastCount, ~BudgetReboots(fails) PROVE UsedUp
          BY <2>2, <5>1, GoesOn DEF WindowsTyped, Windows
        <5> QED BY <2>3, <4>2, <5>1
      <4> QED BY <3>2, <4>1, <4>2 DEF Connect
    <3>3. CASE ProbePasses
      BY <3>3, OutModes DEF ProbePasses, windows, At
    <3>4. CASE FirstConnackTimeout
      <4>1. CASE fails' = twice /\ Budget(twice, "top")
        BY <2>3, <4>1
      <4>2. CASE fails' = once /\ fails.count = 0 /\ Runs("retried")
        BY <2>2, <4>2, RunsOn
      <4> QED
        BY <3>4, <4>1, <4>2 DEF FirstConnackTimeout, ProbeFails, once, twice
    <3>5. CASE ConnackTimeout
      <4>1. fails' = once /\ Budget(once, "top")
        BY <3>5 DEF ConnackTimeout, ProbeFails, once
      <4> QED BY <2>3, <4>1
    <3>6. CASE SocketProgress
      <4>1. CASE BudgetReboot
        BY <4>1, OutModes
      <4>2. CASE ~BudgetReboots(once) /\ fails' = twice /\ Budget(twice, "top")
        BY <2>3, <4>2
      <4>3. CASE ~BudgetReboots(once) /\ fails' = once /\ Runs("handshake")
        BY <2>4, <4>3, OutModes
      <4> QED
        BY <3>6, <4>1, <4>2, <4>3 DEF SocketProgress, ProbeFails, once, twice
    <3>7. CASE ConnectOk
      BY <3>7 DEF ConnectOk
    <3>8. CASE ConnectFailsPlainly
      BY <3>8, OutModes DEF ConnectFailsPlainly
    <3>9. CASE ConnectTimesOut
      <4>1. CASE StageStationReset
        BY <4>1, OutModes DEF StageStationReset
      <4>2. CASE \E w : Budget(w, "session")
        BY <2>3, <4>2
      <4>3. CASE Runs("session")
        BY <4>3, RunsOn
      <4> QED BY <3>9, <4>1, <4>2, <4>3 DEF ConnectTimesOut
    <3> QED BY <1>3, <3>1, <3>2, <3>3, <3>4, <3>5, <3>6, <3>7, <3>8, <3>9
            DEF Attempt
  <2> QED BY <1>1, <2>1, <2>5, UsedUpStep
<1> QED BY <1>2, <1>3

LEMMA LoopUsedUp ==
  ASSUME nvm \in Marks, WindowsTyped, LadderUsedUp, Loop PROVE LadderUsedUp'
<1>1. CASE Attempt
  BY <1>1, AttemptUsedUp
<1>2. CASE SessionFails
  BY <1>2, LadderGoesOn DEF SessionFails, At
<1>3. CASE SocketPoisoned
  BY <1>3, OutModes, UsedUpStep DEF SocketPoisoned
<1>4. CASE Checkpoint
  <2>1. fails' = Closed /\ subs' = Closed
    BY <1>4 DEF Checkpoint
  <2>2. Closed.count = 0
    BY DEF Closed
  <2> QED BY <2>1, <2>2, Limits DEF LadderUsedUp
<1>5. CASE PassEnds
  <2>1. /\ nvm' = Housekeeping /\ subs' = subs /\ ~Overdue'
        /\ mode = "running"
    BY <1>5 DEF PassEnds, windows, At, Overdue, Attempting
  <2>2. Housekeeping.warm = nvm.warm /\ Housekeeping.hard = nvm.hard
    BY DEF Housekeeping, Marks
  <2> QED BY <2>1, <2>2, UsedUpStep
<1>6. CASE Top \/ WifiAfterReadyFails \/ RebuildHeld \/ Rebuild
             \/ RebuildAfterConnackTimeout
  <2>1. subs' = subs /\ mode = "running"
    BY <1>6 DEF Top, WifiAfterReadyFails, RebuildHeld, Rebuild, RebuildAfterConnackTimeout,
       windows, At
  <2>2. mode' # "running" \/ (nvm' = nvm /\ ~Overdue')
    <3> USE DEF Overdue, Attempting
    <3>1. CASE Top
      <4>1. CASE TimeoutReboot
        BY <4>1, RebootsOut DEF TimeoutReboot
      <4>2. CASE nvm' = nvm /\ pc' = AfterTop
        BY <4>2 DEF AfterTop
      <4> QED BY <3>1, <4>1, <4>2 DEF Top
    <3>2. CASE WifiAfterReadyFails
      BY <3>2, OutModes DEF WifiAfterReadyFails
    <3>3. CASE RebuildHeld
      <4>1. Runs("connect") \/ Runs("session")
        BY <3>3 DEF RebuildHeld
      <4> QED BY <4>1, OutModes
    <3>4. CASE Rebuild
      <4>1. \E built : MemoryBudget(built, "connect")
        BY <3>4 DEF Rebuild
      <4> QED BY <4>1, OutModes
    <3>5. CASE RebuildAfterConnackTimeout
      <4>1. \/ MarkedHardReset("mqtt_repeated_connect_failures")
            \/ \E built : MemoryBudget(built, "connect")
        BY <3>5 DEF RebuildAfterConnackTimeout
      <4> QED BY <4>1, OutModes
    <3> QED BY <1>6, <3>1, <3>2, <3>3, <3>4, <3>5
  <2> QED BY <2>1, <2>2, UsedUpStep
<1> QED BY <1>1, <1>2, <1>3, <1>4, <1>5, <1>6 DEF Loop, Session

LEMMA NextUsedUp ==
  ASSUME nvm \in Marks, WindowsTyped, LadderUsedUp, [Next]_vars
  PROVE  LadderUsedUp'
<1>1. CASE Loop
  BY <1>1, LoopUsedUp
<1>2. CASE BootPy \/ SafeModePy \/ HardFault \/ SafeModeEntered \/ PowerCycle
  <2>1. mode' # "running"
    BY <1>2 DEF BootPy, SafeModePy, HardFault, SafeModeEntered, PowerCycle, Faulted
  <2> QED BY <2>1, UsedUpStep
<1>3. CASE Start
  <2>1. fails' = Closed /\ subs' = Closed
    BY <1>3 DEF Start
  <2>2. Closed.count = 0
    BY DEF Closed
  <2> QED BY <2>1, <2>2, Limits DEF LadderUsedUp
<1>4. CASE Tick
  <2>1. /\ Overdue' => Overdue
        /\ subs'.count = subs.count /\ nvm' = nvm /\ mode' = mode
    BY <1>4, CountsOf DEF Tick, Overdue, Attempting
  <2> QED BY <2>1, UsedUpStep
<1>5. CASE LinkLost \/ LinkBack \/ UNCHANGED vars
  <2>1. UNCHANGED <<nvm, mode, subs>> /\ (Overdue' => Overdue)
    BY <1>5 DEF LinkLost, LinkBack, vars, windows, Overdue, Attempting
  <2> QED BY <2>1, UsedUpStep
<1> QED BY <1>1, <1>2, <1>3, <1>4, <1>5 DEF Next, Firmware, Environment

-----------------------------------------------------------------------------
(* Everything the ladder keeps.                                            *)
Sound ==
  /\ Inv /\ Modes /\ Switches /\ Clocks /\ WindowsTyped /\ PhaseTyped
  /\ LadderUsedUp

LEMMA SoundInit == ASSUME Init PROVE Sound
<1>1. Modes /\ Switches
  BY DEF Init, Modes, Stages, Switches
<1>2. Clocks
  BY SettledPositive DEF Init, Clocks
<1>3. WindowsTyped
  <2>1. \A most, oldest \in Nat : Closed \in Windows(most, oldest)
    BY DEF Closed, Windows, None
  <2> QED BY <2>1, Limits DEF Init, WindowsTyped, Closed
<1>4. PhaseTyped
  BY Limits DEF Init, PhaseTyped, Idle, Phases, None
<1>5. LadderUsedUp
  BY DEF Init, LadderUsedUp
<1> QED BY <1>1, <1>2, <1>3, <1>4, <1>5, InvInit DEF Sound

LEMMA SoundStep == ASSUME Sound, [Next]_vars PROVE Sound'
<1>1. nvm \in Marks /\ faults' = faults
  BY DEF Sound, Inv, Core, MarksTyped, Next, vars
<1> QED
  BY <1>1, InvStep, NextModes, NextSwitches, NextClocks, NextWindows, NextPhase, NextUsedUp
     DEF Sound

(* Every variable keeps its type; a device that has left the handler of a  *)
(* subscription failure past its threshold, or makes another attempt past  *)
(* the threshold of failed connections, has no warm reload left and its    *)
(* hard reset marked, whichever handler counted the failures; and          *)
(* _recovery_hard_reset_marker_should_suppress, with the age of the window *)
(* it looks at, keeps that end of the ladder from resetting the MCU in a   *)
(* loop.                                                                   *)
THEOREM LadderClimbed == Spec => []LadderSound
<1>1. Init => Sound
  BY SoundInit
<1>2. Sound /\ [Next]_vars => Sound'
  BY SoundStep
<1>3. Sound => LadderSound
  <2> SUFFICES ASSUME Sound PROVE LadderSound
    OBVIOUS
  <2>1. FastResetOnce
    BY DEF Sound, Inv, Core, Counts, FastResetOnce
  <2>2. TypeOK
    <3>1. nvm \in Marks /\ {reloads, fastResets, faultResets, outage} \subseteq Nat
      BY DEF Sound, Inv, Core, MarksTyped, Counts, Clocks
    <3>2. {wifiWasReady, stationReset, stationDone, connackPending, adapter,
           ticked} \subseteq BOOLEAN
      BY DEF Sound, Switches
    <3> QED
      BY <3>1, <3>2 DEF Sound, Modes, Clocks, WindowsTyped, PhaseTyped, TypeOK
  <2> QED BY <2>1, <2>2 DEF Sound, LadderSound
<1> QED BY <1>1, <1>2, <1>3, PTL DEF Spec
=============================================================================
