--------------------------- MODULE CommandIntake ---------------------------
(***************************************************************************)
(* Inbound commands of one device: the light pass of                       *)
(* features/command_intake.py with device_config.py, calibration_*.py and  *)
(* switch_state.py, the heavy pass of command_handlers.py it hands over    *)
(* to, what steady_state.py does with the results, and what the main loop  *)
(* of app.py does with a halt or a restart.                                *)
(*                                                                         *)
(* A pass never yields: what it publishes is queued, and a reset in its    *)
(* middle loses RAM and that queue.  So one command is one step; resets    *)
(* fall between commands.  Running short of memory (a MemoryError or an    *)
(* exhausted Python stack) is caught inside a command and is part of it.   *)
(*                                                                         *)
(* Values are integers; the sensor reads 0 plus the offset at Ph.  A relay *)
(* is the key its LAST_STATE is saved under; in force is the state it has. *)
(* Some settings a config command may write are saved and reported, but no *)
(* code puts them in force before the next start: OnlyStored.              *)
(***************************************************************************)
EXTENDS Integers, Sequences, SequencesExt, FiniteSets

CONSTANTS
  Messages, \* the commands that are sent, any of them more than once
  Kind,     \* config, halt, offset, start, cancel, switch, prepare or logs
  Id,       \* message_id; switch commands are never compared by theirs
  Updates,  \* the updates they carry, <<key, value>> in order
  Restarts, \* those with restart = true
  Bearers,  \* those with the onboarding token
  Keys,     \* settings, Ph and relays
  Durable,  \* those in [Network], [MQTT], [Profile] and [HomeAssistant]
  OnlyStored, \* per pass, those a config command saves and reports, no more
  Ph, Base, Relays, \* the sensor's offset, the base topic, the relays
  Factory, Unknown, Poison,
  Reference,     \* reference_ph of a session
  SampleCount,   \* and the samples it takes
  Limit,         \* handled_message_id_limit
  MaxDeliveries, \* bound: messages that arrive
  MaxFaults,     \* bound: writes that fail, shortages of memory, resets
  NoId, Idle, NoCopies

Kinds == {"config", "halt", "offset", "start", "cancel", "switch", "prepare", "logs"}
Values == Int \cup {Poison}
Update == (Keys \cup {Unknown}) \X Values
Settings == {c \in [Keys -> Values] : c[Ph] \in Int}

ASSUME IntakeAssumption ==
  /\ Kind \in [Messages -> Kinds] /\ Updates \in [Messages -> Seq(Update)]
  /\ Restarts \subseteq Messages /\ Bearers \subseteq Messages
  /\ Durable \subseteq Keys /\ Relays \subseteq Keys \ Durable /\ Ph \in Keys \ (Durable \cup Relays)
  /\ Base \in Durable /\ OnlyStored \in [{"light", "heavy"} -> SUBSET Keys]
  /\ Factory \in Int /\ Reference \in Int /\ Unknown \notin Keys /\ Poison \notin Int
  /\ {SampleCount, Limit} \subseteq Nat \ {0} /\ {MaxDeliveries, MaxFaults} \subseteq Nat
  /\ \A m \in Messages :
       /\ (Kind[m] \in {"switch", "offset"}) => Len(Updates[m]) = 1
       /\ (Kind[m] = "offset") => Updates[m][1][1] = Ph
       /\ (Kind[m] = "switch") => Updates[m][1][1] \in Relays
       /\ (Kind[m] = "config") => (Updates[m] # <<>> \/ m \in Restarts)
       /\ (Kind[m] = "switch") <=> (Id[m] = NoId)
       /\ \A i \in DOMAIN Updates[m] : Updates[m][i] # <<Ph, Poison>>
  /\ NoCopies \notin [current : Settings, last : Settings]

VARIABLES
  \* received_messages, the drained batch, which module works on it and where
  \* in its turn the main loop is; the base topic the subscriptions were made
  \* with, under which the commands arrive
  queue, batch, path, pc, base,
  \* of this pass: ids of the results, what there was of them before the
  \* hand-over, whether one asks for a restart, and how much was published
  ids, before, reboot, published,
  \* runtime_config; the two replaced copies of the heavy pass: the one handed
  \* to the next command and the one of the last result
  live, copies,
  \* flash: the settings, the onboarding token, the OTA state
  disk, token, prepared,
  \* handled_message_ids, the soil pH session, a halt that was accepted
  handled, session, halting,
  \* history: values reported applied; keys a shortage of memory left in
  \* doubt; keys whose reported value is apart from the one in force: offsets
  \* displaced by a later result, settings only stored; for each id answered
  \* in the passes since boot those answered after it; ids executed again too
  \* soon; ids executed in a pass that had answered them; ids that were lost;
  \* commands of this pass without a result
  reported, doubtful, apart, answered, again, twice, forgot, owed,
  deliveries, faults

inbox == <<queue, batch, path, pc, base>>
pass == <<ids, before, reboot, published>>
config == <<live, copies>>
flash == <<disk, token, prepared>>
ram == <<handled, session, halting>>
history == <<reported, doubtful, apart, answered, again, twice, forgot>>
bounds == <<deliveries, faults>>
vars == <<inbox, pass, config, flash, ram, history, owed, bounds>>

KeysOf(us) == {us[i][1] : i \in DOMAIN us}
LastOf(us, k) ==
  us[CHOOSE i \in DOMAIN us :
       us[i][1] = k /\ \A j \in DOMAIN us : us[j][1] = k => j <= i][2]
Put(c, us) == [k \in DOMAIN c |-> IF k \in KeysOf(us) THEN LastOf(us, k) ELSE c[k]]
InForce(c, us) ==
  [k \in DOMAIN c |-> IF k \in KeysOf(us) \ OnlyStored[path] THEN LastOf(us, k) ELSE c[k]]
Newest(s, n) == IF Len(s) <= n THEN s ELSE SubSeq(s, Len(s) - n + 1, Len(s))
Added(s, x) == IF x = NoId \/ x \in ToSet(s) THEN s ELSE Append(s, x)
Noted(s, x) == IF x = NoId THEN s ELSE Append(s, x)
Trouble == faults < MaxFaults /\ faults' = faults + 1
Calm == faults' = faults

(* The ids a command is compared with: those of earlier passes and, in the *)
(* heavy pass only, those of the heavy results before it.                  *)
HeavyIds == IF path = "heavy" THEN ToSet(SubSeq(ids, before.ids + 1, Len(ids))) ELSE {}
Seen == ToSet(handled) \cup HeavyIds
Restarting(m) == m \in Restarts
NeedsRestart == Durable

(* What a command works on: the runtime_config itself or the heavy copy.   *)
Current == IF path = "heavy" THEN copies.current ELSE live
Session(id) == [id |-> id, samples |-> <<>>, moved |-> FALSE]

----------------------------------------------------------------------------
(* Shapes shared by the handlers.                                          *)

(* Topics are compared with those of the configuration in force, which is  *)
(* not the one they were subscribed with once a command set another base.  *)
(* The heavy pass takes any topic of a config command for a relay's.       *)
Heard == Current[Base] = base
AtWork(path_, kinds) ==
  /\ pc = "work" /\ batch # <<>> /\ path = path_ /\ Kind[Head(batch)] \in kinds
  /\ Heard \/ (path = "heavy" /\ Kind[Head(batch)] = "switch")
Command == Head(batch)
Refused(m) == token /\ m \notin Bearers
Duplicate(m) == Id[m] # NoId /\ Id[m] \in Seen
Executable(m) == ~Refused(m) /\ ~Duplicate(m)

(* The command has its result; `n` publishes are queued.                   *)
Answer(m, n) ==
  /\ batch' = Tail(batch) /\ ids' = Noted(ids, Id[m])
  /\ owed' = owed - 1 /\ published' = published + n
  /\ UNCHANGED <<queue, path, pc, base, before, deliveries>>
(* The history: what is answered after what; what is executed though fewer *)
(* than Limit other ids were answered since the pass of its first answer,  *)
(* or though the heavy pass has answered it; and what the pass has.        *)
Behind(s, x) == {s[j] : j \in {j \in DOMAIN s : \E i \in 1..(j - 1) : s[i] = x}} \ {x}
Answers(s) ==
  answered' = [x \in DOMAIN answered \cup ToSet(s) |->
    IF x \in DOMAIN answered THEN (answered[x] \cup ToSet(s)) \ {x} ELSE Behind(s, x)]
TooSoon(m) ==
  Id[m] \in HeavyIds \/ (Id[m] \in DOMAIN answered /\ Cardinality(answered[Id[m]]) < Limit)
Executed(m) ==
  /\ again' = IF TooSoon(m) THEN again \cup {Id[m]} ELSE again
  /\ twice' = IF Id[m] \in ToSet(ids) THEN twice \cup {Id[m]} ELSE twice

(* After a heavy result the copy of that result is the one adopted: where  *)
(* the command before it had another one, its offset is displaced.         *)
Displaced == IF copies.last[Ph] # copies.current[Ph] THEN {Ph} ELSE {}
Keeps ==
  IF path = "light" THEN UNCHANGED <<config, apart>>
  ELSE /\ copies' = [copies EXCEPT !.last = copies.current]
       /\ apart' = apart \cup Displaced /\ UNCHANGED live

(* Values `us` take effect, those that are only stored apart: in place, or *)
(* in a copy the next command gets.                                        *)
Stored(us) == KeysOf(us) \cap OnlyStored[path]
Applies(us) ==
  IF path = "light" THEN
    /\ live' = InForce(live, us) /\ UNCHANGED copies
    /\ apart' = (apart \ KeysOf(us)) \cup Stored(us)
  ELSE
    /\ copies' = [current |-> InForce(copies.current, us), last |-> InForce(copies.current, us)]
    /\ apart' = ((apart \cup Displaced) \ KeysOf(us)) \cup Stored(us) /\ UNCHANGED live
Reports(us) == reported' = Put(reported, us) /\ doubtful' = doubtful \ KeysOf(us)
Moves(us) ==
  session' = IF session # Idle /\ Ph \in KeysOf(us) THEN [session EXCEPT !.moved = TRUE] ELSE session

(* A restart of any kind: RAM and the queues of the transport are lost.    *)
Boot(saved) ==
  /\ disk' = saved /\ live' = saved /\ copies' = NoCopies
  /\ queue' = <<>> /\ batch' = <<>> /\ path' = "light" /\ pc' = "intake" /\ base' = saved[Base]
  /\ ids' = <<>> /\ before' = [ids |-> 0, reboot |-> FALSE] /\ reboot' = FALSE /\ published' = 0
  /\ handled' = <<>> /\ session' = Idle /\ halting' = FALSE /\ prepared' = FALSE
  /\ reported' = [k \in Keys |-> IF k \in Durable THEN reported[k] ELSE saved[k]]
  /\ apart' = {} /\ answered' = <<>> /\ again' = {} /\ twice' = {} /\ forgot' = {} /\ owed' = 0
  /\ UNCHANGED <<token, deliveries>>

----------------------------------------------------------------------------
(* Either pass.                                                            *)

(* Wrong token, a duplicate, an update nobody knows, a session that is or  *)
(* is not running: acknowledged and answered, and nothing changes.         *)
Rejected(m) ==
  \/ Kind[m] = "config" /\ (Refused(m) \/ Duplicate(m))
  \/ Kind[m] = "halt" /\ path = "light" /\ (Refused(m) \/ Duplicate(m))
  \/ Kind[m] \in {"offset", "start", "cancel", "prepare", "logs"} /\ Duplicate(m)
  \/ Kind[m] = "start" /\ session # Idle
  \/ Kind[m] = "cancel" /\ session = Idle
Unwritable(m) ==
  /\ Kind[m] = "config" /\ Updates[m] # <<>>
  /\ IF path = "light" THEN Len(Updates[m]) # 1 \/ Unknown \in KeysOf(Updates[m])
     ELSE KeysOf(Updates[m]) = {Unknown}
Reject ==
  /\ \E path_ \in {"light", "heavy"} : AtWork(path_, Kinds)
  /\ Rejected(Command) \/ Unwritable(Command)
  /\ Answer(Command, 2) /\ Keeps /\ Calm
  /\ UNCHANGED <<reboot, flash, ram, reported, doubtful, answered, again, twice, forgot>>

RestartOnly ==
  /\ \E path_ \in {"light", "heavy"} : AtWork(path_, {"config"})
  /\ Executable(Command) /\ Updates[Command] = <<>>
  /\ reboot' = TRUE
  /\ Answer(Command, 2) /\ Executed(Command) /\ Keeps /\ Calm
  /\ UNCHANGED <<flash, ram, reported, doubtful, answered, forgot>>

(* The session lives on the transport, in either pass.  Short of memory,   *)
(* the light pass may have set it before it answers applied = FALSE.       *)
NextSession == IF Kind[Command] = "start" THEN Session(Id[Command]) ELSE Idle
Controls(path_) ==
  /\ AtWork(path_, {"start", "cancel"}) /\ ~Rejected(Command)
  /\ Answer(Command, 3) /\ Executed(Command) /\ Keeps
  /\ UNCHANGED <<reboot, flash, handled, halting, reported, doubtful, answered, forgot>>
SessionLight ==
  /\ Controls("light")
  /\ \/ session' = NextSession /\ Calm
     \/ session' \in {session, NextSession} /\ Trouble
SessionHeavy == Controls("heavy") /\ session' = NextSession /\ Calm

(* The relay is set and its state recorded in place, then saved; when that *)
(* fails, or memory runs short, the answer still tells what was applied.   *)
Switch ==
  /\ \E path_ \in {"light", "heavy"} : AtWork(path_, {"switch"})
  /\ LET us == Updates[Command]
     IN  \/ /\ \/ disk' = Put(disk, us) /\ Calm
               \/ disk' = disk /\ Trouble
            /\ live' = Put(live, us)
            /\ copies' = IF path = "light" THEN copies
                         ELSE [current |-> Put(copies.current, us), last |-> Put(copies.current, us)]
            /\ Reports(us)
            /\ apart' = (IF path = "light" THEN apart ELSE apart \cup Displaced) \ KeysOf(us)
         \/ Keeps /\ Trouble /\ UNCHANGED <<disk, reported, doubtful>>
  /\ Answer(Command, 3)
  /\ UNCHANGED <<reboot, token, prepared, ram, answered, again, twice, forgot>>

----------------------------------------------------------------------------
(* The light pass: command_intake.py, device_config.py, calibration_*.py.  *)

Writable == AtWork("light", {"config"}) /\ Executable(Command) /\ Updates[Command] # <<>> /\ ~Unwritable(Command)
DurableFirst(us) == KeysOf(us) \cap NeedsRestart # {}
Raises(us) == \E i \in DOMAIN us : us[i][2] = Poison /\ us[i][1] \notin OnlyStored[path]

(* Settings that need a restart are saved before they are reported, the    *)
(* others after; only a save that succeeded spends the onboarding token.   *)
ConfigLight ==
  /\ Writable
  /\ LET us == Updates[Command]
     IN  /\ ~Raises(us)
         /\ Applies(us) /\ Reports(us) /\ Moves(us)
         /\ \/ disk' = Put(disk, us) /\ token' = FALSE /\ Calm
            \/ ~DurableFirst(us) /\ UNCHANGED <<disk, token>> /\ Trouble
  /\ reboot' = (reboot \/ Restarting(Command))
  /\ Answer(Command, 3) /\ Executed(Command)
  /\ UNCHANGED <<prepared, handled, halting, answered, forgot>>

ConfigNotSaved ==
  /\ Writable /\ DurableFirst(Updates[Command])
  /\ Answer(Command, 2) /\ Executed(Command) /\ Trouble
  /\ UNCHANGED <<reboot, config, flash, ram, reported, doubtful, apart, answered, forgot>>

(* The minimal failure: applied = FALSE whatever had been done before.     *)
ConfigShort ==
  /\ Writable
  /\ LET us == Updates[Command]
     IN  /\ \/ UNCHANGED <<disk, live>>
            \/ DurableFirst(us) /\ disk' = Put(disk, us) /\ UNCHANGED live
            \/ /\ ~Raises(us) /\ live' = InForce(live, us)
               /\ disk' = IF DurableFirst(us) THEN Put(disk, us) ELSE disk
         /\ doubtful' = doubtful \cup KeysOf(us) /\ Moves(us)
  /\ Answer(Command, 3) /\ Executed(Command) /\ Trouble
  /\ UNCHANGED <<reboot, copies, token, prepared, handled, halting, reported, apart, answered, forgot>>

(* int() of the value raises ValueError, past every handler of the loop.   *)
ConfigFatal ==
  /\ Writable /\ Raises(Updates[Command]) /\ Calm
  /\ doubtful' = doubtful \cup KeysOf(Updates[Command])
  /\ Boot(IF DurableFirst(Updates[Command]) THEN Put(disk, Updates[Command]) ELSE disk)

StoppedLate(b) == b
(* The pass returns at once; what the batch still holds is dropped.        *)
Stopped(b) == <<>>
Halt ==
  /\ AtWork("light", {"halt"}) /\ Executable(Command)
  /\ batch' = Stopped(Tail(batch)) /\ halting' = TRUE /\ owed' = 0 /\ published' = published + 1
  /\ Calm
  /\ UNCHANGED <<queue, path, pc, base, ids, before, reboot, config, flash, handled, session, history,
                 deliveries>>

Calibrating == AtWork("light", {"offset"}) /\ ~Duplicate(Command)
OffsetLight ==
  /\ Calibrating
  /\ LET us == Updates[Command]
     IN  /\ Applies(us) /\ Moves(us) /\ Reports(us)
         /\ \/ disk' = Put(disk, us) /\ Calm
            \/ disk' = disk /\ Trouble
  /\ Answer(Command, 3) /\ Executed(Command)
  /\ UNCHANGED <<reboot, token, prepared, handled, halting, answered, forgot>>

OffsetShort ==
  /\ Calibrating /\ Trouble
  /\ live' \in {live, Put(live, Updates[Command])}
  /\ doubtful' = doubtful \cup KeysOf(Updates[Command]) /\ Moves(Updates[Command])
  /\ Answer(Command, 2) /\ Executed(Command)
  /\ UNCHANGED <<reboot, copies, flash, handled, halting, reported, apart, answered, forgot>>

(* Short of memory in the publishes: the rest goes back and the pass ends. *)
OffsetCut ==
  /\ Calibrating /\ Trouble
  /\ live' = Put(live, Updates[Command])
  /\ doubtful' = doubtful \cup KeysOf(Updates[Command]) /\ Moves(Updates[Command])
  /\ queue' = Tail(batch) \o queue /\ batch' = <<>> /\ ids' = Noted(ids, Id[Command])
  /\ owed' = owed - Len(batch) /\ published' = published + 2 /\ Executed(Command)
  /\ UNCHANGED <<path, pc, base, before, reboot, copies, flash, handled, halting, reported, apart,
                 answered, forgot, deliveries>>

(* Anything else goes to command_handlers.py, with what is left: also what *)
(* arrived under a topic that is not one of the device any more.           *)
RestoredRest(b) == Tail(b)
Restored(b) == b
HandOver ==
  /\ pc = "work" /\ batch # <<>> /\ path = "light" /\ (~Heard \/ Kind[Command] \in {"prepare", "logs"})
  /\ batch' = Restored(batch) \o queue /\ queue' = <<>> /\ owed' = owed + Len(queue)
  /\ path' = "heavy" /\ copies' = [current |-> live, last |-> live]
  /\ before' = [ids |-> Len(ids), reboot |-> reboot]
  /\ Calm
  /\ UNCHANGED <<pc, base, ids, reboot, published, live, flash, ram, history, deliveries>>

----------------------------------------------------------------------------
(* The heavy pass: command_handlers.py.                                    *)

(* Settings.apply_updates_to_directory writes file after file; what was    *)
(* saved before a failure is applied and reported, nothing saved refused.  *)
WithKnown(us, u) == IF u[1] = Unknown THEN us ELSE Append(us, u)
Known(m) == FoldLeft(WithKnown, <<>>, Updates[m])
Saving(m) == AtWork("heavy", {"config"}) /\ Executable(m) /\ Known(m) # <<>>
ConfigHeavy ==
  /\ batch # <<>> /\ Saving(Command)
  /\ \E k \in 1..Len(Known(Command)) :
       LET us == SubSeq(Known(Command), 1, k)
       IN  /\ ~Raises(us) /\ IF k = Len(Known(Command)) THEN Calm ELSE Trouble
           /\ disk' = Put(disk, us)
           /\ Applies(us) /\ Reports(us) /\ Moves(us)
  /\ token' = FALSE /\ reboot' = (reboot \/ Restarting(Command))
  /\ Answer(Command, 3) /\ Executed(Command)
  /\ UNCHANGED <<prepared, handled, halting, answered, forgot>>

(* Nothing saved, or the stack used up after some files: applied = FALSE.  *)
ConfigHeavyFails ==
  /\ batch # <<>> /\ Saving(Command) /\ Trouble
  /\ \E k \in 0..Len(Known(Command)) :
       LET us == SubSeq(Known(Command), 1, k)
       IN  disk' = Put(disk, us) /\ doubtful' = doubtful \cup KeysOf(us)
  /\ Answer(Command, 2) /\ Executed(Command) /\ Keeps
  /\ UNCHANGED <<reboot, token, prepared, ram, reported, answered, forgot>>

ConfigHeavyFatal ==
  /\ batch # <<>> /\ Saving(Command) /\ Raises(Known(Command)) /\ Calm
  /\ doubtful' = doubtful \cup KeysOf(Known(Command))
  /\ Boot(Put(disk, Known(Command)))

(* This parser does not know halt: a schema error, without any answer.     *)
HaltHeavy ==
  /\ AtWork("heavy", {"halt"}) /\ Calm
  /\ batch' = Tail(batch) /\ owed' = owed - 1
  /\ UNCHANGED <<queue, path, pc, base, pass, config, flash, ram, history, deliveries>>

(* No topic of the device, and no relay's command: passed over in silence. *)
PassOver ==
  /\ pc = "work" /\ batch # <<>> /\ path = "heavy" /\ ~Heard /\ Kind[Command] # "switch" /\ Calm
  /\ batch' = Tail(batch)
  /\ UNCHANGED <<queue, path, pc, base, pass, config, flash, ram, history, owed, deliveries>>

(* The result carries the new offset, the next command does not get it.    *)
OffsetHeavy ==
  /\ AtWork("heavy", {"offset"}) /\ ~Duplicate(Command)
  /\ LET us == Updates[Command]
     IN  /\ copies' = [copies EXCEPT !.last = Put(copies.current, us)]
         /\ apart' = apart \ KeysOf(us)
         /\ Reports(us) /\ Moves(us)
         /\ \/ disk' = Put(disk, us) /\ Calm
            \/ disk' = disk /\ Trouble
  /\ Answer(Command, 3) /\ Executed(Command)
  /\ UNCHANGED <<reboot, live, token, prepared, handled, halting, answered, forgot>>

Prepare ==
  /\ AtWork("heavy", {"prepare"}) /\ ~Duplicate(Command)
  /\ \/ prepared' = TRUE /\ reboot' = TRUE /\ Executed(Command) /\ Calm
     \/ UNCHANGED <<prepared, reboot, again, twice>> /\ Trouble
  /\ Answer(Command, 2) /\ Keeps
  /\ UNCHANGED <<disk, token, ram, reported, doubtful, answered, forgot>>

LogsGet ==
  /\ AtWork("heavy", {"logs"}) /\ ~Duplicate(Command)
  /\ Answer(Command, 2) /\ Executed(Command) /\ Keeps /\ Calm
  /\ UNCHANGED <<reboot, flash, ram, reported, doubtful, answered, forgot>>

(* A MemoryError leaves the heavy pass as a whole: the rest of the batch,  *)
(* its results, their ids and the copies go; what was saved stays.         *)
HeavyShort ==
  /\ pc = "work" /\ batch # <<>> /\ path = "heavy" /\ Trouble
  /\ \/ disk' = disk
     \/ Heard /\ Kind[Command] \in {"config", "offset"} /\ disk' = Put(disk, Known(Command))
  /\ doubtful' = doubtful \cup (IF disk' = disk THEN {} ELSE KeysOf(Known(Command)))
  /\ apart' = apart \cup {k \in Keys : reported[k] # live[k]}
  /\ queue' = <<>> /\ batch' = <<>> /\ owed' = 0
  /\ ids' = SubSeq(ids, 1, before.ids) /\ reboot' = before.reboot
  /\ copies' = [current |-> live, last |-> live]
  /\ LET lost == SubSeq(ids, before.ids + 1, Len(ids))
     IN  Answers(lost) /\ forgot' = forgot \cup ToSet(lost)
  /\ UNCHANGED <<path, pc, base, before, published, live, token, prepared, ram, reported, again, twice,
                 deliveries>>

----------------------------------------------------------------------------
(* The turn of the main loop around a pass.                                *)

Deliver(m) ==
  /\ pc = "intake" /\ deliveries < MaxDeliveries
  /\ queue' = Append(queue, m) /\ deliveries' = deliveries + 1 /\ Calm
  /\ UNCHANGED <<batch, path, pc, base, pass, config, flash, ram, history, owed>>

(* A new connection is subscribed under the base topic in force; what came *)
(* before it is worked off first.                                          *)
Resubscribe ==
  /\ pc = "intake" /\ queue = <<>> /\ base # live[Base] /\ base' = live[Base] /\ Calm
  /\ UNCHANGED <<queue, batch, path, pc, pass, config, flash, ram, history, owed, deliveries>>

Drain ==
  /\ pc = "intake" /\ Calm
  /\ batch' = queue /\ queue' = <<>> /\ pc' = "work" /\ owed' = Len(queue)
  /\ UNCHANGED <<path, base, pass, config, flash, ram, history, deliveries>>

Remembered(old, new) == Newest(FoldLeft(Added, old, new), Limit)
AdoptedFirst == live
Adopted == IF path = "heavy" THEN copies.last ELSE live

(* run_steady_state_iteration adopts the last runtime_config and the ids - *)
(* these only with a sensor poll that is not due or was published.         *)
EndPass ==
  /\ pc = "work" /\ batch = <<>> /\ ~halting /\ Calm
  /\ live' = Adopted /\ copies' = NoCopies /\ path' = "light"
  /\ \/ handled' = Remembered(handled, ids) /\ UNCHANGED forgot
     \/ UNCHANGED handled /\ forgot' = forgot \cup ToSet(ids)
  /\ Answers(ids)
  /\ ids' = <<>> /\ before' = [ids |-> 0, reboot |-> FALSE] /\ pc' = "calibrate"
  /\ UNCHANGED <<queue, batch, base, reboot, published, flash, session, halting, reported, doubtful,
                 apart, again, twice, owed, deliveries>>

(* process_soil_calibration_session: nothing due, or one reading.          *)
Sampled == Append(session.samples, live[Ph])
Sum(s) == FoldLeft(+, 0, s)
ComputedPlain(s) == Reference - Sum(s) \div Len(s)
Computed(s) == live[Ph] + Reference - Sum(s) \div Len(s)
NoSample ==
  /\ pc = "calibrate" /\ pc' = "sync" /\ Calm
  /\ UNCHANGED <<queue, batch, path, base, pass, config, flash, ram, history, owed, deliveries>>
Sample ==
  /\ pc = "calibrate" /\ session # Idle /\ Len(Sampled) < SampleCount
  /\ session' = [session EXCEPT !.samples = Sampled] /\ pc' = "sync" /\ Calm
  /\ UNCHANGED <<queue, batch, path, base, pass, config, flash, handled, halting, history, owed, deliveries>>
LastSample ==
  /\ pc = "calibrate" /\ session # Idle /\ Len(Sampled) >= SampleCount
  /\ LET us == <<<<Ph, Computed(Sampled)>>>>
     IN  \/ live' = Put(live, us) /\ disk' = Put(disk, us) /\ Reports(us) /\ Calm
         \/ UNCHANGED <<live, disk, reported, doubtful>> /\ Trouble
  /\ session' = Idle /\ pc' = "sync"
  /\ apart' = IF live' = live THEN apart ELSE apart \ {Ph}
  /\ UNCHANGED <<queue, batch, path, base, pass, copies, token, prepared, handled, halting, answered, again,
                 twice, forgot, owed, deliveries>>

(* One queued publish leaves; then the loop acts on a restart this pass    *)
(* asked for, or never, when the connection is gone by then.               *)
Sync ==
  /\ pc = "sync" /\ published' = 0 /\ pc' = "intake" /\ reboot' = FALSE
  /\ \/ ~reboot /\ Calm
     \/ reboot /\ Trouble
  /\ UNCHANGED <<queue, batch, path, base, ids, before, config, flash, ram, history, owed, deliveries>>
Reboot ==
  /\ pc = "sync" /\ reboot /\ Calm
  /\ Boot(disk) /\ UNCHANGED doubtful

(* _enter_runtime_halt: outputs keep their levels, nothing runs any more.  *)
EnterHalt ==
  /\ pc = "work" /\ batch = <<>> /\ halting /\ pc' = "halted" /\ Calm
  /\ UNCHANGED <<queue, batch, path, base, pass, config, flash, ram, history, owed, deliveries>>
Halted == pc = "halted" /\ UNCHANGED vars

Reset == Trouble /\ Boot(disk) /\ UNCHANGED doubtful

Light == Switch \/ SessionLight \/ ConfigLight \/ ConfigNotSaved \/ ConfigShort \/ ConfigFatal \/ Halt
         \/ OffsetLight \/ OffsetShort \/ OffsetCut \/ HandOver
Heavy == SessionHeavy \/ ConfigHeavy \/ ConfigHeavyFails \/ ConfigHeavyFatal \/ HaltHeavy \/ PassOver
         \/ OffsetHeavy \/ Prepare \/ LogsGet \/ HeavyShort
Loop == Resubscribe \/ Drain \/ EndPass \/ NoSample \/ Sample \/ LastSample \/ Sync \/ Reboot \/ EnterHalt
        \/ Halted

Init ==
  /\ live = [k \in Keys |-> Factory] /\ disk = live /\ reported = live /\ copies = NoCopies
  /\ queue = <<>> /\ batch = <<>> /\ path = "light" /\ pc = "intake" /\ base = Factory
  /\ ids = <<>> /\ before = [ids |-> 0, reboot |-> FALSE] /\ reboot = FALSE /\ published = 0
  /\ token \in BOOLEAN /\ prepared = FALSE
  /\ handled = <<>> /\ session = Idle /\ halting = FALSE
  /\ doubtful = {} /\ apart = {} /\ answered = <<>> /\ again = {} /\ twice = {} /\ forgot = {} /\ owed = 0
  /\ deliveries = 0 /\ faults = 0

Next ==
  \/ \E m \in Messages : Deliver(m)
  \/ Reject \/ RestartOnly \/ Light \/ Heavy \/ Loop \/ Reset

Spec == Init /\ [][Next]_vars

----------------------------------------------------------------------------
(* What the settings, a session and a pass range over: settings are        *)
(* numbers or, until the next start, of a wrong type; the offset is one.   *)
TypeOK ==
  /\ {queue, batch} \subseteq Seq(Messages) /\ path \in {"light", "heavy"}
  /\ pc \in {"intake", "work", "calibrate", "sync", "halted"}
  /\ {live, disk, reported} \subseteq Settings /\ base \in Values
  /\ copies = NoCopies \/ {copies.current, copies.last} \subseteq Settings
  /\ (copies = NoCopies) <=> (path = "light")
  /\ before.ids \in 0..Len(ids) /\ Len(handled) <= Limit /\ owed \in 0..MaxDeliveries
  /\ session = Idle \/ (session.samples \in Seq(Int) /\ Len(session.samples) < SampleCount)
  /\ {token, prepared, reboot, halting} \subseteq BOOLEAN

(* A setting that needs a restart was reported applied only when it was on *)
(* flash, so that the restart finds it: through both passes, failing       *)
(* writes, fatal values and resets - until memory runs short in its write. *)
AppliedIsDurable == \A k \in Durable \ doubtful : disk[k] = reported[k]

(* Between passes the configuration in force is the one the device has     *)
(* told of: no pass loses what one of its commands reported applied.  What *)
(* is only stored waits for the next start, and an offset of the heavy     *)
(* pass may be displaced by the command after it.                          *)
InForceIsReported ==
  pc = "intake" => \A k \in Keys \ (doubtful \cup apart) : live[k] = reported[k]

(* A result that says "applied" is true: the setting is in force, or it is *)
(* on flash for the start that puts it in force.                           *)
ReportsSound == AppliedIsDurable /\ InForceIsReported

(* A command that is accepted as halt is the last one: nothing is applied, *)
(* saved or sampled after it, whatever the same batch still holds.         *)
NothingAfterHalt == [][halting /\ halting' => UNCHANGED <<live, disk, session, token, prepared>>]_vars

(* No id is executed again before Limit other ids were answered since the  *)
(* pass of its first answer, in whichever pass it returns, nor by the      *)
(* heavy pass that has answered it; the ids the loop drops with a failing  *)
(* sensor poll or a shortage of memory are apart.                          *)
ExecutedOnce == again \subseteq forgot

(* Each command of the batch has had its result when the pass is over,     *)
(* those handed over from one module to the other included - unless a      *)
(* command of it put another base topic in force.                          *)
Answered == pc = "calibrate" => owed = 0 \/ live[Base] # base

(* Every variable has its type - handled_message_ids its length -, and     *)
(* each command has one answer and at most one execution.                  *)
AnswersSound == TypeOK /\ ExecutedOnce /\ Answered

(* A soil session that ends with a saved offset, and during which nobody   *)
(* set another one, leaves the sensor reading the reference.               *)
CalibrationExact ==
  [][pc = "calibrate" /\ pc' = "sync" /\ session # Idle /\ session' = Idle /\ ~session.moved /\ live' # live
     => live'[Ph] = Reference]_vars

(* A message_id that was answered is answered as a duplicate, not executed *)
(* a second time.                                                          *)
DuplicatesRefused == again \cup twice = {}

(* Every command that was received has its answer.                         *)
EachAnswered == pc = "calibrate" => owed = 0

(* A relay's state that was saved and reported applied is the one it has.  *)
RelayTold ==
  pc = "intake" => \A k \in Relays \ doubtful : disk[k] = reported[k] => live[k] = reported[k]

(* The result of a command has left before the restart it asks for.        *)
AnsweredBeforeRestart == pc = "sync" /\ reboot => published <= 1
============================================================================
