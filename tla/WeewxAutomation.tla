-------------------------- MODULE WeewxAutomation --------------------------
(***************************************************************************)
(* The automation of the WeeWX host                                        *)
(* (integrations/weewx/bin/user/nodus_automation.py): AutomationController *)
(* and the threads of NodusAutomation that drive it.  The MQTT callback,   *)
(* the loop packet and the watchdog each hold the service's lock, so each  *)
(* of their calls is one action.                                           *)
(*                                                                         *)
(* One switch channel.  The device, the broker and the person who edits    *)
(* the rules file are what the service sees of them: commands wait at QoS  *)
(* 0, may be lost, are executed when the device comes round to them, and   *)
(* are answered by an acknowledgement, a result and the retained state.    *)
(***************************************************************************)
EXTENDS Integers, Sequences, FiniteSets, SequencesExt

CONSTANTS
  Names,        \* the names of rules
  Books,        \* the enabled rules a saved file may hold for the channel
  Timeout,      \* command_timeout
  CleanupRetry, \* the cooldown after restoring for a removed rule
  Ids,          \* message ids in use at a time
  MaxOutbox,     \* bound: commands that wait for the device
  MaxWire,      \* bound: messages on their way to the service
  Allowed,      \* the events of the environment that happen
  MaxEvents,    \* bound: how many of them in one behaviour
  NoRule, Nothing

FalseActions == {"opposite", "on", "off", "previous_state", "hold"}
Conditions == {"metric", "window"}
Rule == [name : Names, state : BOOLEAN, falseAction : FalseActions, stale : {"off", "hold"},
         delay : Nat, minOn : Nat, minOff : Nat, retry : Nat \ {0},
         groups : SUBSET SUBSET Conditions]
Events == {"weather", "manual", "loss", "link", "restart", "edit", "save", "unread"}

ASSUME WeewxAssumption ==
  /\ IsFiniteSet(Names) /\ IsFiniteSet(Ids)
  /\ Books \subseteq Rule \cup {NoRule} /\ IsFiniteSet(Books)
  /\ Timeout \in Nat \ {0} /\ CleanupRetry \in Nat \ {0}
  /\ {MaxOutbox, MaxWire, MaxEvents} \subseteq Nat /\ Allowed \subseteq Events
  /\ Cardinality(Ids) > MaxOutbox + MaxWire
  /\ \A b \in Books \ {NoRule} : b.groups # {} /\ {} \notin b.groups
  /\ Nothing \notin BOOLEAN \cup Ids \cup Names /\ NoRule \notin Rule

VARIABLES
  \* the relay, the state in the retained meta/switch document and whether a
  \* refresh of that document is owed
  relay, meta, dirty,
  \* commands on their way to the device, messages on their way back
  outbox, wire,
  \* the rules file; the reading and the clock of the host
  file, level, open,
  \* the service: its connection and what it has subscribed to on it, its
  \* rules, the memory of the hysteresis
  link, book, held,
  \* the channel as the service knows it, the time since it last changed
  state, age,
  \* the command under way, the cooldown, the delays of the rules' actions
  pend, cool, due,
  \* active_actions in RAM and in the runtime file; history: the file could
  \* not be written or read, and was not written since
  active, disk, behind,
  \* the events still to come
  left

device == <<relay, meta, dirty>>
world == <<file, level, open>>
rules == <<link, book, held>>
channel == <<state, age>>
timers == <<cool, due>>
memory == <<active, disk, behind>>
weewxVars == <<device, outbox, wire, world, rules, channel, pend, timers, memory, left>>

RuleTexts == Books \ {NoRule}
TimeBound(times) == Max({0} \cup times)
MaxAge == TimeBound({b.minOn : b \in RuleTexts} \cup {b.minOff : b \in RuleTexts})
MaxDelay == TimeBound({b.delay : b \in RuleTexts})
MaxCool == TimeBound({CleanupRetry} \cup {b.retry : b \in RuleTexts})

Command == [id : Ids, want : BOOLEAN]
Pending == [id : Ids, want : BOOLEAN, age : 0..(Timeout + 1), ack : BOOLEAN, result : BOOLEAN,
            seen : BOOLEAN, release : Names \cup {Nothing}]
Message == [kind : {"meta", "state"}, on : BOOLEAN] \cup [kind : {"ack", "result"}, id : Ids, on : BOOLEAN]

Spend(e) == e \in Allowed /\ left > 0 /\ left' = left - 1

----------------------------------------------------------------------------
(* Whether the rule holds. *)

\* The memory of the hysteresis after an evaluation: a fresh reading between
\* the thresholds leaves it, a stale one is not looked at.
Metered == \E g \in book.groups : "metric" \in g
Holding == IF level = "stale" \/ ~Metered THEN held
           ELSE level = "high" \/ (held /\ level = "middle")

Result(c) ==
  CASE c = "window" -> IF open THEN "yes" ELSE "no"
    [] c = "metric" -> IF level = "stale" THEN "unknown" ELSE IF Holding THEN "yes" ELSE "no"
GroupResult(g) ==
  CASE \E c \in g : Result(c) = "no" -> "no"
    [] \A c \in g : Result(c) = "yes" -> "yes"
    [] OTHER -> "unknown"
RuleResult ==
  CASE \E g \in book.groups : GroupResult(g) = "yes" -> "yes"
    [] \A g \in book.groups : GroupResult(g) = "no" -> "no"
    [] OTHER -> "unknown"

----------------------------------------------------------------------------
(* AutomationController.evaluate *)

\* _expire_pending: a command that is not confirmed in time is given up.
(* Bug: it is waited for without end. *)
UnexpiredNever == pend
Unexpired == IF pend # Nothing /\ pend.age > Timeout THEN Nothing ELSE pend

\* _cleanup_inactive_actions: what is remembered for a rule that no longer
\* restores is dropped when another rule has the channel or it is back.
Restores(n) == book # NoRule /\ book.name = n /\ book.falseAction = "previous_state"
Dropped(n) == ~Restores(n) /\ (book # NoRule \/ (state # Nothing /\ state = active[n]))
Cleaned == [n \in Names |-> IF active[n] # Nothing /\ Dropped(n) THEN Nothing ELSE active[n]]

\* _save_runtime after each change.  An error is logged and nothing else: the
\* file stays as the last save left it, until the next change.
\* An evaluation may drop several states, each with a save of its own.
Halfway == {[n \in Names |-> IF n \in s THEN Nothing ELSE active[n]] :
             s \in SUBSET {n \in Names : Cleaned[n] # active[n]} \ {{}}}
Save(a, partly) ==
  /\ active' = a
  /\ \/ disk' = a /\ behind' = FALSE /\ UNCHANGED left
     \/ disk' \in {disk} \cup partly /\ behind' = TRUE /\ Spend("save")
(* Bug: it is changed in RAM only. *)
RememberUnsaved(a) == active' = a /\ UNCHANGED <<disk, behind, left>>
Remember(a) == IF a = active THEN UNCHANGED <<memory, left>> ELSE Save(a, Halfway)

UsedIds == {outbox[i].id : i \in DOMAIN outbox}
           \cup {wire[i].id : i \in {j \in DOMAIN wire : wire[j].kind \in {"ack", "result"}}}
NewPending(want, release) ==
  [id |-> CHOOSE i \in Ids : i \notin UsedIds, want |-> want, age |-> 0, ack |-> FALSE,
   result |-> FALSE, seen |-> FALSE, release |-> release]

\* _send: the cooldown starts whether or not the command could be published;
\* what the broker cannot keep for the device is lost.
SendCommand(want, release, retry) ==
  /\ cool' = retry
  /\ IF link # "down" THEN LET p == NewPending(want, release) IN
                  /\ pend' = p
                  /\ outbox' = IF Len(outbox) < MaxOutbox
                              THEN Append(outbox, [id |-> p.id, want |-> want]) ELSE outbox
     ELSE pend' = Nothing /\ UNCHANGED outbox
NoSend == pend' = Unexpired /\ UNCHANGED <<cool, outbox>>

\* No enabled rule has the channel: give back what a removed rule had changed.
Restoring == state # Nothing /\ Unexpired = Nothing /\ cool = 0
EvaluateNoRule ==
  /\ book = NoRule
  /\ Remember(Cleaned)
  /\ IF Restoring /\ \E n \in Names : Cleaned[n] # Nothing
     THEN \E n \in Names : Cleaned[n] # Nothing /\ SendCommand(Cleaned[n], n, CleanupRetry)
     ELSE NoSend
  /\ UNCHANGED <<held, due>>

\* _evaluate_action waits for the channel to be known and for the command
\* under way.
EvaluateWaiting ==
  /\ book # NoRule /\ (state = Nothing \/ Unexpired # Nothing)
  /\ held' = Holding /\ Remember(Cleaned) /\ NoSend /\ UNCHANGED due

DueNow == IF due[book.name] = Nothing THEN book.delay ELSE due[book.name]
Waits == RuleResult = "yes" /\ book.delay > 0 /\ DueNow > 0

FalseDesired ==
  CASE book.falseAction = "opposite" -> ~book.state
    [] book.falseAction = "on" -> TRUE
    [] book.falseAction = "off" -> FALSE
    [] book.falseAction = "previous_state" -> Cleaned[book.name]
    [] book.falseAction = "hold" -> Nothing
Desired ==
  CASE RuleResult = "yes" -> book.state
    [] RuleResult = "no" -> FalseDesired
    [] RuleResult = "unknown" -> IF book.stale = "off" THEN FALSE ELSE Nothing

\* The state before the rule is kept before its command goes out, and is let
\* go once the channel is found where the rule wants it when it does not hold.
Kept ==
  LET n == book.name IN
  CASE RuleResult = "yes" /\ Restores(n) /\ Cleaned[n] = Nothing /\ state # Desired ->
         [Cleaned EXCEPT ![n] = state]
    [] RuleResult # "yes" /\ Desired # Nothing /\ state = Desired -> [Cleaned EXCEPT ![n] = Nothing]
    [] OTHER -> Cleaned

Dwells == age < (IF state THEN book.minOn ELSE book.minOff)
EvaluateRule ==
  /\ book # NoRule /\ state # Nothing /\ Unexpired = Nothing
  /\ held' = Holding
  /\ due' = [due EXCEPT ![book.name] =
               IF RuleResult = "yes" THEN (IF book.delay > 0 THEN DueNow ELSE @) ELSE Nothing]
  /\ IF Waits THEN Remember(Cleaned) /\ NoSend
     ELSE /\ Remember(Kept)
          /\ IF Desired = Nothing \/ state = Desired \/ cool > 0 \/ Dwells THEN NoSend
             ELSE LET mine == RuleResult # "yes" /\ Kept[book.name] # Nothing
                  IN SendCommand(Desired, IF mine THEN book.name ELSE Nothing, book.retry)

Evaluate ==
  /\ EvaluateNoRule \/ EvaluateWaiting \/ EvaluateRule
  /\ UNCHANGED <<device, wire, world, link, book, channel>>

\* _reload_rules: the rules are new objects without hysteresis; commands and
\* delays stay.  The evaluation that follows under the same lock is a step of
\* its own: nothing that may come between reads or writes what this one does.
Reload ==
  /\ file # book
  /\ book' = file /\ held' = FALSE
  /\ UNCHANGED <<device, outbox, wire, world, link, channel, pend, timers, memory, left>>

----------------------------------------------------------------------------
(* NodusAutomation._on_message *)

(* Bug: the state is not waited for. *)
CompleteUnseen(p) == p.ack /\ p.result
Complete(p) == p.ack /\ p.result /\ p.seen
\* _finish_completed: what was remembered is let go with the command that
\* gave it back.
Finish(p) ==
  /\ pend' = IF Complete(p) THEN Nothing ELSE p
  /\ IF Complete(p) /\ p.release # Nothing THEN Save([active EXCEPT ![p.release] = Nothing], {})
     ELSE UNCHANGED <<memory, left>>

Moved(on) == IF state # Nothing /\ state = on THEN age ELSE 0

\* update_meta, and the broker's retained state for the new subscription.
OnMeta ==
  /\ wire # <<>> /\ Head(wire).kind = "meta"
  /\ state' = Head(wire).on /\ age' = Moved(Head(wire).on)
  /\ wire' = Append(Tail(wire), [kind |-> "state", on |-> relay]) /\ link' = "up"
  /\ UNCHANGED <<device, outbox, world, book, held, pend, timers, memory, left>>

\* update_state: every command under way on the channel is measured by the
\* last state heard.
OnState ==
  /\ wire # <<>> /\ Head(wire).kind = "state"
  /\ LET on == Head(wire).on IN
     /\ state' = on /\ age' = Moved(on)
     /\ IF pend = Nothing THEN UNCHANGED <<pend, memory, left>>
        ELSE Finish([pend EXCEPT !.seen = (on = pend.want)])
  /\ wire' = Tail(wire)
  /\ UNCHANGED <<device, outbox, world, rules, timers>>

\* update_response: an answer counts for the command whose id it carries.
(* Bug: any answer of the channel counts. *)
AnswersAny(m) == pend # Nothing
Answers(m) == pend # Nothing /\ m.id = pend.id
OnResponse ==
  /\ wire # <<>> /\ Head(wire).kind \in {"ack", "result"}
  /\ LET m == Head(wire) IN
     IF ~Answers(m) THEN UNCHANGED <<pend, memory, left>>
     ELSE IF ~m.on THEN pend' = Nothing /\ UNCHANGED <<memory, left>>
     ELSE Finish(IF m.kind = "ack" THEN [pend EXCEPT !.ack = TRUE] ELSE [pend EXCEPT !.result = TRUE])
  /\ wire' = Tail(wire)
  /\ UNCHANGED <<device, outbox, world, rules, channel, timers>>

----------------------------------------------------------------------------
(* The connection, the process and time *)

Disconnect ==
  /\ link # "down" /\ Spend("link") /\ link' = "down" /\ wire' = <<>>
  /\ UNCHANGED <<device, outbox, world, book, held, channel, pend, timers, memory>>

\* _on_connect subscribes to meta/switch; its retained document comes first.
Connect ==
  /\ link = "down" /\ link' = "meta" /\ wire' = <<[kind |-> "meta", on |-> meta]>>
  /\ UNCHANGED <<device, outbox, world, book, held, channel, pend, timers, memory, left>>

\* WeeWX stops and starts again: only the runtime file is left; one that
\* cannot be read holds nothing.
Forgotten == [n \in Names |-> Nothing]
Restart ==
  /\ \/ Spend("restart") /\ active' = disk /\ behind' = FALSE
     \/ Spend("unread") /\ active' = Forgotten /\ behind' = TRUE
  /\ link' = "down" /\ wire' = <<>> /\ book' = file /\ held' = FALSE
  /\ state' = Nothing /\ age' = 0 /\ pend' = Nothing
  /\ cool' = 0 /\ due' = [n \in Names |-> Nothing]
  /\ UNCHANGED <<device, outbox, world, disk>>

Down(t) == IF t = 0 THEN 0 ELSE t - 1
Tick ==
  /\ age' = IF age < MaxAge THEN age + 1 ELSE age
  /\ cool' = Down(cool)
  /\ due' = [n \in Names |-> IF due[n] = Nothing THEN Nothing ELSE Down(due[n])]
  /\ pend' = IF pend = Nothing \/ pend.age > Timeout THEN pend ELSE [pend EXCEPT !.age = @ + 1]
  /\ UNCHANGED <<device, outbox, wire, world, rules, state, memory, left>>

----------------------------------------------------------------------------
(* The device, the broker, the weather and the editor *)

\* What the broker passes on to the service: the topics of the channel are
\* subscribed once its metadata has been read on this connection.
Told(ms) == IF link = "up" THEN wire \o ms ELSE wire
Ack(c, ok) == [kind |-> "ack", id |-> c.id, on |-> ok]
Outcome(c, ok) == [kind |-> "result", id |-> c.id, on |-> ok]
StateIs(on) == [kind |-> "state", on |-> on]

Execute ==
  /\ outbox # <<>> /\ Len(wire) + 3 <= MaxWire
  /\ LET c == Head(outbox) IN
     /\ relay' = c.want /\ dirty' = TRUE
     /\ wire' = Told(<<Ack(c, TRUE), Outcome(c, TRUE), StateIs(c.want)>>)
  /\ outbox' = Tail(outbox)
  /\ UNCHANGED <<meta, world, rules, channel, pend, timers, memory, left>>

\* The device rejects the command or cannot apply it.
Refuse ==
  /\ outbox # <<>> /\ Len(wire) + 2 <= MaxWire /\ Spend("loss")
  /\ LET c == Head(outbox) IN
     wire' \in {Told(<<Ack(c, FALSE)>>), Told(<<Ack(c, TRUE), Outcome(c, FALSE)>>)}
  /\ outbox' = Tail(outbox)
  /\ UNCHANGED <<device, world, rules, channel, pend, timers, memory>>

Lose ==
  /\ outbox # <<>> /\ Spend("loss") /\ outbox' = Tail(outbox)
  /\ UNCHANGED <<device, wire, world, rules, channel, pend, timers, memory>>

\* Someone switches the channel at the device; meta/switch is not refreshed.
Manual ==
  /\ Len(wire) + 1 <= MaxWire /\ Spend("manual")
  /\ relay' = ~relay /\ wire' = Told(<<StateIs(~relay)>>)
  /\ UNCHANGED <<meta, dirty, outbox, world, rules, channel, pend, timers, memory>>

RefreshMeta ==
  /\ dirty /\ Len(wire) + 1 <= MaxWire
  /\ dirty' = FALSE /\ meta' = relay /\ wire' = IF link = "down" THEN wire ELSE Append(wire, [kind |-> "meta", on |-> relay])
  /\ UNCHANGED <<relay, outbox, world, rules, channel, pend, timers, memory, left>>

Weather ==
  /\ Spend("weather")
  /\ \/ \E l \in {"low", "middle", "high", "stale"} : l # level /\ level' = l /\ UNCHANGED open
     \/ open' = ~open /\ UNCHANGED level
  /\ UNCHANGED <<device, outbox, wire, file, rules, channel, pend, timers, memory>>

Edit ==
  /\ Spend("edit") /\ file' \in Books \ {file}
  /\ UNCHANGED <<device, outbox, wire, level, open, rules, channel, pend, timers, memory>>

----------------------------------------------------------------------------
WeewxInit ==
  /\ relay = FALSE /\ meta = FALSE /\ dirty = FALSE /\ outbox = <<>> /\ wire = <<>>
  /\ file \in Books /\ level = "low" /\ open = TRUE
  /\ link = "down" /\ book = file /\ held = FALSE
  /\ state = Nothing /\ age = 0 /\ pend = Nothing
  /\ cool = 0 /\ due = [n \in Names |-> Nothing]
  /\ active = [n \in Names |-> Nothing] /\ disk = active /\ behind = FALSE
  /\ left = MaxEvents

OnMessage == OnMeta \/ OnState \/ OnResponse
WeewxNext ==
  \/ Evaluate \/ Reload \/ OnMessage \/ Disconnect \/ Connect \/ Restart \/ Tick
  \/ Execute \/ Refuse \/ Lose \/ Manual \/ RefreshMeta \/ Weather \/ Edit

WeewxSpec == WeewxInit /\ [][WeewxNext]_weewxVars

\* The watchdog wakes every five seconds, the client library reconnects and
\* reads its socket, the device works off its commands, time passes.
Fairness ==
  /\ WF_weewxVars(Evaluate) /\ WF_weewxVars(Reload) /\ WF_weewxVars(OnMessage) /\ WF_weewxVars(Connect)
  /\ WF_weewxVars(Execute) /\ WF_weewxVars(RefreshMeta) /\ WF_weewxVars(Tick)
FairSpec == WeewxSpec /\ Fairness

----------------------------------------------------------------------------
(* Properties *)

\* Every variable has its type.
WeewxTypeOK ==
  /\ {relay, meta, dirty, open, held} \subseteq BOOLEAN
  /\ outbox \in Seq(Command) /\ Len(outbox) <= MaxOutbox
  /\ wire \in Seq(Message) /\ Len(wire) <= MaxWire + 1
  /\ {file, book} \subseteq Books /\ level \in {"low", "middle", "high", "stale"}
  /\ link \in {"down", "meta", "up"}
  /\ state \in BOOLEAN \cup {Nothing} /\ age \in 0..MaxAge
  /\ pend \in Pending \cup {Nothing} /\ cool \in 0..MaxCool
  /\ due \in [Names -> (0..MaxDelay) \cup {Nothing}]
  /\ {active, disk} \subseteq [Names -> BOOLEAN \cup {Nothing}] /\ behind \in BOOLEAN
  /\ left \in 0..MaxEvents

\* Conditions of which nothing is known make a rule's result unknown only when
\* the result depends on them: it is "yes" or "no" exactly when every reading
\* they might have would make it that (docs/weewx.md:887-889).
ResultIsExact ==
  book = NoRule \/
  LET Possible(c) == CASE Result(c) = "yes" -> {TRUE} [] Result(c) = "no" -> {FALSE} [] OTHER -> BOOLEAN
      Held(f) == \E g \in book.groups : \A c \in g : f[c]
      Outcomes == {Held(f) : f \in {h \in [Conditions -> BOOLEAN] : \A c \in Conditions : h[c] \in Possible(c)}}
  IN (RuleResult = "yes" <=> Outcomes = {TRUE}) /\ (RuleResult = "no" <=> Outcomes = {FALSE})

\* Only the device's answer to a command counts for it: what is acknowledged
\* or has a result is not still waiting to be executed.
AnsweredIsDone ==
  pend # Nothing /\ (pend.ack \/ pend.result) => \A i \in DOMAIN outbox : outbox[i].id # pend.id

\* Every variable has its type, what is decided on incomplete readings is what
\* any completion would decide, and an answer counts for its own command only.
DecisionsSound == WeewxTypeOK /\ ResultIsExact /\ AnsweredIsDone

\* The state before a rule is let go only when another rule has the channel or
\* the channel was heard to be back in it, however commands, answers, edits
\* and restarts interleave.  A rule with stale_action "off" lets go of ON when
\* its readings stop and the channel was heard to be OFF.  A restart forgets
\* it only when the runtime file could not be written since, or not be read.
LetGo(n) == active[n] # Nothing /\ active'[n] = Nothing
SwitchSays(n, on) ==
  \/ state' = on
  \/ pend # Nothing /\ pend.release = n /\ pend.seen /\ pend.want = on
StaleOff(n) ==
  \E b \in RuleTexts : b.name = n /\ b.falseAction = "previous_state" /\ b.stale = "off"
ForgottenOnceBack ==
  [][\A n \in Names : LetGo(n) =>
       \/ book # NoRule /\ ~Restores(n)
       \/ SwitchSays(n, active[n])
       \/ StaleOff(n) /\ active[n] /\ SwitchSays(n, FALSE)
       \/ Restart /\ (behind \/ behind')]_weewxVars

\* docs/weewx.md:833-835: a restart that reads the runtime file does not lose
\* the state that must later be restored.
RestartRemembers ==
  [][Restart => \A n \in Names : active[n] # Nothing => active'[n] = active[n]]_weewxVars

\* Once the weather, the rules and the connection leave it alone, the relay is
\* what the rule asks for: after lost and refused commands, commands executed
\* long after they were given up, changes by hand, restarts, stale metadata.
Asked == IF book = NoRule \/ state = Nothing THEN Nothing ELSE Desired
Followed == <>[](Asked # Nothing => relay = Asked)

\* docs/weewx.md:903-905: a rule that does not hold and no longer changes has
\* restored the state that preceded its activation.  Here nobody else switches
\* the channel, so that state is OFF.
PrecedingStateRestored == <>[](RuleResult = "no" => ~relay)
============================================================================
