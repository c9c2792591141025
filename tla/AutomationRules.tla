-------------------------- MODULE AutomationRules --------------------------
(***************************************************************************)
(* The local automation of the nodusweb profile                            *)
(* (features/nodusweb_automation.py) with the switch service it drives     *)
(* (features/switch_service.py, switch_state.py, scalar_persistence.py)    *)
(* and the HTTP handlers that edit rules and set a channel by hand         *)
(* (features/web_runtime.py, web_handlers.py).                             *)
(*                                                                         *)
(* Three documents are written in turn: automations.toml, switch.toml and  *)
(* .nodus_automation_state.json.  Everything else is RAM.  A handler is    *)
(* cut into steps at its writes and at the change of an output, so that a  *)
(* reset may fall between any two of them.                                 *)
(***************************************************************************)
EXTENDS Naturals, Sequences, FiniteSets, Functions, SequencesExt

CONSTANTS
  RuleIds,   \* the ids rules may have
  Channels,  \* the relay channels of the device
  Scripts,   \* the scripts the user may save
  Overlong,  \* those among them whose stored form, with all its defaults
             \* filled in, is longer than MAX_SCRIPT_BYTES
  Groups,    \* their conditions: groups of conditions; a group holds when all
             \* of it holds, the rule when one group does
  Actions,   \* their actions, in order
  MaxDelay,  \* bound: the longest delay of an action, in evaluations
  MaxRules,  \* MAX_RULES
  MaxFaults, \* bound: faults in one behaviour
  NoRule, NoState, Nobody, Missing

Conditions == {"sensor", "clock"}
Action == [chan : Channels, set : BOOLEAN, revert : BOOLEAN, delay : 0..MaxDelay]

ASSUME AutomationAssumption ==
  /\ IsFiniteSet(RuleIds) /\ IsFiniteSet(Channels) /\ MaxDelay \in Nat
  /\ {MaxRules, MaxFaults} \subseteq Nat \ {0} /\ Overlong \subseteq Scripts
  /\ Groups \in [Scripts -> SUBSET SUBSET Conditions]
  /\ Actions \in [Scripts -> Seq(Action)]
  /\ \A s \in Scripts : Len(Actions[s]) \in 1..4 /\ Groups[s] # {} /\ {} \notin Groups[s]
  /\ Missing \notin Seq([id : RuleIds, enabled : BOOLEAN, script : Scripts])
  /\ NoState \notin BOOLEAN /\ NoRule \notin RuleIds /\ Nobody \notin RuleIds \X (1..4)

VARIABLES
  \* the outputs, and whether the switch service is ready in this run
  pin, ready,
  \* flash: LAST_STATE in switch.toml, automations.toml and, while that name
  \* is missing, its backup, and the ownership in .nodus_automation_state.json
  saved, live, bak, owned,
  \* RAM: the rules, the actions under way, the sensor conditions that held,
  \* the rules found to hold by the last evaluation
  rules, active, previous, holding,
  \* the handler at work and its place in it
  pc, job,
  \* how many writes failed, handlers were cut, boots found no outputs or
  \* refused a rule
  faults

outputs == <<pin, ready>>
flash == <<saved, live, bak, owned>>
ram == <<rules, active, previous, holding>>
vars == <<outputs, flash, ram, pc, job, faults>>

Ids(rs) == {rs[i].id : i \in DOMAIN rs}
Position(rs, r) == CHOOSE i \in DOMAIN rs : rs[i].id = r
RuleOf(rs, r) == rs[Position(rs, r)]

(* A token "<rule>:<index>" names one action of one rule.                  *)
Tokens == RuleIds \X (1..4)
TokensOf(rs) ==
  {t \in Tokens : t[1] \in Ids(rs) /\ t[2] \in DOMAIN Actions[RuleOf(rs, t[1]).script]}
Act(t) == Actions[RuleOf(rules, t[1]).script][t[2]]
Without(f, t) == [u \in DOMAIN f \ {t} |-> f[u]]

Job(kind, rule, todo, result) ==
  [kind |-> kind, rule |-> rule, todo |-> todo, result |-> result,
   chan |-> NoState, prior |-> NoState]
NoJob == Job("none", NoRule, {}, <<>>)
Idle == pc = "idle"

----------------------------------------------------------------------------
(* Conditions.  A metric is below, inside or above the band of threshold   *)
(* and hysteresis ("low" also while there is no sample); the local time is *)
(* inside the window or not ("out" also while the clock is not set).       *)
Levels == {"low", "band", "high"}
Windows == {"in", "out"}

(* _sensor_matches: a condition that held is given the hysteresis.         *)
SensorHolds(r, level) == level = "high" \/ (level = "band" /\ r \in previous)
Holds(r, condition, level, window) ==
  IF condition = "sensor" THEN SensorHolds(r, level) ELSE window = "in"
Matches(rule, level, window) ==
  \E g \in Groups[rule.script] : \A c \in g : Holds(rule.id, c, level, window)
HasSensor(rule) == "sensor" \in UNION Groups[rule.script]

Evaluated(level, window) ==
  {r \in Ids(rules) : RuleOf(rules, r).enabled /\ Matches(RuleOf(rules, r), level, window)}

Remembered(level) ==
  {r \in Ids(rules) : LET rule == RuleOf(rules, r)
                      IN IF rule.enabled /\ HasSensor(rule) THEN SensorHolds(r, level)
                                                             ELSE r \in previous}

----------------------------------------------------------------------------
Fault == faults < MaxFaults /\ faults' = faults + 1
hurt == faults > 0

(* Writes.  A write that fails leaves the old or the new document.         *)
Written(document, value) ==
  \/ document' = value /\ UNCHANGED faults
  \/ document' \in {document, value} /\ Fault

(* _persist_runtime_state keeps only actions that are applied.             *)
Ownership(act) ==
  [t \in {u \in DOMAIN act : act[u].applied} |-> act[t].revertTo]

(* apply_switch_state, then update_switch_runtime_config.                  *)
Drive(c, s) == pin' = [pin EXCEPT ![c] = s] /\ UNCHANGED ready

(* The actions of a job are taken in the order of self.rules and of the    *)
(* actions of each.                                                        *)
Place(t) == 4 * Position(rules, t[1]) + t[2]
Token == CHOOSE t \in job.todo : \A u \in job.todo : Place(t) <= Place(u)
Matched == Token[1] \in holding

(* persist_switch_state, whose failure no caller treats as one.            *)
SaveSwitch ==
  /\ pc = "saveSwitch"
  /\ Written(saved, [saved EXCEPT ![job.chan] = pin[job.chan]])
  /\ pc' = CASE job.kind = "manual" -> "work"
             [] job.kind = "tick" /\ Matched -> "own"
             [] job.kind = "tick" /\ ~Matched -> "drop"
             [] OTHER -> "release"
  /\ UNCHANGED <<outputs, live, bak, owned, ram, job>>

----------------------------------------------------------------------------
(* The evaluation, at most once in five seconds.  Actions that have        *)
(* nothing to do are left out.                                             *)
ToDo(token) ==
  IF token[1] \in holding' THEN token \notin DOMAIN active \/ ~active[token].applied
                           ELSE token \in DOMAIN active

(* Bug: the delay starts anew in every evaluation. *)
ElapsedNever(w, long) == w

Elapsed(w, long) == IF w = 0 \/ long THEN 0 ELSE w - 1

Tick ==
  /\ Idle /\ rules # <<>>
  /\ \E level \in Levels, window \in Windows :
       previous' = Remembered(level) /\ holding' = Evaluated(level, window)
  /\ \E long \in BOOLEAN :
       active' = [t \in DOMAIN active |-> [active[t] EXCEPT !.wait = Elapsed(@, long)]]
  /\ job' = Job("tick", NoRule, {t \in TokensOf(rules) : ToDo(t)}, <<>>)
  /\ pc' = "work"
  /\ UNCHANGED <<outputs, flash, rules, faults>>

Working == pc = "work" /\ job.todo # {}
NextAction == [job EXCEPT !.todo = @ \ {Token}, !.chan = NoState, !.prior = NoState]

(* A matched action starts its delay.                                      *)
Begin ==
  /\ Working /\ Matched /\ Token \notin DOMAIN active
  /\ active' = [t \in DOMAIN active \cup {Token} |->
                  IF t = Token
                  THEN [applied |-> FALSE, wait |-> Act(t).delay, revertTo |-> NoState]
                  ELSE active[t]]
  /\ UNCHANGED <<outputs, flash, rules, previous, holding, pc, job, faults>>

Due == Token \in DOMAIN active /\ ~active[Token].applied /\ active[Token].wait = 0

(* Bug: the state is read after the output is set. *)
TakeOverReadLate ==
  /\ Working /\ Matched /\ Due /\ ready
  /\ LET a == Act(Token)
     IN /\ pin[a.chan] # a.set
        /\ Drive(a.chan, a.set)
        /\ job' = [job EXCEPT !.chan = a.chan, !.prior = a.set]
  /\ pc' = "saveSwitch"
  /\ UNCHANGED <<flash, ram, faults>>

TakeOver ==
  /\ Working /\ Matched /\ Due /\ ready
  /\ LET a == Act(Token)
     IN /\ pin[a.chan] # a.set
        /\ Drive(a.chan, a.set)
        /\ job' = [job EXCEPT !.chan = a.chan, !.prior = pin[a.chan]]
  /\ pc' = "saveSwitch"
  /\ UNCHANGED <<flash, ram, faults>>

(* The action is applied; an output that already was as desired leaves     *)
(* nothing to give back.                                                   *)
Own ==
  /\ \/ pc = "own"
     \/ Working /\ Matched /\ Due /\ ready /\ pin[Act(Token).chan] = Act(Token).set
  /\ active' = [active EXCEPT ![Token].applied = TRUE, ![Token].revertTo = job.prior]
  /\ Written(owned, Ownership(active'))
  /\ job' = NextAction /\ pc' = "work"
  /\ UNCHANGED <<outputs, saved, live, bak, rules, previous, holding>>

GivesBack(t) == active[t].applied /\ Act(t).revert /\ active[t].revertTo # NoState

(* The rule no longer holds: set the channel back, if it was changed.      *)
GiveBack ==
  /\ Working /\ ~Matched /\ GivesBack(Token) /\ ready
  /\ Drive(Act(Token).chan, active[Token].revertTo)
  /\ job' = [job EXCEPT !.chan = Act(Token).chan]
  /\ pc' = "saveSwitch"
  /\ UNCHANGED <<flash, ram, faults>>

Drop ==
  /\ \/ pc = "drop"
     \/ Working /\ ~Matched /\ ~GivesBack(Token)
  /\ active' = Without(active, Token)
  /\ Written(owned, Ownership(active'))
  /\ job' = NextAction /\ pc' = "work"
  /\ UNCHANGED <<outputs, saved, live, bak, rules, previous, holding>>

(* The delay is not over, or the channel cannot be set.                    *)
PassBy ==
  /\ Working
  /\ \/ Matched /\ Token \in DOMAIN active /\ ~(Due /\ ready)
     \/ ~Matched /\ GivesBack(Token) /\ ~ready
  /\ job' = NextAction
  /\ UNCHANGED <<outputs, flash, ram, pc, faults>>

Done ==
  /\ pc = "work" /\ job.todo = {}
  /\ pc' = "idle" /\ job' = NoJob
  /\ UNCHANGED <<outputs, flash, ram, faults>>

----------------------------------------------------------------------------
(* Edits: persist first, then release, then adopt.                         *)
Replaced(r, enabled, script) ==
  LET new == [id |-> r, enabled |-> enabled, script |-> script]
  IN IF r \in Ids(rules)
     THEN [i \in DOMAIN rules |-> IF rules[i].id = r THEN new ELSE rules[i]]
     ELSE Append(rules, new)

Deleted(r) == RemoveAt(rules, Position(rules, r))

(* The user does not let two enabled rules, or two actions of one rule,    *)
(* drive the same channel.  The device does not check this.                *)
Drives(rule) == {Actions[rule.script][k].chan : k \in DOMAIN Actions[rule.script]}
OneOwner(rs) ==
  /\ \A i, j \in DOMAIN rs :
       i # j /\ rs[i].enabled /\ rs[j].enabled => Drives(rs[i]) \cap Drives(rs[j]) = {}
  /\ \A i \in DOMAIN rs : IsInjective([k \in DOMAIN Actions[rs[i].script] |->
                                         Actions[rs[i].script][k].chan])

SaveRule(r, enabled, script) ==
  /\ Idle
  /\ Len(Replaced(r, enabled, script)) <= MaxRules
  /\ OneOwner(Replaced(r, enabled, script))
  /\ job' = Job("edit", r, {}, Replaced(r, enabled, script))
  /\ pc' = "rotate"
  /\ UNCHANGED <<outputs, flash, ram, faults>>

DeleteRule(r) ==
  /\ Idle /\ r \in Ids(rules)
  /\ job' = Job("edit", r, {}, Deleted(r))
  /\ pc' = "rotate"
  /\ UNCHANGED <<outputs, flash, ram, faults>>

(* commit_file: the live file becomes the backup, the new one live.        *)
Rotate ==
  /\ pc = "rotate"
  /\ bak' = IF live = Missing THEN bak ELSE live
  /\ live' = Missing
  /\ pc' = "install"
  /\ UNCHANGED <<outputs, saved, owned, ram, job, faults>>

Adopt ==
  /\ rules' = job.result
  /\ previous' = previous \ {job.rule} /\ holding' = holding \ {job.rule}
  /\ pc' = "idle" /\ job' = NoJob

OfRule(token) == token[1] = job.rule /\ token \in DOMAIN active

Install ==
  /\ pc = "install"
  /\ live' = job.result /\ bak' = Missing
  /\ IF job.rule \in Ids(rules)
     THEN /\ job' = [job EXCEPT !.todo = {t \in TokensOf(rules) : OfRule(t)}]
          /\ pc' = "release"
          /\ UNCHANGED <<rules, previous, holding>>
     ELSE Adopt
  /\ UNCHANGED <<outputs, saved, owned, active, faults>>

(* The write fails, before or after it took effect: an error is returned   *)
(* and nothing else is done.                                               *)
PersistFails ==
  /\ pc \in {"rotate", "install"}
  /\ live' \in {job.result, IF pc = "install" THEN bak ELSE live}
  /\ bak' = IF live' = Missing THEN bak ELSE Missing
  /\ pc' = "idle" /\ job' = NoJob /\ Fault
  /\ UNCHANGED <<outputs, saved, owned, ram>>

(* _release_rule forgets each action of the old script, and sets back what *)
(* it changed; a channel that cannot be set is ignored.                    *)
ReleaseOne ==
  /\ pc = "release" /\ job.todo # {}
  /\ active' = Without(active, Token)
  /\ IF GivesBack(Token) /\ ready
     THEN /\ Drive(Act(Token).chan, active[Token].revertTo)
          /\ job' = [job EXCEPT !.todo = @ \ {Token}, !.chan = Act(Token).chan]
          /\ pc' = "saveSwitch"
     ELSE /\ job' = [job EXCEPT !.todo = @ \ {Token}]
          /\ UNCHANGED <<outputs, pc>>
  /\ UNCHANGED <<flash, rules, previous, holding, faults>>

(* Bug: the ownership is not saved after a release. *)
ForgetUnsaved ==
  /\ pc = "release" /\ job.todo = {}
  /\ Adopt
  /\ UNCHANGED <<outputs, flash, active, faults>>

Forget ==
  /\ pc = "release" /\ job.todo = {}
  /\ Written(owned, Ownership(active))
  /\ Adopt
  /\ UNCHANGED <<outputs, saved, live, bak, active>>

----------------------------------------------------------------------------
(* Bug: the buttons of the status page do not ask for owners. *)
ControlledNever(c) == FALSE

(* A channel set by hand, refused while an enabled rule drives it.         *)
Controlled(c) == \E i \in DOMAIN rules : rules[i].enabled /\ c \in Drives(rules[i])

Manual(c, s) ==
  /\ Idle /\ ready /\ ~Controlled(c)
  /\ Drive(c, s)
  /\ job' = [Job("manual", NoRule, {}, <<>>) EXCEPT !.chan = c]
  /\ pc' = "saveSwitch"
  /\ UNCHANGED <<flash, ram, faults>>

----------------------------------------------------------------------------
(* Restarts.                                                               *)

(* _load takes the entries of the live file only, and validates each one   *)
(* again: save_rule has measured the script as it was sent, _load measures *)
(* it as it was stored, and passes over one that is too long now.          *)
Stored == IF live = Missing THEN <<>> ELSE live
Sublists(rs) == UNION {[1..n -> Range(rs)] : n \in 0..Len(rs)}
Loaded(rs) ==
  /\ rs \in Sublists(Stored)
  /\ Range(rs) = {rule \in Range(Stored) : rule.script \notin Overlong}
  /\ \A i, j \in DOMAIN rs :
       i < j => Position(Stored, rs[i].id) < Position(Stored, rs[j].id)

(* _load_runtime_state keeps the ownership of actions that exist.          *)
LoadedActive(rs) ==
  [t \in DOMAIN owned \cap TokensOf(rs) |->
     [applied |-> TRUE, wait |-> 0, revertTo |-> owned[t]]]

(* A rule refused counts as a fault, but uses none up.                     *)
Refusal == faults' = IF faults = 0 THEN 1 ELSE faults

Restart ==
  /\ \E rs \in Sublists(Stored) :
       /\ Loaded(rs)
       /\ rules' = rs /\ active' = LoadedActive(rs)
       /\ ready' \in BOOLEAN
       /\ \/ Idle /\ ready' /\ rs = Stored /\ UNCHANGED faults
          \/ Idle /\ ready' /\ rs # Stored /\ Refusal
          \/ ~(Idle /\ ready') /\ Fault
  /\ pin' = saved /\ previous' = {} /\ holding' = {}
  /\ pc' = "idle" /\ job' = NoJob
  /\ UNCHANGED flash

----------------------------------------------------------------------------
Init ==
  /\ pin \in [Channels -> BOOLEAN] /\ saved = pin /\ ready = TRUE
  /\ live = Missing /\ bak = Missing /\ owned = [t \in {} |-> NoState]
  /\ rules = <<>> /\ active = [t \in {} |-> NoState] /\ previous = {}
  /\ holding = {}
  /\ pc = "idle" /\ job = NoJob /\ faults = 0

Work ==
  \/ Begin \/ TakeOver \/ Own \/ GiveBack \/ Drop \/ PassBy \/ SaveSwitch \/ Done
  \/ Rotate \/ Install \/ PersistFails \/ ReleaseOne \/ Forget

Requests ==
  \/ \E r \in RuleIds, enabled \in BOOLEAN, s \in Scripts : SaveRule(r, enabled, s)
  \/ \E r \in RuleIds : DeleteRule(r)
  \/ \E c \in Channels, s \in BOOLEAN : Manual(c, s)

Next == Tick \/ Work \/ Requests \/ Restart

(* The loop evaluates again and again and never stops inside a handler.    *)
Fairness == WF_vars(Work) /\ SF_vars(Tick)

Spec == Init /\ [][Next]_vars
FairSpec == Spec /\ Fairness

----------------------------------------------------------------------------
(* Properties.                                                             *)
Rules == [id : RuleIds, enabled : BOOLEAN, script : Scripts]
States == BOOLEAN \cup {NoState}

IsRuleList(rs) ==
  /\ rs \in Seq(Rules) /\ Len(rs) <= MaxRules
  /\ \A i, j \in DOMAIN rs : rs[i].id = rs[j].id => i = j

TypeOK ==
  /\ pin \in [Channels -> BOOLEAN] /\ ready \in BOOLEAN
  /\ saved \in [Channels -> BOOLEAN]
  /\ live = Missing \/ IsRuleList(live)
  /\ bak = Missing \/ IsRuleList(bak)
  /\ DOMAIN owned \subseteq Tokens /\ \A t \in DOMAIN owned : owned[t] \in States
  /\ IsRuleList(rules)
  /\ DOMAIN active \subseteq TokensOf(rules)
  /\ \A t \in DOMAIN active :
       active[t] \in [applied : BOOLEAN, wait : 0..MaxDelay, revertTo : States]
  /\ previous \subseteq Ids(rules) /\ holding \subseteq Ids(rules)
  /\ pc \in {"idle", "work", "saveSwitch", "own", "drop", "rotate", "install", "release"}
  /\ faults \in 0..MaxFaults

(* An action that counts as applied is in force: nothing else has changed  *)
(* its channel, neither by hand, nor by another rule, nor at a restart     *)
(* (_apply_rule never sets an applied action again).                       *)
InForce ==
  ~hurt /\ Idle =>
    \A t \in DOMAIN active : active[t].applied => pin[Act(t).chan] = Act(t).set

(* Between two handlers the files have all a restart needs: switch.toml    *)
(* the outputs, automations.toml the rules and the state file the          *)
(* ownership; a restart changes nothing as long as it refuses no rule.     *)
RestartIsSafe ==
  ~hurt /\ Idle =>
    /\ saved = pin /\ Stored = rules /\ owned = Ownership(active)

(* A rule that the user has disabled has let go of its channels by the     *)
(* time the edit is answered.                                              *)
DisabledHasLetGo ==
  ~hurt /\ Idle => \A t \in DOMAIN active : RuleOf(rules, t[1]).enabled

(* Between two handlers, until a fault: memory, files and outputs tell     *)
(* the same story, in which disabled and deleted rules have no part.       *)
RulesSound == TypeOK /\ RestartIsSafe /\ DisabledHasLetGo

(* Who owns a channel: an action that has it to give back.                 *)
Taking == pc \in {"saveSwitch", "own"} /\ job.kind = "tick" /\ Matched
Giving == pc \in {"saveSwitch", "drop"} /\ job.kind = "tick" /\ ~Matched
Holders(c) ==
  {t \in DOMAIN active : /\ Act(t).chan = c /\ GivesBack(t)
                         /\ ~(Giving /\ t = Token)}
OwnerOf(c) ==
  IF Taking /\ job.chan = c /\ Act(Token).revert THEN Token
  ELSE IF Holders(c) # {} THEN CHOOSE t \in Holders(c) : TRUE ELSE Nobody
BaseOf(c) ==
  IF OwnerOf(c) = Nobody THEN pin[c]
  ELSE IF OwnerOf(c) \in DOMAIN active /\ active[OwnerOf(c)].applied
       THEN active[OwnerOf(c)].revertTo ELSE job.prior

(* Refinement: until a fault, or until a boot refuses a rule and forgets   *)
(* what it owns, rules take and give back channels as ChannelOwnership     *)
(* says.                                                                   *)
OwnerNow == [c \in Channels |-> OwnerOf(c)]
BaseNow == [c \in Channels |-> BaseOf(c)]
Ownable == INSTANCE ChannelOwnership WITH
  Owners <- Tokens, state <- pin, trusted <- ~hurt, owner <- OwnerNow, base <- BaseNow
OwnershipKept == Ownable!Spec

(* Once restarts and edits stop, an enabled rule whose conditions hold for *)
(* good has all its actions applied, and one whose conditions do not hold  *)
(* has none left, whatever failed before, as long as the outputs work.     *)
Undisturbed == <>[][Tick \/ Work]_vars
HoldsForGood(r) == r \in holding /\ ready
Applied(r) ==
  \A t \in TokensOf(rules) : t[1] = r => t \in DOMAIN active /\ active[t].applied
Released(r) == \A t \in DOMAIN active : t[1] # r
Settles ==
  Undisturbed =>
    \A r \in RuleIds :
      /\ <>[]HoldsForGood(r) => <>[]Applied(r)
      /\ <>[](ready /\ r \notin holding) => <>[]Released(r)

(* docs/automations.md says of the ownership file: "This lets a rule       *)
(* restore the state that preceded its action after a controlled restart." *)
(* An action with a state to give back then has it after a restart that    *)
(* falls between two handlers.                                             *)
OwnershipSurvives ==
  [][Restart /\ Idle /\ ready' /\ ~hurt =>
       \A t \in DOMAIN active : GivesBack(t) => t \in DOMAIN active']_vars

(* docs/configuration.md says of local automation files: "Their readers    *)
(* can use `.bak` when the live file is missing or empty."  The rules a    *)
(* boot finds after an interrupted edit are then those of the backup.      *)
RulesSurviveRestart == Idle /\ live = Missing /\ bak # Missing => rules = bak

============================================================================
