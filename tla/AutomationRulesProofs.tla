----------------------- MODULE AutomationRulesProofs -----------------------
(***************************************************************************)
(* Theorems about AutomationRules for all rules, scripts, channels and     *)
(* numbers of faults.  In this order:                                      *)
(*  - every variable keeps its type, whatever fails (TypeCorrect);         *)
(*  - until the first fault, and over any number of restarts between two   *)
(*    handlers, the outputs, the three files and memory tell one story     *)
(*    whenever no handler is at work (Sound), and every action that counts *)
(*    as applied is in force (AppliedInForce);                             *)
(*  - the device is a ChannelOwnership (Owned): a channel has one owner at *)
(*    a time and comes back in the state that preceded the owner.          *)
(* The invariant is Inv: the types of every part and, until a fault, what  *)
(* a handler at work has yet to write or to give back.                     *)
(***************************************************************************)
EXTENDS AutomationRules, WellFoundedInduction, TLAPS

----------------------------------------------------------------------------
(* Lists of rules.                                                         *)

(* A rule is the one its id finds.                                         *)
LEMMA RuleAt ==
  ASSUME NEW rs, IsRuleList(rs), NEW i \in DOMAIN rs
  PROVE  Position(rs, rs[i].id) = i /\ RuleOf(rs, rs[i].id) = rs[i] /\ rs[i] \in Rules
<1>1. rs[i] \in Rules
  BY DEF IsRuleList
<1>2. Position(rs, rs[i].id) \in DOMAIN rs /\ rs[Position(rs, rs[i].id)].id = rs[i].id
  BY DEF Position
<1> QED
  BY <1>1, <1>2 DEF IsRuleList, RuleOf

(* What an id of a list finds.                                             *)
LEMMA RuleWithId ==
  ASSUME NEW rs, IsRuleList(rs), NEW r \in Ids(rs)
  PROVE  /\ Position(rs, r) \in DOMAIN rs /\ Position(rs, r) \in Nat
         /\ RuleOf(rs, r) \in Rules /\ RuleOf(rs, r).id = r
         /\ RuleOf(rs, r) = rs[Position(rs, r)] /\ r \in RuleIds
<1>1. PICK i \in DOMAIN rs : rs[i].id = r
  BY DEF Ids
<1>2. Position(rs, r) = i /\ RuleOf(rs, r) = rs[i] /\ rs[i] \in Rules
  BY <1>1, RuleAt
<1>3. i \in Nat
  BY <1>1 DEF IsRuleList
<1> QED
  BY <1>1, <1>2, <1>3 DEF Rules

(* Another list keeps the rules but one.                                   *)
Keeps(rs, r) == \A q \in Ids(rules) \ {r} : q \in Ids(rs) /\ RuleOf(rs, q) = RuleOf(rules, q)

(* _save_rule yields a list of rules, and changes only the rule saved.     *)
LEMMA ReplacedKeeps ==
  ASSUME IsRuleList(rules), NEW r \in RuleIds, NEW enabled \in BOOLEAN, NEW s \in Scripts,
         Len(Replaced(r, enabled, s)) <= MaxRules
  PROVE  IsRuleList(Replaced(r, enabled, s)) /\ Keeps(Replaced(r, enabled, s), r)
<1> DEFINE new == [id |-> r, enabled |-> enabled, script |-> s]
           rs == Replaced(r, enabled, s)
<1>1. new \in Rules /\ new.id = r
  BY DEF Rules
<1>2. rules \in Seq(Rules)
  BY DEF IsRuleList
<1>3. CASE r \in Ids(rules)
  <2>1. rs = [i \in DOMAIN rules |-> IF rules[i].id = r THEN new ELSE rules[i]]
    BY <1>3 DEF Replaced
  <2>2. rs \in Seq(Rules) /\ DOMAIN rs = DOMAIN rules
    BY <2>1, <1>1, <1>2
  <2>3. \A i \in DOMAIN rules : rs[i].id = rules[i].id
    BY <2>1, <1>1
  <2>4. \A i, j \in DOMAIN rs : rs[i].id = rs[j].id => i = j
    BY <2>2, <2>3 DEF IsRuleList
  <2>5. IsRuleList(rs)
    BY <2>2, <2>4 DEF IsRuleList
  <2>6. ASSUME NEW q \in Ids(rules) \ {r}
        PROVE  q \in Ids(rs) /\ RuleOf(rs, q) = RuleOf(rules, q)
    <3>1. PICK i \in DOMAIN rules : rules[i].id = q
      BY DEF Ids
    <3>2. rs[i] = rules[i] /\ i \in DOMAIN rs
      BY <2>1, <3>1
    <3>3. RuleOf(rs, q) = rs[i] /\ RuleOf(rules, q) = rules[i]
      BY <2>5, <3>1, <3>2, RuleAt
    <3> QED
      BY <3>1, <3>2, <3>3 DEF Ids
  <2> QED
    BY <2>5, <2>6 DEF Keeps
<1>4. CASE r \notin Ids(rules)
  <2>1. rs = Append(rules, new)
    BY <1>4 DEF Replaced
  <2>2. /\ rs \in Seq(Rules) /\ Len(rs) = Len(rules) + 1 /\ rs[Len(rules) + 1] = new
        /\ \A i \in DOMAIN rules : i \in DOMAIN rs /\ rs[i] = rules[i]
        /\ \A i \in DOMAIN rs : i \in DOMAIN rules \/ i = Len(rules) + 1
    BY <2>1, <1>1, <1>2
  <2>3. \A i \in DOMAIN rules : rules[i].id # r
    BY <1>4 DEF Ids
  <2>4. \A i, j \in DOMAIN rs : rs[i].id = rs[j].id => i = j
    BY <2>2, <2>3, <1>1 DEF IsRuleList
  <2>5. IsRuleList(rs)
    BY <2>2, <2>4 DEF IsRuleList
  <2>6. ASSUME NEW q \in Ids(rules) \ {r}
        PROVE  q \in Ids(rs) /\ RuleOf(rs, q) = RuleOf(rules, q)
    <3>1. PICK i \in DOMAIN rules : rules[i].id = q
      BY DEF Ids
    <3>2. rs[i] = rules[i] /\ i \in DOMAIN rs
      BY <2>2, <3>1
    <3>3. RuleOf(rs, q) = rs[i] /\ RuleOf(rules, q) = rules[i]
      BY <2>5, <3>1, <3>2, RuleAt
    <3> QED
      BY <3>1, <3>2, <3>3 DEF Ids
  <2> QED
    BY <2>5, <2>6 DEF Keeps
<1> QED
  BY <1>3, <1>4

(* What RemoveAt of the community modules returns.                         *)
LEMMA RemoveAtIs ==
  ASSUME NEW S, NEW s \in Seq(S), NEW k \in DOMAIN s
  PROVE  /\ RemoveAt(s, k) \in Seq(S) /\ Len(RemoveAt(s, k)) = Len(s) - 1
         /\ \A i \in DOMAIN RemoveAt(s, k) :
              RemoveAt(s, k)[i] = s[IF i < k THEN i ELSE i + 1]
<1>1. /\ SubSeq(s, 1, k - 1) \in Seq(S) /\ Len(SubSeq(s, 1, k - 1)) = k - 1
      /\ \A i \in 1..(k - 1) : SubSeq(s, 1, k - 1)[i] = s[i]
  OBVIOUS
<1>2. /\ SubSeq(s, k + 1, Len(s)) \in Seq(S) /\ Len(SubSeq(s, k + 1, Len(s))) = Len(s) - k
      /\ \A i \in 1..(Len(s) - k) : SubSeq(s, k + 1, Len(s))[i] = s[k + i]
  OBVIOUS
<1>3. k \in 1..Len(s) /\ Len(s) \in Nat
  OBVIOUS
<1> DEFINE a == SubSeq(s, 1, k - 1)
           b == SubSeq(s, k + 1, Len(s))
<1>4. RemoveAt(s, k) = a \o b
  BY DEF RemoveAt
<1> HIDE DEF a, b
<1>5. /\ a \o b \in Seq(S) /\ Len(a \o b) = Len(a) + Len(b)
      /\ DOMAIN (a \o b) = 1..Len(a \o b)
      /\ \A i \in DOMAIN (a \o b) :
           (a \o b)[i] = IF i <= Len(a) THEN a[i] ELSE b[i - Len(a)]
  <2>1. a \in Seq(S) /\ b \in Seq(S)
    BY <1>1, <1>2 DEF a, b
  <2> QED
    BY <2>1
<1>6. ASSUME NEW i \in DOMAIN (a \o b)
      PROVE  (a \o b)[i] = s[IF i < k THEN i ELSE i + 1]
  <2>1. i \in Nat /\ i >= 1 /\ i <= Len(s) - 1 /\ Len(a) = k - 1 /\ Len(b) = Len(s) - k
    BY <1>1, <1>2, <1>3, <1>5, <1>6 DEF a, b
  <2>2. CASE i < k
    <3>1. i <= Len(a) /\ i \in 1..(k - 1)
      BY <1>3, <2>1, <2>2
    <3>2. (a \o b)[i] = IF i <= Len(a) THEN a[i] ELSE b[i - Len(a)]
      BY <1>5, Zenon
    <3>3. (a \o b)[i] = a[i]
      BY <3>1, <3>2, Zenon
    <3>4. a[i] = s[i]
      BY <1>1, <3>1 DEF a
    <3> QED
      BY <2>2, <3>3, <3>4
  <2>3. CASE i >= k
    <3>1. i - Len(a) \in 1..(Len(s) - k) /\ k + (i - Len(a)) = i + 1
      BY <1>3, <2>1, <2>3
    <3>2. b[i - Len(a)] = s[k + (i - Len(a))]
      BY <1>2, <3>1 DEF b
    <3>3. (a \o b)[i] = b[i - Len(a)]
      <4>1. (a \o b)[i] = IF i <= Len(a) THEN a[i] ELSE b[i - Len(a)]
        BY <1>5, Zenon
      <4>2. ~(i <= Len(a))
        BY <1>3, <2>1, <2>3
      <4> QED
        BY <4>1, <4>2, Zenon
    <3>4. (IF i < k THEN i ELSE i + 1) = i + 1
      BY <1>3, <2>1, <2>3
    <3> QED
      BY <3>1, <3>2, <3>3, <3>4
  <2> QED
    BY <1>3, <2>1, <2>2, <2>3
<1>7. Len(a \o b) = Len(s) - 1
  <2>1. Len(a) = k - 1 /\ Len(b) = Len(s) - k
    BY <1>1, <1>2 DEF a, b
  <2> QED
    BY <2>1, <1>3, <1>5
<1> QED
  BY <1>4, <1>5, <1>6, <1>7

(* _delete_rule yields a list of rules, all of the old ones but one.       *)
LEMMA DeletedKeeps ==
  ASSUME IsRuleList(rules), NEW r \in Ids(rules)
  PROVE  /\ IsRuleList(Deleted(r)) /\ Keeps(Deleted(r), r)
         /\ \A i \in DOMAIN Deleted(r) : \E j \in DOMAIN rules : Deleted(r)[i] = rules[j]
<1> DEFINE rs == Deleted(r)
           k == Position(rules, r)
<1>1. k \in DOMAIN rules /\ rules[k].id = r /\ rules \in Seq(Rules)
  BY RuleWithId DEF IsRuleList
<1>2. /\ rs \in Seq(Rules) /\ Len(rs) = Len(rules) - 1
      /\ \A i \in DOMAIN rs : rs[i] = rules[IF i < k THEN i ELSE i + 1]
  BY <1>1, RemoveAtIs DEF Deleted
<1>3. \A i \in DOMAIN rs : (IF i < k THEN i ELSE i + 1) \in DOMAIN rules
  BY <1>1, <1>2
<1> HIDE DEF rs, k
<1>4. \A i, j \in DOMAIN rs : rs[i].id = rs[j].id => i = j
  <2> SUFFICES ASSUME NEW i \in DOMAIN rs, NEW j \in DOMAIN rs, rs[i].id = rs[j].id PROVE i = j
    OBVIOUS
  <2>1. (IF i < k THEN i ELSE i + 1) = (IF j < k THEN j ELSE j + 1)
    BY <1>2, <1>3 DEF IsRuleList
  <2>2. i \in Nat /\ j \in Nat /\ k \in Nat
    BY <1>1, <1>2
  <2> QED
    BY <2>1, <2>2
<1>5. IsRuleList(rs)
  <2>1. Len(rules) \in Nat /\ Len(rules) <= MaxRules /\ MaxRules \in Nat
    BY <1>1, AutomationAssumption DEF IsRuleList
  <2> QED
    BY <2>1, <1>2, <1>4 DEF IsRuleList
<1>6. ASSUME NEW q \in Ids(rules) \ {r}
      PROVE  q \in Ids(rs) /\ RuleOf(rs, q) = RuleOf(rules, q)
  <2>1. PICK j \in DOMAIN rules : rules[j].id = q
    BY DEF Ids
  <2>2. j # k
    BY <2>1, <1>1
  <2> DEFINE i == IF j < k THEN j ELSE j - 1
  <2>3. i \in DOMAIN rs /\ rs[i] = rules[j]
    BY <1>1, <1>2, <2>1, <2>2
  <2>4. RuleOf(rs, q) = rs[i] /\ RuleOf(rules, q) = rules[j]
    BY <1>5, <2>1, <2>3, RuleAt
  <2> QED
    BY <2>1, <2>3, <2>4 DEF Ids
<1>7. \A i \in DOMAIN rs : \E j \in DOMAIN rules : rs[i] = rules[j]
  BY <1>2, <1>3
<1> QED
  BY <1>5, <1>6, <1>7 DEF Keeps, rs

----------------------------------------------------------------------------
(* The next action of a job.                                               *)

(* A set of numbered things has a first.                                   *)
LEMMA LeastPlace ==
  ASSUME NEW S, S # {}, NEW f \in [S -> Nat]
  PROVE  \E t \in S : \A u \in S : f[t] <= f[u]
<1> DEFINE NN == {f[t] : t \in S}
<1>1. NN \subseteq Nat /\ NN # {}
  OBVIOUS
<1>2. PICK m \in NN : \A k \in NN : <<k, m>> \notin OpToRel(<, Nat)
  BY <1>1, WFMin, NatLessThanWellFounded, Zenon
<1>3. \A k \in NN : ~(k < m)
  BY <1>1, <1>2, Zenon DEF OpToRel
<1>4. PICK t \in S : f[t] = m
  BY <1>2
<1>5. \A u \in S : f[t] <= f[u]
  <2> SUFFICES ASSUME NEW u \in S PROVE f[t] <= f[u]
    OBVIOUS
  <2>1. ~(f[u] < m) /\ f[u] \in Nat /\ m \in Nat
    BY <1>1, <1>3
  <2> QED
    BY <2>1, <1>4
<1> QED
  BY <1>5

(* A job that has actions left has a next one.                             *)
LEMMA TokenIs ==
  ASSUME IsRuleList(rules), job.todo \subseteq TokensOf(rules), job.todo # {}
  PROVE  Token \in job.todo
<1> DEFINE f == [t \in job.todo |-> Place(t)]
<1>1. f \in [job.todo -> Nat]
  BY RuleWithId DEF TokensOf, Tokens, Place
<1>2. PICK t \in job.todo : \A u \in job.todo : f[t] <= f[u]
  BY <1>1, LeastPlace
<1>3. \E t_1 \in job.todo : \A u \in job.todo : Place(t_1) <= Place(u)
  BY <1>2
<1> QED
  BY <1>3 DEF Token

(* What a token names.                                                     *)
LEMMA ActionIs ==
  ASSUME NEW rs, IsRuleList(rs), NEW t \in TokensOf(rs)
  PROVE  /\ t \in Tokens /\ t[1] \in Ids(rs) /\ t[1] \in RuleIds /\ t[2] \in 1..4
         /\ t = <<t[1], t[2]>>
         /\ Actions[RuleOf(rs, t[1]).script][t[2]] \in Action
<1>1. RuleOf(rs, t[1]).script \in Scripts
  BY RuleWithId DEF TokensOf, Rules
<1> QED
  BY <1>1, AutomationAssumption DEF TokensOf, Tokens

----------------------------------------------------------------------------
(* Types, part by part, and what the place in a handler says of its job.   *)
Entries == [applied : BOOLEAN, wait : 0..MaxDelay, revertTo : States]
JobRecords ==
  [kind : {"none", "tick", "manual", "edit"}, rule : RuleIds \cup {NoRule},
   todo : SUBSET Tokens, result : Seq(Rules), chan : Channels \cup {NoState},
   prior : States]

OutputsTyped ==
  pin \in [Channels -> BOOLEAN] /\ saved \in [Channels -> BOOLEAN] /\ ready \in BOOLEAN
ListsTyped ==
  /\ live = Missing \/ IsRuleList(live)
  /\ bak = Missing \/ IsRuleList(bak)
  /\ IsRuleList(rules)
OwnedTyped == DOMAIN owned \subseteq Tokens /\ \A t \in DOMAIN owned : owned[t] \in States
ActiveTyped ==
  DOMAIN active \subseteq TokensOf(rules) /\ \A t \in DOMAIN active : active[t] \in Entries
SeenTyped == previous \subseteq Ids(rules) /\ holding \subseteq Ids(rules)

Releasing == pc \in {"release", "saveSwitch"} /\ job.kind = "edit"
Places ==
  /\ pc \in {"idle", "work", "saveSwitch", "own", "drop", "rotate", "install", "release"}
  /\ pc = "idle" <=> job.kind = "none"
  /\ pc = "work" => job.kind \in {"tick", "manual"}
  /\ pc = "saveSwitch" => job.chan \in Channels
  /\ pc \in {"own", "drop"} => job.kind = "tick"
  /\ pc \in {"rotate", "install", "release"} => job.kind = "edit"
TickTyped ==
  job.kind = "tick" =>
    /\ \A t \in job.todo : t[1] \in holding \/ t \in DOMAIN active
    /\ pc \in {"saveSwitch", "own", "drop"} => Token \in job.todo
    /\ pc \in {"saveSwitch", "own"} => Token \in DOMAIN active
    /\ pc = "own" => Matched
    /\ pc = "drop" => ~Matched
EditTyped ==
  /\ job.kind = "edit" =>
       job.rule \in RuleIds /\ IsRuleList(job.result) /\ Keeps(job.result, job.rule)
  /\ Releasing => job.todo = {t \in DOMAIN active : t[1] = job.rule}
JobTyped ==
  /\ job \in JobRecords /\ job.todo \subseteq TokensOf(rules)
  /\ job.kind = "manual" => job.todo = {}
  /\ Places /\ TickTyped /\ EditTyped

Parts == OutputsTyped /\ ListsTyped /\ OwnedTyped /\ ActiveTyped /\ SeenTyped /\ JobTyped
Types == Parts /\ faults \in 0..MaxFaults

(* The parts say what TypeOK says.                                         *)
LEMMA TypesTypeOK == Types => TypeOK
BY DEF Types, Parts, OutputsTyped, ListsTyped, OwnedTyped, ActiveTyped, SeenTyped, JobTyped,
   Places, Entries, TypeOK

(* The job of no handler.                                                  *)
LEMMA NoJobIs ==
  /\ NoJob \in JobRecords /\ NoJob.kind = "none" /\ NoJob.todo = {}
  /\ NoJob.chan = NoState /\ NoJob.prior = NoState
<1>1. <<>> \in Seq(Rules)
  OBVIOUS
<1> QED
  BY <1>1 DEF NoJob, Job, JobRecords, States

(* The list without rules.                                                 *)
LEMMA EmptyList == IsRuleList(<<>>) /\ Ids(<<>>) = {}
<1>1. <<>> \in Seq(Rules) /\ Len(<<>>) = 0 /\ DOMAIN <<>> = {}
  OBVIOUS
<1>2. IsRuleList(<<>>)
  BY <1>1, AutomationAssumption DEF IsRuleList
<1> QED
  BY <1>1, <1>2 DEF Ids

(* The records an update of a job gives. *)
LEMMA JobUpdates ==
  ASSUME job \in JobRecords
  PROVE  /\ NextAction \in JobRecords /\ NextAction.kind = job.kind
         /\ NextAction.rule = job.rule /\ NextAction.result = job.result
         /\ NextAction.todo = job.todo \ {Token}
         /\ NextAction.chan = NoState /\ NextAction.prior = NoState
BY DEF JobRecords, NextAction, States

(* The next action stays while the job and the rules do.                   *)
LEMMA SameToken ==
  ASSUME UNCHANGED rules, job'.todo = job.todo PROVE Token' = Token
BY DEF Token, Place

(* The types hold at first.                                                *)
LEMMA InitTypes == Init => Types
<1> SUFFICES ASSUME Init PROVE Types
  OBVIOUS
<1>1. OutputsTyped
  BY DEF Init, OutputsTyped
<1>2. ListsTyped
  BY EmptyList DEF Init, ListsTyped
<1>3. OwnedTyped /\ ActiveTyped /\ SeenTyped
  BY DEF Init, OwnedTyped, ActiveTyped, SeenTyped
<1>4. JobTyped
  BY NoJobIs DEF Init, JobTyped, Places, TickTyped, EditTyped, Releasing
<1>5. faults \in 0..MaxFaults
  BY AutomationAssumption DEF Init
<1> QED
  BY <1>1, <1>2, <1>3, <1>4, <1>5 DEF Types, Parts

(* Faults are counted one by one.                                          *)
LEMMA FaultsStep ==
  [Next]_vars => UNCHANGED faults \/ Fault \/ Refusal
<1> SUFFICES ASSUME [Next]_vars PROVE UNCHANGED faults \/ Fault \/ Refusal
  OBVIOUS
<1>1. CASE Tick \/ Requests
  BY <1>1 DEF Tick, Requests, SaveRule, DeleteRule, Manual
<1>2. CASE Work
  BY <1>2 DEF Work, Begin, TakeOver, Own, GiveBack, Drop, PassBy, SaveSwitch, Done, Rotate,
     Install, PersistFails, ReleaseOne, Forget, Written
<1>3. CASE Restart
  BY <1>3 DEF Restart
<1>4. CASE UNCHANGED vars
  BY <1>4 DEF vars
<1> QED
  BY <1>1, <1>2, <1>3, <1>4 DEF Next

(* The output of an action, and the state it gives back. *)
LEMMA ActIs ==
  ASSUME ListsTyped, NEW t \in TokensOf(rules)
  PROVE  /\ Act(t) \in Action /\ Act(t).chan \in Channels /\ Act(t).set \in BOOLEAN
         /\ Act(t).delay \in 0..MaxDelay
BY ActionIs DEF ListsTyped, Act, Action

(* What is to be given back is a state of the output.                      *)
LEMMA GivesBackIs ==
  ASSUME ListsTyped, ActiveTyped, NEW t \in DOMAIN active, GivesBack(t)
  PROVE  active[t].revertTo \in BOOLEAN
BY DEF ActiveTyped, Entries, States, GivesBack

(* A job with actions left is at work on one of them.                      *)
LEMMA WorkingToken ==
  ASSUME ListsTyped, JobTyped, job.todo # {}
  PROVE  Token \in job.todo /\ Token \in TokensOf(rules) /\ Act(Token).chan \in Channels
         /\ Act(Token).set \in BOOLEAN
BY TokenIs, ActIs DEF ListsTyped, JobTyped

(* Every step keeps the type of the outputs.                               *)
LEMMA OutputsStep == ASSUME Parts, [Next]_vars PROVE OutputsTyped'
<1> USE DEF Parts
<1>0. ASSUME NEW c \in Channels, NEW s \in BOOLEAN, Drive(c, s), UNCHANGED saved
      PROVE  OutputsTyped'
  BY <1>0 DEF Drive, OutputsTyped
<1>1. CASE UNCHANGED <<outputs, saved>>
  BY <1>1 DEF OutputsTyped, outputs
<1>2. CASE TakeOver
  BY <1>0, <1>2, WorkingToken DEF TakeOver, Working, flash
<1>3. CASE GiveBack
  <2>1. Token \in DOMAIN active
    BY <1>3, WorkingToken DEF GiveBack, Working, Matched, JobTyped, TickTyped, Places
  <2> QED
    BY <1>0, <1>3, <2>1, WorkingToken, GivesBackIs DEF GiveBack, Working, flash
<1>4. CASE ReleaseOne
  <2>1. Token \in DOMAIN active /\ Act(Token).chan \in Channels
    BY <1>4, WorkingToken DEF ReleaseOne, JobTyped, EditTyped, Places, Releasing
  <2> QED
    BY <1>0, <1>1, <1>4, <2>1, GivesBackIs DEF ReleaseOne, flash
<1>5. CASE SaveSwitch
  BY <1>5 DEF SaveSwitch, Written, outputs, OutputsTyped, JobTyped, Places
<1>6. ASSUME NEW c \in Channels, NEW s \in BOOLEAN, Manual(c, s) PROVE OutputsTyped'
  BY <1>0, <1>6 DEF Manual, flash
<1>7. CASE Restart
  BY <1>7 DEF Restart, flash, OutputsTyped
<1>8. CASE Tick \/ (Work /\ ~TakeOver /\ ~GiveBack /\ ~ReleaseOne /\ ~SaveSwitch) \/ UNCHANGED vars
  BY <1>1, <1>8 DEF Tick, Work, Begin, Own, Drop, PassBy, Done, Rotate, Install,
     PersistFails, Forget, flash, vars
<1>9. CASE \/ \E r \in RuleIds, enabled \in BOOLEAN, s \in Scripts : SaveRule(r, enabled, s)
           \/ \E r \in RuleIds : DeleteRule(r)
  BY <1>1, <1>9 DEF SaveRule, DeleteRule, flash
<1> QED
  BY <1>2, <1>3, <1>4, <1>5, <1>6, <1>7, <1>8, <1>9 DEF Next, Requests

(* A boot finds a list of rules, and so do the checks it makes.            *)
LEMMA LoadedIs ==
  ASSUME ListsTyped, NEW rs \in Sublists(Stored), Loaded(rs) PROVE IsRuleList(rs)
<1>1. IsRuleList(Stored)
  BY EmptyList DEF ListsTyped, Stored
<1>2. Range(Stored) \subseteq Rules /\ Len(Stored) \in Nat /\ Len(Stored) <= MaxRules
  BY <1>1 DEF IsRuleList, Range
<1>3. PICK n \in 0..Len(Stored) : rs \in [1..n -> Range(Stored)]
  BY DEF Sublists
<1>4. rs \in Seq(Rules) /\ Len(rs) = n /\ DOMAIN rs = 1..n
  BY <1>2, <1>3
<1>5. ASSUME NEW i \in DOMAIN rs, NEW j \in DOMAIN rs, i < j PROVE rs[i].id # rs[j].id
  <2> DEFINE p == Position(Stored, rs[i].id)
             q == Position(Stored, rs[j].id)
  <2>1. p < q
    BY <1>5 DEF Loaded
  <2>2. \A k \in DOMAIN rs : rs[k].id \in Ids(Stored)
    BY <1>3 DEF Range, Ids
  <2>3. p \in Nat
    BY <1>1, <2>2, RuleWithId DEF IsRuleList
  <2> QED
    BY <2>1, <2>3
<1>6. \A i, j \in DOMAIN rs : rs[i].id = rs[j].id => i = j
  BY <1>4, <1>5
<1> QED
  BY <1>2, <1>4, <1>6, AutomationAssumption DEF IsRuleList

(* An edit adopts a list of rules.                                         *)
LEMMA AdoptIs ==
  ASSUME JobTyped, job.kind = "edit", Adopt PROVE IsRuleList(rules') /\ rules' = job.result
BY DEF JobTyped, EditTyped, Adopt

(* Every step keeps the type of the lists of rules.                        *)
LEMMA ListsStep == ASSUME Parts, [Next]_vars PROVE ListsTyped'
<1> USE DEF Parts
<1>1. CASE UNCHANGED <<live, bak, rules>>
  BY <1>1 DEF ListsTyped, IsRuleList
<1>2. ASSUME pc \in {"rotate", "install", "release"}
      PROVE  job.kind = "edit" /\ IsRuleList(job.result)
  BY <1>2 DEF JobTyped, Places, EditTyped
<1>3. CASE Rotate
  BY <1>3 DEF Rotate, ListsTyped, IsRuleList, ram
<1>4. CASE Install
  BY <1>2, <1>4 DEF Install, Adopt, ListsTyped, IsRuleList
<1>5. CASE PersistFails
  BY <1>2, <1>5 DEF PersistFails, ListsTyped, IsRuleList, ram
<1>6. CASE Forget
  BY <1>2, <1>6 DEF Forget, Adopt, ListsTyped, IsRuleList
<1>7. CASE Restart
  BY <1>7, LoadedIs DEF Restart, ListsTyped, IsRuleList, flash
<1>8. CASE Tick \/ (Work /\ ~Rotate /\ ~Install /\ ~PersistFails /\ ~Forget) \/ UNCHANGED vars
  BY <1>1, <1>8 DEF Tick, Work, Begin, TakeOver, Own, GiveBack, Drop, PassBy, SaveSwitch,
     Done, ReleaseOne, flash, ram, vars
<1>9. CASE Requests
  BY <1>1, <1>9 DEF Requests, SaveRule, DeleteRule, Manual, flash, ram
<1> QED
  BY <1>3, <1>4, <1>5, <1>6, <1>7, <1>8, <1>9 DEF Next

(* An action of a rule that the edit keeps exists under the new list.      *)
LEMMA KeptToken ==
  ASSUME IsRuleList(rules), NEW rs, NEW r, Keeps(rs, r), NEW t \in TokensOf(rules), t[1] # r
  PROVE  /\ t \in TokensOf(rs) /\ RuleOf(rs, t[1]) = RuleOf(rules, t[1])
         /\ t[1] \in Ids(rs)
<1>1. t[1] \in Ids(rules) \ {r}
  BY DEF TokensOf
<1>2. t[1] \in Ids(rs) /\ RuleOf(rs, t[1]) = RuleOf(rules, t[1])
  BY <1>1 DEF Keeps
<1> QED
  BY <1>2 DEF TokensOf

(* The actions under way when an edit ends belong to rules it keeps.       *)
LEMMA AdoptKeeps ==
  ASSUME Parts, Install \/ Forget, Adopt, NEW t \in DOMAIN active
  PROVE  t[1] # job.rule /\ t \in TokensOf(rules)
<1>1. t \in TokensOf(rules)
  BY DEF Parts, ActiveTyped
<1>2. CASE Forget
  BY <1>1, <1>2 DEF Parts, Forget, JobTyped, EditTyped, Releasing, Places
<1>3. CASE Install
  <2>1. job.rule \notin Ids(rules)
    <3>1. pc' = "idle" /\ "idle" # "release"
      BY DEF Adopt
    <3> QED
      BY <1>3, <3>1 DEF Install
  <2> QED
    BY <1>1, <2>1 DEF TokensOf
<1> QED
  BY <1>2, <1>3

(* What is noted of an action under way, and its updates.                  *)
LEMMA EntryUpdates ==
  ASSUME NEW e \in Entries, NEW w \in 0..MaxDelay, NEW s \in States
  PROVE  /\ [e EXCEPT !.wait = w] \in Entries
         /\ [e EXCEPT !.wait = w].applied = e.applied
         /\ [e EXCEPT !.wait = w].revertTo = e.revertTo
         /\ [e EXCEPT !.wait = w].wait = w
BY DEF Entries

(* A delay only gets shorter.                                              *)
LEMMA ElapsedIs == ASSUME NEW w \in 0..MaxDelay, NEW long
                   PROVE  Elapsed(w, long) \in 0..MaxDelay
BY AutomationAssumption DEF Elapsed

(* Own marks the action as applied. *)
LEMMA OwnIs ==
  ASSUME ActiveTyped, Token \in DOMAIN active, Own, job.prior \in States
  PROVE  /\ DOMAIN active' = DOMAIN active /\ active'[Token] \in Entries
         /\ active'[Token].applied /\ active'[Token].revertTo = job.prior
         /\ \A t \in DOMAIN active : t # Token => active'[t] = active[t]
<1> DEFINE a == [active EXCEPT ![Token].applied = TRUE]
<1>1. active' = [a EXCEPT ![Token].revertTo = job.prior]
  BY DEF Own
<1>2. /\ DOMAIN a = DOMAIN active /\ a[Token] = [active[Token] EXCEPT !.applied = TRUE]
      /\ \A t \in DOMAIN active : t # Token => a[t] = active[t]
  OBVIOUS
<1>3. a[Token] \in Entries /\ a[Token].applied
  BY <1>2 DEF ActiveTyped, Entries
<1> HIDE DEF a
<1>4. /\ DOMAIN active' = DOMAIN a
      /\ active'[Token] = [a[Token] EXCEPT !.revertTo = job.prior]
      /\ \A t \in DOMAIN a : t # Token => active'[t] = a[t]
  BY <1>1, <1>2
<1>5. /\ [a[Token] EXCEPT !.revertTo = job.prior] \in Entries
      /\ [a[Token] EXCEPT !.revertTo = job.prior].applied
      /\ [a[Token] EXCEPT !.revertTo = job.prior].revertTo = job.prior
  BY <1>3 DEF Entries
<1> QED
  BY <1>2, <1>4, <1>5

(* Own is about an action under way of a rule that holds.                  *)
LEMMA OwnToken ==
  ASSUME Parts, Own PROVE Token \in DOMAIN active /\ Matched /\ job.prior \in States
                          /\ job.kind = "tick" /\ Token \in job.todo
BY WorkingToken DEF Parts, Own, Working, Due, JobTyped, Places, TickTyped, JobRecords

(* What Without leaves.                                                    *)
LEMMA WithoutIs ==
  ASSUME NEW f, NEW t
  PROVE  /\ DOMAIN Without(f, t) = DOMAIN f \ {t}
         /\ \A u \in DOMAIN f \ {t} : Without(f, t)[u] = f[u]
BY DEF Without

(* Every step keeps the type of the actions under way.                     *)
LEMMA ActiveStep == ASSUME Parts, [Next]_vars PROVE ActiveTyped'
<1>1. CASE UNCHANGED <<active, rules>>
  BY <1>1 DEF Parts, ActiveTyped, Entries, TokensOf
<1>2. CASE Tick
  <2>1. PICK long \in BOOLEAN :
          active' = [t \in DOMAIN active |-> [active[t] EXCEPT !.wait = Elapsed(@, long)]]
    BY <1>2 DEF Tick
  <2>2. ASSUME NEW t \in DOMAIN active PROVE active'[t] \in Entries
    <3>1. active[t] \in Entries /\ active[t].wait \in 0..MaxDelay
      BY DEF Parts, ActiveTyped, Entries
    <3>2. Elapsed(active[t].wait, long) \in 0..MaxDelay
      BY <3>1, ElapsedIs
    <3>3. active'[t] = [active[t] EXCEPT !.wait = Elapsed(active[t].wait, long)]
      BY <2>1
    <3> QED
      BY <3>1, <3>2, <3>3, EntryUpdates DEF States
  <2>3. UNCHANGED rules
    BY <1>2 DEF Tick
  <2> QED
    BY <2>1, <2>2, <2>3 DEF Parts, ActiveTyped, Entries, TokensOf
<1>3. CASE Begin
  <2>1. Token \in TokensOf(rules) /\ Act(Token).delay \in 0..MaxDelay
    BY <1>3, WorkingToken, ActIs DEF Parts, Begin, Working
  <2>2. [applied |-> FALSE, wait |-> Act(Token).delay, revertTo |-> NoState] \in Entries
    BY <2>1 DEF Entries, States
  <2> QED
    BY <1>3, <2>1, <2>2 DEF Begin, Parts, ActiveTyped, Entries, TokensOf
<1>4. CASE Own
  BY <1>4, OwnToken, OwnIs DEF Own, Parts, ActiveTyped, Entries, TokensOf
<1>5. ASSUME NEW t, active' = Without(active, t), UNCHANGED rules PROVE ActiveTyped'
  <2>1. DOMAIN active' \subseteq DOMAIN active /\ \A u \in DOMAIN active' : active'[u] = active[u]
    BY <1>5, WithoutIs
  <2> QED
    BY <1>5, <2>1 DEF Parts, ActiveTyped, Entries, TokensOf
<1>6. CASE Drop \/ ReleaseOne
  BY <1>5, <1>6 DEF Drop, ReleaseOne
<1>7. ASSUME Install \/ Forget, Adopt, UNCHANGED active PROVE ActiveTyped'
  <2>1. job.kind = "edit" /\ Keeps(job.result, job.rule) /\ rules' = job.result
        /\ IsRuleList(rules)
    BY <1>7 DEF Install, Forget, Adopt, Parts, JobTyped, Places, EditTyped, ListsTyped
  <2>2. \A t \in DOMAIN active : t \in TokensOf(job.result)
    BY <1>7, <2>1, AdoptKeeps, KeptToken
  <2> QED
    BY <1>7, <2>1, <2>2 DEF Parts, ActiveTyped, Entries, TokensOf
<1>8. CASE Restart
  <2>1. PICK rs : rules' = rs /\ active' = LoadedActive(rs)
    BY <1>8 DEF Restart
  <2> DEFINE D == DOMAIN owned \cap TokensOf(rs)
             entry(t) == [applied |-> TRUE, wait |-> 0, revertTo |-> owned[t]]
  <2>2. LoadedActive(rs) = [t \in D |-> entry(t)]
    BY DEF LoadedActive
  <2>3. \A t \in D : entry(t) \in Entries
    BY AutomationAssumption DEF Entries, Parts, OwnedTyped
  <2>4. DOMAIN active' \subseteq TokensOf(rules') /\ \A t \in DOMAIN active' : active'[t] \in Entries
    <3> HIDE DEF entry
    <3> QED
      BY <2>1, <2>2, <2>3
  <2> QED
    BY <2>4 DEF ActiveTyped, Entries, TokensOf
<1>9. CASE Work /\ ~Begin /\ ~Own /\ ~Drop /\ ~ReleaseOne
  BY <1>1, <1>7, <1>9 DEF Work, TakeOver, GiveBack, PassBy, SaveSwitch, Done, Rotate,
     Install, PersistFails, Forget, ram
<1>10. CASE Requests \/ UNCHANGED vars
  BY <1>1, <1>10 DEF Requests, SaveRule, DeleteRule, Manual, ram, vars
<1> QED
  BY <1>2, <1>3, <1>4, <1>6, <1>8, <1>9, <1>10 DEF Next

(* Every step keeps the type of the ownership file.                        *)
LEMMA OwnedStep == ASSUME Parts, [Next]_vars PROVE OwnedTyped'
<1>1. CASE UNCHANGED owned
  BY <1>1 DEF Parts, OwnedTyped
<1>2. ASSUME Written(owned, Ownership(active')) PROVE OwnedTyped'
  <2>1. owned' = owned \/ owned' = Ownership(active')
    BY <1>2 DEF Written
  <2>2. ActiveTyped'
    BY ActiveStep
  <2>3. /\ DOMAIN Ownership(active') \subseteq Tokens
        /\ \A t \in DOMAIN Ownership(active') : Ownership(active')[t] \in States
    BY <2>2 DEF ActiveTyped, TokensOf, Ownership, Entries
  <2> QED
    BY <2>1, <2>3 DEF Parts, OwnedTyped
<1>3. CASE Own \/ Drop
  BY <1>2, <1>3 DEF Own, Drop
<1>4. CASE Forget
  BY <1>2, <1>4 DEF Forget
<1>5. CASE Tick \/ Requests \/ Restart \/ UNCHANGED vars
  BY <1>1, <1>5 DEF Tick, Requests, SaveRule, DeleteRule, Manual, Restart, flash, vars
<1>6. CASE Work /\ ~Own /\ ~Drop /\ ~Forget
  BY <1>1, <1>6 DEF Work, Begin, TakeOver, GiveBack, PassBy, SaveSwitch, Done, Rotate,
     Install, PersistFails, ReleaseOne, flash
<1> QED
  BY <1>3, <1>4, <1>5, <1>6 DEF Next

(* Every step keeps what was seen of conditions among the rules.           *)
LEMMA SeenStep == ASSUME Parts, [Next]_vars PROVE SeenTyped'
<1>1. CASE UNCHANGED <<previous, holding, rules>>
  BY <1>1 DEF Parts, SeenTyped, Ids
<1>2. CASE Tick
  BY <1>2 DEF Tick, Parts, SeenTyped, Ids, Remembered, Evaluated
<1>3. ASSUME Install \/ Forget, Adopt PROVE SeenTyped'
  <2>1. job.kind = "edit" /\ Keeps(job.result, job.rule) /\ rules' = job.result
    BY <1>3 DEF Install, Forget, Adopt, Parts, JobTyped, Places, EditTyped
  <2>2. \A q \in Ids(rules) \ {job.rule} : q \in Ids(rules')
    BY <2>1 DEF Keeps
  <2>3. Ids(rules)' = Ids(rules')
    BY DEF Ids
  <2> QED
    BY <1>3, <2>2, <2>3 DEF Adopt, Parts, SeenTyped
<1>4. CASE Restart
  BY <1>4 DEF Restart, SeenTyped
<1>5. CASE Work
  BY <1>1, <1>3, <1>5 DEF Work, Begin, TakeOver, Own, GiveBack, Drop, PassBy, SaveSwitch,
     Done, Rotate, Install, PersistFails, ReleaseOne, Forget, ram
<1>6. CASE Requests \/ UNCHANGED vars
  BY <1>1, <1>6 DEF Requests, SaveRule, DeleteRule, Manual, ram, vars
<1> QED
  BY <1>2, <1>4, <1>5, <1>6 DEF Next

(* A new job is a job.                                                     *)
LEMMA JobIs ==
  ASSUME NEW kind \in {"none", "tick", "manual", "edit"}, NEW r \in RuleIds \cup {NoRule},
         NEW todo \in SUBSET Tokens, NEW result \in Seq(Rules), NEW c \in Channels \cup {NoState}
  PROVE  /\ [Job(kind, r, todo, result) EXCEPT !.chan = c] \in JobRecords
         /\ Job(kind, r, todo, result) \in JobRecords
BY DEF Job, JobRecords, States

(* The end of a handler.                                                   *)
LEMMA IdleTyped == ASSUME pc' = "idle", job' = NoJob PROVE JobTyped'
BY NoJobIs DEF JobTyped, Places, TickTyped, EditTyped, Releasing

(* The actions of the rules are actions.                                   *)
LEMMA TokensTyped == TokensOf(rules) \subseteq Tokens
BY DEF TokensOf

(* The result of an edit stays one.                                        *)
LEMMA SameEdit ==
  ASSUME UNCHANGED rules, IsRuleList(job.result), Keeps(job.result, job.rule),
         job'.result = job.result, job'.rule = job.rule
  PROVE  IsRuleList(job.result)' /\ Keeps(job.result, job.rule)'
BY DEF Keeps

(* A step of the evaluation. *)
LEMMA TickKeepsJob ==
  ASSUME Parts, UNCHANGED <<rules, holding>>, job' \in JobRecords, job'.kind = job.kind,
         job.kind = "tick", pc' \in {"work", "saveSwitch", "own", "drop"},
         job'.todo \subseteq job.todo,
         \A t \in job'.todo : t[1] \in holding \/ t \in DOMAIN active',
         pc' # "work" => /\ job'.todo = job.todo /\ Token \in job.todo
                         /\ pc' \in {"saveSwitch", "own"} => Token \in DOMAIN active'
                         /\ pc' = "own" => Matched
                         /\ pc' = "drop" => ~Matched
                         /\ pc' = "saveSwitch" => job'.chan \in Channels
  PROVE  JobTyped'
<1>1. (job \in JobRecords)' /\ (job.todo \subseteq TokensOf(rules))' /\ job'.kind = "tick"
  BY DEF Parts, JobTyped, TokensOf
<1>2. Places' /\ EditTyped'
  BY <1>1 DEF Places, EditTyped, Releasing
<1>3. TickTyped'
  BY SameToken DEF TickTyped, Matched
<1> QED
  BY <1>1, <1>2, <1>3 DEF JobTyped

(* An evaluation begins with a job of its own.                             *)
LEMMA JobTick == ASSUME Parts, Tick PROVE JobTyped'
<1> DEFINE todo == {t \in TokensOf(rules) : ToDo(t)}
<1>1. job' = Job("tick", NoRule, todo, <<>>) /\ pc' = "work" /\ UNCHANGED rules
  BY DEF Tick
<1>2. <<>> \in Seq(Rules) /\ todo \in SUBSET Tokens
  BY TokensTyped
<1>3. job' \in JobRecords /\ job'.kind = "tick" /\ job'.todo = todo
  BY <1>1, <1>2, JobIs DEF Job
<1>4. \A t \in todo : t[1] \in holding' \/ t \in DOMAIN active'
  BY DEF ToDo, Tick
<1> HIDE DEF todo
<1>5. job'.todo \subseteq TokensOf(rules)'
  BY <1>1, <1>3 DEF todo, TokensOf
<1> QED
  BY <1>1, <1>3, <1>4, <1>5 DEF JobTyped, Places, TickTyped, EditTyped, Releasing

(* An evaluation at work has a next action.                                *)
LEMMA WorkingIs ==
  ASSUME Parts, Working
  PROVE  job.kind = "tick" /\ Token \in job.todo /\ Act(Token).chan \in Channels
         /\ Act(Token).set \in BOOLEAN
BY WorkingToken DEF Parts, Working, JobTyped, Places

(* The steps of an evaluation keep its job typed.                          *)
LEMMA JobWork ==
  ASSUME Parts, Begin \/ TakeOver \/ Own \/ GiveBack \/ Drop \/ PassBy
  PROVE  JobTyped'
<1> USE DEF ram, flash
<1>1. /\ job \in JobRecords /\ job.todo \subseteq TokensOf(rules)
      /\ job.kind = "tick" => \A t \in job.todo : t[1] \in holding \/ t \in DOMAIN active
      /\ OutputsTyped /\ ActiveTyped /\ ListsTyped
  BY DEF Parts, JobTyped, TickTyped
<1>2. CASE Begin
  <2>1. job.kind = "tick" /\ Token \in job.todo
    BY <1>2, WorkingIs DEF Begin
  <2> QED
    BY <1>1, <1>2, <2>1, TickKeepsJob DEF Begin, Working
<1>3. CASE TakeOver
  <2> DEFINE a == Act(Token)
  <2>1. /\ job.kind = "tick" /\ Token \in job.todo /\ Act(Token).chan \in Channels
        /\ Token \in DOMAIN active
    BY <1>3, WorkingIs DEF TakeOver, Due
  <2>2. job' = [job EXCEPT !.chan = a.chan, !.prior = pin[a.chan]]
        /\ pin[a.chan] \in BOOLEAN
    BY <1>1, <1>3, <2>1 DEF TakeOver, OutputsTyped
  <2>3. job' \in JobRecords /\ job'.kind = job.kind /\ job'.todo = job.todo
        /\ job'.chan = a.chan
    BY <1>1, <2>1, <2>2 DEF JobRecords, States
  <2>4. pc' = "saveSwitch" /\ UNCHANGED <<rules, holding, active>>
    BY <1>3 DEF TakeOver
  <2> QED
    BY <1>1, <2>1, <2>3, <2>4, TickKeepsJob
<1>4. CASE Own
  <2>1. job' = NextAction /\ pc' = "work" /\ UNCHANGED <<rules, holding>>
    BY <1>4 DEF Own
  <2>2. job.kind = "tick" /\ DOMAIN active' = DOMAIN active
    BY <1>1, <1>4, OwnToken, OwnIs
  <2> QED
    BY <1>1, <2>1, <2>2, JobUpdates, TickKeepsJob
<1>5. CASE GiveBack
  <2>1. /\ job.kind = "tick" /\ Token \in job.todo /\ Act(Token).chan \in Channels
        /\ Token \in DOMAIN active
    BY <1>1, <1>5, WorkingIs DEF GiveBack, Matched
  <2>2. job' = [job EXCEPT !.chan = Act(Token).chan]
    BY <1>5 DEF GiveBack
  <2>3. job' \in JobRecords /\ job'.kind = job.kind /\ job'.todo = job.todo
        /\ job'.chan \in Channels
    BY <1>1, <2>1, <2>2 DEF JobRecords
  <2>4. pc' = "saveSwitch" /\ UNCHANGED <<rules, holding, active>>
    BY <1>5 DEF GiveBack
  <2> QED
    BY <1>1, <2>1, <2>3, <2>4, TickKeepsJob
<1>6. CASE Drop
  <2>1. job' = NextAction /\ pc' = "work" /\ UNCHANGED <<rules, holding>>
    BY <1>6 DEF Drop
  <2>2. job.kind = "tick"
    BY <1>6, WorkingIs DEF Drop, Parts, JobTyped, Places
  <2>3. DOMAIN active' = DOMAIN active \ {Token}
    BY <1>6, WithoutIs DEF Drop
  <2> QED
    BY <1>1, <2>1, <2>2, <2>3, JobUpdates, TickKeepsJob
<1>7. CASE PassBy
  <2>1. job' = NextAction /\ pc' = "work" /\ UNCHANGED <<rules, holding, active>>
    BY <1>7 DEF PassBy, Working
  <2>2. job.kind = "tick"
    BY <1>7, WorkingIs DEF PassBy
  <2> QED
    BY <1>1, <2>1, <2>2, JobUpdates, TickKeepsJob
<1> QED
  BY <1>2, <1>3, <1>4, <1>5, <1>6, <1>7

(* A step of an edit.                                                      *)
LEMMA EditKeepsJob ==
  ASSUME Parts, UNCHANGED rules, job' \in JobRecords, job'.kind = "edit",
         job.kind = "edit", job'.rule = job.rule, job'.result = job.result,
         pc' \in {"rotate", "install", "release", "saveSwitch"},
         pc' = "saveSwitch" => job'.chan \in Channels,
         job'.todo \subseteq TokensOf(rules),
         pc' \in {"release", "saveSwitch"} =>
           job'.todo = {t \in DOMAIN active' : t[1] = job.rule}
  PROVE  JobTyped'
<1>1. (job.todo \subseteq TokensOf(rules))'
  BY DEF TokensOf
<1>2. Places' /\ TickTyped'
  BY DEF Places, TickTyped
<1>3. EditTyped'
  BY SameEdit DEF Parts, JobTyped, EditTyped, Releasing
<1> QED
  BY <1>1, <1>2, <1>3 DEF JobTyped

(* The steps of an edit keep its job typed.                                *)
LEMMA JobEdit ==
  ASSUME Parts, Rotate \/ Install \/ PersistFails \/ ReleaseOne \/ Forget
  PROVE  JobTyped'
<1> USE DEF ram, flash
<1>1. /\ job \in JobRecords /\ job.kind = "edit" /\ job.todo \subseteq TokensOf(rules)
      /\ pc \in {"rotate", "install", "release"}
      /\ pc = "release" => job.todo = {t \in DOMAIN active : t[1] = job.rule}
  BY DEF Parts, JobTyped, Places, EditTyped, Releasing, Rotate, Install, PersistFails,
     ReleaseOne, Forget
<1>2. CASE Rotate
  BY <1>1, <1>2, EditKeepsJob DEF Rotate
<1>3. CASE Install /\ ~Adopt
  <2> DEFINE todo == {t \in TokensOf(rules) : OfRule(t)}
  <2>1. job' = [job EXCEPT !.todo = todo] /\ pc' = "release" /\ UNCHANGED <<rules, active>>
    BY <1>3 DEF Install
  <2>2. todo = {t \in DOMAIN active : t[1] = job.rule} /\ todo \in SUBSET Tokens
    BY TokensTyped DEF OfRule, Parts, ActiveTyped
  <2>3. /\ job' \in JobRecords /\ job'.kind = "edit" /\ job'.rule = job.rule
        /\ job'.result = job.result /\ job'.todo = todo
    BY <1>1, <2>1, <2>2 DEF JobRecords
  <2> QED
    BY <1>1, <2>1, <2>2, <2>3, EditKeepsJob
<1>4. CASE ReleaseOne
  <2>1. Token \in job.todo /\ Act(Token).chan \in Channels
    BY <1>4, WorkingToken DEF ReleaseOne, Parts
  <2>2. DOMAIN active' = DOMAIN active \ {Token} /\ UNCHANGED rules
    BY <1>4, WithoutIs DEF ReleaseOne
  <2>3. job'.todo = job.todo \ {Token} /\ job' \in JobRecords /\ job'.kind = "edit"
        /\ job'.rule = job.rule /\ job'.result = job.result
        /\ pc' \in {"saveSwitch", "release"} /\ (pc' = "saveSwitch" => job'.chan \in Channels)
    <3>1. \/ /\ job' = [job EXCEPT !.todo = @ \ {Token}, !.chan = Act(Token).chan]
             /\ pc' = "saveSwitch"
          \/ job' = [job EXCEPT !.todo = @ \ {Token}] /\ pc' = pc
      BY <1>4 DEF ReleaseOne
    <3>2. pc = "release"
      BY <1>4 DEF ReleaseOne
    <3> QED
      BY <1>1, <2>1, <3>1, <3>2 DEF JobRecords
  <2>4. job'.todo = {t \in DOMAIN active' : t[1] = job.rule}
    BY <1>1, <1>4, <2>2, <2>3 DEF ReleaseOne
  <2> QED
    BY <1>1, <2>2, <2>3, <2>4, EditKeepsJob
<1>5. CASE PersistFails \/ Forget \/ (Install /\ Adopt)
  BY <1>5, IdleTyped DEF PersistFails, Forget, Adopt
<1> QED
  BY <1>2, <1>3, <1>4, <1>5

(* The write of switch.toml returns to the handler that asked for it.      *)
LEMMA JobSaveSwitch == ASSUME Parts, SaveSwitch PROVE JobTyped'
<1> USE DEF ram
<1>1. /\ job \in JobRecords /\ pc = "saveSwitch" /\ job.kind \in {"tick", "manual", "edit"}
      /\ job.todo \subseteq TokensOf(rules)
      /\ job.kind = "manual" => job.todo = {}
      /\ job.kind = "tick" => /\ Token \in job.todo /\ Token \in DOMAIN active
                              /\ \A t \in job.todo : t[1] \in holding \/ t \in DOMAIN active
      /\ job.kind = "edit" => job.todo = {t \in DOMAIN active : t[1] = job.rule}
  BY DEF SaveSwitch, Parts, JobTyped, Places, TickTyped, EditTyped, Releasing, JobRecords
<1>2. UNCHANGED <<rules, active, holding, job>>
  BY DEF SaveSwitch
<1>3. CASE job.kind = "tick"
  <2>1. pc' = IF Matched THEN "own" ELSE "drop"
    BY <1>3 DEF SaveSwitch
  <2>2. /\ pc' \in {"own", "drop"}
        /\ pc' = "own" => Matched
        /\ pc' = "drop" => ~Matched
    BY <2>1
  <2> QED
    BY <1>1, <1>2, <1>3, <2>2, TickKeepsJob
<1>4. CASE job.kind = "edit"
  BY <1>1, <1>2, <1>4, EditKeepsJob DEF SaveSwitch
<1>5. CASE job.kind = "manual"
  <2>1. pc' = "work"
    BY <1>5 DEF SaveSwitch
  <2> QED
    BY <1>1, <1>2, <1>5, <2>1 DEF JobTyped, Places, TickTyped, EditTyped, Releasing
<1> QED
  BY <1>1, <1>3, <1>4, <1>5

(* An edit begins with its result.                                         *)
LEMMA EditStarts ==
  ASSUME Parts, NEW r \in RuleIds, NEW rs, IsRuleList(rs), Keeps(rs, r),
         job' = Job("edit", r, {}, rs), pc' = "rotate", UNCHANGED rules
  PROVE  JobTyped'
<1>1. rs \in Seq(Rules) /\ {} \in SUBSET Tokens
  BY DEF IsRuleList
<1>2. /\ job' \in JobRecords /\ job'.kind = "edit" /\ job'.todo = {} /\ job'.rule = r
      /\ job'.result = rs
  BY <1>1, JobIs DEF Job
<1>3. EditTyped'
  BY <1>2 DEF EditTyped, Releasing, Keeps
<1> QED
  BY <1>2, <1>3 DEF JobTyped, Places, TickTyped

(* A request begins with a job of its own.                                 *)
LEMMA JobRequests == ASSUME Parts, Requests PROVE JobTyped'
<1>1. IsRuleList(rules)
  BY DEF Parts, ListsTyped
<1>2. ASSUME NEW r \in RuleIds, NEW enabled \in BOOLEAN, NEW s \in Scripts, SaveRule(r, enabled, s)
      PROVE  JobTyped'
  BY <1>1, <1>2, ReplacedKeeps, EditStarts DEF SaveRule, ram
<1>3. ASSUME NEW r \in RuleIds, DeleteRule(r) PROVE JobTyped'
  BY <1>1, <1>3, DeletedKeeps, EditStarts DEF DeleteRule, ram
<1>4. ASSUME NEW c \in Channels, NEW s \in BOOLEAN, Manual(c, s) PROVE JobTyped'
  <2>1. job' = [Job("manual", NoRule, {}, <<>>) EXCEPT !.chan = c] /\ pc' = "saveSwitch"
    BY <1>4 DEF Manual
  <2>2. job' \in JobRecords /\ job'.kind = "manual" /\ job'.todo = {} /\ job'.chan = c
    <3>1. <<>> \in Seq(Rules) /\ {} \in SUBSET Tokens
      OBVIOUS
    <3> QED
      BY <2>1, <3>1, JobIs DEF Job
  <2> QED
    BY <2>1, <2>2 DEF JobTyped, Places, TickTyped, EditTyped, Releasing
<1> QED
  BY <1>2, <1>3, <1>4 DEF Requests

(* Doing nothing keeps the job typed.                                      *)
LEMMA JobUnchanged ==
  ASSUME Parts, UNCHANGED vars PROVE JobTyped'
<1>1. UNCHANGED <<pc, job, rules, holding, active>> /\ Token' = Token
  BY SameToken DEF vars, ram
<1> QED
  BY <1>1, SameEdit DEF Parts, JobTyped, Places, TickTyped, EditTyped, Releasing, TokensOf,
     Matched

(* Every step keeps the job typed.                                         *)
LEMMA JobStep == ASSUME Parts, [Next]_vars PROVE JobTyped'
<1>1. CASE Done \/ Restart
  BY <1>1, IdleTyped DEF Done, Restart
<1> QED
  BY <1>1, JobTick, JobWork, JobEdit, JobSaveSwitch, JobRequests, JobUnchanged DEF Next,
     Work

(* The types are inductive.                                                *)
LEMMA TypesStep == Types /\ [Next]_vars => Types'
<1> SUFFICES ASSUME Parts, faults \in 0..MaxFaults, [Next]_vars PROVE Types'
  BY DEF Types
<1>1. (faults \in 0..MaxFaults)'
  BY FaultsStep, AutomationAssumption DEF Fault, Refusal
<1> QED
  BY <1>1, OutputsStep, ListsStep, OwnedStep, ActiveStep, SeenStep, JobStep DEF Types, Parts

(* Every variable keeps its type, whatever fails.                          *)
THEOREM TypeCorrect == Spec => []TypeOK
BY InitTypes, TypesStep, TypesTypeOK, PTL DEF Spec

----------------------------------------------------------------------------
(* Until a fault.  Nobody shares a channel, the files agree with memory    *)
(* except for what the handler at work has yet to write, and an applied    *)
(* action is in force unless it is being given back.                       *)
Owners ==
  /\ ready /\ OneOwner(rules)
  /\ \A r \in holding : RuleOf(rules, r).enabled
  /\ \A t \in DOMAIN active : RuleOf(rules, t[1]).enabled
  /\ job.kind = "edit" => OneOwner(job.result)

Files ==
  /\ \A c \in Channels : (pc = "saveSwitch" /\ c = job.chan) \/ saved[c] = pin[c]
  /\ pc # "install" /\ ~Releasing => Stored = rules
  /\ Releasing => live = job.result
  /\ ~Releasing => owned = Ownership(active)

Forced ==
  /\ \A t \in DOMAIN active :
       active[t].applied /\ ~(Giving /\ t = Token) => pin[Act(t).chan] = Act(t).set
  /\ Taking =>
       /\ ~active[Token].applied /\ job.prior \in BOOLEAN
       /\ job.chan = Act(Token).chan /\ pin[job.chan] = Act(Token).set
  /\ Giving =>
       /\ Token \in DOMAIN active /\ GivesBack(Token)
       /\ pin[Act(Token).chan] = active[Token].revertTo
       /\ pc = "saveSwitch" => job.chan = Act(Token).chan
  /\ ~Taking => job.prior = NoState

Trusted == Owners /\ Files /\ Forced

(* Two actions of enabled rules never drive the same channel. *)
LEMMA OwnChannel ==
  ASSUME IsRuleList(rules), OneOwner(rules), NEW t \in TokensOf(rules), NEW u \in TokensOf(rules),
         RuleOf(rules, t[1]).enabled, RuleOf(rules, u[1]).enabled, t # u
  PROVE  Act(t).chan # Act(u).chan
<1> DEFINE i == Position(rules, t[1])
           j == Position(rules, u[1])
<1>1. /\ i \in DOMAIN rules /\ rules[i] = RuleOf(rules, t[1]) /\ rules[i].id = t[1]
      /\ j \in DOMAIN rules /\ rules[j] = RuleOf(rules, u[1]) /\ rules[j].id = u[1]
  BY RuleWithId DEF TokensOf
<1>2. /\ t[2] \in DOMAIN Actions[rules[i].script]
      /\ u[2] \in DOMAIN Actions[rules[j].script]
      /\ Act(t) = Actions[rules[i].script][t[2]] /\ Act(u) = Actions[rules[j].script][u[2]]
  BY <1>1 DEF TokensOf, Act
<1> HIDE DEF i, j
<1>3. CASE t[1] # u[1]
  <2>1. i # j
    BY <1>1, <1>3
  <2>2. Drives(rules[i]) \cap Drives(rules[j]) = {}
    BY <1>1, <2>1 DEF OneOwner
  <2> QED
    BY <1>2, <2>2 DEF Drives
<1>4. CASE t[1] = u[1]
  <2>1. i = j
    BY <1>4 DEF i, j
  <2>2. t[2] # u[2]
    BY <1>4, ActionIs
  <2> DEFINE f == [k \in DOMAIN Actions[rules[i].script] |-> Actions[rules[i].script][k].chan]
  <2>3. IsInjective(f)
    BY <1>1 DEF OneOwner
  <2>4. f[t[2]] # f[u[2]]
    BY <1>2, <2>1, <2>2, <2>3 DEF IsInjective
  <2> QED
    BY <1>2, <2>1, <2>4
<1> QED
  BY <1>3, <1>4

(* Deleting a rule makes no two actions share a channel.                   *)
LEMMA DeletedOneOwner ==
  ASSUME IsRuleList(rules), OneOwner(rules), NEW r \in Ids(rules) PROVE OneOwner(Deleted(r))
<1> DEFINE rs == Deleted(r)
<1>1. IsRuleList(rs) /\ \A i \in DOMAIN rs : \E j \in DOMAIN rules : rs[i] = rules[j]
  BY DeletedKeeps
<1> HIDE DEF rs
<1>2. ASSUME NEW i \in DOMAIN rs, NEW j \in DOMAIN rs, i # j, rs[i].enabled, rs[j].enabled
      PROVE  Drives(rs[i]) \cap Drives(rs[j]) = {}
  <2>1. PICK m \in DOMAIN rules : rs[i] = rules[m]
    BY <1>1
  <2>2. PICK n \in DOMAIN rules : rs[j] = rules[n]
    BY <1>1
  <2>3. m # n
    BY <1>1, <1>2, <2>1, <2>2 DEF IsRuleList
  <2> QED
    BY <1>2, <2>1, <2>2, <2>3 DEF OneOwner
<1>3. \A i \in DOMAIN rs :
        IsInjective([k \in DOMAIN Actions[rs[i].script] |-> Actions[rs[i].script][k].chan])
  BY <1>1 DEF OneOwner
<1>4. OneOwner(rs)
  BY <1>2, <1>3 DEF OneOwner
<1> QED
  BY <1>4 DEF rs

(* The rules of the actions an edit leaves alone. *)
LEMMA AdoptRules ==
  ASSUME Parts, Install \/ Forget, Adopt
  PROVE  /\ rules' = job.result /\ job.kind = "edit"
         /\ \A t \in DOMAIN active :
              RuleOf(rules', t[1]) = RuleOf(rules, t[1]) /\ Act(t)' = Act(t)
         /\ \A r \in holding' : r \in holding /\ RuleOf(rules', r) = RuleOf(rules, r)
<1>1. /\ rules' = job.result /\ job.kind = "edit" /\ Keeps(job.result, job.rule)
      /\ IsRuleList(rules) /\ holding' = holding \ {job.rule}
      /\ holding \subseteq Ids(rules)
  BY DEF Install, Forget, Adopt, Parts, JobTyped, Places, EditTyped, ListsTyped, SeenTyped
<1>2. \A t \in DOMAIN active : RuleOf(job.result, t[1]) = RuleOf(rules, t[1])
  BY <1>1, AdoptKeeps, KeptToken
<1>3. \A t \in DOMAIN active : Act(t)' = Act(t)
  BY <1>1, <1>2 DEF Act
<1>4. \A r \in holding' : r \in holding /\ RuleOf(job.result, r) = RuleOf(rules, r)
  BY <1>1 DEF Keeps
<1> QED
  BY <1>1, <1>2, <1>3, <1>4

(* Nobody comes to share a channel, and disabled rules own none.           *)
LEMMA OwnersStep == ASSUME Parts, Owners, ~Fault, [Next]_vars, ~Restart PROVE Owners'
<1> USE DEF ram
<1>1. IsRuleList(rules)
  BY DEF Parts, ListsTyped
<1>2. CASE UNCHANGED <<ready, rules, holding, active, job>>
  BY <1>2 DEF Owners
<1>3. CASE Tick
  <2>1. /\ UNCHANGED <<ready, rules>> /\ DOMAIN active' = DOMAIN active
        /\ job'.kind = "tick"
        /\ \A r \in holding' : RuleOf(rules, r).enabled
    BY <1>3 DEF Tick, Evaluated, Job, outputs
  <2> QED
    BY <2>1 DEF Owners
<1>4. CASE Begin
  <2>1. /\ UNCHANGED <<ready, rules, holding, job>> /\ Token[1] \in holding
        /\ DOMAIN active' = DOMAIN active \cup {Token}
    BY <1>4 DEF Begin, outputs, Matched
  <2> QED
    BY <2>1 DEF Owners
<1>5. ASSUME UNCHANGED <<ready, rules, holding>>, DOMAIN active' \subseteq DOMAIN active,
             job'.kind = "edit" => OneOwner(job'.result)
      PROVE  Owners'
  BY <1>5 DEF Owners
<1>6. job \in JobRecords
  BY DEF Parts, JobTyped
<1>7. CASE TakeOver \/ GiveBack \/ PassBy \/ Own \/ Drop
  <2>1. job'.kind = job.kind /\ job'.result = job.result
    BY <1>6, <1>7, JobUpdates DEF TakeOver, GiveBack, PassBy, Own, Drop, JobRecords
  <2>2. UNCHANGED <<ready, rules, holding>>
    BY <1>7 DEF TakeOver, GiveBack, PassBy, Own, Drop, outputs, Drive
  <2>3. CASE Own
    <3>1. DOMAIN active' = DOMAIN active
      BY <2>3, OwnToken, OwnIs DEF Parts
    <3> QED
      BY <1>5, <2>1, <2>2, <3>1 DEF Owners
  <2>4. CASE ~Own
    <3>1. DOMAIN active' \subseteq DOMAIN active
      BY <1>7, <2>4, WithoutIs DEF TakeOver, GiveBack, PassBy, Drop
    <3> QED
      BY <1>5, <2>1, <2>2, <3>1 DEF Owners
  <2> QED
    BY <2>3, <2>4
<1>8. CASE SaveSwitch \/ Rotate \/ UNCHANGED vars
  BY <1>2, <1>8 DEF SaveSwitch, Rotate, outputs, vars
<1>9. CASE Done
  BY <1>5, <1>9, NoJobIs DEF Done, outputs
<1>10. CASE ReleaseOne
  <2>1. job'.result = job.result /\ job'.kind = job.kind
    BY <1>6, <1>10 DEF ReleaseOne, JobRecords
  <2>2. DOMAIN active' \subseteq DOMAIN active
    <3>1. active' = Without(active, Token)
      BY <1>10 DEF ReleaseOne
    <3> QED
      BY <3>1, WithoutIs
  <2>3. UNCHANGED <<ready, rules, holding>>
    BY <1>10 DEF ReleaseOne, outputs, Drive
  <2> QED
    BY <1>5, <1>10, <2>1, <2>2, <2>3 DEF Owners
<1>11. ASSUME Install \/ Forget, Adopt, UNCHANGED <<ready, active>> PROVE Owners'
  <2>1. job'.kind = "none"
    BY <1>11, NoJobIs DEF Adopt
  <2> QED
    BY <1>11, <2>1, AdoptRules DEF Owners
<1>12. CASE Install /\ ~Adopt
  <2>1. job'.result = job.result /\ job'.kind = job.kind
    BY <1>6, <1>12 DEF Install, JobRecords
  <2> QED
    BY <1>5, <1>12, <2>1 DEF Install, Owners, outputs
<1>13. CASE (Install /\ Adopt) \/ Forget
  BY <1>11, <1>13 DEF Install, Forget, outputs
<1>14. CASE PersistFails
  BY <1>14 DEF PersistFails
<1>15. ASSUME NEW r \in RuleIds, NEW enabled \in BOOLEAN, NEW s \in Scripts,
              SaveRule(r, enabled, s)
       PROVE  Owners'
  BY <1>5, <1>15 DEF SaveRule, Job, outputs
<1>16. ASSUME NEW r \in RuleIds, DeleteRule(r) PROVE Owners'
  BY <1>1, <1>5, <1>16, DeletedOneOwner DEF DeleteRule, Job, outputs, Owners
<1>17. ASSUME NEW c \in Channels, NEW s \in BOOLEAN, Manual(c, s) PROVE Owners'
  BY <1>5, <1>17 DEF Manual, Job, Drive
<1>18. CASE Requests
  BY <1>15, <1>16, <1>17, <1>18 DEF Requests
<1> QED
  BY <1>3, <1>4, <1>7, <1>8, <1>9, <1>10, <1>12, <1>13, <1>14, <1>18 DEF Next, Work

(* Without a fault a write takes effect. *)
LEMMA SameOwnership ==
  ASSUME ActiveTyped, DOMAIN active' = DOMAIN active,
         \A t \in DOMAIN active : /\ active'[t].applied = active[t].applied
                                  /\ active'[t].revertTo = active[t].revertTo
  PROVE  Ownership(active') = Ownership(active)
BY DEF Ownership

(* A step that writes nothing, outside the release of an edit.             *)
LEMMA FilesFrame ==
  ASSUME Files, UNCHANGED <<saved, live, bak, owned, rules, pin>>, pc # "saveSwitch",
         pc # "install", ~Releasing, pc' # "install", ~Releasing',
         Ownership(active') = Ownership(active)
  PROVE  Files'
<1>1. \A c \in Channels : saved[c] = pin[c]
  BY DEF Files
<1> QED
  BY <1>1 DEF Files, Stored

(* The files agree with memory after an evaluation begins,                 *)
LEMMA FilesTick == ASSUME Parts, Files, Tick PROVE Files'
<1>1. pc = "idle" /\ job.kind = "none" /\ pc' = "work"
      /\ UNCHANGED <<saved, live, bak, owned, rules, pin>>
  BY DEF Tick, Idle, Parts, JobTyped, Places, flash, outputs
<1>2. PICK long \in BOOLEAN :
        active' = [t \in DOMAIN active |-> [active[t] EXCEPT !.wait = Elapsed(@, long)]]
  BY DEF Tick
<1>3. \A t \in DOMAIN active : /\ active'[t].applied = active[t].applied
                               /\ active'[t].revertTo = active[t].revertTo
  BY <1>2 DEF Parts, ActiveTyped, Entries
<1> QED
  BY <1>1, <1>2, <1>3, SameOwnership, FilesFrame DEF Parts, Releasing

(* after its steps,                                                        *)
LEMMA FilesWork ==
  ASSUME Parts, Files, ~Fault,
         Begin \/ TakeOver \/ Own \/ GiveBack \/ Drop \/ PassBy \/ SaveSwitch \/ Done
  PROVE  Files'
<1> USE DEF ram, flash, outputs
<1>1. CASE Begin
  <2>1. pc = "work" /\ ~Releasing
    BY <1>1 DEF Begin, Working, Releasing
  <2>2. Ownership(active') = Ownership(active)
    <3>1. /\ DOMAIN active' = DOMAIN active \cup {Token} /\ ~active'[Token].applied
          /\ \A t \in DOMAIN active : active'[t] = active[t]
      BY <1>1 DEF Begin
    <3> QED
      BY <1>1, <3>1 DEF Ownership, Begin
  <2> QED
    BY <1>1, <2>1, <2>2, FilesFrame DEF Begin, Releasing
<1>2. ASSUME Working, Drive(Act(Token).chan, TRUE) \/ Drive(Act(Token).chan, FALSE),
             pc' = "saveSwitch", job'.chan = Act(Token).chan, job'.kind = job.kind,
             UNCHANGED <<flash, ram>>
      PROVE  Files'
  <2>1. pc = "work" /\ ~Releasing /\ ~Releasing'
    BY <1>2, WorkingIs DEF Working, Releasing
  <2>2. \A c \in Channels : c # Act(Token).chan => pin'[c] = pin[c]
    BY <1>2, WorkingIs DEF Drive, Parts, OutputsTyped
  <2> QED
    BY <1>2, <2>1, <2>2 DEF Files, Stored
<1>3. CASE TakeOver
  <2>1. job'.chan = Act(Token).chan /\ job'.kind = job.kind
    BY <1>3 DEF TakeOver, Parts, JobTyped, JobRecords
  <2>2. Act(Token).set = TRUE \/ Act(Token).set = FALSE
    BY <1>3, WorkingIs DEF TakeOver
  <2>3. Drive(Act(Token).chan, TRUE) \/ Drive(Act(Token).chan, FALSE)
    BY <1>3, <2>2 DEF TakeOver
  <2> QED
    BY <1>2, <1>3, <2>1, <2>3 DEF TakeOver
<1>4. CASE GiveBack
  <2>1. job'.chan = Act(Token).chan /\ job'.kind = job.kind
    BY <1>4 DEF GiveBack, Parts, JobTyped, JobRecords
  <2>2. Token \in DOMAIN active
    BY <1>4, WorkingIs DEF GiveBack, Matched, Parts, JobTyped, TickTyped
  <2>3. active[Token].revertTo = TRUE \/ active[Token].revertTo = FALSE
    BY <1>4, <2>2, GivesBackIs DEF GiveBack, Parts
  <2>4. Drive(Act(Token).chan, TRUE) \/ Drive(Act(Token).chan, FALSE)
    BY <1>4, <2>3 DEF GiveBack
  <2> QED
    BY <1>2, <1>4, <2>1, <2>4 DEF GiveBack
<1>5. CASE Own \/ Drop
  <2>1. owned' = Ownership(active') /\ pc' = "work" /\ pc \in {"own", "drop", "work"}
        /\ UNCHANGED <<saved, live, bak, rules, pin>>
    BY <1>5 DEF Own, Drop, Written, Working
  <2>2. ~Releasing /\ ~Releasing'
    BY <2>1 DEF Releasing
  <2> QED
    BY <2>1, <2>2 DEF Files, Stored
<1>6. CASE PassBy \/ Done
  <2>1. pc = "work" /\ pc' \in {"work", "idle"} /\ ~Releasing /\ ~Releasing'
    BY <1>6 DEF PassBy, Done, Working, Releasing
  <2> QED
    BY <1>6, <2>1, FilesFrame DEF PassBy, Done
<1>7. CASE SaveSwitch
  <2>1. saved' = [saved EXCEPT ![job.chan] = pin[job.chan]] /\ pc = "saveSwitch"
        /\ UNCHANGED <<pin, live, bak, owned, rules, active, job>>
    BY <1>7 DEF SaveSwitch, Written
  <2>2. \A c \in Channels : saved'[c] = pin[c]
    BY <2>1 DEF Files, Parts, OutputsTyped
  <2>3. pc' \notin {"install", "saveSwitch"} /\ (pc' = "release" <=> job.kind = "edit")
    BY <1>7 DEF SaveSwitch, Parts, JobTyped, Places, JobRecords
  <2>4. Releasing' <=> Releasing
    BY <2>1, <2>3 DEF Releasing
  <2> QED
    BY <2>1, <2>2, <2>3, <2>4 DEF Files, Stored
<1> QED
  BY <1>1, <1>3, <1>4, <1>5, <1>6, <1>7

(* after the steps of an edit,                                             *)
LEMMA FilesEdit ==
  ASSUME Parts, Files, ~Fault, Rotate \/ Install \/ PersistFails \/ ReleaseOne \/ Forget
  PROVE  Files'
<1> USE DEF ram, flash, outputs
<1>0. job.kind = "edit" /\ pc \in {"rotate", "install", "release"}
      /\ job.result \in Seq(Rules)
  BY DEF Rotate, Install, PersistFails, ReleaseOne, Forget, Parts, JobTyped, Places,
     JobRecords
<1>1. /\ \A c \in Channels : saved[c] = pin[c]
      /\ pc # "release" => owned = Ownership(active)
      /\ pc = "release" => live = job.result
  BY <1>0 DEF Files, Releasing
<1>2. job.result # Missing
  BY <1>0, AutomationAssumption DEF Rules
<1>3. CASE Rotate
  <2>1. pc' = "install" /\ pc = "rotate" /\ UNCHANGED <<saved, pin, owned, active>>
    BY <1>3 DEF Rotate
  <2> QED
    BY <1>1, <2>1 DEF Files, Releasing
<1>4. ASSUME Install \/ Forget, Adopt, live' = job.result, owned' = Ownership(active'),
             UNCHANGED <<saved, pin>>
      PROVE  Files'
  <2>1. pc' = "idle" /\ rules' = job.result /\ ~Releasing'
    BY <1>4 DEF Adopt, Releasing
  <2> QED
    BY <1>1, <1>2, <1>4, <2>1 DEF Files, Stored
<1>5. CASE Install /\ Adopt
  <2>1. pc = "install"
    BY <1>5 DEF Install
  <2> QED
    BY <1>1, <1>4, <1>5, <2>1 DEF Install
<1>6. CASE Install /\ ~Adopt
  <2>1. job' = [job EXCEPT !.todo = {t \in TokensOf(rules) : OfRule(t)}] /\ pc' = "release"
        /\ live' = job.result /\ UNCHANGED <<saved, pin>>
    BY <1>6 DEF Install
  <2>2. job'.result = job.result /\ job'.kind = "edit"
    BY <1>0, <2>1 DEF Parts, JobTyped, JobRecords
  <2>3. Releasing'
    BY <2>1, <2>2 DEF Releasing
  <2> QED
    BY <1>1, <2>1, <2>2, <2>3 DEF Files
<1>7. CASE Forget
  <2>1. pc = "release" /\ owned' = Ownership(active') /\ UNCHANGED live /\ Adopt
        /\ UNCHANGED <<saved, pin>>
    BY <1>7 DEF Forget, Written
  <2> QED
    BY <1>1, <1>4, <1>7, <2>1
<1>8. CASE ReleaseOne
  <2>1. pc = "release" /\ UNCHANGED <<saved, live>> /\ pc' \in {"release", "saveSwitch"}
    BY <1>8 DEF ReleaseOne
  <2>2. job'.result = job.result /\ job'.kind = "edit"
    BY <1>0, <1>8 DEF Parts, JobTyped, JobRecords, ReleaseOne
  <2>3. Releasing'
    BY <2>1, <2>2 DEF Releasing
  <2>4. \A c \in Channels : (pc' = "saveSwitch" /\ c = job'.chan) \/ pin'[c] = pin[c]
    BY <1>8 DEF ReleaseOne, Drive, Parts, OutputsTyped, JobTyped, JobRecords
  <2> QED
    BY <1>1, <2>1, <2>2, <2>3, <2>4 DEF Files
<1>9. CASE PersistFails
  BY <1>9 DEF PersistFails
<1> QED
  BY <1>3, <1>5, <1>6, <1>7, <1>8, <1>9

(* and after every step.                                                   *)
LEMMA FilesStep == ASSUME Parts, Files, ~Fault, [Next]_vars, ~Restart PROVE Files'
<1> USE DEF ram, flash, outputs
<1>1. CASE UNCHANGED vars
  BY <1>1 DEF vars, Files, Stored, Releasing
<1>2. ASSUME Idle, pc' = "rotate", job'.kind = "edit", UNCHANGED <<outputs, flash, ram>>
      PROVE  Files'
  BY <1>2, FilesFrame DEF Idle, Releasing
<1>3. CASE \/ \E r \in RuleIds, enabled \in BOOLEAN, s \in Scripts : SaveRule(r, enabled, s)
           \/ \E r \in RuleIds : DeleteRule(r)
  BY <1>2, <1>3 DEF SaveRule, DeleteRule, Job
<1>4. ASSUME NEW c \in Channels, NEW s \in BOOLEAN, Manual(c, s) PROVE Files'
  <2>1. pc = "idle" /\ pc' = "saveSwitch" /\ job'.chan = c /\ job'.kind = "manual"
    BY <1>4 DEF Manual, Idle, Job
  <2>2. \A d \in Channels : d # c => pin'[d] = pin[d]
    BY <1>4 DEF Manual, Drive, Parts, OutputsTyped
  <2>3. UNCHANGED <<saved, live, bak, owned, rules, active>> /\ ~Releasing /\ ~Releasing'
    BY <1>4, <2>1 DEF Manual, Releasing
  <2> QED
    BY <2>1, <2>2, <2>3 DEF Files, Stored
<1> QED
  BY <1>1, <1>3, <1>4, FilesTick, FilesWork, FilesEdit DEF Next, Work, Requests

(* The channels of the actions under way. *)
LEMMA ActiveChannels ==
  ASSUME Parts, Owners, NEW t \in DOMAIN active, NEW u \in TokensOf(rules), t # u,
         RuleOf(rules, u[1]).enabled
  PROVE  Act(t).chan # Act(u).chan
<1>1. t \in TokensOf(rules) /\ RuleOf(rules, t[1]).enabled
  BY DEF Parts, ActiveTyped, Owners
<1> QED
  BY <1>1, OwnChannel DEF Parts, ListsTyped, Owners

(* At work on an action: its rule is enabled. *)
LEMMA TokenEnabled ==
  ASSUME Parts, Owners, Token \in job.todo, Matched \/ Token \in DOMAIN active
  PROVE  Token \in TokensOf(rules) /\ RuleOf(rules, Token[1]).enabled
BY DEF Parts, JobTyped, Owners, Matched

(* A step outside the change of an output.                                 *)
LEMMA ForcedFrame ==
  ASSUME Forced, UNCHANGED <<pin, active, rules>>, ~Taking, ~Giving, ~Taking', ~Giving',
         job'.prior = NoState
  PROVE  Forced'
BY DEF Forced, Act

(* Applied actions stay in force: an evaluation begins,                    *)
LEMMA ForcedTick == ASSUME Parts, Forced, Tick PROVE Forced'
<1>1. PICK long \in BOOLEAN :
        active' = [t \in DOMAIN active |-> [active[t] EXCEPT !.wait = Elapsed(@, long)]]
  BY DEF Tick
<1>2. \A t \in DOMAIN active : active'[t].applied = active[t].applied
  BY <1>1 DEF Parts, ActiveTyped, Entries
<1>3. ~Taking /\ ~Giving /\ ~Taking' /\ ~Giving' /\ job'.prior = NoState
      /\ UNCHANGED <<pin, rules>>
  BY DEF Tick, Idle, Taking, Giving, Job, outputs
<1> QED
  BY <1>1, <1>2, <1>3 DEF Forced, Act

(* takes a channel over, which no other action under way drives,           *)
LEMMA ForcedTakeOver == ASSUME Parts, Owners, Forced, TakeOver PROVE Forced'
<1>1. /\ pc = "work" /\ pc' = "saveSwitch" /\ job.kind = "tick" /\ Matched
      /\ Token \in job.todo
      /\ Token \in DOMAIN active /\ ~active[Token].applied
      /\ Act(Token).chan \in Channels /\ UNCHANGED <<active, rules, holding>>
      /\ pin' = [pin EXCEPT ![Act(Token).chan] = Act(Token).set]
      /\ job' = [job EXCEPT !.chan = Act(Token).chan, !.prior = pin[Act(Token).chan]]
  BY WorkingIs DEF TakeOver, Working, Due, Drive, ram
<1>2. /\ job'.todo = job.todo /\ job'.kind = "tick" /\ job'.chan = Act(Token).chan
      /\ job'.prior = pin[Act(Token).chan]
  BY <1>1 DEF Parts, JobTyped, JobRecords
<1>3. Token' = Token /\ Matched'
  BY <1>1, <1>2, SameToken DEF Matched
<1>4. /\ pin \in [Channels -> BOOLEAN] /\ pin'[Act(Token).chan] = Act(Token).set
      /\ \A c \in Channels : c # Act(Token).chan => pin'[c] = pin[c]
  BY <1>1 DEF Parts, OutputsTyped
<1>5. ASSUME NEW t \in DOMAIN active, active[t].applied PROVE pin'[Act(t).chan] = Act(t).set
  <2>1. Token \in TokensOf(rules) /\ RuleOf(rules, Token[1]).enabled
    BY <1>1, TokenEnabled
  <2>2. Act(t).chan # Act(Token).chan /\ Act(t).chan \in Channels
    BY <1>1, <1>5, <2>1, ActiveChannels, ActIs DEF Parts, ActiveTyped
  <2>3. pin[Act(t).chan] = Act(t).set
    BY <1>1, <1>5 DEF Forced, Giving
  <2> QED
    BY <1>4, <2>2, <2>3
<1>6. \A t : Act(t)' = Act(t)
  BY <1>1 DEF Act
<1>7. Taking' /\ ~Giving'
  BY <1>1, <1>2, <1>3 DEF Taking, Giving
<1> QED
  BY <1>1, <1>2, <1>3, <1>4, <1>5, <1>6, <1>7 DEF Forced

(* gives one back,                                                         *)
LEMMA ForcedGiveBack == ASSUME Parts, Owners, Forced, GiveBack PROVE Forced'
<1>1. /\ pc = "work" /\ pc' = "saveSwitch" /\ job.kind = "tick" /\ ~Matched
      /\ Token \in job.todo
      /\ GivesBack(Token) /\ Act(Token).chan \in Channels
      /\ UNCHANGED <<active, rules, holding>>
      /\ pin' = [pin EXCEPT ![Act(Token).chan] = active[Token].revertTo]
      /\ job' = [job EXCEPT !.chan = Act(Token).chan]
  BY WorkingIs DEF GiveBack, Working, Drive, ram
<1>2. Token \in DOMAIN active /\ job.prior = NoState
  BY <1>1 DEF Parts, JobTyped, TickTyped, Matched, Forced, Taking
<1>3. /\ job'.todo = job.todo /\ job'.kind = "tick" /\ job'.chan = Act(Token).chan
      /\ job'.prior = NoState
  BY <1>1, <1>2 DEF Parts, JobTyped, JobRecords
<1>4. Token' = Token /\ ~Matched'
  BY <1>1, <1>3, SameToken DEF Matched
<1>5. /\ pin \in [Channels -> BOOLEAN] /\ pin'[Act(Token).chan] = active[Token].revertTo
      /\ \A c \in Channels : c # Act(Token).chan => pin'[c] = pin[c]
  BY <1>1 DEF Parts, OutputsTyped
<1>6. ASSUME NEW t \in DOMAIN active, active[t].applied, t # Token
      PROVE  pin'[Act(t).chan] = Act(t).set
  <2>1. Token \in TokensOf(rules) /\ RuleOf(rules, Token[1]).enabled
    BY <1>1, <1>2, TokenEnabled
  <2>2. Act(t).chan # Act(Token).chan /\ Act(t).chan \in Channels
    BY <1>6, <2>1, ActiveChannels, ActIs DEF Parts, ActiveTyped
  <2>3. pin[Act(t).chan] = Act(t).set
    BY <1>1, <1>6 DEF Forced, Giving
  <2> QED
    BY <1>5, <2>2, <2>3
<1>7. /\ \A t : Act(t)' = Act(t)
      /\ GivesBack(Token)'
  BY <1>1, <1>4 DEF Act, GivesBack
<1>8. Giving' /\ ~Taking'
  BY <1>1, <1>3, <1>4 DEF Taking, Giving
<1> QED
  BY <1>1, <1>2, <1>3, <1>4, <1>5, <1>6, <1>7, <1>8 DEF Forced

(* counts an action as applied,                                            *)
LEMMA ForcedOwn == ASSUME Parts, Owners, Forced, Own PROVE Forced'
<1>1. /\ Token \in DOMAIN active /\ DOMAIN active' = DOMAIN active
      /\ \A t \in DOMAIN active : t # Token => active'[t] = active[t]
      /\ job.kind = "tick" /\ Matched
  BY OwnToken, OwnIs DEF Parts
<1>2. pin[Act(Token).chan] = Act(Token).set
  BY <1>1 DEF Own, Forced, Taking
<1>3. UNCHANGED <<pin, rules>> /\ pc' = "work" /\ job'.prior = NoState /\ ~Giving
  BY <1>1, JobUpdates DEF Own, outputs, Parts, JobTyped, Giving
<1>4. ~Taking' /\ ~Giving'
  BY <1>3 DEF Taking, Giving
<1>5. \A t : Act(t)' = Act(t)
  BY <1>3 DEF Act
<1> QED
  BY <1>1, <1>2, <1>3, <1>4, <1>5 DEF Forced

(* lets go of an action,                                                   *)
LEMMA ForcedDrop == ASSUME Parts, Owners, Forced, Drop PROVE Forced'
<1>1. /\ DOMAIN active' = DOMAIN active \ {Token}
      /\ \A t \in DOMAIN active' : active'[t] = active[t]
      /\ UNCHANGED <<pin, rules>> /\ pc' = "work" /\ job'.prior = NoState
  <2>1. active' = Without(active, Token) /\ job' = NextAction /\ pc' = "work"
        /\ UNCHANGED <<pin, rules>>
    BY DEF Drop, outputs
  <2>2. /\ DOMAIN active' = DOMAIN active \ {Token}
        /\ \A t \in DOMAIN active' : active'[t] = active[t]
    BY <2>1, WithoutIs
  <2> QED
    BY <2>1, <2>2, JobUpdates DEF Parts, JobTyped
<1>2. ~Taking' /\ ~Giving'
  BY <1>1 DEF Taking, Giving
<1>3. \A t : Act(t)' = Act(t)
  BY <1>1 DEF Act
<1> QED
  BY <1>1, <1>2, <1>3 DEF Forced

(* saves the outputs,                                                      *)
LEMMA ForcedSaveSwitch == ASSUME Parts, Forced, SaveSwitch PROVE Forced'
<1>1. UNCHANGED <<pin, active, rules, holding, job>> /\ pc = "saveSwitch"
  BY DEF SaveSwitch, outputs, ram
<1>2. Token' = Token /\ (Matched' <=> Matched)
  BY <1>1, SameToken DEF Matched
<1>3. job.kind = "tick" => pc' = IF Matched THEN "own" ELSE "drop"
  BY DEF SaveSwitch
<1>4. (Taking' <=> Taking) /\ (Giving' <=> Giving)
  BY <1>1, <1>2, <1>3 DEF Taking, Giving
<1>5. pc' # "saveSwitch"
  BY DEF SaveSwitch
<1>6. \A t : Act(t)' = Act(t) /\ (GivesBack(t)' <=> GivesBack(t))
  BY <1>1 DEF Act, GivesBack
<1> QED
  BY <1>1, <1>2, <1>4, <1>5, <1>6 DEF Forced

(* starts the delay of an action;                                          *)
LEMMA ForcedBegin == ASSUME Parts, Forced, Begin PROVE Forced'
<1>1. /\ DOMAIN active' = DOMAIN active \cup {Token} /\ ~active'[Token].applied
      /\ \A t \in DOMAIN active : t # Token => active'[t] = active[t]
      /\ UNCHANGED <<pin, rules, job, pc>> /\ pc = "work"
  BY DEF Begin, outputs, Working
<1>2. ~Taking' /\ ~Giving' /\ ~Taking /\ ~Giving
  BY <1>1 DEF Taking, Giving
<1>3. \A t : Act(t)' = Act(t)
  BY <1>1 DEF Act
<1> QED
  BY <1>1, <1>2, <1>3 DEF Forced

(* an edit gives back what one action changed,                             *)
LEMMA ForcedReleaseOne == ASSUME Parts, Owners, Forced, ReleaseOne PROVE Forced'
<1>1. /\ pc = "release" /\ job.kind = "edit" /\ Token \in job.todo
      /\ Token \in DOMAIN active
      /\ Act(Token).chan \in Channels
  BY WorkingToken DEF ReleaseOne, Parts, JobTyped, Places, EditTyped, Releasing
<1>2. /\ DOMAIN active' = DOMAIN active \ {Token} /\ UNCHANGED rules
      /\ \A t \in DOMAIN active' : active'[t] = active[t]
  BY WithoutIs DEF ReleaseOne
<1>3. job'.kind = "edit" /\ job'.prior = NoState
  BY <1>1 DEF ReleaseOne, Parts, JobTyped, JobRecords, Forced, Taking
<1>4. \A c \in Channels : c # Act(Token).chan => pin'[c] = pin[c]
  BY DEF ReleaseOne, Drive, Parts, OutputsTyped, outputs
<1>5. ASSUME NEW t \in DOMAIN active', active[t].applied
      PROVE  pin'[Act(t).chan] = Act(t).set
  <2>1. Token \in TokensOf(rules) /\ RuleOf(rules, Token[1]).enabled
    BY <1>1, TokenEnabled
  <2>2. Act(t).chan # Act(Token).chan /\ Act(t).chan \in Channels
    BY <1>2, <1>5, <2>1, ActiveChannels, ActIs DEF Parts, ActiveTyped
  <2>3. pin[Act(t).chan] = Act(t).set
    BY <1>1, <1>2, <1>5 DEF Forced, Giving
  <2> QED
    BY <1>4, <2>2, <2>3
<1>6. ~Taking' /\ ~Giving'
  BY <1>3 DEF Taking, Giving
<1>7. \A t : Act(t)' = Act(t)
  BY <1>2 DEF Act
<1> QED
  BY <1>2, <1>3, <1>5, <1>6, <1>7 DEF Forced

(* adopts its result,                                                      *)
LEMMA ForcedAdopt ==
  ASSUME Parts, Forced, Install \/ Forget, Adopt, UNCHANGED <<pin, active>> PROVE Forced'
<1>1. /\ \A t \in DOMAIN active : Act(t)' = Act(t)
      /\ job.kind = "edit"
  BY AdoptRules
<1>2. pc' = "idle" /\ job'.prior = NoState
  BY NoJobIs DEF Adopt
<1>3. ~Taking' /\ ~Giving' /\ ~Giving
  BY <1>1, <1>2 DEF Taking, Giving
<1> QED
  BY <1>1, <1>2, <1>3 DEF Forced

(* or writes a file;                                                       *)
LEMMA ForcedRest ==
  ASSUME Parts, Forced, ~Fault,
         PassBy \/ Done \/ Rotate \/ (Install /\ ~Adopt) \/ PersistFails \/ UNCHANGED vars
  PROVE  Forced'
<1> USE DEF outputs, ram
<1>1. CASE PassBy \/ Done
  <2>1. pc = "work" /\ pc' \in {"work", "idle"} /\ job'.prior = NoState
        /\ UNCHANGED <<pin, active, rules>>
    BY <1>1, NoJobIs, JobUpdates DEF PassBy, Done, Working, Parts, JobTyped
  <2> QED
    BY <2>1, ForcedFrame DEF Taking, Giving
<1>2. CASE Rotate \/ (Install /\ ~Adopt)
  <2>1. job.kind = "edit"
    BY <1>2 DEF Rotate, Install, Parts, JobTyped, Places
  <2>2. job.prior = NoState
    BY <2>1 DEF Forced, Taking
  <2>3. job'.kind = "edit" /\ job'.prior = NoState /\ UNCHANGED <<pin, active, rules>>
    BY <1>2, <2>1, <2>2 DEF Rotate, Install, Parts, JobTyped, JobRecords
  <2> QED
    BY <2>1, <2>3, ForcedFrame DEF Taking, Giving
<1>3. CASE PersistFails
  BY <1>3 DEF PersistFails
<1>4. CASE UNCHANGED vars
  <2>1. UNCHANGED <<pin, active, rules, holding, job, pc>>
    BY <1>4 DEF vars
  <2>2. Token' = Token /\ (Matched' <=> Matched)
    BY <2>1, SameToken DEF Matched
  <2>3. (Taking' <=> Taking) /\ (Giving' <=> Giving)
    BY <2>1, <2>2 DEF Taking, Giving
  <2>4. \A t : Act(t)' = Act(t) /\ (GivesBack(t)' <=> GivesBack(t))
    BY <2>1 DEF Act, GivesBack
  <2> QED
    BY <2>1, <2>2, <2>3, <2>4 DEF Forced
<1> QED
  BY <1>1, <1>2, <1>3, <1>4

(* A channel that no enabled rule drives is driven by no action under way. *)
LEMMA Uncontrolled ==
  ASSUME Parts, Owners, NEW c, ~Controlled(c), NEW t \in DOMAIN active
  PROVE  Act(t).chan # c
<1> DEFINE i == Position(rules, t[1])
<1>1. t \in TokensOf(rules) /\ RuleOf(rules, t[1]).enabled
  BY DEF Parts, ActiveTyped, Owners
<1>2. i \in DOMAIN rules /\ rules[i] = RuleOf(rules, t[1])
  BY <1>1, RuleWithId DEF TokensOf, Parts, ListsTyped
<1>3. Act(t).chan \in Drives(rules[i])
  BY <1>1, <1>2 DEF Act, Drives, TokensOf
<1> QED
  BY <1>1, <1>2, <1>3 DEF Controlled

(* a request begins;                                                       *)
LEMMA ForcedRequests == ASSUME Parts, Owners, Forced, Requests PROVE Forced'
<1> USE DEF outputs, ram
<1>1. ASSUME Idle, UNCHANGED <<pin, active, rules>>, job'.prior = NoState, job'.kind = "edit"
      PROVE  Forced'
  BY <1>1, ForcedFrame DEF Idle, Taking, Giving
<1>2. CASE \/ \E r \in RuleIds, enabled \in BOOLEAN, s \in Scripts : SaveRule(r, enabled, s)
           \/ \E r \in RuleIds : DeleteRule(r)
  BY <1>1, <1>2 DEF SaveRule, DeleteRule, Job
<1>3. ASSUME NEW c \in Channels, NEW s \in BOOLEAN, Manual(c, s) PROVE Forced'
  <2>1. /\ pc = "idle" /\ ~Controlled(c) /\ pin' = [pin EXCEPT ![c] = s]
        /\ job'.kind = "manual" /\ job'.prior = NoState /\ UNCHANGED <<active, rules>>
    BY <1>3 DEF Manual, Idle, Drive, Job
  <2>2. \A t \in DOMAIN active : Act(t).chan # c
    BY <2>1, Uncontrolled
  <2>3. ASSUME NEW t \in DOMAIN active, active[t].applied
        PROVE  pin'[Act(t).chan] = Act(t).set
    <3>1. Act(t).chan \in Channels
      BY ActIs DEF Parts, ActiveTyped
    <3>2. pin[Act(t).chan] = Act(t).set
      BY <2>1, <2>3 DEF Forced, Giving
    <3> QED
      BY <2>1, <2>2, <3>1, <3>2 DEF Parts, OutputsTyped
  <2>4. ~Taking' /\ ~Giving' /\ \A t : Act(t)' = Act(t)
    BY <2>1 DEF Taking, Giving, Act
  <2> QED
    BY <2>1, <2>3, <2>4 DEF Forced
<1> QED
  BY <1>2, <1>3 DEF Requests

(* and over every step.                                                    *)
LEMMA ForcedStep == ASSUME Parts, Owners, Forced, ~Fault, [Next]_vars, ~Restart
                    PROVE  Forced'
<1>1. CASE Forget \/ (Install /\ Adopt)
  BY <1>1, ForcedAdopt DEF Forget, Install, outputs
<1> QED
  BY <1>1, ForcedTick, ForcedTakeOver, ForcedGiveBack, ForcedOwn, ForcedDrop,
     ForcedSaveSwitch, ForcedBegin, ForcedReleaseOne, ForcedRest, ForcedRequests DEF Next,
     Work

(* Between two handlers a restart changes nothing of this. *)
LEMMA RestartTrusted ==
  ASSUME Parts, Trusted, ~Fault, ~Refusal, Restart PROVE Trusted'
<1>1. /\ pc = "idle" /\ ready' = TRUE /\ rules' = Stored /\ active' = LoadedActive(Stored)
      /\ holding' = {} /\ pin' = saved /\ pc' = "idle" /\ job' = NoJob /\ UNCHANGED flash
  BY DEF Restart, Idle
<1>2. ~Taking /\ ~Giving /\ ~Releasing /\ ~Releasing' /\ ~Taking' /\ ~Giving'
      /\ job'.kind = "none" /\ job'.prior = NoState
  BY <1>1, NoJobIs DEF Taking, Giving, Releasing
<1>3. Stored = rules /\ owned = Ownership(active) /\ \A c \in Channels : saved[c] = pin[c]
  BY <1>1, <1>2 DEF Trusted, Files
<1>4. saved = pin
  BY <1>3 DEF Parts, OutputsTyped
<1>5. DOMAIN owned = {t \in DOMAIN active : active[t].applied}
      /\ \A t \in DOMAIN owned : owned[t] = active[t].revertTo
  BY <1>3 DEF Ownership
<1>6. DOMAIN owned \cap TokensOf(rules) = DOMAIN owned
  BY <1>5 DEF Parts, ActiveTyped
<1>7. /\ DOMAIN active' = DOMAIN owned
      /\ \A t \in DOMAIN owned : active'[t].applied /\ active'[t].revertTo = owned[t]
  BY <1>1, <1>3, <1>6 DEF LoadedActive
<1>8. Owners'
  BY <1>1, <1>2, <1>3, <1>5, <1>7 DEF Trusted, Owners
<1>9. Ownership(active') = owned
  <2>1. Ownership(active') = [t \in DOMAIN owned |-> owned[t]]
    BY <1>7 DEF Ownership
  <2>2. owned = [t \in DOMAIN owned |-> owned[t]]
    BY <1>3 DEF Ownership
  <2> QED
    BY <2>1, <2>2
<1>10. Files'
  BY <1>1, <1>2, <1>3, <1>4, <1>9 DEF Files, Stored, flash
<1>11. Forced'
  BY <1>1, <1>2, <1>3, <1>4, <1>5, <1>7 DEF Trusted, Forced, Act
<1> QED
  BY <1>8, <1>10, <1>11 DEF Trusted

Inv == Types /\ (~hurt => Trusted)

(* The invariant holds at first.                                           *)
LEMMA InitInv == Init => Inv
<1> SUFFICES ASSUME Init PROVE Types /\ Trusted
  BY DEF Inv
<1>1. Types
  BY InitTypes
<1>2. ~Taking /\ ~Giving /\ ~Releasing /\ job.prior = NoState /\ job.kind = "none"
  BY NoJobIs DEF Init, Taking, Giving, Releasing
<1>3. Owners
  BY <1>2 DEF Init, Owners, OneOwner
<1>4. Files
  <2>1. Ownership(active) = owned
    BY DEF Init, Ownership
  <2> QED
    BY <1>2, <2>1 DEF Init, Files, Stored
<1>5. Forced
  BY <1>2 DEF Init, Forced
<1> QED
  BY <1>1, <1>3, <1>4, <1>5 DEF Trusted

(* A step after which there was no fault is none.                          *)
LEMMA Unhurt ==
  ASSUME faults \in 0..MaxFaults, [Next]_vars, ~hurt' PROVE ~hurt /\ ~Fault /\ ~Refusal
BY FaultsStep, AutomationAssumption DEF hurt, Fault, Refusal

(* The invariant is inductive.                                             *)
LEMMA InvStep == Inv /\ [Next]_vars => Inv'
<1> SUFFICES ASSUME Inv, [Next]_vars PROVE Inv'
  OBVIOUS
<1>1. Types'
  BY TypesStep DEF Inv
<1>2. ASSUME ~hurt' PROVE Trusted'
  <2>1. Parts /\ Trusted /\ ~Fault /\ ~Refusal
    BY <1>2, Unhurt DEF Inv, Types
  <2> QED
    BY <2>1, OwnersStep, FilesStep, ForcedStep, RestartTrusted DEF Trusted
<1> QED
  BY <1>1, <1>2 DEF Inv

(* Between two handlers Files and Owners are RulesSound.                   *)
LEMMA InvRulesSound == Inv => RulesSound
<1> SUFFICES ASSUME Inv PROVE RulesSound
  OBVIOUS
<1>1. ASSUME ~hurt, Idle PROVE saved = pin /\ Stored = rules /\ owned = Ownership(active)
  <2>1. pc = "idle" /\ ~Releasing
    BY <1>1 DEF Idle, Releasing
  <2> QED
    BY <1>1, <2>1 DEF Inv, Trusted, Files, Types, Parts, OutputsTyped
<1>2. DisabledHasLetGo
  BY DEF Inv, Trusted, Owners, DisabledHasLetGo
<1> QED
  BY <1>1, <1>2, TypesTypeOK DEF RulesSound, RestartIsSafe, Inv

(* Between two handlers Forced is InForce.                                 *)
LEMMA InvInForce == Inv => InForce
BY DEF Inv, Trusted, Forced, InForce, Idle, Giving

(* Whenever no handler is at work and nothing has failed yet, switch.toml, *)
(* automations.toml and the ownership file say what the outputs and memory *)
(* say (_persist_runtime_state, persist_switch_state, _persist_rules), and *)
(* no disabled rule owns a channel: a restart changes nothing unless _load *)
(* refuses a rule that was accepted, which counts as the first failure.    *)
THEOREM Sound == Spec => []RulesSound
BY InitInv, InvStep, InvRulesSound, PTL DEF Spec

(* Whenever no handler is at work and nothing has failed yet, the channel  *)
(* of every action that counts as applied (_apply_rule) is set as it says. *)
THEOREM AppliedInForce == Spec => []InForce
BY InitInv, InvStep, InvInForce, PTL DEF Spec

----------------------------------------------------------------------------
(* The owner of a channel: the action that is taking it, or the one that   *)
(* has it to give back.                                                    *)
TakingOver(c) == Taking /\ job.chan = c /\ Act(Token).revert
Viewed ==
  ~hurt =>
    \A c \in Channels :
      /\ TakingOver(c) =>
           /\ Holders(c) = {} /\ OwnerOf(c) = Token /\ BaseOf(c) = job.prior
           /\ Token \in Tokens /\ Token # Nobody
      /\ ~TakingOver(c) /\ Holders(c) = {} => OwnerOf(c) = Nobody /\ BaseOf(c) = pin[c]
      /\ ~TakingOver(c) =>
           \A t \in Holders(c) : /\ Holders(c) = {t} /\ OwnerOf(c) = t /\ t # Nobody
                                 /\ BaseOf(c) = active[t].revertTo

(* The invariant says who owns each channel.                               *)
LEMMA InvViewed == Inv => Viewed
<1> SUFFICES ASSUME Inv, ~hurt, NEW c \in Channels
             PROVE  /\ TakingOver(c) =>
                         /\ Holders(c) = {} /\ OwnerOf(c) = Token /\ BaseOf(c) = job.prior
                         /\ Token \in Tokens /\ Token # Nobody
                    /\ ~TakingOver(c) /\ Holders(c) = {} =>
                         OwnerOf(c) = Nobody /\ BaseOf(c) = pin[c]
                    /\ ~TakingOver(c) =>
                         \A t \in Holders(c) : /\ Holders(c) = {t} /\ OwnerOf(c) = t /\ t # Nobody
                                               /\ BaseOf(c) = active[t].revertTo
  BY DEF Viewed
<1>1. Parts /\ Owners /\ Forced
  BY DEF Inv, Types, Trusted
<1>2. \A t \in DOMAIN active : t \in TokensOf(rules) /\ RuleOf(rules, t[1]).enabled
  BY <1>1 DEF Parts, ActiveTyped, Owners
<1>3. Nobody \notin Tokens
  BY AutomationAssumption DEF Tokens
<1>4. ASSUME NEW t \in Holders(c)
      PROVE  Holders(c) = {t} /\ t # Nobody /\ t \in DOMAIN active
  <2>1. t \in DOMAIN active /\ Act(t).chan = c /\ t \in Tokens
    BY <1>2 DEF Holders, TokensOf
  <2>2. \A u \in Holders(c) : u = t
    BY <1>1, <1>2, <2>1, ActiveChannels DEF Holders
  <2> QED
    BY <1>3, <2>1, <2>2
<1>5. CASE TakingOver(c)
  <2>1. Token \in DOMAIN active /\ ~active[Token].applied /\ Act(Token).chan = c
    BY <1>1, <1>5 DEF TakingOver, Taking, Forced, Parts, JobTyped, TickTyped, Places
  <2>2. Token \in Tokens
    BY <1>2, <2>1 DEF TokensOf
  <2>3. Holders(c) = {}
    <3> SUFFICES ASSUME NEW t \in Holders(c) PROVE FALSE
      OBVIOUS
    <3>1. t \in DOMAIN active /\ Act(t).chan = c /\ active[t].applied
      BY DEF Holders, GivesBack
    <3> QED
      BY <1>1, <1>2, <2>1, <3>1, ActiveChannels
  <2>4. OwnerOf(c) = Token
    BY <1>5 DEF OwnerOf, TakingOver
  <2>5. BaseOf(c) = job.prior
    BY <1>3, <2>1, <2>2, <2>4 DEF BaseOf
  <2> QED
    BY <1>3, <1>5, <2>2, <2>3, <2>4, <2>5
<1>6. CASE ~TakingOver(c) /\ Holders(c) = {}
  BY <1>6 DEF OwnerOf, BaseOf, TakingOver
<1>7. CASE ~TakingOver(c) /\ Holders(c) # {}
  <2>1. PICK t \in Holders(c) : TRUE
    BY <1>7
  <2>2. Holders(c) = {t} /\ t # Nobody /\ t \in DOMAIN active /\ active[t].applied
    BY <1>4 DEF Holders, GivesBack
  <2>3. OwnerOf(c) = t
    BY <1>7, <2>2 DEF OwnerOf, TakingOver
  <2>4. BaseOf(c) = active[t].revertTo
    BY <2>2, <2>3 DEF BaseOf
  <2> QED
    BY <1>7, <2>2, <2>3, <2>4
<1> QED
  BY <1>5, <1>6, <1>7

(* What stays of one channel, and of all. *)
LEMMA SameView ==
  ASSUME Viewed, Viewed', ~hurt, ~hurt', NEW c \in Channels, pin'[c] = pin[c],
         ~TakingOver(c), ~TakingOver(c)', Holders(c)' = Holders(c),
         \A t \in Holders(c) : active'[t].revertTo = active[t].revertTo
  PROVE  OwnerOf(c)' = OwnerOf(c) /\ BaseOf(c)' = BaseOf(c)
<1>1. CASE Holders(c) = {}
  BY <1>1 DEF Viewed
<1>2. CASE Holders(c) # {}
  <2>1. PICK t \in Holders(c) : TRUE
    BY <1>2
  <2>2. OwnerOf(c) = t /\ BaseOf(c) = active[t].revertTo
    BY DEF Viewed
  <2>3. OwnerOf(c)' = t /\ BaseOf(c)' = active'[t].revertTo
    BY DEF Viewed
  <2> QED
    BY <2>2, <2>3
<1> QED
  BY <1>1, <1>2

(* A step that keeps the view of every channel is a stutter.               *)
LEMMA SameNow ==
  ASSUME UNCHANGED pin, ~hurt, ~hurt',
         \A c \in Channels : OwnerOf(c)' = OwnerOf(c) /\ BaseOf(c)' = BaseOf(c)
  PROVE  UNCHANGED Ownable!vars
<1>1. OwnerNow' = OwnerNow /\ BaseNow' = BaseNow
  BY DEF OwnerNow, BaseNow
<1> QED
  BY <1>1 DEF Ownable!vars

(* A step that takes no channel and changes no holder. *)
LEMMA HoldersFrame ==
  ASSUME Viewed, Viewed', ~hurt, ~hurt', UNCHANGED pin, ~Taking, ~Taking', ~Giving, ~Giving',
         \A t \in DOMAIN active : active[t].applied =>
           /\ t \in DOMAIN active' /\ active'[t].applied
           /\ active'[t].revertTo = active[t].revertTo /\ Act(t)' = Act(t),
         \A t \in DOMAIN active' : active'[t].applied =>
           \/ t \in DOMAIN active /\ active[t].applied
           \/ active'[t].revertTo = NoState
  PROVE  UNCHANGED Ownable!vars
<1>1. ASSUME NEW c \in Channels
      PROVE  /\ Holders(c)' = Holders(c)
             /\ \A t \in Holders(c) : active'[t].revertTo = active[t].revertTo
  <2>1. \A t \in Holders(c) : t \in Holders(c)' /\ active'[t].revertTo = active[t].revertTo
    BY DEF Holders, GivesBack
  <2>2. \A t \in Holders(c)' : t \in Holders(c)
    BY DEF Holders, GivesBack
  <2> QED
    BY <2>1, <2>2
<1>2. \A c \in Channels : OwnerOf(c)' = OwnerOf(c) /\ BaseOf(c)' = BaseOf(c)
  BY <1>1, SameView DEF TakingOver
<1> QED
  BY <1>2, SameNow

(* A step that changes one channel, and leaves the views of the others. *)
LEMMA ChangesOne ==
  ASSUME NEW c \in Channels,
         \A d \in Channels : d # c => OwnerOf(d)' = OwnerOf(d) /\ BaseOf(d)' = BaseOf(d)
  PROVE  /\ OwnerNow' = [OwnerNow EXCEPT ![c] = OwnerOf(c)']
         /\ BaseNow' = [BaseNow EXCEPT ![c] = BaseOf(c)']
         /\ OwnerNow[c] = OwnerOf(c) /\ BaseNow[c] = BaseOf(c)
         /\ BaseOf(c)' = BaseOf(c) => BaseNow' = BaseNow
BY DEF OwnerNow, BaseNow

(* An action that takes a channel over owns it if it is to give it back.   *)
LEMMA RefineTakeOver ==
  ASSUME Inv, Viewed, Viewed', ~hurt, ~hurt', TakeOver PROVE Ownable!Next
<1>1. Parts /\ Owners /\ Forced
  BY DEF Inv, Types, Trusted
<1>2. /\ pc = "work" /\ pc' = "saveSwitch" /\ job.kind = "tick" /\ Matched
      /\ Token \in job.todo
      /\ Token \in DOMAIN active /\ ~active[Token].applied
      /\ Act(Token).chan \in Channels /\ Act(Token).set \in BOOLEAN
      /\ UNCHANGED <<active, rules, holding>>
      /\ pin' = [pin EXCEPT ![Act(Token).chan] = Act(Token).set]
      /\ job' = [job EXCEPT !.chan = Act(Token).chan, !.prior = pin[Act(Token).chan]]
  BY <1>1, WorkingIs DEF TakeOver, Working, Due, Drive, ram
<1> PICK c \in Channels, s \in BOOLEAN : c = Act(Token).chan /\ s = Act(Token).set
  BY <1>2
<1>3. /\ job'.todo = job.todo /\ job'.kind = "tick" /\ job'.chan = c
      /\ job'.prior = pin[c]
  BY <1>1, <1>2 DEF Parts, JobTyped, JobRecords
<1>4. Token' = Token /\ Matched' /\ \A t : Act(t)' = Act(t)
  BY <1>2, <1>3, SameToken DEF Matched, Act
<1>5. Taking' /\ ~Giving' /\ ~Taking /\ ~Giving
  BY <1>2, <1>3, <1>4 DEF Taking, Giving
<1>6. \A d : Holders(d)' = Holders(d)
  BY <1>2, <1>4, <1>5 DEF Holders, GivesBack
<1>7. pin \in [Channels -> BOOLEAN] /\ pin'[c] = s
  BY <1>1, <1>2 DEF Parts, OutputsTyped
<1>8. ASSUME NEW d \in Channels, d # c
      PROVE  OwnerOf(d)' = OwnerOf(d) /\ BaseOf(d)' = BaseOf(d)
  <2>1. ~TakingOver(d) /\ ~TakingOver(d)' /\ pin'[d] = pin[d]
    BY <1>2, <1>3, <1>5, <1>7, <1>8 DEF TakingOver
  <2> QED
    BY <1>2, <1>6, <2>1, SameView
<1>9. Holders(c) = {}
  <2> SUFFICES ASSUME NEW t \in Holders(c) PROVE FALSE
    OBVIOUS
  <2>1. t \in DOMAIN active /\ Act(t).chan = c /\ active[t].applied
    BY DEF Holders, GivesBack
  <2> QED
    BY <1>1, <1>2, <2>1, ActiveChannels, TokenEnabled
<1>10. OwnerOf(c) = Nobody /\ BaseOf(c) = pin[c]
  BY <1>2, <1>5, <1>9 DEF Viewed, TakingOver
<1>11. /\ OwnerNow' = [OwnerNow EXCEPT ![c] = OwnerOf(c)']
       /\ BaseNow' = [BaseNow EXCEPT ![c] = BaseOf(c)']
       /\ OwnerNow[c] = Nobody /\ BaseNow[c] = pin[c]
       /\ BaseOf(c)' = pin[c] => BaseNow' = BaseNow
  BY <1>2, <1>7, <1>8, <1>10, ChangesOne
<1>12. CASE Act(Token).revert
  <2>1. OwnerOf(c)' = Token /\ BaseOf(c)' = pin[c] /\ Token \in Tokens
    <3>1. TakingOver(c)'
      BY <1>3, <1>4, <1>5, <1>12 DEF TakingOver
    <3>2. (OwnerOf(c) = Token)' /\ BaseOf(c)' = job'.prior /\ (Token \in Tokens)'
      BY <1>2, <3>1 DEF Viewed
    <3> QED
      BY <1>3, <1>4, <3>2 DEF Tokens
  <2>2. Ownable!Take(c, Token, s)
    BY <1>2, <1>11, <2>1 DEF Ownable!Take
  <2> QED
    BY <1>2, <2>1, <2>2 DEF Ownable!Next
<1>13. CASE ~Act(Token).revert
  <2>1. ~TakingOver(c)'
    BY <1>4, <1>13 DEF TakingOver
  <2>2. OwnerOf(c)' = Nobody /\ BaseOf(c)' = s
    BY <1>2, <1>6, <1>7, <1>9, <2>1 DEF Viewed
  <2>3. OwnerNow' = OwnerNow
    BY <1>8, <1>10, <2>2 DEF OwnerNow
  <2>4. Ownable!SetFree(c, s)
    BY <1>2, <1>11, <2>2, <2>3 DEF Ownable!SetFree
  <2> QED
    BY <1>2, <2>4 DEF Ownable!Next
<1> QED
  BY <1>12, <1>13

(* The action that has to give a channel back does, and is its owner no    *)
(* more: in an evaluation or when its rule is edited.                      *)
LEMMA RefineGive ==
  ASSUME Inv, Viewed, Viewed', ~hurt, ~hurt', GivesBack(Token), Token \in DOMAIN active,
         ~Taking, ~Giving, ~Taking', UNCHANGED rules,
         pin' = [pin EXCEPT ![Act(Token).chan] = active[Token].revertTo],
         \A t \in DOMAIN active : t # Token => t \in DOMAIN active' /\ active'[t] = active[t],
         DOMAIN active' \subseteq DOMAIN active,
         \A t \in DOMAIN active' : (Giving /\ t = Token)' <=> t = Token
  PROVE  Ownable!Next
<1>1. Parts /\ Owners
  BY DEF Inv, Types, Trusted
<1>2. /\ Act(Token).chan \in Channels /\ active[Token].revertTo \in BOOLEAN
      /\ pin \in [Channels -> BOOLEAN] /\ Token \in Tokens
  BY <1>1, ActIs, GivesBackIs DEF Parts, ActiveTyped, OutputsTyped, TokensOf
<1> PICK c \in Channels, s \in BOOLEAN : c = Act(Token).chan /\ s = active[Token].revertTo
  BY <1>2
<1>3. \A t : Act(t)' = Act(t)
  BY DEF Act
<1>4. \A t : t \in Holders(c) <=> t = Token
  <2>1. Token \in Holders(c)
    BY DEF Holders
  <2>2. ~TakingOver(c)
    BY DEF TakingOver
  <2> QED
    BY <1>2, <2>1, <2>2 DEF Viewed
<1>5. Holders(c)' = {}
  <2> SUFFICES ASSUME NEW t, t \in Holders(c)' PROVE FALSE
    OBVIOUS
  <2>1. t \in DOMAIN active' /\ t # Token /\ Act(t).chan = c /\ (GivesBack(t))'
    BY <1>3 DEF Holders
  <2>2. t \in DOMAIN active /\ GivesBack(t)
    BY <1>3, <2>1 DEF GivesBack
  <2> QED
    BY <1>4, <2>1, <2>2 DEF Holders
<1>6. ASSUME NEW d \in Channels, d # c
      PROVE  OwnerOf(d)' = OwnerOf(d) /\ BaseOf(d)' = BaseOf(d)
  <2>1. \A t \in Holders(d) : t # Token /\ t \in DOMAIN active /\ GivesBack(t) /\ Act(t).chan = d
    BY <1>6 DEF Holders
  <2>2. \A t \in Holders(d) : t \in Holders(d)' /\ active'[t] = active[t]
    BY <1>3, <2>1 DEF Holders, GivesBack
  <2>3. \A t \in Holders(d)' : t # Token /\ t \in Holders(d)
    BY <1>3 DEF Holders, GivesBack
  <2>4. Holders(d)' = Holders(d)
    BY <2>2, <2>3
  <2>5. pin'[d] = pin[d]
    BY <1>2, <1>6
  <2> QED
    BY <2>2, <2>4, <2>5, SameView DEF TakingOver
<1>7. OwnerOf(c) = Token /\ Token # Nobody /\ BaseOf(c) = s
  BY <1>2, <1>4 DEF Viewed, TakingOver
<1>8. pin'[c] = s
  BY <1>2
<1>9. OwnerOf(c)' = Nobody /\ BaseOf(c)' = s
  BY <1>2, <1>5, <1>8 DEF Viewed, TakingOver
<1>10. OwnerNow' = [OwnerNow EXCEPT ![c] = Nobody] /\ OwnerNow[c] # Nobody /\ BaseNow[c] = s
       /\ BaseNow' = BaseNow
  BY <1>2, <1>6, <1>7, <1>8, <1>9, ChangesOne
<1>11. Ownable!Give(c)
  BY <1>2, <1>10 DEF Ownable!Give
<1> QED
  BY <1>2, <1>11 DEF Ownable!Next

(* The output is set back in an evaluation,                                *)
LEMMA RefineGiveBack ==
  ASSUME Inv, Viewed, Viewed', ~hurt, ~hurt', GiveBack PROVE Ownable!Next
<1>1. /\ pc = "work" /\ pc' = "saveSwitch" /\ job.kind = "tick" /\ ~Matched
      /\ Token \in job.todo
      /\ GivesBack(Token) /\ UNCHANGED <<active, rules, holding>>
      /\ pin' = [pin EXCEPT ![Act(Token).chan] = active[Token].revertTo]
      /\ job' = [job EXCEPT !.chan = Act(Token).chan]
  BY WorkingIs DEF GiveBack, Working, Drive, ram, Inv, Types
<1>2. Token \in DOMAIN active
  BY <1>1 DEF Inv, Types, Parts, JobTyped, TickTyped, Matched
<1>3. job'.todo = job.todo /\ job'.kind = "tick"
  BY <1>1 DEF Inv, Types, Parts, JobTyped, JobRecords
<1>4. Token' = Token /\ ~Matched'
  BY <1>1, <1>3, SameToken DEF Matched
<1>5. ~Taking /\ ~Giving /\ ~Taking' /\ Giving'
  BY <1>1, <1>3, <1>4 DEF Taking, Giving
<1> QED
  BY <1>1, <1>2, <1>4, <1>5, RefineGive

(* or when the rule of the action is edited.                               *)
LEMMA RefineReleaseOne ==
  ASSUME Inv, Viewed, Viewed', ~hurt, ~hurt', ReleaseOne
  PROVE  Ownable!Next \/ UNCHANGED Ownable!vars
<1>1. Parts /\ Trusted
  BY DEF Inv, Types
<1>2. /\ pc = "release" /\ job.kind = "edit" /\ Token \in job.todo
      /\ Token \in DOMAIN active
  BY <1>1, WorkingToken DEF ReleaseOne, Parts, JobTyped, Places, EditTyped, Releasing
<1>3. /\ DOMAIN active' = DOMAIN active \ {Token} /\ UNCHANGED rules
      /\ \A t \in DOMAIN active' : active'[t] = active[t]
  BY WithoutIs DEF ReleaseOne
<1>4. job'.kind = "edit"
  BY <1>1, <1>2 DEF ReleaseOne, Parts, JobTyped, JobRecords
<1>5. ~Taking /\ ~Giving /\ ~Taking' /\ ~Giving'
  BY <1>2, <1>4 DEF Taking, Giving
<1>6. \A t : Act(t)' = Act(t)
  BY <1>3 DEF Act
<1>7. CASE GivesBack(Token) /\ ready
  <2>1. pin' = [pin EXCEPT ![Act(Token).chan] = active[Token].revertTo]
    BY <1>7 DEF ReleaseOne, Drive
  <2> QED
    BY <1>2, <1>3, <1>5, <1>7, <2>1, RefineGive
<1>8. CASE ~GivesBack(Token)
  <2>1. UNCHANGED pin
    BY <1>8 DEF ReleaseOne, outputs
  <2>2. ASSUME NEW c \in Channels PROVE OwnerOf(c)' = OwnerOf(c) /\ BaseOf(c)' = BaseOf(c)
    <3>1. \A t \in Holders(c) : t # Token /\ t \in DOMAIN active /\ GivesBack(t) /\ Act(t).chan = c
      BY <1>8 DEF Holders
    <3>2. \A t \in Holders(c) : t \in Holders(c)' /\ active'[t] = active[t]
      BY <1>3, <1>5, <1>6, <3>1 DEF Holders, GivesBack
    <3>3. \A t \in Holders(c)' : t \in Holders(c)
      BY <1>3, <1>5, <1>6 DEF Holders, GivesBack
    <3>4. Holders(c)' = Holders(c)
      BY <3>2, <3>3
    <3> QED
      BY <1>5, <2>1, <3>2, <3>4, SameView DEF TakingOver
  <2> QED
    BY <2>1, <2>2, SameNow
<1> QED
  BY <1>1, <1>7, <1>8 DEF Trusted, Owners

(* Taking over ends: the action that took a channel to give back is now    *)
(* its holder.                                                             *)
LEMMA RefineOwn ==
  ASSUME Inv, Viewed, Viewed', ~hurt, ~hurt', Own PROVE UNCHANGED Ownable!vars
<1>1. Parts /\ Owners /\ Forced
  BY DEF Inv, Types, Trusted
<1>2. /\ Token \in DOMAIN active /\ Matched /\ job.prior \in States /\ job.kind = "tick"
      /\ DOMAIN active' = DOMAIN active
      /\ active'[Token].applied /\ active'[Token].revertTo = job.prior
      /\ \A t \in DOMAIN active : t # Token => active'[t] = active[t]
  BY <1>1, OwnToken, OwnIs DEF Parts
<1>3. UNCHANGED <<pin, rules>> /\ pc' = "work" /\ ~active[Token].applied
  <2>1. UNCHANGED <<pin, rules>> /\ pc' = "work" /\ (pc = "own" \/ Due)
    BY DEF Own, outputs
  <2> QED
    BY <1>1, <1>2, <2>1 DEF Forced, Taking, Due
<1>4. ~Giving /\ ~Taking' /\ ~Giving' /\ \A t : Act(t)' = Act(t)
  BY <1>2, <1>3 DEF Taking, Giving, Act
<1>5. CASE pc = "own" /\ Act(Token).revert
  <2>1. Taking /\ job.chan = Act(Token).chan /\ job.prior \in BOOLEAN
    BY <1>1, <1>2, <1>5 DEF Forced, Taking
  <2>2. Act(Token).chan \in Channels /\ TakingOver(Act(Token).chan)
    BY <1>1, <1>2, <1>5, <2>1, ActIs DEF TakingOver, Parts, ActiveTyped
  <2> PICK c \in Channels : c = Act(Token).chan
    BY <2>2
  <2>3. OwnerOf(c) = Token /\ BaseOf(c) = job.prior
    BY <2>2 DEF Viewed
  <2>4. Token \in Holders(c)'
    BY <1>2, <1>4, <1>5, <2>1, AutomationAssumption DEF Holders, GivesBack
  <2>5. OwnerOf(c)' = Token /\ BaseOf(c)' = job.prior
    BY <1>2, <1>4, <2>4 DEF Viewed, TakingOver
  <2>6. ASSUME NEW d \in Channels, d # c
        PROVE  OwnerOf(d)' = OwnerOf(d) /\ BaseOf(d)' = BaseOf(d)
    <3>1. \A t \in Holders(d) : t # Token /\ t \in DOMAIN active /\ GivesBack(t)
      BY <1>3, <2>6 DEF Holders
    <3>2. \A t \in Holders(d) : t \in Holders(d)' /\ active'[t] = active[t]
      BY <1>2, <1>4, <3>1 DEF Holders, GivesBack
    <3>3. \A t \in Holders(d)' : t \in Holders(d)
      BY <1>2, <1>4, <2>6 DEF Holders, GivesBack
    <3>4. Holders(d)' = Holders(d) /\ ~TakingOver(d) /\ ~TakingOver(d)' /\ pin'[d] = pin[d]
      BY <1>3, <1>4, <2>1, <2>6, <3>2, <3>3 DEF TakingOver
    <3> QED
      BY <3>2, <3>4, SameView
  <2> QED
    BY <1>3, <2>3, <2>5, <2>6, SameNow
<1>6. CASE ~(pc = "own" /\ Act(Token).revert)
  <2>1. Act(Token).revert => active'[Token].revertTo = NoState
    BY <1>1, <1>2, <1>6 DEF Own, Working, Forced, Taking
  <2>2. \A c : ~TakingOver(c) /\ ~TakingOver(c)'
    BY <1>1, <1>4, <1>6 DEF TakingOver, Taking, Own, Working
  <2>3. ASSUME NEW c \in Channels PROVE OwnerOf(c)' = OwnerOf(c) /\ BaseOf(c)' = BaseOf(c)
    <3>1. \A t \in Holders(c) : t # Token /\ t \in DOMAIN active /\ GivesBack(t)
      BY <1>3 DEF Holders, GivesBack
    <3>2. \A t \in Holders(c) : t \in Holders(c)' /\ active'[t] = active[t]
      BY <1>2, <1>4, <3>1 DEF Holders, GivesBack
    <3>3. \A t \in Holders(c)' : t # Token /\ t \in Holders(c)
      BY <1>2, <1>4, <2>1 DEF Holders, GivesBack
    <3>4. Holders(c)' = Holders(c) /\ pin'[c] = pin[c]
      BY <1>3, <3>2, <3>3
    <3> QED
      BY <2>2, <3>2, <3>4, SameView
  <2> QED
    BY <1>3, <2>3, SameNow
<1> QED
  BY <1>5, <1>6

(* Letting go of an action ends what a give-back began, or there was       *)
(* nothing to give back.                                                   *)
LEMMA RefineDrop ==
  ASSUME Inv, Viewed, Viewed', ~hurt, ~hurt', Drop PROVE UNCHANGED Ownable!vars
<1>1. Parts /\ Forced
  BY DEF Inv, Types, Trusted
<1>2. /\ DOMAIN active' = DOMAIN active \ {Token} /\ UNCHANGED <<pin, rules>>
      /\ pc' = "work"
      /\ \A t \in DOMAIN active' : active'[t] = active[t]
  <2>1. active' = Without(active, Token) /\ pc' = "work" /\ UNCHANGED <<pin, rules>>
    BY DEF Drop, outputs
  <2> QED
    BY <2>1, WithoutIs
<1>3. ~Taking /\ ~Taking' /\ ~Giving' /\ \A t : Act(t)' = Act(t)
  BY <1>2 DEF Taking, Giving, Drop, Working, Act
<1>4. Giving \/ ~GivesBack(Token)
  BY <1>1 DEF Drop, Giving, Parts, JobTyped, Places, TickTyped
<1>5. ASSUME NEW c \in Channels PROVE OwnerOf(c)' = OwnerOf(c) /\ BaseOf(c)' = BaseOf(c)
  <2>1. \A t \in Holders(c) : t # Token /\ t \in DOMAIN active'
    BY <1>2, <1>4 DEF Holders
  <2>2. \A t \in Holders(c) : t \in Holders(c)' /\ active'[t] = active[t]
    BY <1>2, <1>3, <2>1 DEF Holders, GivesBack
  <2>3. \A t \in Holders(c)' : t \in Holders(c)
    BY <1>2, <1>3 DEF Holders, GivesBack
  <2>4. Holders(c)' = Holders(c) /\ pin'[c] = pin[c]
    BY <1>2, <2>2, <2>3
  <2> QED
    BY <1>3, <2>2, <2>4, SameView DEF TakingOver
<1> QED
  BY <1>2, <1>5, SameNow

(* The write of switch.toml, and doing nothing. *)
LEMMA RefineStay ==
  ASSUME Viewed, Viewed', ~hurt, ~hurt', UNCHANGED <<pin, active, rules, job>>, Token' = Token,
         Taking' <=> Taking, Giving' <=> Giving
  PROVE  UNCHANGED Ownable!vars
<1>1. \A t : Act(t)' = Act(t) /\ (GivesBack(t)' <=> GivesBack(t))
  BY DEF Act, GivesBack
<1>2. \A c : Holders(c)' = Holders(c) /\ (TakingOver(c)' <=> TakingOver(c))
  BY <1>1 DEF Holders, TakingOver
<1>3. ASSUME NEW c \in Channels PROVE OwnerOf(c)' = OwnerOf(c) /\ BaseOf(c)' = BaseOf(c)
  <2>1. CASE TakingOver(c)
    <3>1. OwnerOf(c) = Token /\ BaseOf(c) = job.prior
      BY <2>1 DEF Viewed
    <3>2. OwnerOf(c)' = Token' /\ BaseOf(c)' = job'.prior
      BY <1>2, <2>1 DEF Viewed
    <3> QED
      BY <3>1, <3>2
  <2>2. CASE ~TakingOver(c)
    BY <1>2, <2>2, SameView
  <2> QED
    BY <2>1, <2>2
<1> QED
  BY <1>3, SameNow

(* The write of switch.toml changes no owner.                              *)
LEMMA RefineSaveSwitch ==
  ASSUME Viewed, Viewed', ~hurt, ~hurt', SaveSwitch PROVE UNCHANGED Ownable!vars
<1>1. UNCHANGED <<pin, active, rules, holding, job>> /\ pc = "saveSwitch"
  BY DEF SaveSwitch, outputs, ram
<1>2. Token' = Token /\ (Matched' <=> Matched)
  BY <1>1, SameToken DEF Matched
<1>3. job.kind = "tick" => pc' = IF Matched THEN "own" ELSE "drop"
  BY DEF SaveSwitch
<1>4. (Taking' <=> Taking) /\ (Giving' <=> Giving)
  BY <1>1, <1>2, <1>3 DEF Taking, Giving
<1> QED
  BY <1>1, <1>2, <1>4, RefineStay

(* A channel set by hand belongs to nobody. *)
LEMMA RefineManual ==
  ASSUME Inv, Viewed, Viewed', ~hurt, ~hurt', NEW c \in Channels, NEW s \in BOOLEAN, Manual(c, s)
  PROVE  Ownable!SetFree(c, s)
<1>1. Parts /\ Owners
  BY DEF Inv, Types, Trusted
<1>2. /\ pc = "idle" /\ ~Controlled(c) /\ pin' = [pin EXCEPT ![c] = s]
      /\ job'.kind = "manual" /\ UNCHANGED <<active, rules>>
  BY DEF Manual, Idle, Drive, Job, ram
<1>3. ~Taking /\ ~Taking' /\ ~Giving /\ ~Giving'
  BY <1>2 DEF Taking, Giving
<1>4. \A t : Act(t)' = Act(t) /\ (GivesBack(t)' <=> GivesBack(t))
  BY <1>2 DEF Act, GivesBack
<1>5. \A d : Holders(d)' = Holders(d)
  BY <1>2, <1>3, <1>4 DEF Holders
<1>6. Holders(c) = {}
  BY <1>1, <1>2, Uncontrolled DEF Holders
<1>7. pin'[c] = s /\ \A d \in Channels : d # c => pin'[d] = pin[d]
  BY <1>1, <1>2 DEF Parts, OutputsTyped
<1>8. \A d : ~TakingOver(d) /\ ~TakingOver(d)'
  BY <1>3 DEF TakingOver
<1>9. OwnerOf(c) = Nobody /\ OwnerOf(c)' = Nobody /\ BaseOf(c)' = s
  BY <1>5, <1>6, <1>7, <1>8 DEF Viewed
<1>10. ASSUME NEW d \in Channels, d # c
       PROVE  OwnerOf(d)' = OwnerOf(d) /\ BaseOf(d)' = BaseOf(d)
  BY <1>2, <1>5, <1>7, <1>8, <1>10, SameView
<1>11. /\ OwnerNow[c] = Nobody /\ BaseNow' = [BaseNow EXCEPT ![c] = s]
  BY <1>9, <1>10, ChangesOne
<1>12. OwnerNow' = OwnerNow
  BY <1>9, <1>10 DEF OwnerNow
<1> QED
  BY <1>2, <1>11, <1>12 DEF Ownable!SetFree

(* The steps that leave the channels and their holders alone. *)
LEMMA RefineRest ==
  ASSUME Inv, Viewed, Viewed', ~hurt, ~hurt', ~Fault, ~Refusal,
         \/ Tick \/ Begin \/ PassBy \/ Done \/ Rotate \/ Install \/ PersistFails \/ Forget
         \/ \E r \in RuleIds, enabled \in BOOLEAN, s \in Scripts : SaveRule(r, enabled, s)
         \/ \E r \in RuleIds : DeleteRule(r)
         \/ Restart
  PROVE  UNCHANGED Ownable!vars
<1> USE DEF outputs, ram
<1>1. Parts /\ Trusted
  BY DEF Inv, Types
<1>2. CASE Tick
  <2>1. PICK long \in BOOLEAN :
          active' = [t \in DOMAIN active |-> [active[t] EXCEPT !.wait = Elapsed(@, long)]]
    BY <1>2 DEF Tick
  <2>2. DOMAIN active' = DOMAIN active
        /\ \A t \in DOMAIN active : /\ active'[t].applied = active[t].applied
                                    /\ active'[t].revertTo = active[t].revertTo
    BY <1>1, <2>1 DEF Parts, ActiveTyped, Entries
  <2>3. ~Taking /\ ~Giving /\ ~Taking' /\ ~Giving' /\ UNCHANGED <<pin, rules>>
    BY <1>2 DEF Tick, Idle, Taking, Giving
  <2>4. \A t : Act(t)' = Act(t)
    BY <2>3 DEF Act
  <2> QED
    BY <2>2, <2>3, <2>4, HoldersFrame
<1>3. CASE Begin
  <2>1. /\ DOMAIN active' = DOMAIN active \cup {Token} /\ ~active'[Token].applied
        /\ \A t \in DOMAIN active : active'[t] = active[t]
        /\ UNCHANGED <<pin, rules, pc>> /\ pc = "work"
    BY <1>3 DEF Begin, Working
  <2>2. ~Taking' /\ ~Giving' /\ ~Taking /\ ~Giving /\ \A t : Act(t)' = Act(t)
    BY <2>1 DEF Taking, Giving, Act
  <2> QED
    BY <2>1, <2>2, HoldersFrame
<1>4. ASSUME UNCHANGED <<pin, active>>, ~Taking, ~Taking', ~Giving, ~Giving',
             \A t \in DOMAIN active : Act(t)' = Act(t)
      PROVE  UNCHANGED Ownable!vars
  BY <1>4, HoldersFrame
<1>5. CASE PassBy \/ Done \/ Rotate \/ (Install /\ ~Adopt) \/ PersistFails
           \/ (\E r \in RuleIds, enabled \in BOOLEAN, s \in Scripts : SaveRule(r, enabled, s))
           \/ (\E r \in RuleIds : DeleteRule(r))
  <2>1. /\ UNCHANGED <<pin, active, rules>>
        /\ {pc, pc'} \cap {"saveSwitch", "own", "drop"} = {}
    BY <1>5 DEF PassBy, Working, Done, Rotate, Install, PersistFails, SaveRule, DeleteRule,
       Idle
  <2>2. ~Taking' /\ ~Giving' /\ ~Taking /\ ~Giving /\ \A t : Act(t)' = Act(t)
    BY <2>1 DEF Taking, Giving, Act
  <2> QED
    BY <1>4, <2>1, <2>2
<1>6. CASE Forget \/ (Install /\ Adopt)
  <2>1. /\ UNCHANGED <<pin, active>>
        /\ {pc, pc'} \cap {"saveSwitch", "own", "drop"} = {}
    BY <1>6 DEF Forget, Install, Adopt
  <2>2. ~Taking' /\ ~Giving' /\ ~Taking /\ ~Giving
    BY <2>1 DEF Taking, Giving
  <2>3. \A t \in DOMAIN active : Act(t)' = Act(t)
    <3>1. Adopt
      BY <1>6 DEF Forget
    <3> QED
      BY <1>1, <1>6, <3>1, AdoptRules
  <2> QED
    BY <1>4, <2>1, <2>2, <2>3
<1>7. CASE Restart
  <2>1. /\ pc = "idle" /\ rules' = Stored /\ active' = LoadedActive(Stored) /\ pin' = saved
        /\ pc' = "idle"
    BY <1>7 DEF Restart, Idle
  <2>2. ~Taking' /\ ~Giving' /\ ~Taking /\ ~Giving /\ ~Releasing
    BY <2>1 DEF Taking, Giving, Releasing
  <2>3. Stored = rules /\ owned = Ownership(active) /\ \A c \in Channels : saved[c] = pin[c]
    BY <1>1, <2>1, <2>2 DEF Trusted, Files
  <2>4. pin' = pin /\ rules' = rules
    BY <1>1, <2>1, <2>3 DEF Parts, OutputsTyped
  <2>5. DOMAIN owned = {t \in DOMAIN active : active[t].applied}
        /\ \A t \in DOMAIN owned : owned[t] = active[t].revertTo
    BY <2>3 DEF Ownership
  <2>6. DOMAIN owned \cap TokensOf(rules) = DOMAIN owned
    BY <1>1, <2>5 DEF Parts, ActiveTyped
  <2>7. /\ DOMAIN active' = DOMAIN owned
        /\ \A t \in DOMAIN owned : active'[t].applied /\ active'[t].revertTo = owned[t]
    BY <2>1, <2>3, <2>6 DEF LoadedActive
  <2>8. \A t : Act(t)' = Act(t)
    BY <2>4 DEF Act
  <2> QED
    BY <2>2, <2>4, <2>5, <2>7, <2>8, HoldersFrame
<1> QED
  BY <1>2, <1>3, <1>5, <1>6, <1>7

(* Each step takes a channel, gives one back, sets a free one, is a fault, *)
(* or changes nothing of who owns what.                                    *)
LEMMA RefineStep ==
  ASSUME Inv, Viewed, Viewed', [Next]_vars
  PROVE  [Ownable!Next]_(Ownable!vars)
<1>1. CASE hurt'
  BY <1>1 DEF Ownable!Next, Ownable!Fault, hurt
<1>2. CASE ~hurt'
  <2>1. ~hurt /\ ~Fault /\ ~Refusal
    BY <1>2, Unhurt DEF Inv, Types
  <2>2. CASE UNCHANGED vars
    <3>1. UNCHANGED <<pin, active, rules, holding, job, pc>>
      BY <2>2 DEF vars, outputs, ram
    <3>2. Token' = Token /\ (Matched' <=> Matched)
      BY <3>1, SameToken DEF Matched
    <3>3. (Taking' <=> Taking) /\ (Giving' <=> Giving)
      BY <3>1, <3>2 DEF Taking, Giving
    <3> QED
      BY <1>2, <2>1, <3>1, <3>2, <3>3, RefineStay
  <2>3. CASE \E c \in Channels, s \in BOOLEAN : Manual(c, s)
    <3>1. PICK c \in Channels, s \in BOOLEAN : Manual(c, s)
      BY <2>3
    <3>2. Ownable!SetFree(c, s)
      BY <1>2, <2>1, <3>1, RefineManual
    <3> QED
      BY <3>2 DEF Ownable!Next
  <2>4. CASE TakeOver
    BY <1>2, <2>1, <2>4, RefineTakeOver
  <2>5. CASE GiveBack \/ ReleaseOne
    BY <1>2, <2>1, <2>5, RefineGiveBack, RefineReleaseOne
  <2>6. CASE Own \/ Drop \/ SaveSwitch
    BY <1>2, <2>1, <2>6, RefineOwn, RefineDrop, RefineSaveSwitch
  <2>7. CASE \/ Tick \/ Begin \/ PassBy \/ Done \/ Rotate \/ Install \/ PersistFails \/ Forget
             \/ \E r \in RuleIds, enabled \in BOOLEAN, s \in Scripts : SaveRule(r, enabled, s)
             \/ \E r \in RuleIds : DeleteRule(r)
             \/ Restart
    BY <1>2, <2>1, <2>7, RefineRest
  <2> QED
    BY <2>2, <2>3, <2>4, <2>5, <2>6, <2>7 DEF Next, Work, Requests
<1> QED
  BY <1>1, <1>2

(* At first nobody owns a channel.                                         *)
LEMMA RefineInit == ASSUME Init, Viewed PROVE Ownable!Init
<1>1. ~hurt /\ ~Taking /\ active = [t \in {} |-> NoState] /\ pin \in [Channels -> BOOLEAN]
  BY DEF Init, hurt, Taking
<1>2. \A c : Holders(c) = {} /\ ~TakingOver(c)
  BY <1>1 DEF Holders, TakingOver
<1>3. \A c \in Channels : OwnerOf(c) = Nobody /\ BaseOf(c) = pin[c]
  BY <1>1, <1>2 DEF Viewed
<1>4. OwnerNow = [c \in Channels |-> Nobody] /\ BaseNow = [c \in Channels |-> pin[c]]
  BY <1>3 DEF OwnerNow, BaseNow
<1> QED
  BY <1>1, <1>4 DEF Ownable!Init

(* Until a fault, or until _load refuses a rule that was accepted, rules   *)
(* and buttons take, give back and set channels as ChannelOwnership says:  *)
(* each step of _apply_rule, _release_rule and of the switch handlers is   *)
(* one of its steps or changes nothing of it.                              *)
THEOREM Owned == Spec => OwnershipKept
<1>1. Init => Ownable!Init
  BY InitInv, InvViewed, RefineInit
<1>2. Inv /\ Viewed /\ (Inv /\ Viewed)' /\ [Next]_vars => [Ownable!Next]_(Ownable!vars)
  BY RefineStep
<1>3. Spec => [](Inv /\ Viewed)
  BY InitInv, InvStep, InvViewed, PTL DEF Spec
<1> QED
  BY <1>1, <1>2, <1>3, PTL DEF Spec, OwnershipKept, Ownable!Spec

============================================================================
