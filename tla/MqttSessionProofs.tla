------------------------- MODULE MqttSessionProofs -------------------------
(***************************************************************************)
(* Theorems about MqttSession for all sets of topics and all numbers of    *)
(* faults and commands.                                                    *)
(***************************************************************************)
EXTENDS MqttSession, SequenceTheorems, FiniteSetTheorems,
        WellFoundedInduction, TLAPS

(* The state the subscription argument is about; generations never run     *)
(* ahead of the connection's.                                              *)
Bookkeeping ==
  /\ generation \in Nat /\ operational \in Nat /\ deferred \in Nat
  /\ steady \in [generation : Nat, switchMeta : Nat]
  /\ operational <= generation
  /\ deferred <= generation
  /\ steady.generation <= generation
  /\ connected => generation > 0
  /\ session.topics \subseteq CommandTopics
  /\ session = [open |-> session.open, topics |-> session.topics]
  /\ subscriptions \subseteq CommandTopics

(* Once a generation's startup cycle is queued, each device topic is held  *)
(* by the broker or still pending, and so is each switch topic unless the  *)
(* switch subscriptions are deferred.                                      *)
Requested ==
  connected /\ steady.generation = generation =>
    /\ DeviceTopics \subseteq session.topics \cup subscriptions
    /\ deferred # generation =>
         SwitchTopics \subseteq session.topics \cup subscriptions

(* An operational generation has nothing pending and nothing deferred.     *)
Drained ==
  OperationalNow =>
    /\ steady.generation = generation
    /\ deferred # generation
    /\ subscriptions = {}

Subscribing == Bookkeeping /\ Requested /\ Drained /\ RecoveryReusesQueue
-----------------------------------------------------------------------------
LEMMA SubscribingInit == Init => Subscribing
BY DEF Init, Subscribing, Bookkeeping, Requested, Drained, OperationalNow,
   RecoveryReusesQueue, StartupDue, FreshSteady, CommandTopics

LEMMA ResetSubscribing ==
  ASSUME Reset, session'.topics = session.topics,
         session' = [open |-> session'.open, topics |-> session'.topics],
         Subscribing
  PROVE  Subscribing'
BY DEF Reset, Subscribing, Bookkeeping, Requested, Drained, OperationalNow,
   RecoveryReusesQueue, StartupDue, FreshSteady, CommandTopics

(* A step that ends the connection only has to keep the books.             *)
LEMMA DisconnectSubscribing ==
  ASSUME Subscribing,
         connected' = FALSE,
         UNCHANGED <<generation, operational, steady>>,
         deferred' \in {0, deferred},
         subscriptions' \subseteq CommandTopics,
         session'.topics \subseteq CommandTopics,
         session' = [open |-> session'.open, topics |-> session'.topics]
  PROVE  Subscribing'
BY DEF Subscribing, Bookkeeping, Requested, Drained, OperationalNow, RecoveryReusesQueue,
   StartupDue

(* A step that touches neither generations nor subscriptions.              *)
LEMMA QuietSubscribing ==
  ASSUME Subscribing,
         UNCHANGED <<connected, generation, operational, steady, deferred,
                     subscriptions, recovering>>,
         session'.topics = session.topics,
         session' = [open |-> session'.open, topics |-> session'.topics]
  PROVE  Subscribing'
BY DEF Subscribing, Bookkeeping, Requested, Drained, OperationalNow, RecoveryReusesQueue,
   StartupDue

LEMMA LadderSubscribing ==
  ASSUME NEW queue, NEW subs \in SUBSET CommandTopics,
         Ladder(queue, subs), Subscribing,
         session'.topics \subseteq CommandTopics,
         session' = [open |-> session'.open, topics |-> session'.topics]
  PROVE  Subscribing'
<1>1. CASE Reset
  BY <1>1 DEF Reset, Subscribing, Bookkeeping, Requested, Drained, OperationalNow,
     RecoveryReusesQueue, StartupDue, FreshSteady, CommandTopics
<1>2. CASE ~Reset
  BY <1>2, DisconnectSubscribing DEF Ladder
<1> QED BY <1>1, <1>2

LEMMA EndSessionShape ==
  ASSUME Bookkeeping, NEW graceful \in BOOLEAN, EndSession(graceful)
  PROVE  /\ session'.topics = session.topics
         /\ session' = [open |-> session'.open, topics |-> session'.topics]
BY DEF Bookkeeping, EndSession
-----------------------------------------------------------------------------
LEMMA ConnectSubscribing ==
  ASSUME Subscribing, ConnectOk PROVE Subscribing'
BY DEF ConnectOk, SteadyStateForConnect, Subscribing, Bookkeeping, Requested, Drained,
   OperationalNow, RecoveryReusesQueue, StartupDue, CommandTopics, HasSwitch

LEMMA IterateSubscribing ==
  ASSUME ~SensorLoss, Subscribing,
         NEW sampled \in BOOLEAN, NEW lost \in BOOLEAN, Iterate(sampled, lost)
  PROVE  Subscribing'
<1>1. CASE StartupDue
  BY <1>1 DEF Iterate, Subscribing, Bookkeeping, Requested, Drained, OperationalNow,
     RecoveryReusesQueue, StartupDue, CommandTopics, HasSwitch, broker
<1>2. CASE ~StartupDue
  BY <1>2 DEF Iterate, Subscribing, Bookkeeping, Requested, Drained, OperationalNow,
     RecoveryReusesQueue, StartupDue, CommandTopics, broker
<1> QED BY <1>1, <1>2

LEMMA SettleSubscribing ==
  ASSUME Subscribing, Settle PROVE Subscribing'
<1> USE DEF Subscribing
<1>1. UNCHANGED <<connected, generation, steady, session>>
  BY DEF Settle, broker
<1>2. CASE DeferredDue
  <2>1. subscriptions' = SwitchTopics /\ deferred' = 0 /\ subscriptions = {}
        /\ deferred = generation
    BY <1>2 DEF Settle, DeferredDue
  <2>2. ~OperationalNow
    BY <2>1 DEF Drained
  <2>3. operational' = operational /\ (recovering' => recovering)
    <3>1. ~Checkpoint
      BY <2>1 DEF Checkpoint, Bookkeeping
    <3> QED BY <3>1, Zenon DEF Settle
  <2>4. Requested'
    <3>1. connected /\ steady.generation = generation =>
            DeviceTopics \subseteq session.topics
      BY <2>1 DEF Requested
    <3> QED BY <1>1, <2>1, <3>1 DEF Requested
  <2>5. Bookkeeping'
    BY <1>1, <2>1, <2>3 DEF Bookkeeping, CommandTopics
  <2> QED
    BY <1>1, <2>1, <2>2, <2>3, <2>4, <2>5 DEF Drained, OperationalNow, RecoveryReusesQueue,
       StartupDue
<1>3. CASE ~DeferredDue
  <2>1. UNCHANGED <<subscriptions, deferred>>
    BY <1>3 DEF Settle
  <2>2. \/ operational' = operational
        \/ /\ operational' = generation /\ connected
           /\ steady.generation = generation
           /\ deferred = 0 /\ subscriptions = {}
    BY DEF Settle, Checkpoint
  <2>3. recovering' => recovering
    BY DEF Settle
  <2>4. Requested'
    BY <1>1, <2>1 DEF Requested
  <2>5. Bookkeeping'
    BY <1>1, <2>1, <2>2 DEF Bookkeeping
  <2>6. Drained'
    BY <1>1, <2>1, <2>2 DEF Drained, OperationalNow, Bookkeeping
  <2> QED
    BY <1>1, <2>1, <2>3, <2>4, <2>5, <2>6 DEF RecoveryReusesQueue, StartupDue
<1> QED BY <1>2, <1>3

LEMMA SubscribeSubscribing ==
  ASSUME Subscribing, SubscribeOk PROVE Subscribing'
BY DEF SubscribeOk, Subscribing, Bookkeeping, Requested, Drained, OperationalNow,
   RecoveryReusesQueue, StartupDue, loopState

(* The other ways a sync can end: all but SyncDeferred and SubscribeOk     *)
(* leave the subscriptions alone or end the connection.                    *)
LEMMA SyncSubscribing ==
  ASSUME Subscribing, Sync PROVE Subscribing'
<1> USE DEF Subscribing
<1>1. CASE PublishOk
  BY <1>1, QuietSubscribing DEF PublishOk, loopState, Bookkeeping
<1>2. CASE SlowPublish
  BY <1>2, LadderSubscribing DEF SlowPublish, CloseClient, Bookkeeping
<1>3. CASE PublishFails
  BY <1>3, LadderSubscribing DEF PublishFails, CloseClient, Bookkeeping
<1>4. CASE PublishFailsUnclassified
  BY <1>4, DisconnectSubscribing DEF PublishFailsUnclassified, loopState, Bookkeeping
<1>5. CASE SyncDeferred
  BY <1>5, QuietSubscribing DEF SyncDeferred, transport, loopState, broker, Bookkeeping
<1>6. CASE SubscribeOk
  BY <1>6, SubscribeSubscribing
<1>7. CASE SubscribeFails
  BY <1>7, LadderSubscribing DEF SubscribeFails, Bookkeeping
<1>8. CASE SlowSubscribe
  BY <1>8, DisconnectSubscribing DEF SlowSubscribe, loopState, Bookkeeping
<1> QED BY <1>1, <1>2, <1>3, <1>4, <1>5, <1>6, <1>7, <1>8 DEF Sync

LEMMA LoopSubscribing ==
  ASSUME ~SensorLoss, Subscribing, Loop PROVE Subscribing'
<1> USE DEF Subscribing
<1>1. CASE ConnectOk
  BY <1>1, ConnectSubscribing
<1>2. CASE ConnectFails
  BY <1>2, EndSessionShape, QuietSubscribing DEF ConnectFails, transport, loopState, broker,
     Bookkeeping
<1>3. CASE ConnectFailsForMemory
  BY <1>3, LadderSubscribing DEF ConnectFailsForMemory, broker, Bookkeeping
<1>4. CASE NoConnect
  BY <1>4, QuietSubscribing DEF NoConnect, transport, loopState, broker, Bookkeeping
<1>5. CASE \E sampled, lost \in BOOLEAN : Iterate(sampled, lost)
  BY <1>5, IterateSubscribing
<1>6. CASE Sync
  BY <1>6, SyncSubscribing
<1>7. CASE Settle
  BY <1>7, SettleSubscribing
<1>8. CASE Restart
  BY <1>8, ResetSubscribing DEF Restart, broker, Bookkeeping
<1>9. CASE PollOk
  BY <1>9, QuietSubscribing DEF PollOk, loopState, broker, Bookkeeping
<1>10. CASE PollFails
  BY <1>10, DisconnectSubscribing DEF PollFails, loopState, broker, Bookkeeping
<1>11. CASE PollSkipped
  BY <1>11, QuietSubscribing DEF PollSkipped, transport, loopState, broker, Bookkeeping
<1> QED
  BY <1>1, <1>2, <1>3, <1>4, <1>5, <1>6, <1>7, <1>8, <1>9, <1>10, <1>11 DEF Loop

LEMMA NextSubscribing ==
  ASSUME ~SensorLoss, Subscribing, [Next]_vars PROVE Subscribing'
<1> USE DEF Subscribing
<1>1. CASE Loop
  BY <1>1, LoopSubscribing
<1>2. CASE BrokerDrops
  BY <1>2, EndSessionShape, QuietSubscribing DEF BrokerDrops, transport, loopState
<1>3. CASE RecoveryCloses
  BY <1>3, EndSessionShape, DisconnectSubscribing DEF RecoveryCloses, loopState, broker,
     Bookkeeping
<1>4. CASE DeviceResets
  BY <1>4, ResetSubscribing DEF DeviceResets, broker, Bookkeeping
<1>5. CASE AvailabilityInterval
  BY <1>5, QuietSubscribing DEF AvailabilityInterval, transport, broker, Bookkeeping
<1>6. CASE GracefulStop
  BY <1>6, DisconnectSubscribing DEF GracefulStop, loopState, Bookkeeping
<1>7. CASE PowerCycle
  BY <1>7, ResetSubscribing DEF PowerCycle, broker, Bookkeeping
<1>8. CASE UNCHANGED vars
  BY <1>8, QuietSubscribing DEF vars, transport, loopState, broker, Bookkeeping
<1> QED BY <1>1, <1>2, <1>3, <1>4, <1>5, <1>6, <1>7, <1>8 DEF Next

(* Unless a lost sensor cuts the pass short that queues the startup cycle, *)
(* an operational generation holds every command subscription: whatever    *)
(* fails, and however often the queue of subscriptions is drained, reused  *)
(* or rebuilt (app.py, the operational checkpoint).                        *)
THEOREM SubscribedWhenOperational ==
  ASSUME ~SensorLoss PROVE Spec => []OperationalSubscribed
<1>1. Subscribing => OperationalSubscribed
  BY DEF Subscribing, Bookkeeping, Requested, Drained, OperationalNow,
     OperationalSubscribed, CommandTopics
<1>2. Subscribing /\ [Next]_vars => Subscribing'
  BY NextSubscribing
<1> QED BY SubscribingInit, <1>1, <1>2, PTL DEF Spec

(* And no connection of a recovery episode queues the startup cycle again. *)
THEOREM RecoveryAlwaysReuses ==
  ASSUME ~SensorLoss PROVE Spec => []RecoveryReusesQueue
<1>1. Subscribing => RecoveryReusesQueue
  BY DEF Subscribing
<1>2. Subscribing /\ [Next]_vars => Subscribing'
  BY NextSubscribing
<1> QED BY SubscribingInit, <1>1, <1>2, PTL DEF Spec
-----------------------------------------------------------------------------
(* The retained configuration snapshot.  All snapshots in the queue are in *)
(* the order they were built, none older than the one the broker shows.    *)
Entries == [kind : Kinds, config : Nat]
IsSnapshot(q, i) == q[i].kind = "meta_config"

QueueOrdered(q, low, high) ==
  /\ q \in Seq(Entries)
  /\ \A i \in 1..Len(q) : IsSnapshot(q, i) => low <= q[i].config /\ q[i].config <= high
  /\ \A i, j \in 1..Len(q) :
       i < j /\ IsSnapshot(q, i) /\ IsSnapshot(q, j) => q[i].config <= q[j].config

SnapshotsOrdered ==
  /\ saved \in Nat /\ shownConfig \in Nat
  /\ shownConfig <= saved
  /\ QueueOrdered(published, shownConfig, saved)

LEMMA RemoveAtProperties ==
  ASSUME NEW T, NEW s \in Seq(T), NEW i \in 1..Len(s)
  PROVE  /\ RemoveAt(s, i) \in Seq(T)
         /\ Len(RemoveAt(s, i)) = Len(s) - 1
         /\ \A j \in 1..(Len(s) - 1) :
              RemoveAt(s, i)[j] = IF j < i THEN s[j] ELSE s[j + 1]
<1> DEFINE a == SubSeq(s, 1, i - 1)
           b == SubSeq(s, i + 1, Len(s))
<1>0. Len(s) \in Nat /\ i \in Int /\ \A k \in 1..Len(s) : s[k] \in T
  OBVIOUS
<1>1. /\ a \in Seq(T) /\ Len(a) = i - 1
      /\ \A k \in 1..(i - 1) : a[k] = s[k]
  <2>1. \A k \in 1..(i - 1) : s[k] \in T
    BY <1>0
  <2> QED BY <1>0, <2>1, SubSeqProperties, SMT
<1>2. /\ b \in Seq(T) /\ Len(b) = Len(s) - i
      /\ \A k \in 1..(Len(s) - i) : b[k] = s[i + k]
  <2>1. \A k \in (i + 1)..Len(s) : s[k] \in T
    BY <1>0
  <2>2. i + 1 \in Int /\ Len(s) \in Int
    BY <1>0
  <2>3. /\ b \in Seq(T)
        /\ Len(b) = IF i + 1 <= Len(s) THEN Len(s) - (i + 1) + 1 ELSE 0
        /\ \A k \in 1..(Len(s) - (i + 1) + 1) : b[k] = s[i + 1 + k - 1]
    BY <2>1, <2>2, SubSeqProperties
  <2> HIDE DEF b
  <2> QED BY <1>0, <2>3
<1>3. RemoveAt(s, i) = a \o b
  BY DEF RemoveAt
<1> HIDE DEF a, b
<1>4. /\ a \o b \in Seq(T)
      /\ Len(a \o b) = Len(a) + Len(b)
      /\ \A k \in 1..(Len(a) + Len(b)) :
           (a \o b)[k] = IF k <= Len(a) THEN a[k] ELSE b[k - Len(a)]
  BY <1>1, <1>2, ConcatProperties
<1>5. ASSUME NEW j \in 1..(Len(s) - 1)
      PROVE  (a \o b)[j] = IF j < i THEN s[j] ELSE s[j + 1]
  <2>1. CASE j < i
    BY <1>0, <1>1, <1>2, <1>4, <2>1
  <2>2. CASE ~(j < i)
    <3>1. /\ j - Len(a) \in 1..(Len(s) - i)
          /\ i + (j - Len(a)) = j + 1
          /\ j \in 1..(Len(a) + Len(b)) /\ ~(j <= Len(a))
      BY <1>0, <1>1, <1>2, <2>2
    <3>2. (a \o b)[j] = b[j - Len(a)]
      BY <1>4, <3>1
    <3>3. b[j - Len(a)] = s[i + (j - Len(a))]
      BY <1>2, <3>1
    <3> QED BY <2>2, <3>1, <3>2, <3>3
  <2> QED BY <2>1, <2>2
<1> QED BY <1>0, <1>1, <1>2, <1>3, <1>4, <1>5

(* Dropping a message keeps the order.                                     *)
LEMMA RemoveOrdered ==
  ASSUME NEW q, NEW low \in Nat, NEW high \in Nat, QueueOrdered(q, low, high),
         NEW i \in 1..Len(q)
  PROVE  QueueOrdered(RemoveAt(q, i), low, high)
<1> DEFINE r == RemoveAt(q, i)
           At(j) == IF j < i THEN j ELSE j + 1
<1>1. /\ r \in Seq(Entries)
      /\ Len(r) = Len(q) - 1
      /\ \A j \in 1..Len(r) : r[j] = q[At(j)]
  BY RemoveAtProperties DEF QueueOrdered
<1>2. Len(q) \in Nat
  BY DEF QueueOrdered
<1> HIDE DEF r
<1>3. \A j \in 1..Len(r) : At(j) \in 1..Len(q)
  BY <1>1, <1>2
<1>4. \A j, k \in 1..Len(r) : j < k => At(j) < At(k)
  BY <1>1, <1>2
<1> HIDE DEF At
<1>5. \A j \in 1..Len(r) : IsSnapshot(r, j) => low <= r[j].config /\ r[j].config <= high
  BY <1>1, <1>3 DEF QueueOrdered, IsSnapshot
<1>6. ASSUME NEW j \in 1..Len(r), NEW k \in 1..Len(r), j < k,
             IsSnapshot(r, j), IsSnapshot(r, k)
      PROVE  r[j].config <= r[k].config
  BY <1>1, <1>3, <1>4, <1>6 DEF QueueOrdered, IsSnapshot
<1>7. QueueOrdered(r, low, high)
  BY <1>1, <1>5, <1>6 DEF QueueOrdered
<1> QED BY <1>7 DEF r

(* Appending messages built from the saved configuration keeps it too.     *)
LEMMA AppendOrdered ==
  ASSUME NEW q, NEW low \in Nat, NEW high \in Nat, low <= high,
         QueueOrdered(q, low, high),
         NEW e \in Seq(Entries),
         \A i \in 1..Len(e) : IsSnapshot(e, i) => e[i].config = high
  PROVE  QueueOrdered(q \o e, low, high)
<1> DEFINE r == q \o e
<1>1. /\ r \in Seq(Entries)
      /\ Len(r) = Len(q) + Len(e)
      /\ \A i \in 1..Len(r) : r[i] = IF i <= Len(q) THEN q[i] ELSE e[i - Len(q)]
  BY ConcatProperties DEF QueueOrdered
<1>2. Len(q) \in Nat /\ Len(e) \in Nat
  BY DEF QueueOrdered
<1> HIDE DEF r
<1>3. ASSUME NEW i \in 1..Len(r), i > Len(q), IsSnapshot(r, i)
      PROVE  r[i].config = high
  <2>1. i - Len(q) \in 1..Len(e) /\ r[i] = e[i - Len(q)]
    BY <1>1, <1>2, <1>3
  <2> QED BY <1>3, <2>1 DEF IsSnapshot
<1>4. ASSUME NEW i \in 1..Len(r), i <= Len(q)
      PROVE  i \in 1..Len(q) /\ r[i] = q[i]
  BY <1>1, <1>2, <1>4
<1>5. ASSUME NEW i \in 1..Len(r), IsSnapshot(r, i)
      PROVE  low <= r[i].config /\ r[i].config <= high
  <2>1. CASE i <= Len(q)
    BY <1>4, <1>5, <2>1 DEF QueueOrdered, IsSnapshot
  <2>2. CASE i > Len(q)
    BY <1>3, <1>5, <2>2
  <2> QED BY <1>2, <2>1, <2>2
<1>6. ASSUME NEW i \in 1..Len(r), NEW j \in 1..Len(r), i < j,
             IsSnapshot(r, i), IsSnapshot(r, j)
      PROVE  r[i].config <= r[j].config
  <2>1. CASE j <= Len(q)
    <3>1. i <= Len(q)
      BY <1>2, <1>6, <2>1
    <3> QED BY <1>4, <1>6, <2>1, <3>1 DEF QueueOrdered, IsSnapshot
  <2>2. CASE j > Len(q)
    BY <1>3, <1>5, <1>6, <2>2
  <2> QED BY <1>2, <2>1, <2>2
<1>7. QueueOrdered(r, low, high)
  BY <1>1, <1>5, <1>6 DEF QueueOrdered
<1> QED BY <1>7 DEF r

LEMMA MessagesProperties ==
  ASSUME NEW kinds \in Seq(Kinds), NEW config \in Nat
  PROVE  /\ Messages(kinds, config) \in Seq(Entries)
         /\ \A i \in 1..Len(Messages(kinds, config)) :
              IsSnapshot(Messages(kinds, config), i) =>
                Messages(kinds, config)[i].config = config
<1> DEFINE r == Messages(kinds, config)
<1>1. \A i \in 1..Len(kinds) : Message(kinds[i], config) \in Entries
  BY DEF Message, Entries
<1>2. r = [i \in 1..Len(kinds) |-> Message(kinds[i], config)]
  BY DEF Messages
<1>3. r \in Seq(Entries) /\ Len(r) = Len(kinds)
  BY <1>1, <1>2
<1>4. ASSUME NEW i \in 1..Len(r), IsSnapshot(r, i)
      PROVE  r[i].config = config
  <2>1. r[i] = Message(kinds[i], config)
    BY <1>2, <1>3
  <2> HIDE DEF r
  <2> QED BY <1>4, <2>1 DEF IsSnapshot, Message
<1> QED BY <1>3, <1>4

(* A save makes room above the queue.                                      *)
LEMMA RaiseOrdered ==
  ASSUME NEW q, NEW low \in Nat, NEW high \in Nat, NEW higher \in Nat,
         high <= higher, QueueOrdered(q, low, high)
  PROVE  QueueOrdered(q, low, higher)
<1>1. \A i \in 1..Len(q) : q[i] \in Entries
  BY DEF QueueOrdered
<1>2. \A i \in 1..Len(q) : q[i].config \in Nat
  BY <1>1 DEF Entries
<1>3. \A i \in 1..Len(q) : q[i].config <= high => q[i].config <= higher
  BY <1>2
<1> QED BY <1>3 DEF QueueOrdered
-----------------------------------------------------------------------------
(* A nonempty set of numbers has a least one.                              *)
NatOrder == {ss \in Nat \X Nat : ss[1] < ss[2]}

LEMMA NatOrderWellFounded == IsWellFoundedOn(NatOrder, Nat)
BY NatLessThanWellFounded DEF OpToRel, NatOrder

LEMMA HasLeast ==
  ASSUME NEW T, T \subseteq Nat, T # {}
  PROVE  \E i \in T : \A j \in T : i <= j
<1>1. PICK i \in T : \A j \in T : <<j, i>> \notin NatOrder
  BY NatOrderWellFounded, WFMin
<1>2. ASSUME NEW j \in T PROVE i <= j
  <2>1. <<j, i>> \in Nat \X Nat /\ <<j, i>>[1] = j /\ <<j, i>>[2] = i
    OBVIOUS
  <2>2. j < i => <<j, i>> \in NatOrder
    BY <2>1, Zenon DEF NatOrder
  <2>3. ~(j < i)
    BY <1>1, <2>2
  <2> QED BY <2>3
<1> QED BY <1>2

(* The message that is sent exists, and no snapshot is queued before it.   *)
LEMMA NextPublishProperties ==
  ASSUME NEW q \in Seq(Entries), q # <<>>, NextPublish(q) # 0
  PROVE  /\ NextPublish(q) \in 1..Len(q)
         /\ \A j \in 1..Len(q) : IsSnapshot(q, j) => NextPublish(q) <= j
<1> DEFINE first == {i \in DOMAIN q : q[i].kind \in Priority}
<1>1. DOMAIN q = 1..Len(q) /\ Len(q) \in Nat \ {0}
  OBVIOUS
<1>2. CASE subscriptions = {}
  BY <1>1, <1>2 DEF NextPublish
<1>3. CASE subscriptions # {}
  <2>1. first # {}
    BY <1>3, Zenon DEF NextPublish
  <2>2. NextPublish(q) = CHOOSE i \in first : \A j \in first : i <= j
    BY <1>3, <2>1, Zenon DEF NextPublish
  <2>3. first \subseteq 1..Len(q)
    BY <1>1
  <2>4. \A j \in 1..Len(q) : IsSnapshot(q, j) => j \in first
    BY <1>1 DEF IsSnapshot, Priority, Verified
  <2> HIDE DEF first
  <2>5. \E i \in first : \A j \in first : i <= j
    <3>1. first \subseteq Nat
      BY <1>1, <2>3
    <3> QED BY <2>1, <3>1, HasLeast, Zenon
  <2>6. NextPublish(q) \in first /\ \A j \in first : NextPublish(q) <= j
    BY <2>2, <2>5
  <2> QED BY <2>3, <2>4, <2>6
<1> QED BY <1>2, <1>3

(* And there is one in a queue that ends with the offline status.          *)
LEMMA NextPublishNotZero ==
  ASSUME NEW q \in Seq(Entries), q # <<>>, q[Len(q)].kind = "offline"
  PROVE  NextPublish(q) # 0
<1>1. CASE subscriptions = {}
  BY <1>1 DEF NextPublish
<1>2. CASE subscriptions # {}
  <2> DEFINE first == {k \in DOMAIN q : q[k].kind \in Priority}
  <2>1. Len(q) \in first
    BY DEF Priority
  <2>2. first \subseteq Nat \ {0}
    OBVIOUS
  <2>3. NextPublish(q) = CHOOSE k \in first : \A j \in first : k <= j
    BY <1>2, <2>1, Zenon DEF NextPublish
  <2> HIDE DEF first
  <2>4. \E k \in first : \A j \in first : k <= j
    BY <2>1, <2>2, HasLeast
  <2> QED BY <2>2, <2>3, <2>4
<1> QED BY <1>1, <1>2

(* A queue one of whose messages has been delivered is ordered above what  *)
(* the broker shows now.                                                   *)
LEMMA DeliverOrdered ==
  ASSUME saved \in Nat, shownConfig \in Nat, shownConfig <= saved,
         NEW q, QueueOrdered(q, shownConfig, saved),
         q # <<>>, NextPublish(q) # 0, Deliver(q[NextPublish(q)])
  PROVE  /\ shownConfig' \in Nat /\ shownConfig <= shownConfig'
         /\ shownConfig' <= saved
         /\ QueueOrdered(q, shownConfig', saved)
<1> DEFINE i == NextPublish(q)
<1>1. q \in Seq(Entries)
  BY DEF QueueOrdered
<1>2. /\ i \in 1..Len(q)
      /\ \A j \in 1..Len(q) : IsSnapshot(q, j) => i <= j
  BY <1>1, NextPublishProperties
<1>3. Deliver(q[i])
  OBVIOUS
<1> HIDE DEF i
<1>4. q[i] \in Entries
  BY <1>1, <1>2
<1>5. CASE IsSnapshot(q, i)
  <2>1. shownConfig' = q[i].config
    BY <1>3, <1>5 DEF Deliver, IsSnapshot
  <2>2. /\ q[i].config \in Nat
        /\ shownConfig <= q[i].config /\ q[i].config <= saved
    BY <1>2, <1>4, <1>5 DEF QueueOrdered, Entries
  <2>3. \A j \in 1..Len(q) : IsSnapshot(q, j) => q[i].config <= q[j].config
    <3> SUFFICES ASSUME NEW j \in 1..Len(q), IsSnapshot(q, j)
                 PROVE  q[i].config <= q[j].config
      OBVIOUS
    <3>1. i <= j
      BY <1>2
    <3>2. CASE i = j
      BY <2>2, <3>2
    <3>3. CASE i < j
      BY <1>2, <1>5, <3>3 DEF QueueOrdered
    <3> QED BY <1>1, <1>2, <3>1, <3>2, <3>3
  <2> QED BY <2>1, <2>2, <2>3 DEF QueueOrdered
<1>6. CASE ~IsSnapshot(q, i)
  <2>1. shownConfig' = shownConfig
    BY <1>3, <1>6 DEF Deliver, IsSnapshot
  <2> QED BY <2>1
<1> QED BY <1>5, <1>6

LEMMA DropOrdered ==
  ASSUME NEW low \in Nat, QueueOrdered(published, low, saved), saved \in Nat,
         SnapshotsOrdered, PublishReady
  PROVE  QueueOrdered(Dropped(PublishIndex), low, saved)
<1>1. PublishIndex \in 1..Len(published)
  BY NextPublishProperties DEF SnapshotsOrdered, QueueOrdered, PublishReady, PublishIndex
<1> QED BY <1>1, RemoveOrdered DEF Dropped

LEMMA AfterFailureOrdered ==
  ASSUME NEW low \in Nat, QueueOrdered(published, low, saved), saved \in Nat,
         SnapshotsOrdered, PublishReady
  PROVE  QueueOrdered(QueueAfterFailure, low, saved)
BY DropOrdered DEF QueueAfterFailure

LEMMA EmptyOrdered ==
  ASSUME NEW low, NEW high PROVE QueueOrdered(<<>>, low, high)
BY DEF QueueOrdered

LEMMA LadderOrdered ==
  ASSUME NEW queue, NEW subs, Ladder(queue, subs),
         saved \in Nat, shownConfig' \in Nat, shownConfig' <= saved,
         QueueOrdered(queue, shownConfig', saved)
  PROVE  SnapshotsOrdered'
<1>1. saved' = saved
  BY DEF Ladder, Reset
<1>2. published' = queue \/ published' = <<>>
  BY DEF Ladder, Reset
<1>3. QueueOrdered(published', shownConfig', saved')
  BY <1>1, <1>2, EmptyOrdered
<1> QED BY <1>1, <1>3 DEF SnapshotsOrdered, QueueOrdered, IsSnapshot

LEMMA ResetOrdered ==
  ASSUME Reset, SnapshotsOrdered, UNCHANGED shownConfig PROVE SnapshotsOrdered'
<1>1. published' = <<>> /\ saved' = saved
  BY DEF Reset
<1> QED BY <1>1, EmptyOrdered DEF SnapshotsOrdered, QueueOrdered

LEMMA StageProperties ==
  ASSUME NEW sampled \in BOOLEAN
  PROVE  StageOne(sampled)
           \o When(sampled /\ connected /\ ~StartupDue, "data")
           \o When(RefreshAvailability, "online") \in Seq(Kinds)
<1>1. \A c, k : k \in Kinds => When(c, k) \in Seq(Kinds)
  BY DEF When
<1>2. <<"meta", "online">> \in Seq(Kinds) /\ <<"hello">> \in Seq(Kinds)
      /\ <<"meta_config">> \in Seq(Kinds) /\ <<"ack", "result">> \in Seq(Kinds)
      /\ <<>> \in Seq(Kinds)
  BY DEF Kinds, Retained, Priority, Verified
<1>3. "data" \in Kinds /\ "meta_switch" \in Kinds /\ "discovery" \in Kinds
      /\ "online" \in Kinds
  BY DEF Kinds, Retained, Priority, Verified
<1>4. \A s, t \in Seq(Kinds) : s \o t \in Seq(Kinds)
  BY ConcatProperties
<1>5. StartupCycle(sampled) \in Seq(Kinds)
  BY <1>1, <1>2, <1>3, <1>4 DEF StartupCycle
<1>6. StageOne(sampled) \in Seq(Kinds)
  BY <1>1, <1>2, <1>3, <1>4, <1>5 DEF StageOne
<1> QED BY <1>1, <1>3, <1>4, <1>6

LEMMA IterateOrdered ==
  ASSUME SnapshotsOrdered,
         NEW sampled \in BOOLEAN, NEW lost \in BOOLEAN, Iterate(sampled, lost)
  PROVE  SnapshotsOrdered' /\ shownConfig' = shownConfig
<1> DEFINE kinds == StageOne(sampled)
                      \o When(sampled /\ connected /\ ~StartupDue, "data")
                      \o When(RefreshAvailability, "online")
           queue == published \o Messages(kinds, saved)
<1>1. shownConfig' = shownConfig
  BY DEF Iterate, broker
<1>2. saved' \in Nat /\ saved <= saved'
  <2>1. saved' = saved \/ saved' = saved + 1
    BY DEF Iterate
  <2> QED BY <2>1 DEF SnapshotsOrdered
<1>3. \/ published' = queue
      \/ \E k \in Kinds : published' = <<Message(k, saved')>>
  <2>1. \A d : NextRefresh(d) \in Kinds
    BY DEF NextRefresh, Kinds, Retained, Priority, Verified
  <2> QED BY <2>1 DEF Iterate
<1>4. CASE published' = queue
  <2>1. kinds \in Seq(Kinds)
    BY StageProperties
  <2> HIDE DEF kinds
  <2>2. QueueOrdered(queue, shownConfig, saved)
    BY <2>1, MessagesProperties, AppendOrdered DEF SnapshotsOrdered
  <2> HIDE DEF queue
  <2>3. QueueOrdered(queue, shownConfig, saved')
    BY <1>2, <2>2, RaiseOrdered DEF SnapshotsOrdered
  <2> QED
    BY <1>1, <1>2, <1>4, <2>3 DEF SnapshotsOrdered, QueueOrdered, IsSnapshot
<1>5. ASSUME NEW k \in Kinds, published' = <<Message(k, saved')>>
      PROVE  SnapshotsOrdered'
  <2>1. Message(k, saved') \in Entries
    BY <1>2 DEF Message, Entries
  <2>2. published' \in Seq(Entries) /\ Len(published') = 1
        /\ published'[1] = Message(k, saved')
    BY <1>5, <2>1
  <2>3. IsSnapshot(published', 1) => published'[1].config = saved'
    BY <2>2 DEF IsSnapshot, Message
  <2>4. shownConfig' <= saved'
    BY <1>1, <1>2 DEF SnapshotsOrdered
  <2>5. QueueOrdered(published', shownConfig', saved')
    BY <1>2, <2>2, <2>3, <2>4 DEF QueueOrdered
  <2> QED
    BY <1>1, <1>2, <2>4, <2>5 DEF SnapshotsOrdered, QueueOrdered, IsSnapshot
<1> QED BY <1>1, <1>3, <1>4, <1>5

(* The snapshot in the queue and at the broker stay as they are.           *)
LEMMA QuietOrdered ==
  ASSUME SnapshotsOrdered, UNCHANGED <<published, saved, shownConfig>>
  PROVE  SnapshotsOrdered' /\ shownConfig' >= shownConfig
BY DEF SnapshotsOrdered, QueueOrdered, IsSnapshot

(* A message leaves the queue, delivered or not.                           *)
LEMMA SentOrdered ==
  ASSUME SnapshotsOrdered, PublishReady, UNCHANGED saved,
         Deliver(published[PublishIndex]) \/ Undelivered,
         published' \in {Dropped(PublishIndex), QueueAfterFailure}
  PROVE  SnapshotsOrdered' /\ shownConfig' >= shownConfig
<1>1. /\ shownConfig' \in Nat /\ shownConfig <= shownConfig'
      /\ shownConfig' <= saved /\ saved \in Nat
      /\ QueueOrdered(published, shownConfig', saved)
  BY DeliverOrdered DEF SnapshotsOrdered, Undelivered, PublishReady, PublishIndex
<1>2. QueueOrdered(published', shownConfig', saved)
  BY <1>1, DropOrdered, AfterFailureOrdered
<1> QED BY <1>1, <1>2 DEF SnapshotsOrdered, QueueOrdered, IsSnapshot

LEMMA SentLadderOrdered ==
  ASSUME SnapshotsOrdered, PublishReady, NEW queue, NEW subs,
         queue \in {Dropped(PublishIndex), QueueAfterFailure},
         Deliver(published[PublishIndex]) \/ Undelivered,
         Ladder(queue, subs)
  PROVE  SnapshotsOrdered' /\ shownConfig' >= shownConfig
<1>1. /\ shownConfig' \in Nat /\ shownConfig <= shownConfig'
      /\ shownConfig' <= saved /\ saved \in Nat
      /\ QueueOrdered(published, shownConfig', saved)
  BY DeliverOrdered DEF SnapshotsOrdered, Undelivered, PublishReady, PublishIndex
<1>2. QueueOrdered(queue, shownConfig', saved)
  BY <1>1, DropOrdered, AfterFailureOrdered
<1> QED BY <1>1, <1>2, LadderOrdered DEF SnapshotsOrdered

LEMMA SyncOrdered ==
  ASSUME SnapshotsOrdered, Sync
  PROVE  SnapshotsOrdered' /\ shownConfig' >= shownConfig
<1>1. CASE PublishOk
  BY <1>1, SentOrdered DEF PublishOk
<1>2. CASE SlowPublish
  BY <1>2, SentLadderOrdered DEF SlowPublish
<1>3. CASE PublishFails
  BY <1>3, SentLadderOrdered DEF PublishFails
<1>4. CASE PublishFailsUnclassified
  BY <1>4, SentOrdered DEF PublishFailsUnclassified
<1>5. CASE SyncDeferred
  BY <1>5, QuietOrdered DEF SyncDeferred, transport, broker
<1>6. CASE SubscribeOk
  BY <1>6, QuietOrdered DEF SubscribeOk
<1>7. CASE SubscribeFails
  <2>1. PICK subs : Ladder(published, subs)
    BY <1>7 DEF SubscribeFails
  <2>2. UNCHANGED shownConfig
    BY <1>7 DEF SubscribeFails
  <2>3. SnapshotsOrdered'
    BY <2>1, <2>2, LadderOrdered DEF SnapshotsOrdered
  <2> QED BY <2>2, <2>3 DEF SnapshotsOrdered
<1>8. CASE SlowSubscribe
  BY <1>8, QuietOrdered DEF SlowSubscribe
<1> QED BY <1>1, <1>2, <1>3, <1>4, <1>5, <1>6, <1>7, <1>8 DEF Sync

(* The graceful stop appends the offline status and sends one message.     *)
LEMMA StopOrdered ==
  ASSUME SnapshotsOrdered, GracefulStop
  PROVE  SnapshotsOrdered' /\ shownConfig' >= shownConfig
<1> DEFINE e == <<Message("offline", 0)>>
           q == published \o e
           i == NextPublish(q)
<1>1. e \in Seq(Entries) /\ Len(e) = 1 /\ e[1].kind = "offline"
  BY DEF Message, Entries, Kinds, Retained, Priority
<1>2. published \in Seq(Entries) /\ Append(published, Message("offline", 0)) = q
  BY DEF SnapshotsOrdered, QueueOrdered
<1>3. Deliver(q[i]) /\ published' = RemoveAt(q, i) /\ saved' = saved
  BY <1>2 DEF GracefulStop
<1>4. QueueOrdered(q, shownConfig, saved)
  <2>1. \A k \in 1..Len(e) : IsSnapshot(e, k) => e[k].config = saved
    BY <1>1 DEF IsSnapshot
  <2> HIDE DEF e
  <2> QED BY <1>1, <2>1, AppendOrdered DEF SnapshotsOrdered
<1>5. q \in Seq(Entries) /\ q # <<>> /\ q[Len(q)] = e[1] /\ Len(q) \in Nat \ {0}
  BY <1>1, <1>2
<1> HIDE DEF q, e
<1>6. i # 0
  BY <1>1, <1>5, NextPublishNotZero
<1>7. i \in 1..Len(q)
  BY <1>5, <1>6, NextPublishProperties
<1>8. /\ shownConfig' \in Nat /\ shownConfig <= shownConfig'
      /\ shownConfig' <= saved /\ saved \in Nat
      /\ QueueOrdered(q, shownConfig', saved)
  BY <1>3, <1>4, <1>5, <1>6, DeliverOrdered DEF SnapshotsOrdered
<1> HIDE DEF i
<1>9. QueueOrdered(published', shownConfig', saved)
  BY <1>3, <1>7, <1>8, RemoveOrdered
<1> QED BY <1>3, <1>8, <1>9 DEF SnapshotsOrdered, QueueOrdered, IsSnapshot

LEMMA ResetKeepsShown ==
  ASSUME SnapshotsOrdered, Reset, UNCHANGED shownConfig
  PROVE  SnapshotsOrdered' /\ shownConfig' >= shownConfig
BY ResetOrdered DEF SnapshotsOrdered

LEMMA LoopOrdered ==
  ASSUME SnapshotsOrdered, Loop
  PROVE  SnapshotsOrdered' /\ shownConfig' >= shownConfig
<1>1. CASE ConnectOk
  BY <1>1, QuietOrdered DEF ConnectOk
<1>2. CASE ConnectFails
  BY <1>2, QuietOrdered DEF ConnectFails, transport, broker, EndSession
<1>3. CASE ConnectFailsForMemory
  <2>1. SnapshotsOrdered'
    BY <1>3, LadderOrdered DEF ConnectFailsForMemory, broker, SnapshotsOrdered
  <2> QED BY <1>3, <2>1 DEF ConnectFailsForMemory, broker, SnapshotsOrdered
<1>4. CASE NoConnect
  BY <1>4, QuietOrdered DEF NoConnect, transport, broker
<1>5. CASE \E sampled, lost \in BOOLEAN : Iterate(sampled, lost)
  BY <1>5, IterateOrdered DEF SnapshotsOrdered
<1>6. CASE Sync
  BY <1>6, SyncOrdered
<1>7. CASE Settle
  BY <1>7, QuietOrdered DEF Settle, broker
<1>8. CASE Restart
  BY <1>8, ResetKeepsShown DEF Restart, broker
<1>9. CASE PollOk
  BY <1>9, QuietOrdered DEF PollOk, broker
<1>10. CASE PollFails
  BY <1>10, QuietOrdered DEF PollFails, broker
<1>11. CASE PollSkipped
  BY <1>11, QuietOrdered DEF PollSkipped, transport, broker
<1> QED
  BY <1>1, <1>2, <1>3, <1>4, <1>5, <1>6, <1>7, <1>8, <1>9, <1>10, <1>11 DEF Loop

LEMMA NextOrdered ==
  ASSUME SnapshotsOrdered, [Next]_vars
  PROVE  SnapshotsOrdered' /\ shownConfig' >= shownConfig
<1>1. CASE Loop
  BY <1>1, LoopOrdered
<1>2. CASE BrokerDrops
  BY <1>2, QuietOrdered DEF BrokerDrops, transport, EndSession
<1>3. CASE RecoveryCloses
  BY <1>3, QuietOrdered DEF RecoveryCloses, broker, EndSession
<1>4. CASE DeviceResets
  BY <1>4, ResetKeepsShown DEF DeviceResets, broker
<1>5. CASE AvailabilityInterval
  BY <1>5, QuietOrdered DEF AvailabilityInterval, transport, broker
<1>6. CASE GracefulStop
  BY <1>6, StopOrdered
<1>7. CASE PowerCycle
  BY <1>7, ResetKeepsShown DEF PowerCycle, broker
<1>8. CASE UNCHANGED vars
  BY <1>8, QuietOrdered DEF vars, transport, broker
<1> QED BY <1>1, <1>2, <1>3, <1>4, <1>5, <1>6, <1>7, <1>8 DEF Next

(* The retained meta/config never goes back to an older configuration,     *)
(* although failed messages stay queued, unacknowledged ones are delivered *)
(* again and startup metadata overtakes (core/mqtt_client.py).             *)
THEOREM SnapshotsNeverRegress == Spec => SnapshotNeverRegresses
<1>1. Init => SnapshotsOrdered
  BY EmptyOrdered DEF Init, SnapshotsOrdered
<1>2. SnapshotsOrdered /\ [Next]_vars => SnapshotsOrdered'
  BY NextOrdered
<1>3. SnapshotsOrdered /\ [Next]_vars => [shownConfig' >= shownConfig]_vars
  BY NextOrdered
<1> QED BY <1>1, <1>2, <1>3, PTL DEF Spec, SnapshotNeverRegresses
-----------------------------------------------------------------------------
(* The values the variables take, one group at a time.                     *)
Flags ==
  /\ connected \in BOOLEAN /\ cleanPoll \in BOOLEAN
  /\ availabilityDue \in BOOLEAN /\ recovering \in BOOLEAN
  /\ rebootRequest \in BOOLEAN /\ restartOwed \in BOOLEAN
Stages ==
  /\ pc \in {"connect", "post", "iterate", "sync", "settle", "poll", "stopped"}
  /\ heartbeat \in {"online", "offline"}
Generations ==
  /\ generation \in Nat /\ operational \in Nat /\ deferred \in Nat
  /\ steady \in [generation : Nat, switchMeta : Nat]
Pendings ==
  /\ session \in [open : BOOLEAN, topics : SUBSET CommandTopics]
  /\ subscriptions \subseteq CommandTopics /\ received \subseteq Commands
  /\ refreshPending \subseteq Snapshots
Budgets == faults \in 0..MaxFaults /\ work \in 0..MaxWork

LEMMA SyncFlags ==
  ASSUME Flags, Sync PROVE Flags'
<1>1. CASE PublishOk
  BY <1>1 DEF PublishOk, loopState, Flags
<1>2. CASE SlowPublish
  BY <1>2 DEF SlowPublish, Ladder, Reset, Flags
<1>3. CASE PublishFails
  BY <1>3 DEF PublishFails, Ladder, Reset, Flags
<1>4. CASE PublishFailsUnclassified
  BY <1>4 DEF PublishFailsUnclassified, loopState, Flags
<1>5. CASE SyncDeferred
  BY <1>5 DEF SyncDeferred, transport, loopState, history, Flags
<1>6. CASE SubscribeOk
  BY <1>6 DEF SubscribeOk, loopState, Flags
<1>7. CASE SubscribeFails
  BY <1>7 DEF SubscribeFails, Ladder, Reset, Flags
<1>8. CASE SlowSubscribe
  BY <1>8 DEF SlowSubscribe, loopState, Flags
<1> QED BY <1>1, <1>2, <1>3, <1>4, <1>5, <1>6, <1>7, <1>8 DEF Sync

LEMMA LoopFlags ==
  ASSUME Flags, Loop PROVE Flags'
<1>1. CASE ConnectOk
  BY <1>1 DEF ConnectOk, SteadyStateForConnect, history, Flags
<1>2. CASE ConnectFails
  BY <1>2 DEF ConnectFails, transport, loopState, Flags
<1>3. CASE ConnectFailsForMemory
  BY <1>3 DEF ConnectFailsForMemory, Ladder, Reset, Flags
<1>4. CASE NoConnect
  BY <1>4 DEF NoConnect, transport, loopState, history, Flags
<1>5. CASE \E sampled, lost \in BOOLEAN : Iterate(sampled, lost)
  BY <1>5 DEF Iterate, Flags
<1>6. CASE Sync
  BY <1>6, SyncFlags
<1>7. CASE Settle
  BY <1>7 DEF Settle, history, Checkpoint, Flags
<1>8. CASE Restart
  BY <1>8 DEF Restart, Reset, Flags
<1>9. CASE PollOk
  BY <1>9 DEF PollOk, loopState, Flags
<1>10. CASE PollFails
  BY <1>10 DEF PollFails, loopState, Flags
<1>11. CASE PollSkipped
  BY <1>11 DEF PollSkipped, transport, loopState, history, Flags
<1> QED
  BY <1>1, <1>2, <1>3, <1>4, <1>5, <1>6, <1>7, <1>8, <1>9, <1>10, <1>11 DEF
     Loop

LEMMA NextFlags ==
  ASSUME Flags, [Next]_vars PROVE Flags'
<1>1. CASE Loop
  BY <1>1, LoopFlags
<1>2. CASE BrokerDrops
  BY <1>2 DEF BrokerDrops, transport, loopState, Flags
<1>3. CASE RecoveryCloses
  BY <1>3 DEF RecoveryCloses, loopState, Flags
<1>4. CASE DeviceResets
  BY <1>4 DEF DeviceResets, Reset, Flags
<1>5. CASE AvailabilityInterval
  BY <1>5 DEF AvailabilityInterval, transport, Flags
<1>6. CASE GracefulStop
  BY <1>6 DEF GracefulStop, loopState, Flags
<1>7. CASE PowerCycle
  BY <1>7 DEF PowerCycle, Reset, Flags
<1>8. CASE UNCHANGED vars
  BY <1>8 DEF vars, transport, loopState, history, Flags
<1> QED BY <1>1, <1>2, <1>3, <1>4, <1>5, <1>6, <1>7, <1>8 DEF Next

LEMMA SyncStages ==
  ASSUME Stages, Sync PROVE Stages'
<1>1. CASE PublishOk
  BY <1>1 DEF PublishOk, Deliver, Undelivered, AfterSync, Stages
<1>2. CASE SlowPublish
  BY <1>2 DEF SlowPublish, Ladder, Reset, Deliver, Stages
<1>3. CASE PublishFails
  BY <1>3 DEF PublishFails, Ladder, Reset, Deliver, Undelivered, Stages
<1>4. CASE PublishFailsUnclassified
  BY <1>4 DEF PublishFailsUnclassified, Deliver, Undelivered, AfterSync, Stages
<1>5. CASE SyncDeferred
  BY <1>5 DEF SyncDeferred, broker, AfterSync, Stages
<1>6. CASE SubscribeOk
  BY <1>6 DEF SubscribeOk, AfterSync, Stages
<1>7. CASE SubscribeFails
  BY <1>7 DEF SubscribeFails, Ladder, Reset, Stages
<1>8. CASE SlowSubscribe
  BY <1>8 DEF SlowSubscribe, AfterSync, Stages
<1> QED BY <1>1, <1>2, <1>3, <1>4, <1>5, <1>6, <1>7, <1>8 DEF Sync

LEMMA LoopStages ==
  ASSUME Stages, Loop PROVE Stages'
<1>1. CASE ConnectOk
  BY <1>1 DEF ConnectOk, Stages
<1>2. CASE ConnectFails
  BY <1>2 DEF ConnectFails, EndSession, broker, Stages
<1>3. CASE ConnectFailsForMemory
  BY <1>3 DEF ConnectFailsForMemory, Ladder, Reset, broker, Stages
<1>4. CASE NoConnect
  BY <1>4 DEF NoConnect, broker, Stages
<1>5. CASE \E sampled, lost \in BOOLEAN : Iterate(sampled, lost)
  BY <1>5 DEF Iterate, broker, Stages
<1>6. CASE Sync
  BY <1>6, SyncStages
<1>7. CASE Settle
  BY <1>7 DEF Settle, broker, Stages
<1>8. CASE Restart
  BY <1>8 DEF Restart, Reset, broker, Stages
<1>9. CASE PollOk
  BY <1>9 DEF PollOk, broker, Stages
<1>10. CASE PollFails
  BY <1>10 DEF PollFails, broker, Stages
<1>11. CASE PollSkipped
  BY <1>11 DEF PollSkipped, broker, Stages
<1> QED
  BY <1>1, <1>2, <1>3, <1>4, <1>5, <1>6, <1>7, <1>8, <1>9, <1>10, <1>11 DEF
     Loop

LEMMA NextStages ==
  ASSUME Stages, [Next]_vars PROVE Stages'
<1>1. CASE Loop
  BY <1>1, LoopStages
<1>2. CASE BrokerDrops
  BY <1>2 DEF BrokerDrops, EndSession, Stages
<1>3. CASE RecoveryCloses
  BY <1>3 DEF RecoveryCloses, broker, EndSession, Stages
<1>4. CASE DeviceResets
  BY <1>4 DEF DeviceResets, Reset, broker, Stages
<1>5. CASE AvailabilityInterval
  BY <1>5 DEF AvailabilityInterval, broker, Stages
<1>6. CASE GracefulStop
  BY <1>6 DEF GracefulStop, Deliver, Stages
<1>7. CASE PowerCycle
  BY <1>7 DEF PowerCycle, Reset, broker, Stages
<1>8. CASE UNCHANGED vars
  BY <1>8 DEF vars, broker, Stages
<1> QED BY <1>1, <1>2, <1>3, <1>4, <1>5, <1>6, <1>7, <1>8 DEF Next

LEMMA SyncGenerations ==
  ASSUME Generations, Sync PROVE Generations'
<1>1. CASE PublishOk
  BY <1>1 DEF PublishOk, loopState, Generations
<1>2. CASE SlowPublish
  BY <1>2 DEF SlowPublish, Ladder, Reset, FreshSteady, Generations
<1>3. CASE PublishFails
  BY <1>3 DEF PublishFails, Ladder, Reset, FreshSteady, Generations
<1>4. CASE PublishFailsUnclassified
  BY <1>4 DEF PublishFailsUnclassified, loopState, Generations
<1>5. CASE SyncDeferred
  BY <1>5 DEF SyncDeferred, transport, loopState, Generations
<1>6. CASE SubscribeOk
  BY <1>6 DEF SubscribeOk, loopState, Generations
<1>7. CASE SubscribeFails
  BY <1>7 DEF SubscribeFails, Ladder, Reset, FreshSteady, Generations
<1>8. CASE SlowSubscribe
  BY <1>8 DEF SlowSubscribe, loopState, Generations
<1> QED BY <1>1, <1>2, <1>3, <1>4, <1>5, <1>6, <1>7, <1>8 DEF Sync

LEMMA LoopGenerations ==
  ASSUME Generations, Loop PROVE Generations'
<1>1. CASE ConnectOk
  BY <1>1 DEF ConnectOk, SteadyStateForConnect, Generations
<1>2. CASE ConnectFails
  BY <1>2 DEF ConnectFails, transport, loopState, Generations
<1>3. CASE ConnectFailsForMemory
  BY <1>3 DEF ConnectFailsForMemory, Ladder, Reset, FreshSteady, Generations
<1>4. CASE NoConnect
  BY <1>4 DEF NoConnect, transport, loopState, Generations
<1>5. CASE \E sampled, lost \in BOOLEAN : Iterate(sampled, lost)
  BY <1>5 DEF Iterate, Generations
<1>6. CASE Sync
  BY <1>6, SyncGenerations
<1>7. CASE Settle
  BY <1>7 DEF Settle, Generations
<1>8. CASE Restart
  BY <1>8 DEF Restart, Reset, FreshSteady, Generations
<1>9. CASE PollOk
  BY <1>9 DEF PollOk, loopState, Generations
<1>10. CASE PollFails
  BY <1>10 DEF PollFails, loopState, Generations
<1>11. CASE PollSkipped
  BY <1>11 DEF PollSkipped, transport, loopState, Generations
<1> QED
  BY <1>1, <1>2, <1>3, <1>4, <1>5, <1>6, <1>7, <1>8, <1>9, <1>10, <1>11 DEF
     Loop

LEMMA NextGenerations ==
  ASSUME Generations, [Next]_vars PROVE Generations'
<1>1. CASE Loop
  BY <1>1, LoopGenerations
<1>2. CASE BrokerDrops
  BY <1>2 DEF BrokerDrops, transport, loopState, Generations
<1>3. CASE RecoveryCloses
  BY <1>3 DEF RecoveryCloses, loopState, Generations
<1>4. CASE DeviceResets
  BY <1>4 DEF DeviceResets, Reset, FreshSteady, Generations
<1>5. CASE AvailabilityInterval
  BY <1>5 DEF AvailabilityInterval, transport, Generations
<1>6. CASE GracefulStop
  BY <1>6 DEF GracefulStop, loopState, Generations
<1>7. CASE PowerCycle
  BY <1>7 DEF PowerCycle, Reset, FreshSteady, Generations
<1>8. CASE UNCHANGED vars
  BY <1>8 DEF vars, transport, loopState, Generations
<1> QED BY <1>1, <1>2, <1>3, <1>4, <1>5, <1>6, <1>7, <1>8 DEF Next

LEMMA SyncPendings ==
  ASSUME Pendings, Sync PROVE Pendings'
<1>1. CASE PublishOk
  BY <1>1 DEF PublishOk, ReceiveFrom, Pendings, CommandTopics, Commands
<1>2. CASE SlowPublish
  BY <1>2 DEF SlowPublish, Ladder, Reset, CloseClient, Pendings, CommandTopics, Commands
<1>3. CASE PublishFails
  BY <1>3 DEF PublishFails, Ladder, Reset, CloseClient, Pendings, CommandTopics, Commands
<1>4. CASE PublishFailsUnclassified
  BY <1>4 DEF PublishFailsUnclassified, Pendings, CommandTopics, Commands
<1>5. CASE SyncDeferred
  BY <1>5 DEF SyncDeferred, transport, broker, Pendings, CommandTopics, Commands
<1>6. CASE SubscribeOk
  BY <1>6 DEF SubscribeOk, ReceiveFrom, Pendings, CommandTopics, Commands
<1>7. CASE SubscribeFails
  <2>1. PICK done \in SUBSET subscriptions, topic \in subscriptions, open \in BOOLEAN :
          /\ \E reached \in {done, done \cup {topic}} :
               session' = [open |-> open, topics |-> session.topics \cup reached]
          /\ Ladder(published, subscriptions \ done)
    BY <1>7 DEF SubscribeFails, Pendings
  <2>2. session' \in [open : BOOLEAN, topics : SUBSET CommandTopics]
    BY <2>1 DEF Pendings
  <2>3. Ladder(published, subscriptions \ done)
    BY <2>1
  <2> QED BY <2>2, <2>3 DEF Ladder, Reset, Pendings
<1>8. CASE SlowSubscribe
  BY <1>8 DEF SlowSubscribe, Pendings, CommandTopics, Commands
<1> QED BY <1>1, <1>2, <1>3, <1>4, <1>5, <1>6, <1>7, <1>8 DEF Sync

LEMMA LoopPendings ==
  ASSUME Pendings, Loop PROVE Pendings'
<1>1. CASE ConnectOk
  BY <1>1 DEF ConnectOk, SteadyStateForConnect, Pendings, CommandTopics, Commands
<1>2. CASE ConnectFails
  BY <1>2 DEF ConnectFails, transport, EndSession, broker, Pendings, CommandTopics, Commands
<1>3. CASE ConnectFailsForMemory
  BY <1>3 DEF ConnectFailsForMemory, Ladder, Reset, broker, Pendings, CommandTopics,
     Commands
<1>4. CASE NoConnect
  BY <1>4 DEF NoConnect, transport, broker, Pendings, CommandTopics, Commands
<1>5. CASE \E sampled, lost \in BOOLEAN : Iterate(sampled, lost)
  BY <1>5 DEF Iterate, broker, Pendings, CommandTopics, Commands
<1>6. CASE Sync
  BY <1>6, SyncPendings
<1>7. CASE Settle
  BY <1>7 DEF Settle, broker, Pendings, CommandTopics, Commands
<1>8. CASE Restart
  BY <1>8 DEF Restart, Reset, broker, Pendings, CommandTopics, Commands
<1>9. CASE PollOk
  BY <1>9 DEF PollOk, ReceiveFrom, broker, Pendings, CommandTopics, Commands
<1>10. CASE PollFails
  BY <1>10 DEF PollFails, ReceiveFrom, broker, Pendings, CommandTopics, Commands
<1>11. CASE PollSkipped
  BY <1>11 DEF PollSkipped, transport, broker, Pendings, CommandTopics, Commands
<1> QED
  BY <1>1, <1>2, <1>3, <1>4, <1>5, <1>6, <1>7, <1>8, <1>9, <1>10, <1>11 DEF
     Loop

LEMMA NextPendings ==
  ASSUME Pendings, [Next]_vars PROVE Pendings'
<1>1. CASE Loop
  BY <1>1, LoopPendings
<1>2. CASE BrokerDrops
  BY <1>2 DEF BrokerDrops, transport, EndSession, Pendings, CommandTopics, Commands
<1>3. CASE RecoveryCloses
  BY <1>3 DEF RecoveryCloses, broker, EndSession, Pendings, CommandTopics, Commands
<1>4. CASE DeviceResets
  BY <1>4 DEF DeviceResets, Reset, broker, Pendings, CommandTopics, Commands
<1>5. CASE AvailabilityInterval
  BY <1>5 DEF AvailabilityInterval, transport, broker, Pendings, CommandTopics, Commands
<1>6. CASE GracefulStop
  BY <1>6 DEF GracefulStop, Pendings, CommandTopics, Commands
<1>7. CASE PowerCycle
  BY <1>7 DEF PowerCycle, Reset, broker, Pendings, CommandTopics, Commands
<1>8. CASE UNCHANGED vars
  BY <1>8 DEF vars, transport, broker, Pendings, CommandTopics, Commands
<1> QED BY <1>1, <1>2, <1>3, <1>4, <1>5, <1>6, <1>7, <1>8 DEF Next

LEMMA SyncBudgets ==
  ASSUME Budgets, Sync PROVE Budgets'
<1>1. CASE PublishOk
  BY <1>1, SessionAssumption DEF PublishOk, ReceiveFrom, Work, Budgets
<1>2. CASE SlowPublish
  BY <1>2, SessionAssumption DEF SlowPublish, Fault, Budgets
<1>3. CASE PublishFails
  BY <1>3, SessionAssumption DEF PublishFails, Spend, Fault, Budgets
<1>4. CASE PublishFailsUnclassified
  BY <1>4, SessionAssumption DEF PublishFailsUnclassified, Spend, Fault, Budgets
<1>5. CASE SyncDeferred
  BY <1>5, SessionAssumption DEF SyncDeferred, history, Budgets
<1>6. CASE SubscribeOk
  BY <1>6, SessionAssumption DEF SubscribeOk, ReceiveFrom, Work, Budgets
<1>7. CASE SubscribeFails
  BY <1>7, SessionAssumption DEF SubscribeFails, Spend, Fault, Budgets
<1>8. CASE SlowSubscribe
  BY <1>8, SessionAssumption DEF SlowSubscribe, Fault, Budgets
<1> QED BY <1>1, <1>2, <1>3, <1>4, <1>5, <1>6, <1>7, <1>8 DEF Sync

LEMMA LoopBudgets ==
  ASSUME Budgets, Loop PROVE Budgets'
<1>1. CASE ConnectOk
  BY <1>1, SessionAssumption DEF ConnectOk, history, Budgets
<1>2. CASE ConnectFails
  BY <1>2, SessionAssumption DEF ConnectFails, Fault, Budgets
<1>3. CASE ConnectFailsForMemory
  BY <1>3, SessionAssumption DEF ConnectFailsForMemory, Fault, Budgets
<1>4. CASE NoConnect
  BY <1>4, SessionAssumption DEF NoConnect, history, Budgets
<1>5. CASE \E sampled, lost \in BOOLEAN : Iterate(sampled, lost)
  BY <1>5, SessionAssumption DEF Iterate, Work, Budgets
<1>6. CASE Sync
  BY <1>6, SyncBudgets
<1>7. CASE Settle
  BY <1>7, SessionAssumption DEF Settle, history, Budgets
<1>8. CASE Restart
  BY <1>8, SessionAssumption DEF Restart, Budgets
<1>9. CASE PollOk
  BY <1>9, SessionAssumption DEF PollOk, ReceiveFrom, Work, Budgets
<1>10. CASE PollFails
  BY <1>10, SessionAssumption DEF PollFails, Spend, Fault, ReceiveFrom, Work, Budgets
<1>11. CASE PollSkipped
  BY <1>11, SessionAssumption DEF PollSkipped, history, Budgets
<1> QED
  BY <1>1, <1>2, <1>3, <1>4, <1>5, <1>6, <1>7, <1>8, <1>9, <1>10, <1>11 DEF
     Loop

LEMMA NextBudgets ==
  ASSUME Budgets, [Next]_vars PROVE Budgets'
<1>1. CASE Loop
  BY <1>1, LoopBudgets
<1>2. CASE BrokerDrops
  BY <1>2, SessionAssumption DEF BrokerDrops, Fault, Budgets
<1>3. CASE RecoveryCloses
  BY <1>3, SessionAssumption DEF RecoveryCloses, Fault, Budgets
<1>4. CASE DeviceResets
  BY <1>4, SessionAssumption DEF DeviceResets, Fault, Budgets
<1>5. CASE AvailabilityInterval
  BY <1>5, SessionAssumption DEF AvailabilityInterval, Work, Budgets
<1>6. CASE GracefulStop
  BY <1>6, SessionAssumption DEF GracefulStop, Fault, Budgets
<1>7. CASE PowerCycle
  BY <1>7, SessionAssumption DEF PowerCycle, Budgets
<1>8. CASE UNCHANGED vars
  BY <1>8, SessionAssumption DEF vars, history, Budgets
<1> QED BY <1>1, <1>2, <1>3, <1>4, <1>5, <1>6, <1>7, <1>8 DEF Next
-----------------------------------------------------------------------------
(* Results.  Each result the broker has heard or may still hear was queued *)
(* for a command of its own.                                               *)
ResultsIn(q) == {i \in 1..Len(q) : q[i].kind = "result"}

Answers(q, r) ==
  /\ r \in [queued : Nat, heard : Nat]
  /\ r.heard + Cardinality(ResultsIn(q)) <= r.queued

Answering == Answers(published, results)

LEMMA NoResultsInEmpty == Cardinality(ResultsIn(<<>>)) = 0
<1>1. ResultsIn(<<>>) = {} /\ Cardinality({}) = 0
  BY FS_EmptySet DEF ResultsIn
<1> QED BY <1>1, Zenon

(* The places of a kind in a sequence of kinds, and how many there are in  *)
(* two sequences put one after the other.                                  *)
Places(s, x) == {i \in 1..Len(s) : s[i] = x}

LEMMA PlacesFinite ==
  ASSUME NEW n \in Nat, NEW S \in SUBSET (1..n)
  PROVE  IsFiniteSet(S) /\ Cardinality(S) \in Nat
<1>1. 1 \in Int /\ n \in Int
  OBVIOUS
<1>2. IsFiniteSet(1..n)
  BY <1>1, FS_Interval
<1> QED BY <1>2, FS_Subset, FS_CardinalityType

LEMMA PlacesJoined ==
  ASSUME NEW n \in Nat, NEW m \in Nat, NEW A \in SUBSET (1..n), NEW B \in SUBSET (1..m),
         NEW C \in SUBSET (1..(n + m)),
         \A i \in C : IF i <= n THEN i \in A ELSE i - n \in B
  PROVE  Cardinality(C) <= Cardinality(A) + Cardinality(B)
<1> DEFINE early == {i \in C : i <= n}
           late == C \ early
           f == [i \in late |-> i - n]
<1>1. /\ IsFiniteSet(A) /\ Cardinality(A) \in Nat
      /\ IsFiniteSet(B) /\ Cardinality(B) \in Nat
  BY PlacesFinite
<1>2. /\ IsFiniteSet(early) /\ Cardinality(early) \in Nat
      /\ Cardinality(early) <= Cardinality(A)
  <2>1. early \in SUBSET A
    OBVIOUS
  <2> QED BY <1>1, <2>1, FS_Subset, FS_CardinalityType
<1>3. /\ IsFiniteSet(late) /\ Cardinality(late) \in Nat
      /\ Cardinality(late) <= Cardinality(B)
  <2>1. \A i \in late : i \in Int /\ i - n \in B
    OBVIOUS
  <2> HIDE DEF late
  <2>2. f \in [late -> B] /\ \A i, j \in late : f[i] = f[j] => i = j
    BY <2>1
  <2>3. f \in Injection(late, B)
    BY <2>2 DEF Injection, IsInjective
  <2> HIDE DEF f
  <2> QED BY <1>1, <2>3, FS_Injection, FS_CardinalityType
<1>4. C = early \cup late /\ early \cap late = {}
  OBVIOUS
<1> HIDE DEF early, late
<1>5. Cardinality(C) = Cardinality(early) + Cardinality(late) - Cardinality({})
  BY <1>2, <1>3, <1>4, FS_Union
<1>6. Cardinality({}) = 0
  BY FS_EmptySet
<1> QED BY <1>1, <1>2, <1>3, <1>5, <1>6

LEMMA PlacesAppended ==
  ASSUME NEW s \in Seq(Kinds), NEW t \in Seq(Kinds), NEW x
  PROVE  Cardinality(Places(s \o t, x))
           <= Cardinality(Places(s, x)) + Cardinality(Places(t, x))
<1>1. /\ Len(s) \in Nat /\ Len(t) \in Nat /\ Len(s \o t) = Len(s) + Len(t)
      /\ \A i \in 1..Len(s \o t) : (s \o t)[i] = IF i <= Len(s) THEN s[i] ELSE t[i - Len(s)]
  BY ConcatProperties
<1>2. ASSUME NEW i \in Places(s \o t, x)
      PROVE  IF i <= Len(s) THEN i \in Places(s, x) ELSE i - Len(s) \in Places(t, x)
  <2>1. i \in 1..(Len(s) + Len(t)) /\ (s \o t)[i] = x /\ i \in 1..Len(s \o t)
    BY <1>1 DEF Places
  <2>2. CASE i <= Len(s)
    BY <1>1, <2>1, <2>2 DEF Places
  <2>3. CASE ~(i <= Len(s))
    <3>1. i - Len(s) \in 1..Len(t)
      BY <1>1, <2>1, <2>3
    <3> QED BY <1>1, <2>1, <2>3, <3>1 DEF Places
  <2> QED BY <2>2, <2>3
<1>3. /\ Places(s, x) \in SUBSET (1..Len(s)) /\ Places(t, x) \in SUBSET (1..Len(t))
      /\ Places(s \o t, x) \in SUBSET (1..(Len(s) + Len(t)))
  BY <1>1 DEF Places
<1> QED BY <1>1, <1>2, <1>3, PlacesJoined

LEMMA ResultsFinite ==
  ASSUME NEW q \in Seq(Entries)
  PROVE  IsFiniteSet(ResultsIn(q)) /\ Cardinality(ResultsIn(q)) \in Nat
<1>1. Len(q) \in Nat /\ ResultsIn(q) \in SUBSET (1..Len(q))
  BY DEF ResultsIn
<1> QED BY <1>1, PlacesFinite

LEMMA ResultsAppended ==
  ASSUME NEW q \in Seq(Entries), NEW kinds \in Seq(Kinds), NEW config \in Nat
  PROVE  Cardinality(ResultsIn(q \o Messages(kinds, config)))
           <= Cardinality(ResultsIn(q)) + Cardinality(Places(kinds, "result"))
<1> DEFINE e == Messages(kinds, config)
           r == q \o e
<1>1. e \in Seq(Entries)
  BY MessagesProperties
<1>2. /\ Len(kinds) \in Nat /\ Len(e) = Len(kinds)
      /\ \A i \in 1..Len(kinds) : e[i].kind = kinds[i]
  BY DEF Messages, Message
<1> HIDE DEF e
<1>3. /\ Len(q) \in Nat /\ Len(r) = Len(q) + Len(e)
      /\ \A i \in 1..Len(r) : r[i] = IF i <= Len(q) THEN q[i] ELSE e[i - Len(q)]
  BY <1>1, ConcatProperties
<1> HIDE DEF r
<1>4. ASSUME NEW i \in ResultsIn(r)
      PROVE  IF i <= Len(q) THEN i \in ResultsIn(q)
             ELSE i - Len(q) \in Places(kinds, "result")
  <2>1. i \in 1..(Len(q) + Len(e)) /\ r[i].kind = "result" /\ i \in 1..Len(r)
    BY <1>3 DEF ResultsIn
  <2>2. CASE i <= Len(q)
    BY <1>3, <2>1, <2>2 DEF ResultsIn
  <2>3. CASE ~(i <= Len(q))
    <3>1. i - Len(q) \in 1..Len(kinds)
      BY <1>2, <1>3, <2>1, <2>3
    <3> QED BY <1>2, <1>3, <2>1, <2>3, <3>1 DEF Places
  <2> QED BY <2>2, <2>3
<1>5. /\ ResultsIn(q) \in SUBSET (1..Len(q))
      /\ Places(kinds, "result") \in SUBSET (1..Len(kinds))
      /\ ResultsIn(r) \in SUBSET (1..(Len(q) + Len(kinds)))
  BY <1>2, <1>3 DEF ResultsIn, Places
<1>6. Cardinality(ResultsIn(r))
        <= Cardinality(ResultsIn(q)) + Cardinality(Places(kinds, "result"))
  BY <1>2, <1>3, <1>4, <1>5, PlacesJoined
<1> QED BY <1>6 DEF r, e

(* A message removed is one result less when it was a result.              *)
LEMMA ResultsRemoved ==
  ASSUME NEW q \in Seq(Entries), NEW i \in 1..Len(q)
  PROVE  Cardinality(ResultsIn(RemoveAt(q, i)))
           <= Cardinality(ResultsIn(q)) - (IF q[i].kind = "result" THEN 1 ELSE 0)
<1> DEFINE r == RemoveAt(q, i)
           At(j) == IF j < i THEN j ELSE j + 1
           f == [j \in ResultsIn(r) |-> At(j)]
<1>1. /\ r \in Seq(Entries)
      /\ Len(r) = Len(q) - 1
      /\ \A j \in 1..Len(r) : r[j] = q[At(j)]
  BY RemoveAtProperties
<1>2. Len(q) \in Nat /\ i \in Int
  OBVIOUS
<1> HIDE DEF r
<1>3. ASSUME NEW j \in ResultsIn(r) PROVE At(j) \in ResultsIn(q) \ {i}
  <2>1. j \in 1..Len(r) /\ r[j].kind = "result"
    BY DEF ResultsIn
  <2>2. At(j) \in 1..Len(q) /\ At(j) # i
    BY <1>1, <1>2, <2>1
  <2> QED BY <1>1, <2>1, <2>2 DEF ResultsIn
<1>4. \A j, k \in ResultsIn(r) : At(j) = At(k) => j = k
  <2>1. \A j \in ResultsIn(r) : j \in Int
    BY DEF ResultsIn
  <2> QED BY <1>2, <2>1
<1>5. f \in Injection(ResultsIn(r), ResultsIn(q) \ {i})
  <2> HIDE DEF At
  <2>1. f \in [ResultsIn(r) -> ResultsIn(q) \ {i}]
    BY <1>3
  <2>2. \A j, k \in ResultsIn(r) : f[j] = f[k] => j = k
    BY <1>4
  <2> QED BY <2>1, <2>2 DEF Injection, IsInjective
<1> HIDE DEF f
<1>6. /\ IsFiniteSet(ResultsIn(q) \ {i})
      /\ Cardinality(ResultsIn(q) \ {i}) =
           IF i \in ResultsIn(q) THEN Cardinality(ResultsIn(q)) - 1
           ELSE Cardinality(ResultsIn(q))
  BY ResultsFinite, FS_RemoveElement
<1>7. Cardinality(ResultsIn(r)) <= Cardinality(ResultsIn(q) \ {i})
  BY <1>5, <1>6, FS_Injection
<1>8. i \in ResultsIn(q) <=> q[i].kind = "result"
  BY DEF ResultsIn
<1>9. Cardinality(ResultsIn(q)) \in Nat /\ Cardinality(ResultsIn(r)) \in Nat
  BY <1>1, ResultsFinite
<1>10. Cardinality(ResultsIn(r))
         <= Cardinality(ResultsIn(q)) - (IF q[i].kind = "result" THEN 1 ELSE 0)
  BY <1>6, <1>7, <1>8, <1>9
<1> QED BY <1>10 DEF r

(* An iteration queues no more results than it has received commands.      *)
LEMMA StageResults ==
  ASSUME NEW sampled \in BOOLEAN, received \subseteq Commands
  PROVE  Cardinality(Places(StageOne(sampled)
           \o When(sampled /\ connected /\ ~StartupDue, "data")
           \o When(RefreshAvailability, "online"), "result")) <= Cardinality(received)
<1> DEFINE Count(s) == Cardinality(Places(s, "result"))
           Answer(c) == IF c \in received THEN <<"ack", "result">> ELSE <<>>
           startup == IF StartupDue THEN StartupCycle(sampled)
                      ELSE When(SwitchMetaDue, "meta_switch")
           data == When(sampled /\ connected /\ ~StartupDue, "data")
           online == When(RefreshAvailability, "online")
<1>1. \A c, k : k \in Kinds => When(c, k) \in Seq(Kinds)
  BY DEF When
<1>2. <<"meta", "online">> \in Seq(Kinds) /\ <<"hello">> \in Seq(Kinds)
      /\ <<"meta_config">> \in Seq(Kinds) /\ <<"ack", "result">> \in Seq(Kinds)
      /\ <<>> \in Seq(Kinds)
  BY DEF Kinds, Retained, Priority, Verified
<1>3. "data" \in Kinds /\ "meta_switch" \in Kinds /\ "discovery" \in Kinds
      /\ "online" \in Kinds
  BY DEF Kinds, Retained, Priority, Verified
<1>4. \A s, t \in Seq(Kinds) : s \o t \in Seq(Kinds) /\ Count(s \o t) <= Count(s) + Count(t)
  BY ConcatProperties, PlacesAppended
<1>5. \A s \in Seq(Kinds) : Count(s) \in Nat
  <2>1. ASSUME NEW s \in Seq(Kinds) PROVE Count(s) \in Nat
    <3>1. Len(s) \in Nat /\ Places(s, "result") \in SUBSET (1..Len(s))
      BY DEF Places
    <3> QED BY <3>1, PlacesFinite
  <2> QED BY <2>1
<1>6. Cardinality({}) = 0
  BY FS_EmptySet
<1>7. \A c, k : k \in Kinds /\ k # "result" => Count(When(c, k)) = 0
  <2>1. \A c, k : k # "result" => Places(When(c, k), "result") = {}
    BY DEF Places, When
  <2> QED BY <1>6, <2>1
<1>8. /\ Count(<<"meta", "online">>) = 0 /\ Count(<<"hello">>) = 0
      /\ Count(<<"meta_config">>) = 0
  <2>1. /\ Places(<<"meta", "online">>, "result") = {} /\ Places(<<"hello">>, "result") = {}
        /\ Places(<<"meta_config">>, "result") = {}
    BY DEF Places
  <2> QED BY <1>6, <2>1
<1>9. \A c : /\ Answer(c) \in Seq(Kinds)
             /\ Count(Answer(c)) = IF c \in received THEN 1 ELSE 0
  <2>1. Places(<<"ack", "result">>, "result") = {2} /\ Places(<<>>, "result") = {}
    BY DEF Places
  <2>2. Cardinality({2}) = 1
    BY FS_Singleton
  <2> QED BY <1>2, <1>6, <2>1, <2>2
<1> DEFINE Few(s, n) == s \in Seq(Kinds) /\ Count(s) <= n
<1> HIDE DEF Count
<1>10. \A m, n \in Nat : \A s, t : Few(s, m) /\ Few(t, n) => Few(s \o t, m + n)
  <2>1. ASSUME NEW m \in Nat, NEW n \in Nat, NEW s \in Seq(Kinds), NEW t \in Seq(Kinds),
               Count(s) <= m, Count(t) <= n
        PROVE  s \o t \in Seq(Kinds) /\ Count(s \o t) <= m + n
    <3>1. /\ s \o t \in Seq(Kinds) /\ Count(s \o t) <= Count(s) + Count(t)
          /\ Count(s) \in Nat /\ Count(t) \in Nat
      BY <1>4, <1>5
    <3>2. Count(s \o t) \in Nat
      BY <1>5, <3>1
    <3> QED BY <2>1, <3>1, <3>2
  <2> QED BY <2>1
<1>11. \A n \in Nat : \A s, t : Few(s, n) /\ Few(t, 0) => Few(s \o t, n)
  <2>1. \A n \in Nat : n + 0 = n /\ 0 \in Nat
    OBVIOUS
  <2> QED BY <1>10, <2>1
<1>12. /\ \A c, k : k \in Kinds /\ k # "result" => Few(When(c, k), 0)
       /\ Few(<<"meta", "online">>, 0) /\ Few(<<"hello">>, 0) /\ Few(<<"meta_config">>, 0)
  BY <1>1, <1>2, <1>7, <1>8
<1>13. \A c : Few(Answer(c), IF c \in received THEN 1 ELSE 0)
  BY <1>9
<1> HIDE DEF Few
<1>14. Few(startup, 0)
  <2>1. \A s, t : Few(s, 0) /\ Few(t, 0) => Few(s \o t, 0)
    BY <1>11
  <2>2. Few(StartupCycle(sampled), 0)
    BY <1>3, <1>12, <2>1 DEF StartupCycle
  <2> QED BY <1>3, <1>12, <2>2
<1>15. Few(data, 0) /\ Few(online, 0)
  BY <1>3, <1>12
<1>16. Cardinality(received) = (IF "config" \in received THEN 1 ELSE 0)
                              + (IF "restart" \in received THEN 1 ELSE 0)
  <2>1. received \in {{}, {"config"}, {"restart"}, {"config", "restart"}}
    BY DEF Commands
  <2>2. /\ Cardinality({"config"}) = 1 /\ Cardinality({"restart"}) = 1
        /\ IsFiniteSet({"config"})
    BY FS_Singleton
  <2>3. Cardinality({"config"} \cup {"restart"}) = 2
    BY <2>2, FS_AddElement
  <2>4. {"config"} \cup {"restart"} = {"config", "restart"}
    OBVIOUS
  <2> QED BY <1>6, <2>1, <2>2, <2>3, <2>4
<1>17. StageOne(sampled) = startup \o Answer("config") \o Answer("restart")
  BY DEF StageOne
<1> HIDE DEF startup, data, online, Answer
<1>18. Few(StageOne(sampled), Cardinality(received))
  <2> DEFINE a == IF "config" \in received THEN 1 ELSE 0
             b == IF "restart" \in received THEN 1 ELSE 0
  <2>1. Few(startup \o Answer("config"), 0 + a) /\ a \in Nat /\ b \in Nat /\ 0 + a = a
    BY <1>10, <1>13, <1>14
  <2>2. Few(StageOne(sampled), a + b)
    BY <1>10, <1>13, <1>17, <2>1
  <2> QED BY <1>16, <2>2
<1>19. Few(StageOne(sampled) \o data \o online, Cardinality(received))
  <2>1. Cardinality(received) \in Nat
    BY <1>16
  <2> QED BY <1>11, <1>15, <1>18, <2>1
<1> QED BY <1>19 DEF Few, Count, data, online
(* What the broker hears leaves the queue; what is dropped only leaves it. *)
LEMMA SentAnswers ==
  ASSUME NEW q \in Seq(Entries), NEW i \in 1..Len(q), Answers(q, results),
         Deliver(q[i]) \/ Undelivered
  PROVE  Answers(RemoveAt(q, i), results')
<1> DEFINE r == RemoveAt(q, i)
           one == IF q[i].kind = "result" THEN 1 ELSE 0
<1>1. results.queued \in Nat /\ results.heard \in Nat
  BY DEF Answers
<1>2. /\ Cardinality(ResultsIn(r)) \in Nat /\ Cardinality(ResultsIn(q)) \in Nat
      /\ Cardinality(ResultsIn(r)) <= Cardinality(ResultsIn(q)) - one
  <2>1. r \in Seq(Entries)
    BY RemoveAtProperties
  <2> QED BY <2>1, ResultsFinite, ResultsRemoved
<1>3. /\ results' \in [queued : Nat, heard : Nat]
      /\ results'.queued = results.queued
      /\ results'.heard <= results.heard + one
  BY <1>1 DEF Deliver, Undelivered, Answers
<1> HIDE DEF r, one
<1>4. one \in Nat
  BY DEF one
<1>5. results.heard + Cardinality(ResultsIn(q)) <= results.queued
  BY DEF Answers
<1>6. results'.heard \in Nat
  BY <1>3
<1>7. results'.heard + Cardinality(ResultsIn(r)) <= results'.queued
  BY <1>1, <1>2, <1>3, <1>4, <1>5, <1>6
<1> QED BY <1>3, <1>7 DEF Answers, r

LEMMA EmptyAnswers ==
  ASSUME NEW q \in Seq(Entries), NEW r, Answers(q, r) PROVE Answers(<<>>, r)
<1>1. Cardinality(ResultsIn(q)) \in Nat
  BY ResultsFinite
<1>2. r \in [queued : Nat, heard : Nat]
      /\ r.heard + Cardinality(ResultsIn(q)) <= r.queued
  BY DEF Answers
<1>3. r.heard + 0 <= r.queued
  BY <1>1, <1>2
<1> QED BY <1>2, <1>3, NoResultsInEmpty DEF Answers

(* A message that is sent, whatever becomes of it: only a retained one may *)
(* stay in the queue.                                                      *)
LEMMA PublishAnswers ==
  ASSUME Answering, published \in Seq(Entries), PublishReady,
         Deliver(published[PublishIndex]) \/ Undelivered,
         NEW queue \in {Dropped(PublishIndex), QueueAfterFailure}
  PROVE  Answers(queue, results') /\ queue \in Seq(Entries)
<1>1. PublishIndex \in 1..Len(published)
  BY NextPublishProperties DEF PublishReady, PublishIndex
<1>2. /\ Answers(Dropped(PublishIndex), results')
      /\ Dropped(PublishIndex) \in Seq(Entries)
  BY <1>1, SentAnswers, RemoveAtProperties DEF Answering, Dropped
<1>3. CASE queue = Dropped(PublishIndex)
  BY <1>2, <1>3
<1>4. CASE queue # Dropped(PublishIndex)
  <2>1. queue = published /\ published[PublishIndex].kind \in Retained
    BY <1>4 DEF QueueAfterFailure
  <2>2. published[PublishIndex].kind # "result"
    BY <2>1 DEF Retained, Priority, Verified
  <2>3. results' = results
    BY <2>2 DEF Deliver, Undelivered
  <2> QED BY <2>1, <2>3 DEF Answering
<1> QED BY <1>3, <1>4

LEMMA LadderAnswers ==
  ASSUME NEW queue \in Seq(Entries), NEW subs, Ladder(queue, subs),
         Answers(queue, results')
  PROVE  Answering'
<1>1. published' = queue \/ published' = <<>>
  BY DEF Ladder, Reset
<1>2. Answers(published', results')
  BY <1>1, EmptyAnswers
<1> QED BY <1>2 DEF Answering, Answers, ResultsIn

LEMMA ResetAnswers ==
  ASSUME Answering, published \in Seq(Entries), Reset, UNCHANGED results
  PROVE  Answering'
<1>1. published' = <<>> /\ Answers(<<>>, results)
  BY EmptyAnswers DEF Reset, Answering
<1> QED BY <1>1 DEF Answering, Answers, ResultsIn

LEMMA QuietAnswers ==
  ASSUME Answering, UNCHANGED <<published, results>> PROVE Answering'
BY DEF Answering, Answers, ResultsIn

LEMMA IterateAnswers ==
  ASSUME Answering, published \in Seq(Entries), saved \in Nat,
         received \subseteq Commands,
         NEW sampled \in BOOLEAN, NEW lost \in BOOLEAN, Iterate(sampled, lost)
  PROVE  Answering'
<1> DEFINE kinds == StageOne(sampled)
                      \o When(sampled /\ connected /\ ~StartupDue, "data")
                      \o When(RefreshAvailability, "online")
           queue == published \o Messages(kinds, saved)
<1>1. kinds \in Seq(Kinds) /\ Cardinality(Places(kinds, "result")) <= Cardinality(received)
  BY StageProperties, StageResults
<1>2. results' = [results EXCEPT !.queued = @ + Cardinality(received)]
  BY DEF Iterate
<1>3. \/ published' = queue
      \/ \E k \in Kinds \ {"result"} : published' = <<Message(k, saved')>>
  <2>1. \A d : NextRefresh(d) \in Kinds \ {"result"}
    BY DEF NextRefresh, Kinds, Retained, Priority, Verified
  <2> QED BY <2>1 DEF Iterate
<1> HIDE DEF kinds
<1>4. /\ Messages(kinds, saved) \in Seq(Entries)
      /\ Cardinality(ResultsIn(queue))
           <= Cardinality(ResultsIn(published)) + Cardinality(Places(kinds, "result"))
  BY <1>1, MessagesProperties, ResultsAppended
<1>5. queue \in Seq(Entries)
  BY <1>4, ConcatProperties
<1> HIDE DEF queue
<1>6. /\ Cardinality(ResultsIn(published)) \in Nat /\ Cardinality(ResultsIn(queue)) \in Nat
      /\ Cardinality(Places(kinds, "result")) \in Nat
  <2>1. Len(kinds) \in Nat /\ Places(kinds, "result") \in SUBSET (1..Len(kinds))
    BY <1>1 DEF Places
  <2> QED BY <1>5, <2>1, ResultsFinite, PlacesFinite
<1>7. Cardinality(received) \in Nat
  <2>1. IsFiniteSet({"config"} \cup {"restart"})
    BY FS_Singleton, FS_AddElement
  <2>2. received \in SUBSET ({"config"} \cup {"restart"})
    BY DEF Commands
  <2> QED BY <2>1, <2>2, FS_Subset, FS_CardinalityType
<1>8. results.queued \in Nat /\ results.heard \in Nat
      /\ results.heard + Cardinality(ResultsIn(published)) <= results.queued
      /\ results \in [queued : Nat, heard : Nat]
  BY DEF Answering, Answers
<1>9. /\ results' \in [queued : Nat, heard : Nat]
      /\ results'.heard = results.heard
      /\ results'.queued = results.queued + Cardinality(received)
  BY <1>2, <1>7, <1>8
<1>10. Answers(queue, results')
  <2>1. results.heard + Cardinality(ResultsIn(queue))
          <= results.queued + Cardinality(received)
    BY <1>1, <1>4, <1>6, <1>7, <1>8
  <2> QED BY <1>9, <2>1 DEF Answers
<1>11. CASE published' = queue
  BY <1>10, <1>11 DEF Answering, Answers, ResultsIn
<1>12. ASSUME NEW k \in Kinds \ {"result"}, published' = <<Message(k, saved')>>
       PROVE  Answering'
  <2>1. Len(published') = 1 /\ published'[1].kind = k
    BY <1>12 DEF Message
  <2>2. ResultsIn(published)' = {}
    BY <2>1 DEF ResultsIn
  <2>3. Cardinality({}) = 0
    BY FS_EmptySet
  <2>4. results'.heard + 0 <= results'.queued
    BY <1>6, <1>7, <1>8, <1>9
  <2> QED BY <1>9, <2>2, <2>3, <2>4 DEF Answering, Answers
<1> QED BY <1>3, <1>11, <1>12

LEMMA SyncAnswers ==
  ASSUME Answering, published \in Seq(Entries), Sync PROVE Answering'
<1>1. CASE PublishOk
  <2>1. published' = Dropped(PublishIndex) /\ PublishReady
        /\ (Deliver(published[PublishIndex]) \/ Undelivered)
    BY <1>1 DEF PublishOk
  <2>2. Answers(published', results')
    BY <2>1, PublishAnswers
  <2> QED BY <2>2 DEF Answering, Answers, ResultsIn
<1>2. CASE SlowPublish
  BY <1>2, PublishAnswers, LadderAnswers DEF SlowPublish
<1>3. CASE PublishFails
  BY <1>3, PublishAnswers, LadderAnswers DEF PublishFails
<1>4. CASE PublishFailsUnclassified
  <2>1. published' = QueueAfterFailure /\ PublishReady
        /\ (Deliver(published[PublishIndex]) \/ Undelivered)
    BY <1>4 DEF PublishFailsUnclassified
  <2>2. Answers(published', results')
    BY <2>1, PublishAnswers
  <2> QED BY <2>2 DEF Answering, Answers, ResultsIn
<1>5. CASE SyncDeferred
  BY <1>5, QuietAnswers DEF SyncDeferred, transport, history
<1>6. CASE SubscribeOk
  BY <1>6, QuietAnswers DEF SubscribeOk
<1>7. CASE SubscribeFails
  <2>1. PICK subs : Ladder(published, subs)
    BY <1>7 DEF SubscribeFails
  <2>2. Answers(published, results')
    BY <1>7 DEF SubscribeFails, Answering
  <2> QED BY <2>1, <2>2, LadderAnswers
<1>8. CASE SlowSubscribe
  BY <1>8, QuietAnswers DEF SlowSubscribe
<1> QED BY <1>1, <1>2, <1>3, <1>4, <1>5, <1>6, <1>7, <1>8 DEF Sync

LEMMA StopAnswers ==
  ASSUME Answering, published \in Seq(Entries), GracefulStop PROVE Answering'
<1> DEFINE e == <<Message("offline", 0)>>
           q == Append(published, Message("offline", 0))
           i == NextPublish(q)
<1>1. e = Messages(<<"offline">>, 0) /\ q = published \o e
  BY DEF Messages
<1>2. <<"offline">> \in Seq(Kinds) /\ 0 \in Nat
  BY DEF Kinds, Retained, Priority
<1>3. /\ q \in Seq(Entries) /\ q # <<>> /\ Len(q) \in 1..Len(q)
      /\ q[Len(q)].kind = "offline"
  BY DEF Message, Entries, Kinds, Retained, Priority
<1>4. Answers(q, results)
  <2>1. Places(<<"offline">>, "result") = {} /\ Cardinality({}) = 0
    BY FS_EmptySet DEF Places
  <2>2. Cardinality(ResultsIn(q)) <= Cardinality(ResultsIn(published)) + 0
    BY <1>1, <1>2, <2>1, ResultsAppended
  <2>3. Cardinality(ResultsIn(q)) \in Nat /\ Cardinality(ResultsIn(published)) \in Nat
    BY <1>3, ResultsFinite
  <2>4. results.heard \in Nat /\ results.queued \in Nat
    BY DEF Answering, Answers
  <2> HIDE DEF q
  <2> QED BY <2>2, <2>3, <2>4 DEF Answering, Answers
<1>5. Deliver(q[i]) /\ published' = RemoveAt(q, i)
  BY DEF GracefulStop
<1> HIDE DEF q
<1>6. i # 0
  BY <1>3, NextPublishNotZero
<1>7. i \in 1..Len(q)
  BY <1>3, <1>6, NextPublishProperties
<1> HIDE DEF i
<1>8. Answers(published', results')
  BY <1>3, <1>4, <1>5, <1>7, SentAnswers
<1> QED BY <1>8 DEF Answering, Answers, ResultsIn

LEMMA LoopAnswers ==
  ASSUME Answering, published \in Seq(Entries), saved \in Nat,
         received \subseteq Commands, Loop
  PROVE  Answering'
<1>1. CASE ConnectOk
  BY <1>1, QuietAnswers DEF ConnectOk, history
<1>2. CASE ConnectFails
  BY <1>2, QuietAnswers DEF ConnectFails, transport
<1>3. CASE ConnectFailsForMemory
  BY <1>3, LadderAnswers DEF ConnectFailsForMemory, Answering
<1>4. CASE NoConnect
  BY <1>4, QuietAnswers DEF NoConnect, transport, history
<1>5. CASE \E sampled, lost \in BOOLEAN : Iterate(sampled, lost)
  BY <1>5, IterateAnswers
<1>6. CASE Sync
  BY <1>6, SyncAnswers
<1>7. CASE Settle
  BY <1>7, QuietAnswers DEF Settle, history
<1>8. CASE Restart
  BY <1>8, ResetAnswers DEF Restart
<1>9. CASE PollOk
  BY <1>9, QuietAnswers DEF PollOk
<1>10. CASE PollFails
  BY <1>10, QuietAnswers DEF PollFails
<1>11. CASE PollSkipped
  BY <1>11, QuietAnswers DEF PollSkipped, transport, history
<1> QED
  BY <1>1, <1>2, <1>3, <1>4, <1>5, <1>6, <1>7, <1>8, <1>9, <1>10, <1>11 DEF Loop

LEMMA NextAnswers ==
  ASSUME Answering, published \in Seq(Entries), saved \in Nat,
         received \subseteq Commands, [Next]_vars
  PROVE  Answering'
<1>1. CASE Loop
  BY <1>1, LoopAnswers
<1>2. CASE BrokerDrops
  BY <1>2, QuietAnswers DEF BrokerDrops, transport
<1>3. CASE RecoveryCloses
  BY <1>3, QuietAnswers DEF RecoveryCloses
<1>4. CASE DeviceResets
  BY <1>4, ResetAnswers DEF DeviceResets
<1>5. CASE AvailabilityInterval
  BY <1>5, QuietAnswers DEF AvailabilityInterval, transport
<1>6. CASE GracefulStop
  BY <1>6, StopAnswers
<1>7. CASE PowerCycle
  BY <1>7, ResetAnswers DEF PowerCycle
<1>8. CASE UNCHANGED vars
  BY <1>8, QuietAnswers DEF vars, transport, history
<1> QED BY <1>1, <1>2, <1>3, <1>4, <1>5, <1>6, <1>7, <1>8 DEF Next

(* Everything the session keeps, group by group.                           *)
Kept ==
  /\ Flags /\ Stages /\ Generations /\ Pendings /\ Budgets
  /\ SnapshotsOrdered /\ Answering

(* A command's result is heard at most once, whatever fails and however    *)
(* often the queue outlives its connection: a failed publish of a result   *)
(* is never repeated, and what the broker has heard and what is queued     *)
(* together never exceed the commands answered                             *)
(* (core/mqtt_client.py, sync_transport_to_client).                        *)
THEOREM ResultsHeardOnce == Spec => []ResultsSound
<1>1. Init => Kept
  <2> SUFFICES ASSUME Init PROVE Kept
    OBVIOUS
  <2>1. Flags /\ Stages /\ Generations
    BY DEF Init, Flags, Stages, Generations, FreshSteady
  <2>0. Budgets
    BY SessionAssumption DEF Init, Budgets
  <2>2. Pendings
    BY DEF Init, Pendings
  <2>3. SnapshotsOrdered
    BY EmptyOrdered DEF Init, SnapshotsOrdered
  <2>4. Answering
    <3>1. published = <<>> /\ results = [queued |-> 0, heard |-> 0]
      BY DEF Init, NoResults
    <3>2. Cardinality(ResultsIn(published)) = 0
      BY <3>1, NoResultsInEmpty
    <3> QED BY <3>1, <3>2 DEF Answering, Answers
  <2> QED BY <2>0, <2>1, <2>2, <2>3, <2>4 DEF Kept
<1>2. Kept /\ [Next]_vars => Kept'
  <2> SUFFICES ASSUME Kept, [Next]_vars PROVE Kept'
    OBVIOUS
  <2>1. published \in Seq(Entries) /\ saved \in Nat /\ received \subseteq Commands
    BY DEF Kept, SnapshotsOrdered, QueueOrdered, Pendings
  <2> QED
    BY <2>1, NextFlags, NextStages, NextGenerations, NextPendings, NextBudgets, NextOrdered,
       NextAnswers DEF Kept
<1>3. Kept => ResultsSound
  <2> SUFFICES ASSUME Kept PROVE ResultsSound
    OBVIOUS
  <2>1. /\ published \in Seq([kind : Kinds, config : Nat])
        /\ saved \in Nat /\ shownConfig \in Nat
    BY DEF Kept, SnapshotsOrdered, QueueOrdered, Entries
  <2>2. results \in [queued : Nat, heard : Nat]
    BY DEF Kept, Answering, Answers
  <2>3. ResultsAtMostOnce
    <3>1. Cardinality(ResultsIn(published)) \in Nat
      BY ResultsFinite DEF Kept, SnapshotsOrdered, QueueOrdered
    <3> QED BY <2>2, <3>1 DEF Kept, Answering, Answers, ResultsAtMostOnce
  <2>4. TypeOK
    BY <2>1, <2>2 DEF Kept, Flags, Stages, Generations, Pendings, Budgets, TypeOK
  <2> QED BY <2>3, <2>4 DEF ResultsSound
<1> QED BY <1>1, <1>2, <1>3, PTL DEF Spec
=============================================================================
