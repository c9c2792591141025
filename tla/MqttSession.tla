---------------------------- MODULE MqttSession ----------------------------
(***************************************************************************)
(* The device's MQTT session and the broker's view of it.                  *)
(*                                                                         *)
(* core/mqtt.py keeps the queues and the connection generation,            *)
(* core/mqtt_client.py moves one publish or the pending subscriptions per  *)
(* call, features/steady_state.py queues the startup, command and refresh  *)
(* publications, and app.py runs the loop                                  *)
(*     connect -> post -> iterate -> sync -> settle -> poll -> connect     *)
(* that decides when a connection generation is operational.  The loop is  *)
(* one thread, so an action is one of its stages; the broker and the link  *)
(* act between them.                                                       *)
(*                                                                         *)
(* Abstractions.  A queued message is its kind and, for meta/config, the   *)
(* saved configuration it was built from; availability topics travel with  *)
(* the heartbeat and are not kept apart.  The pending subscriptions are a  *)
(* set: transport.subscribe keeps them unique and no property depends on   *)
(* their order.  Retry intervals are "not yet" choices, the 30 s           *)
(* availability timer is the flag availabilityDue.  The recovery ladder is *)
(* the choice between a rebuilt client and a reset.                        *)
(***************************************************************************)
EXTENDS Naturals, SequencesExt

CONSTANTS
  DeviceTopics,  \* command topics of the device
  SwitchTopics,  \* command topics of its relay channels; {} when it has none
  ConfigTopic,   \* the device topic config and restart commands arrive on
  HasSensor,     \* a sensor is configured
  Discovery,     \* the homeassistant profile, which queues discovery messages
  AllocFaults,   \* MQTT CONNECT may fail for want of memory (errno 12)
  Unclassified,  \* a publish may fail in a way the ladder does not classify
  SensorLoss,    \* sensor-not-found may reach its reinitialisation threshold
  MaxFaults,     \* bound: failed operations and lost connections
  MaxWork        \* bound: commands, samples and availability refreshes

ASSUME SessionAssumption ==
  /\ ConfigTopic \in DeviceTopics
  /\ {HasSensor, Discovery, AllocFaults, Unclassified, SensorLoss}
       \subseteq BOOLEAN
  /\ MaxFaults \in Nat
  /\ MaxWork \in Nat

HasSwitch == SwitchTopics # {}
CommandTopics == DeviceTopics \cup SwitchTopics

(* _is_retained_startup_meta_publish: sent at QoS 1, awaiting the PUBACK.  *)
Verified == {"meta", "meta_switch", "meta_config"}
(* _is_startup_priority_publish: may overtake the subscriptions.           *)
Priority == Verified \cup {"online", "offline"}
Retained == Priority \cup {"discovery"}
Kinds == Retained \cup {"data", "hello", "ack", "result"}

Commands == {"config", "restart"}
(* The retained snapshots a saved edit makes dirty.                        *)
Snapshots == {"meta", "meta_config"}
               \cup (IF HasSwitch THEN {"meta_switch"} ELSE {})

VARIABLES
  \* core/mqtt.py MQTTTransport
  connected, generation, published, subscriptions, received,
  cleanPoll,      \* last_loop_at >= max(last_connected_at, last_publish_at)
  refreshPending, \* _metadata_refresh_pending
  \* features/steady_state.py SteadyState
  steady, availabilityDue,
  \* app.py loop variables
  pc, operational, recovering, deferred, rebootRequest,
  \* flash: how often the configuration has been saved
  saved,
  \* the broker: this client's session, its retained heartbeat, and the
  \* configuration its retained meta/config shows
  session, heartbeat, shownConfig,
  \* history: an accepted restart that has not happened; command results
  \* queued and heard by the broker; what is left of the bounds
  restartOwed, results, faults, work

transport == <<connected, generation, published, subscriptions, received,
               cleanPoll, refreshPending>>
loopState == <<steady, availabilityDue, operational, recovering, deferred,
               rebootRequest>>
broker == <<session, heartbeat, shownConfig>>
history == <<restartOwed, results, faults, work>>
vars == <<transport, loopState, pc, saved, broker, history>>

Message(kind, config) ==
  [kind |-> kind, config |-> IF kind = "meta_config" THEN config ELSE 0]
(* Bug: the snapshot is of the configuration of the boot. *)
MessagesOfBoot(kinds, config) ==
  [i \in DOMAIN kinds |-> Message(kinds[i], 0)]
Messages(kinds, config) ==
  [i \in DOMAIN kinds |-> Message(kinds[i], config)]
When(condition, kind) == IF condition THEN <<kind>> ELSE <<>>
Pending(kind) == \E i \in DOMAIN published : published[i].kind = kind

Fault == faults > 0 /\ faults' = faults - 1
Work == work > 0 /\ work' = work - 1

OperationalNow == connected /\ generation > 0 /\ operational = generation

FreshSteady == [generation |-> 0, switchMeta |-> 0]
NoResults == [queued |-> 0, heard |-> 0]

Init ==
  /\ connected = FALSE /\ generation = 0
  /\ published = <<>> /\ subscriptions = {} /\ received = {}
  /\ cleanPoll = FALSE /\ refreshPending = {}
  /\ steady = FreshSteady /\ availabilityDue = TRUE
  /\ pc = "connect" /\ operational = 0 /\ recovering = FALSE
  /\ deferred = 0 /\ rebootRequest = FALSE
  /\ saved = 0
  /\ session = [open |-> FALSE, topics |-> {}]
  /\ heartbeat = "offline" /\ shownConfig = 0
  /\ restartOwed = FALSE /\ results = NoResults
  /\ faults = MaxFaults /\ work = MaxWork
-----------------------------------------------------------------------------
(* The broker.                                                             *)

(* What the broker keeps of message m.                                     *)
Deliver(m) ==
  /\ heartbeat' = IF m.kind \in {"online", "offline"} THEN m.kind ELSE heartbeat
  /\ shownConfig' = IF m.kind = "meta_config" THEN m.config ELSE shownConfig
  /\ results' = IF m.kind = "result"
                THEN [results EXCEPT !.heard = @ + 1] ELSE results

Undelivered == UNCHANGED <<heartbeat, shownConfig, results>>

(* A session that ends without DISCONNECT publishes the Last Will, the     *)
(* retained offline heartbeat; DISCONNECT discards it.                     *)
EndSession(graceful) ==
  /\ session' = [session EXCEPT !.open = FALSE]
  /\ heartbeat' = IF session.open /\ ~graceful THEN "offline" ELSE heartbeat
  /\ UNCHANGED shownConfig

(* The device closes the client; DISCONNECT gets through or does not.      *)
CloseClient == session' \in {session, [session EXCEPT !.open = FALSE]}

(* Keep-alive timeout, broker restart or a dead TCP connection.            *)
BrokerDrops ==
  /\ session.open
  /\ IF connected THEN Fault ELSE UNCHANGED faults
  /\ EndSession(FALSE)
  /\ UNCHANGED <<transport, loopState, pc, saved, restartOwed, results, work>>

(* The device reads while the broker may hand it a command.                *)
ReceiveFrom(topics) ==
  \/ UNCHANGED <<received, work>>
  \/ /\ session.open /\ ConfigTopic \in topics
     /\ Work
     /\ \E c \in Commands \ received : received' = received \cup {c}
-----------------------------------------------------------------------------
(* Connecting, losing the connection, and resets.                          *)

(* _steady_state_for_mqtt_connect: a recovery connection reuses the        *)
(* publish queue, counts as having queued its startup cycle, and rebuilds  *)
(* the device subscriptions.                                               *)
KeepSubscriptions ==
  IF recovering
  THEN /\ steady' = [steady EXCEPT !.generation = generation + 1]
       /\ deferred' = IF HasSwitch THEN generation + 1 ELSE 0
       /\ UNCHANGED subscriptions
  ELSE UNCHANGED <<subscriptions, steady, deferred>>

KeepGeneration ==
  IF recovering
  THEN /\ subscriptions' = DeviceTopics
       /\ deferred' = IF HasSwitch THEN generation + 1 ELSE 0
       /\ UNCHANGED steady
  ELSE UNCHANGED <<subscriptions, steady, deferred>>

DeferToOldGeneration ==
  IF recovering
  THEN /\ subscriptions' = DeviceTopics
       /\ steady' = [steady EXCEPT !.generation = generation + 1]
       /\ deferred' = IF HasSwitch THEN generation ELSE 0
  ELSE UNCHANGED <<subscriptions, steady, deferred>>

SteadyStateForConnect ==
  IF recovering
  THEN /\ subscriptions' = DeviceTopics
       /\ steady' = [steady EXCEPT !.generation = generation + 1]
       /\ deferred' = IF HasSwitch THEN generation + 1 ELSE 0
  ELSE UNCHANGED <<subscriptions, steady, deferred>>

(* connect_mqtt_client succeeds; the broker ends the session this client   *)
(* id still had.                                                           *)
ConnectOk ==
  /\ pc = "connect" /\ ~connected
  /\ connected' = TRUE
  /\ generation' = generation + 1
  /\ cleanPoll' = FALSE
  /\ session' = [open |-> TRUE, topics |-> {}]
  /\ heartbeat' = IF session.open THEN "offline" ELSE heartbeat
  /\ SteadyStateForConnect
  /\ pc' = "post"
  /\ UNCHANGED <<published, received, refreshPending, availabilityDue,
                 operational, recovering, rebootRequest, saved, shownConfig,
                 history>>

(* A refused or unanswered CONNECT; the broker may have seen it before the *)
(* socket closed.  The loop goes on to its iteration.                      *)
ConnectFails ==
  /\ pc = "connect" /\ ~connected
  /\ Fault
  /\ EndSession(FALSE) \/ UNCHANGED broker
  /\ pc' = "iterate"
  /\ UNCHANGED <<transport, loopState, saved, restartOwed, results, work>>

(* Still connected, or the retry interval has not elapsed.                 *)
NoConnect ==
  /\ pc = "connect"
  /\ pc' = "iterate"
  /\ UNCHANGED <<transport, loopState, saved, broker, history>>

(* The recovery pass at the top of the loop: the station link is gone, or  *)
(* the client of a generation that is not operational is rebuilt.          *)
RecoveryCloses ==
  /\ pc = "connect" /\ connected
  /\ Fault
  /\ connected' = FALSE
  /\ UNCHANGED broker \/ (~OperationalNow /\ EndSession(TRUE))
  /\ UNCHANGED <<generation, published, subscriptions, received, cleanPoll,
                 refreshPending, loopState, pc, saved, restartOwed, results,
                 work>>

(* microcontroller.reset() or supervisor.reload(): everything but flash    *)
(* and the broker starts over.                                             *)
Reset ==
  /\ connected' = FALSE /\ generation' = 0
  /\ published' = <<>> /\ subscriptions' = {} /\ received' = {}
  /\ cleanPoll' = FALSE /\ refreshPending' = {}
  /\ steady' = FreshSteady /\ availabilityDue' = TRUE
  /\ pc' = "connect" /\ operational' = 0 /\ recovering' = FALSE
  /\ deferred' = 0 /\ rebootRequest' = FALSE
  /\ restartOwed' = FALSE
  /\ UNCHANGED saved

(* A classified failure enters or stays in subscription recovery, whose    *)
(* ladder rebuilds the client or resets the device.                        *)
Ladder(queue, subs) ==
  \/ /\ connected' = FALSE
     /\ published' = queue /\ subscriptions' = subs
     /\ recovering' = TRUE /\ deferred' = 0
     /\ pc' = "connect"
     /\ UNCHANGED <<generation, received, cleanPoll, refreshPending, steady,
                    availabilityDue, operational, rebootRequest, saved,
                    restartOwed>>
  \/ Reset

(* errno 12 from CONNECT or its preflight enters the ladder at once.       *)
ConnectFailsForMemory ==
  /\ AllocFaults
  /\ pc = "connect" /\ ~connected
  /\ Fault
  /\ Ladder(published, subscriptions)
  /\ UNCHANGED <<broker, results, work>>

(* Power loss, a watchdog or a recovery reboot outside this module.        *)
DeviceResets ==
  /\ Fault
  /\ Reset
  /\ UNCHANGED <<broker, results, work>>
-----------------------------------------------------------------------------
(* One iteration: queue what is due, process commands (steady_state.py).   *)

StartupCycle(sampled) ==
  <<"meta", "online">>
    \o When(HasSensor /\ sampled, "data")
    \o When(HasSwitch, "meta_switch")
    \o <<"hello">>
    \o When(Discovery, "discovery")
    \o <<"meta_config">>

StartupDue == connected /\ steady.generation # generation

(* A generation that never queued meta/switch gets it once it is drained.  *)
SwitchMetaDue ==
  /\ connected /\ ~StartupDue
  /\ HasSwitch /\ steady.switchMeta # generation
  /\ subscriptions = {} /\ published = <<>>

(* What the startup, switch and command stages queue, in order.            *)
StageOne(sampled) ==
  (IF StartupDue THEN StartupCycle(sampled) ELSE When(SwitchMetaDue, "meta_switch"))
    \o (IF "config" \in received THEN <<"ack", "result">> ELSE <<>>)
    \o (IF "restart" \in received THEN <<"ack", "result">> ELSE <<>>)

RefreshAvailability ==
  connected /\ (HasSensor \/ HasSwitch) /\ availabilityDue /\ ~StartupDue

NextRefresh(dirty) ==
  CASE "meta" \in dirty -> "meta"
    [] "meta" \notin dirty /\ "meta_config" \in dirty -> "meta_config"
    [] OTHER -> "meta_switch"

(* sampled: the sensor interval has elapsed and a snapshot was ready.      *)
(* lost: the sensor-not-found window reached its reinitialisation, whose   *)
(* `continue` skips the rest of the loop body.                             *)
Iterate(sampled, lost) ==
  LET saves == IF "config" \in received THEN saved + 1 ELSE saved
      dirty == IF "config" \in received THEN Snapshots ELSE refreshPending
      subs == IF StartupDue THEN subscriptions \cup DeviceTopics
              ELSE subscriptions
      queue == published \o Messages(StageOne(sampled)
                   \o When(sampled /\ connected /\ ~StartupDue, "data")
                   \o When(RefreshAvailability, "online"), saved)
      refresh == connected /\ queue = <<>> /\ subs = {} /\ dirty # {}
      next == NextRefresh(dirty)
  IN
  /\ pc = "iterate"
  /\ sampled => HasSensor
  /\ lost => SensorLoss /\ HasSensor /\ ~sampled
  /\ IF sampled THEN Work ELSE UNCHANGED work
  /\ saved' = saves
  /\ subscriptions' = subs
  /\ published' = IF refresh THEN <<Message(next, saves)>> ELSE queue
  /\ refreshPending' = IF refresh THEN dirty \ {next} ELSE dirty
  /\ received' = {}
  /\ steady' = [generation |-> IF connected THEN generation
                               ELSE steady.generation,
                switchMeta |-> IF HasSwitch /\ (StartupDue \/ SwitchMetaDue)
                               THEN generation ELSE steady.switchMeta]
  /\ availabilityDue' = (availabilityDue /\ ~(RefreshAvailability
                           \/ (StartupDue /\ (HasSensor \/ HasSwitch))))
  /\ rebootRequest' = ("restart" \in received)
  /\ restartOwed' = (restartOwed \/ "restart" \in received)
  /\ results' = [results EXCEPT !.queued = @ + Cardinality(received)]
  /\ deferred' = IF lost \/ ~StartupDue THEN deferred
                 ELSE IF HasSwitch THEN generation ELSE 0
  /\ pc' = IF lost \/ ~connected THEN "connect" ELSE "sync"
  /\ UNCHANGED <<connected, generation, cleanPoll, operational, recovering,
                 broker, faults>>

(* The availability interval elapses.                                      *)
AvailabilityInterval ==
  /\ ~availabilityDue
  /\ Work
  /\ availabilityDue' = TRUE
  /\ UNCHANGED <<transport, steady, operational, recovering, deferred,
                 rebootRequest, pc, saved, broker, restartOwed, results, faults>>
-----------------------------------------------------------------------------
(* sync_transport_to_client, called after a connect (post) and once per    *)
(* loop (sync): one publish, or all pending subscriptions.                 *)

Syncing == pc \in {"post", "sync"}
AfterSync == IF pc = "post" THEN "iterate" ELSE "settle"

NextPublish(queue) ==
  IF subscriptions = {} THEN 1
  ELSE LET first == {i \in DOMAIN queue : queue[i].kind \in Priority}
       IN IF first = {} THEN 0 ELSE CHOOSE i \in first : \A j \in first : i <= j

PublishIndex == NextPublish(published)
PublishReady == published # <<>> /\ PublishIndex # 0
Dropped(i) == RemoveAt(published, i)

(* The send and, for a verified message, its PUBACK succeed.  A QoS 0 send *)
(* also succeeds into a connection whose other end is gone.                *)
PublishOk ==
  LET m == published[PublishIndex] IN
  /\ Syncing /\ PublishReady
  /\ IF session.open THEN Deliver(m) ELSE m.kind \notin Verified /\ Undelivered
  /\ published' = Dropped(PublishIndex)
  /\ cleanPoll' = FALSE
  /\ IF m.kind \in Verified THEN ReceiveFrom(session.topics)
     ELSE UNCHANGED <<received, work>>
  /\ pc' = AfterSync
  /\ UNCHANGED <<connected, generation, subscriptions, refreshPending,
                 loopState, saved, session, restartOwed, faults>>

Spend == IF session.open THEN Fault ELSE UNCHANGED faults

(* It fails: a retained message stays queued, another is dropped, whether  *)
(* or not it reached the broker.                                           *)
KeepAlways == published
QueueAfterFailure ==
  IF published[PublishIndex].kind \in Retained THEN published
  ELSE Dropped(PublishIndex)

(* It succeeds but takes five seconds or more.                             *)
SlowPublish ==
  /\ Syncing /\ PublishReady /\ session.open
  /\ Fault
  /\ Deliver(published[PublishIndex])
  /\ Ladder(Dropped(PublishIndex), subscriptions)
  /\ CloseClient
  /\ UNCHANGED work

(* _is_mqtt_preoperational_sync_failure asks whether the generation is     *)
(* operational of a transport the failure has already marked disconnected, *)
(* so every classified failure enters the ladder.                          *)
PublishFails ==
  /\ Syncing /\ PublishReady
  /\ Spend
  /\ (session.open /\ Deliver(published[PublishIndex])) \/ Undelivered
  /\ Ladder(QueueAfterFailure, subscriptions)
  /\ CloseClient
  /\ UNCHANGED work

(* Any other error only ends the connection.                               *)
PublishFailsUnclassified ==
  /\ Unclassified
  /\ Syncing /\ PublishReady
  /\ published[PublishIndex].kind \notin Verified
  /\ Spend
  /\ (session.open /\ Deliver(published[PublishIndex])) \/ Undelivered
  /\ connected' = FALSE
  /\ published' = QueueAfterFailure
  /\ pc' = AfterSync
  /\ UNCHANGED <<generation, subscriptions, received, cleanPoll,
                 refreshPending, loopState, saved, session, restartOwed, work>>

(* Subscribing waits for a poll newer than the connection and the last     *)
(* publish; with nothing to send the call does nothing.                    *)
SyncDeferred ==
  /\ Syncing /\ ~PublishReady
  /\ subscriptions = {} \/ ~cleanPoll
  /\ pc' = AfterSync
  /\ UNCHANGED <<transport, loopState, saved, broker, history>>

CanSubscribe == Syncing /\ ~PublishReady /\ subscriptions # {} /\ cleanPoll

SubscribeOk ==
  /\ CanSubscribe /\ session.open
  /\ session' = [session EXCEPT !.topics = @ \cup subscriptions]
  /\ subscriptions' = {}
  /\ ReceiveFrom(session'.topics)
  /\ pc' = AfterSync
  /\ UNCHANGED <<connected, generation, published, cleanPoll, refreshPending,
                 loopState, saved, heartbeat, shownConfig, restartOwed,
                 results, faults>>

(* Some topics are acknowledged and compacted, then one SUBACK is missing  *)
(* or refused; the broker may have registered that topic too.              *)
SubscribeFails ==
  /\ CanSubscribe
  /\ Spend
  /\ \E done \in SUBSET subscriptions : \E topic \in subscriptions \ done :
       \E reached \in {done, done \cup {topic}} :
         /\ ~session.open => reached = {}
         /\ \E open \in {session.open, FALSE} :
              session' = [open |-> open, topics |-> session.topics \cup reached]
         /\ done \subseteq reached
         /\ Ladder(published, subscriptions \ done)
  /\ UNCHANGED <<heartbeat, shownConfig, results, work>>

(* A SUBACK that takes five seconds or more is not a classified failure.   *)
SlowSubscribe ==
  /\ CanSubscribe /\ session.open
  /\ Fault
  /\ \E done \in SUBSET subscriptions :
       /\ done # {}
       /\ session' = [session EXCEPT !.topics = @ \cup done]
       /\ subscriptions' = subscriptions \ done
  /\ connected' = FALSE
  /\ pc' = AfterSync
  /\ UNCHANGED <<generation, published, received, cleanPoll, refreshPending,
                 loopState, saved, heartbeat, shownConfig, restartOwed,
                 results, work>>
-----------------------------------------------------------------------------
(* The rest of the loop body.                                              *)

(* Deferred switch subscriptions, the operational checkpoint, and the      *)
(* restart a command asked for: a hard reset in every MQTT profile.        *)
DeferredDue ==
  deferred = generation /\ published = <<>> /\ subscriptions = {}

Checkpoint ==
  /\ connected /\ operational # generation
  /\ steady.generation = generation
  /\ deferred = 0
  /\ published = <<>> /\ subscriptions = {}

Settle ==
  /\ pc = "settle" /\ ~rebootRequest
  /\ subscriptions' = IF DeferredDue THEN SwitchTopics ELSE subscriptions
  /\ deferred' = IF DeferredDue THEN 0 ELSE deferred
  /\ operational' = IF Checkpoint THEN generation ELSE operational
  /\ recovering' = (recovering /\ ~Checkpoint)
  /\ pc' = "poll"
  /\ UNCHANGED <<connected, generation, published, received, cleanPoll,
                 refreshPending, steady, availabilityDue, rebootRequest, saved,
                 broker, history>>

Restart ==
  /\ pc = "settle" /\ rebootRequest
  /\ Reset
  /\ UNCHANGED <<broker, results, faults, work>>

PollOk ==
  /\ pc = "poll" /\ connected
  /\ cleanPoll' = TRUE
  /\ ReceiveFrom(session.topics)
  /\ pc' = "connect"
  /\ UNCHANGED <<connected, generation, published, subscriptions,
                 refreshPending, loopState, saved, broker, restartOwed,
                 results, faults>>

PollFails ==
  /\ pc = "poll" /\ connected
  /\ Spend
  /\ connected' = FALSE
  /\ ReceiveFrom(session.topics)
  /\ pc' = "connect"
  /\ UNCHANGED <<generation, published, subscriptions, cleanPoll,
                 refreshPending, loopState, saved, broker, restartOwed, results>>

PollSkipped ==
  /\ pc = "poll" /\ ~connected
  /\ pc' = "connect"
  /\ UNCHANGED <<transport, loopState, saved, broker, history>>

(* The loop ends in an exception: disconnect_mqtt_client queues the        *)
(* offline status, syncs once and disconnects, here without any failure.   *)
GracefulStop ==
  LET queue == Append(published, Message("offline", 0))
      sent == NextPublish(queue)
  IN
  /\ pc = "iterate" /\ connected /\ session.open
  /\ Fault
  /\ Deliver(queue[sent])
  /\ published' = RemoveAt(queue, sent)
  /\ session' = [session EXCEPT !.open = FALSE]
  /\ connected' = FALSE
  /\ pc' = "stopped"
  /\ UNCHANGED <<generation, subscriptions, received, cleanPoll,
                 refreshPending, loopState, saved, restartOwed, work>>

PowerCycle ==
  /\ pc = "stopped"
  /\ Reset
  /\ UNCHANGED <<broker, results, faults, work>>
-----------------------------------------------------------------------------
Sync ==
  \/ PublishOk \/ SlowPublish \/ PublishFails \/ PublishFailsUnclassified
  \/ SyncDeferred \/ SubscribeOk \/ SubscribeFails \/ SlowSubscribe

Loop ==
  \/ ConnectOk \/ ConnectFails \/ ConnectFailsForMemory \/ NoConnect
  \/ \E sampled, lost \in BOOLEAN : Iterate(sampled, lost)
  \/ Sync
  \/ Settle \/ Restart
  \/ PollOk \/ PollFails \/ PollSkipped

Next ==
  \/ Loop
  \/ BrokerDrops \/ RecoveryCloses \/ DeviceResets \/ AvailabilityInterval
  \/ GracefulStop \/ PowerCycle

Spec == Init /\ [][Next]_vars

(* The loop keeps running and, again and again, its retry interval elapses *)
(* and it is the connect attempt that is made; the operator restarts a     *)
(* stopped device.                                                         *)
FairSpec ==
  Spec /\ WF_vars(Loop) /\ SF_vars(ConnectOk) /\ WF_vars(PowerCycle)
-----------------------------------------------------------------------------
(* The values the variables take.                                          *)
TypeOK ==
  /\ connected \in BOOLEAN /\ generation \in Nat
  /\ published \in Seq([kind : Kinds, config : Nat])
  /\ subscriptions \subseteq CommandTopics /\ received \subseteq Commands
  /\ cleanPoll \in BOOLEAN /\ refreshPending \subseteq Snapshots
  /\ steady \in [generation : Nat, switchMeta : Nat]
  /\ availabilityDue \in BOOLEAN
  /\ pc \in {"connect", "post", "iterate", "sync", "settle", "poll", "stopped"}
  /\ operational \in Nat /\ recovering \in BOOLEAN
  /\ deferred \in Nat /\ rebootRequest \in BOOLEAN
  /\ saved \in Nat
  /\ session \in [open : BOOLEAN, topics : SUBSET CommandTopics]
  /\ heartbeat \in {"online", "offline"} /\ shownConfig \in Nat
  /\ restartOwed \in BOOLEAN
  /\ results \in [queued : Nat, heard : Nat]
  /\ faults \in 0..MaxFaults /\ work \in 0..MaxWork

(* A generation is operational only when the broker holds every command    *)
(* subscription in this very session, however the queue of subscriptions   *)
(* was drained, reused or rebuilt over earlier connections (the checkpoint *)
(* of app.py, _steady_state_for_mqtt_connect).                             *)
OperationalSubscribed == OperationalNow => CommandTopics \subseteq session.topics

(* Once an operational device has drained its queue and its refresh mask,  *)
(* the retained meta/config shows the configuration saved last             *)
(* (refresh_saved_metadata, publish_startup_cycle).                        *)
SnapshotCurrent ==
  OperationalNow /\ published = <<>> /\ refreshPending = {}
    => shownConfig = saved

(* The retained meta/config never goes back to an older configuration:     *)
(* retries, overtaking and queue reuse keep its snapshots in order.        *)
SnapshotNeverRegresses == [][shownConfig' >= shownConfig]_vars

(* Connections of one recovery episode reuse the publish queue: none of    *)
(* them queues the startup cycle again (app.py "reuse_startup_queues").    *)
RecoveryReusesQueue == recovering /\ connected => ~StartupDue

(* A command result is heard at most once: a failed non-retained publish   *)
(* is dropped, never sent again (sync_transport_to_client).                *)
ResultsAtMostOnce == results.heard <= results.queued

(* Every variable has its type - the broker is told of nothing but what    *)
(* was queued - and no result is heard twice.                              *)
ResultsSound == TypeOK /\ ResultsAtMostOnce

(* Once the faults are over the device reaches the operational checkpoint, *)
(* whatever queues the last connection left behind.                        *)
EventuallyOperational == []<>OperationalNow

(* An operational device whose queue is empty is shown online: its startup *)
(* cycle or a refresh replaced the offline heartbeat of an earlier Will.   *)
OperationalShownOnline ==
  OperationalNow /\ session.open /\ published = <<>> => heartbeat = "online"

(* The failure of an operational generation is not a startup failure: it   *)
(* does not start the pre-operational recovery ladder.                     *)
LadderOnlyPreoperational ==
  [][OperationalNow /\ ~recovering => ~recovering']_vars

(* When a requested restart happens its result has been published.         *)
RestartAnswered == pc = "settle" /\ rebootRequest => ~Pending("result")

(* An accepted restart is carried out by the loop pass that accepted it.   *)
RestartHonoured == pc = "connect" => ~restartOwed

(* After a graceful disconnect the broker's retained heartbeat says        *)
(* offline.                                                                *)
GracefulOffline == pc = "stopped" => heartbeat = "offline"
=============================================================================
