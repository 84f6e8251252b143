---------------------------- MODULE OfflineQueue ----------------------------
(***************************************************************************)
(* The offline queue of MqttService: a ring that the main loop (events of  *)
(* the capabilities), the MQTT library's task (the announcement, events    *)
(* caused by commands) and the transport task (the metrics) fill in        *)
(* publish(), and which the transport task also empties, all without a     *)
(* lock.                                                                   *)
(*                                                                         *)
(* The compiler makes of ++ and of an assignment from the same variable a  *)
(* load and a store, so each is two actions here and another task may run  *)
(* between; a message is its topic and its payload, written one after the  *)
(* other.  Arguments publish() refuses are left out.                       *)
(***************************************************************************)
EXTENDS Naturals

CONSTANTS
  Producers,  \* the tasks that publish
  Transport,  \* the one of them that empties the queue
  Msgs,       \* each is published once: the bound of the model
  NoMsg,      \* what a slot never written holds
  QueueLen    \* 16 in the code

ASSUME QueueAssumption ==
  /\ NoMsg \notin Msgs
  /\ QueueLen \in Nat \ {0}
  /\ Transport \in Producers

VARIABLES
  slots,        \* _queue
  head,         \* _qHead
  tail,         \* _qTail
  count,        \* _qCount
  connected,    \* isConnected() of the client
  initialized,  \* _clientInitialized
  pc,           \* each producer in publish()
  msg,          \* its message
  slot,         \* the slot it writes
  loaded,       \* the value it loaded
  tpc,          \* the transport task in begin() and drainQueue()
  tloaded,      \* the value it loaded
  fresh,        \* messages not yet published
  accepted,     \* queued: publish() said true
  sent          \* handed to the client: pairs of topic and payload

ring     == <<slots, head, tail, count>>
producer == <<pc, msg, slot, loaded>>
drainer  == <<tpc, tloaded>>
vars     == <<ring, producer, drainer, connected, initialized, fresh, accepted, sent>>

Indexes == 0..(QueueLen - 1)
Parts   == [topic : Msgs \cup {NoMsg}, payload : Msgs \cup {NoMsg}]
Blank   == [topic |-> NoMsg, payload |-> NoMsg]
Whole(m) == [topic |-> m, payload |-> m]
Succ(i) == (i + 1) % QueueLen

Init ==
  /\ slots = [i \in Indexes |-> Blank]
  /\ head = 0
  /\ tail = 0
  /\ count = 0
  /\ connected = FALSE
  /\ initialized = FALSE
  /\ pc = [p \in Producers |-> "idle"]
  /\ msg = [p \in Producers |-> NoMsg]
  /\ slot = [p \in Producers |-> 0]
  /\ loaded = [p \in Producers |-> 0]
  /\ tpc = "idle"
  /\ tloaded = 0
  /\ fresh = Msgs
  /\ accepted = {}
  /\ sent = {}

-----------------------------------------------------------------------------
Goes(p, from, to) == pc[p] = from /\ pc' = [pc EXCEPT ![p] = to]
ProducerKeeps     == UNCHANGED <<head, drainer, connected, initialized>>

(* publish: connected, or not.  Metrics are published only when connected, *)
(* by a task that is not in the queue then.                                *)
Publish(p, m) ==
  /\ Goes(p, "idle", IF connected THEN "send" ELSE "enqueue")
  /\ msg' = [msg EXCEPT ![p] = m]
  /\ p = Transport => connected /\ tpc = "idle"
  /\ m \in fresh
  /\ fresh' = fresh \ {m}
  /\ ProducerKeeps
  /\ UNCHANGED <<slots, tail, count, slot, loaded, accepted, sent>>

(* The client takes the message, or it goes to the queue after all. *)
Send(p, ok) ==
  /\ Goes(p, "send", IF ok THEN "idle" ELSE "enqueue")
  /\ sent' = IF ok THEN sent \cup {Whole(msg[p])} ELSE sent
  /\ ProducerKeeps
  /\ UNCHANGED <<slots, tail, count, msg, slot, loaded, fresh, accepted>>

(* enqueue: no room, and the message is dropped, ... *)
DropFull(p) ==
  /\ Goes(p, "enqueue", "idle")
  /\ count >= QueueLen
  /\ ProducerKeeps
  /\ UNCHANGED <<slots, tail, count, msg, slot, loaded, fresh, accepted, sent>>

HasRoom(p) ==
  /\ Goes(p, "enqueue", "topic")
  /\ count < QueueLen
  /\ ProducerKeeps
  /\ UNCHANGED <<slots, tail, count, msg, slot, loaded, fresh, accepted, sent>>

(* ... or it is copied into the slot at the tail, ... *)
CopyTopic(p) ==
  /\ Goes(p, "topic", "payload")
  /\ slot' = [slot EXCEPT ![p] = tail]
  /\ slots' = [slots EXCEPT ![tail].topic = msg[p]]
  /\ ProducerKeeps
  /\ UNCHANGED <<tail, count, msg, loaded, fresh, accepted, sent>>

CopyPayload(p) ==
  /\ Goes(p, "payload", "loadTail")
  /\ slots' = [slots EXCEPT ![slot[p]].payload = msg[p]]
  /\ ProducerKeeps
  /\ UNCHANGED <<tail, count, msg, slot, loaded, fresh, accepted, sent>>

(* ... the tail moves, ... *)
LoadTail(p) ==
  /\ Goes(p, "loadTail", "storeTail")
  /\ loaded' = [loaded EXCEPT ![p] = tail]
  /\ ProducerKeeps
  /\ UNCHANGED <<slots, tail, count, msg, slot, fresh, accepted, sent>>

(* A slip in enqueue: the index does not wrap. *)
StoreTailUnwrapped(p) ==
  /\ Goes(p, "storeTail", "loadCount")
  /\ tail' = loaded[p] + 1
  /\ ProducerKeeps
  /\ UNCHANGED <<slots, count, msg, slot, loaded, fresh, accepted, sent>>

StoreTail(p) ==
  /\ Goes(p, "storeTail", "loadCount")
  /\ tail' = Succ(loaded[p])
  /\ ProducerKeeps
  /\ UNCHANGED <<slots, count, msg, slot, loaded, fresh, accepted, sent>>

(* ... and the count grows. *)
LoadCount(p) ==
  /\ Goes(p, "loadCount", "storeCount")
  /\ loaded' = [loaded EXCEPT ![p] = count]
  /\ ProducerKeeps
  /\ UNCHANGED <<slots, tail, count, msg, slot, fresh, accepted, sent>>

StoreCount(p) ==
  /\ Goes(p, "storeCount", "idle")
  /\ count' = loaded[p] + 1
  /\ accepted' = accepted \cup {msg[p]}
  /\ ProducerKeeps
  /\ UNCHANGED <<slots, tail, msg, slot, loaded, fresh, sent>>

-----------------------------------------------------------------------------
TransportKeeps == UNCHANGED <<slots, producer, connected, fresh, accepted>>

(* The first connection begins the service, which resets the ring in three *)
(* stores, and does so again until the client could be created.            *)
BeginCount ==
  /\ tpc = "idle"
  /\ pc[Transport] = "idle"
  /\ ~ initialized
  /\ count' = 0
  /\ tpc' = "beginTail"
  /\ TransportKeeps
  /\ UNCHANGED <<head, tail, initialized, tloaded, sent>>

BeginTail ==
  /\ tpc = "beginTail"
  /\ tail' = 0
  /\ tpc' = "beginHead"
  /\ TransportKeeps
  /\ UNCHANGED <<head, count, initialized, tloaded, sent>>

BeginHead(created) ==
  /\ tpc = "beginHead"
  /\ head' = 0
  /\ initialized' = created
  /\ tpc' = "idle"
  /\ TransportKeeps
  /\ UNCHANGED <<tail, count, tloaded, sent>>

(* A slip in drainQueue: the count is not looked at. *)
DrainStartsBlindly ==
  /\ tpc = "idle"
  /\ pc[Transport] = "idle"
  /\ initialized
  /\ connected
  /\ tpc' = "drain"
  /\ TransportKeeps
  /\ UNCHANGED <<head, tail, count, initialized, tloaded, sent>>

(* drainQueue, one message per call: nothing to do is no step here. *)
DrainStarts ==
  /\ tpc = "idle"
  /\ pc[Transport] = "idle"
  /\ initialized
  /\ count # 0
  /\ connected
  /\ tpc' = "drain"
  /\ TransportKeeps
  /\ UNCHANGED <<head, tail, count, initialized, tloaded, sent>>

DrainSends(ok) ==
  /\ tpc = "drain"
  /\ sent' = IF ok THEN sent \cup {slots[head]} ELSE sent
  /\ head' = IF ok THEN Succ(head) ELSE head
  /\ tpc' = IF ok THEN "loadCount" ELSE "idle"
  /\ TransportKeeps
  /\ UNCHANGED <<tail, count, initialized, tloaded>>

DrainLoads ==
  /\ tpc = "loadCount"
  /\ tloaded' = count
  /\ tpc' = "storeCount"
  /\ TransportKeeps
  /\ UNCHANGED <<head, tail, count, initialized, sent>>

(* A slip in drainQueue: the count is forgotten. *)
DrainForgetsCount ==
  /\ tpc = "storeCount"
  /\ tpc' = "idle"
  /\ TransportKeeps
  /\ UNCHANGED <<head, tail, count, initialized, tloaded, sent>>

DrainStores ==
  /\ tpc = "storeCount"
  /\ count' = tloaded - 1
  /\ tpc' = "idle"
  /\ TransportKeeps
  /\ UNCHANGED <<head, tail, initialized, tloaded, sent>>

(* The client's connection comes and goes once it exists. *)
ConnectionChanges ==
  /\ initialized
  /\ connected' = ~ connected
  /\ UNCHANGED <<ring, producer, drainer, initialized, fresh, accepted, sent>>

-----------------------------------------------------------------------------
Enqueue(p) ==
  \/ DropFull(p) \/ HasRoom(p) \/ CopyTopic(p) \/ CopyPayload(p)
  \/ LoadTail(p) \/ StoreTail(p) \/ LoadCount(p) \/ StoreCount(p)

Begin == BeginCount \/ BeginTail \/ \E created \in BOOLEAN : BeginHead(created)
Drain == DrainStarts \/ (\E ok \in BOOLEAN : DrainSends(ok)) \/ DrainLoads \/ DrainStores

Next ==
  \/ \E p \in Producers, m \in Msgs : Publish(p, m)
  \/ \E p \in Producers, ok \in BOOLEAN : Send(p, ok)
  \/ \E p \in Producers : Enqueue(p)
  \/ Begin
  \/ Drain
  \/ ConnectionChanges

(* Tasks run; a client that stays connected does not refuse for ever. *)
Fairness ==
  /\ WF_vars(Drain)
  /\ SF_vars(DrainSends(TRUE))
  /\ \A p \in Producers : WF_vars(Enqueue(p))

Spec == Init /\ [][Next]_vars /\ Fairness

-----------------------------------------------------------------------------
(* Type invariant of the ring and of the tasks that use it. *)
TypeOK ==
  /\ slots \in [Indexes -> Parts]
  /\ head \in Indexes
  /\ tail \in Indexes
  /\ count \in Nat
  /\ connected \in BOOLEAN
  /\ initialized \in BOOLEAN
  /\ pc \in [Producers -> {"idle", "send", "enqueue", "topic", "payload", "loadTail",
                           "storeTail", "loadCount", "storeCount"}]
  /\ msg \in [Producers -> Msgs \cup {NoMsg}]
  /\ slot \in [Producers -> Indexes]
  /\ loaded \in [Producers -> Nat]
  /\ tpc \in {"idle", "beginTail", "beginHead", "drain", "loadCount", "storeCount"}
  /\ tloaded \in Nat
  /\ fresh \in SUBSET Msgs
  /\ accepted \in SUBSET Msgs
  /\ sent \in SUBSET Parts

(* The unsigned count never goes below zero, however the loads and stores  *)
(* of the tasks mix: below zero the ring would be full and drained for     *)
(* ever.                                                                   *)
NoUnderflow == tpc \in {"drain", "loadCount"} => count >= 1

(* A queue is emptied while the connection lasts and nobody publishes.     *)
DrainsOut ==
  <>[](connected /\ \A p \in Producers : pc[p] = "idle") => <>[](count = 0)

(* What the header says of publish(): "se offline -> enfileira (se tiver   *)
(* espaço)": a message it accepts stays in the queue until it is sent.     *)
Queued == {slots[(head + i) % QueueLen] : i \in 0..(count - 1)}
AcceptedIsKept == \A m \in accepted : Whole(m) \in Queued \cup sent
=============================================================================
