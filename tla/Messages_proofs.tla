---------------------------- MODULE Messages_proofs ----------------------------
(* Proofs about how messages pass through the device, for every length of the *)
(* ring, of a line and of a frame: the queue of messages to publish           *)
(* (OfflineQueue), the frames written to the serial port (SerialFrame) and    *)
(* the lines read from it (Routing).                                          *)
EXTENDS OfflineQueue, Routing, SerialFrame, SequenceTheorems, WellFoundedInduction, TLAPS

-----------------------------------------------------------------------------
(* The ring of messages that wait for a connection: the indexes stay inside   *)
(* it and the unsigned count never underflows.                                *)

(* The drain has loaded a count it may decrement. *)
LoadedIsPositive == tpc = "storeCount" => tloaded >= 1

(* A producer at work has a message. *)
AtWorkWithMessage == \A p \in Producers : pc[p] # "idle" => msg[p] \in Msgs

(* The count is not reset under the drain, which runs in the same task, and *)
(* a producer only stores a count that grew.                                *)
IInv == TypeOK /\ NoUnderflow /\ LoadedIsPositive /\ AtWorkWithMessage

(* The next index is one of the ring.                                        *)
LEMMA IndexesWrap ==
  ASSUME NEW i \in Indexes
  PROVE  Succ(i) \in Indexes
  BY QueueAssumption DEF Indexes, Succ

(* The ring starts empty.                                                    *)
LEMMA Initially == Init => IInv
<1> SUFFICES ASSUME Init PROVE IInv
  OBVIOUS
<1>1. 0 \in Indexes /\ Blank \in Parts
  BY QueueAssumption DEF Indexes, Blank, Parts
<1> QED
  BY <1>1 DEF Init, IInv, TypeOK, NoUnderflow, LoadedIsPositive, AtWorkWithMessage

(* A step of a producer: the ring's indexes stay inside, a count that is    *)
(* stored was loaded and has grown.                                         *)
LEMMA ProducerStep ==
  ASSUME IInv, NEW p \in Producers,
         (\E m \in Msgs : Publish(p, m)) \/ (\E ok \in BOOLEAN : Send(p, ok)) \/ Enqueue(p)
  PROVE  IInv'
<1> USE DEF IInv, TypeOK
<1>1. ASSUME NEW m \in Msgs, Publish(p, m) PROVE IInv'
  BY <1>1 DEF Publish, Goes, ProducerKeeps, drainer, NoUnderflow, LoadedIsPositive, AtWorkWithMessage
<1>2. ASSUME NEW ok \in BOOLEAN, Send(p, ok) PROVE IInv'
  <2>1. pc' \in [Producers -> {"idle", "send", "enqueue", "topic", "payload", "loadTail",
                               "storeTail", "loadCount", "storeCount"}]
    BY <1>2 DEF Send, Goes
  <2>2. sent' \in SUBSET Parts
    <3>1. CASE ok
      <4>1. msg[p] \in Msgs \cup {NoMsg}
        OBVIOUS
      <4>2. Whole(msg[p]) \in Parts
        BY <4>1 DEF Whole, Parts
      <4> QED  BY <1>2, <3>1, <4>2 DEF Send
    <3>2. CASE ~ ok
      BY <1>2, <3>2 DEF Send
    <3> QED  BY <3>1, <3>2
  <2> QED
    BY <1>2, <2>1, <2>2
    DEF Send, Goes, ProducerKeeps, drainer, NoUnderflow, LoadedIsPositive, AtWorkWithMessage
<1>3. CASE DropFull(p)
  BY <1>3 DEF DropFull, Goes, ProducerKeeps, drainer, NoUnderflow, LoadedIsPositive, AtWorkWithMessage
<1>4. CASE HasRoom(p)
  BY <1>4 DEF HasRoom, Goes, ProducerKeeps, drainer, NoUnderflow, LoadedIsPositive, AtWorkWithMessage
<1>5. CASE CopyTopic(p)
  BY <1>5 DEF CopyTopic, Goes, ProducerKeeps, drainer, Parts, NoUnderflow, LoadedIsPositive, AtWorkWithMessage
<1>6. CASE CopyPayload(p)
  BY <1>6 DEF CopyPayload, Goes, ProducerKeeps, drainer, Parts, NoUnderflow, LoadedIsPositive, AtWorkWithMessage
<1>7. CASE LoadTail(p)
  <2>1. tail \in Nat
    BY QueueAssumption DEF Indexes
  <2> QED
    BY <1>7, <2>1 DEF LoadTail, Goes, ProducerKeeps, drainer, NoUnderflow, LoadedIsPositive, AtWorkWithMessage
<1>8. CASE StoreTail(p)
  <2>1. Succ(loaded[p]) \in Indexes
    BY QueueAssumption DEF Succ, Indexes
  <2> QED
    BY <1>8, <2>1 DEF StoreTail, Goes, ProducerKeeps, drainer, NoUnderflow, LoadedIsPositive, AtWorkWithMessage
<1>9. CASE LoadCount(p)
  BY <1>9 DEF LoadCount, Goes, ProducerKeeps, drainer, NoUnderflow, LoadedIsPositive, AtWorkWithMessage
<1>10. CASE StoreCount(p)
  <2>1. count' \in Nat /\ count' >= 1
    BY <1>10 DEF StoreCount
  <2>2. msg[p] \in Msgs
    BY <1>10 DEF StoreCount, Goes, AtWorkWithMessage
  <2>3. accepted' \in SUBSET Msgs
    BY <1>10, <2>2 DEF StoreCount
  <2> QED
    BY <1>10, <2>1, <2>3 DEF StoreCount, Goes, ProducerKeeps, drainer, NoUnderflow, LoadedIsPositive, AtWorkWithMessage
<1> QED
  BY <1>1, <1>2, <1>3, <1>4, <1>5, <1>6, <1>7, <1>8, <1>9, <1>10 DEF Enqueue

(* A step of the transport task. *)
LEMMA TransportStep ==
  ASSUME IInv, Begin \/ Drain
  PROVE  IInv'
<1> USE DEF IInv, TypeOK, NoUnderflow, LoadedIsPositive, AtWorkWithMessage, TransportKeeps, producer
<1>1. CASE BeginCount
  BY <1>1 DEF BeginCount
<1>2. CASE BeginTail
  BY <1>2, QueueAssumption DEF BeginTail, Indexes
<1>3. ASSUME NEW created \in BOOLEAN, BeginHead(created) PROVE IInv'
  BY <1>3, QueueAssumption DEF BeginHead, Indexes
<1>4. CASE DrainStarts
  BY <1>4 DEF DrainStarts
<1>5. ASSUME NEW ok \in BOOLEAN, DrainSends(ok) PROVE IInv'
  <2>1. Succ(head) \in Indexes /\ slots[head] \in Parts
    BY IndexesWrap
  <2>2. head' \in Indexes /\ sent' \in SUBSET Parts
    BY <1>5, <2>1 DEF DrainSends
  <2> QED  BY <1>5, <2>2 DEF DrainSends
<1>6. CASE DrainLoads
  BY <1>6 DEF DrainLoads
<1>7. CASE DrainStores
  <2>1. tloaded - 1 \in Nat
    BY <1>7 DEF DrainStores
  <2> QED  BY <1>7, <2>1 DEF DrainStores
<1> QED
  BY <1>1, <1>2, <1>3, <1>4, <1>5, <1>6, <1>7 DEF Begin, Drain

(* Every step keeps the invariant.                                           *)
LEMMA NextStep == IInv /\ [Next]_vars => IInv'
<1> SUFFICES ASSUME IInv, [Next]_vars PROVE IInv'
  OBVIOUS
<1>1. ASSUME NEW p \in Producers, NEW m \in Msgs, Publish(p, m) PROVE IInv'
  BY <1>1, ProducerStep
<1>2. ASSUME NEW p \in Producers, NEW ok \in BOOLEAN, Send(p, ok) PROVE IInv'
  BY <1>2, ProducerStep
<1>3. ASSUME NEW p \in Producers, Enqueue(p) PROVE IInv'
  BY <1>3, ProducerStep
<1>4. CASE Begin \/ Drain
  BY <1>4, TransportStep
<1>5. CASE ConnectionChanges
  BY <1>5
  DEF ConnectionChanges, ring, producer, drainer, IInv, TypeOK, NoUnderflow, LoadedIsPositive,
      AtWorkWithMessage
<1>6. CASE UNCHANGED vars
  BY <1>6
  DEF vars, ring, producer, drainer, IInv, TypeOK, NoUnderflow, LoadedIsPositive,
      AtWorkWithMessage
<1> QED
  BY <1>1, <1>2, <1>3, <1>4, <1>5, <1>6 DEF Next

(* The inductive invariant holds in every state the queue can reach, *)
(* however the tasks of publish() and drainQueue interleave.         *)
THEOREM Invariance == Spec => []IInv
  BY Initially, NextStep, PTL DEF Spec

(* The indexes stay in the ring and every message sent or stored is one    *)
(* that was published, for any number of tasks and any length.             *)
THEOREM TypeCorrect == Spec => []TypeOK
BY Invariance, PTL DEF IInv

(* The drain never decrements a count of zero, whatever the unlocked loads *)
(* and stores of drainQueue and enqueue see of each other.                 *)
THEOREM CountNeverUnderflows == Spec => []NoUnderflow
BY Invariance, PTL DEF IInv

-----------------------------------------------------------------------------
(* The ring in turns. The run offline_queue_loss shows that a message which   *)
(* publish() accepted can be lost; here is what it takes: either two tasks    *)
(* are in the ring at once, or one publishes before begin() has reset it.     *)
(* Without those two the indexes and the count do what they are there for.    *)

(* A task is between the check of the count and the last of its stores.       *)
InRing(p) == pc[p] \notin {"idle", "send"} \/ (p = Transport /\ tpc # "idle")

OneAtATime  == \A p, q \in Producers : InRing(p) /\ InRing(q) => p = q
BeginsFirst == ~ initialized => \A p \in Producers : pc[p] = "idle"
TakesTurns  == OneAtATime /\ BeginsFirst

(* The slot k places behind h, and how many messages wait. *)
Place(h, k) == (h + k) % QueueLen
Waiting == IF tpc \in {"loadCount", "storeCount"} THEN count - 1 ELSE count

Working    == {"topic", "payload", "loadTail", "storeTail", "loadCount", "storeCount"}
TailStored == {"loadCount", "storeCount"}

(* Where the transport task is, and that nothing is in the ring before begin. *)
RingPhases ==
  /\ tpc \in IF initialized THEN {"idle", "drain", "loadCount", "storeCount"}
             ELSE {"idle", "beginTail", "beginHead"}
  /\ connected => initialized
  /\ pc[Transport] = "idle" \/ tpc = "idle"
  /\ ~ initialized => count = 0 /\ head = 0 /\ tail = 0 /\ accepted = {}

(* The tail is behind the messages that wait. *)
RingOrder ==
  /\ count <= QueueLen
  /\ (\A p \in Producers : pc[p] \notin TailStored) => tail = Place(head, Waiting)
  /\ tpc = "storeCount" => tloaded = count

(* What a producer has written is in the slot behind them. *)
WriterInStep(p) ==
  /\ pc[p] \in Working => count < QueueLen
  /\ pc[p] = "payload" => slot[p] = tail /\ slots[tail].topic = msg[p]
  /\ pc[p] \in {"loadTail", "storeTail"} => slots[tail] = Whole(msg[p])
  /\ pc[p] = "storeTail" => loaded[p] = tail
  /\ pc[p] \in TailStored => /\ tail = Place(head, count + 1)
                             /\ slots[Place(head, count)] = Whole(msg[p])
  /\ pc[p] = "storeCount" => loaded[p] = count

(* Each message accepted was sent or waits. *)
AcceptedWaits ==
  \A m \in accepted :
    Whole(m) \in sent \/ \E i \in 0..(Waiting - 1) : slots[Place(head, i)] = Whole(m)

RingInv == RingPhases /\ RingOrder /\ (\A p \in Producers : WriterInStep(p)) /\ AcceptedWaits

(* Places wrap once at most. *)
LEMMA Places ==
  ASSUME NEW h \in Indexes, NEW k \in 0..QueueLen
  PROVE  /\ Place(h, k) \in Indexes
         /\ Place(h, k) = IF h + k < QueueLen THEN h + k ELSE h + k - QueueLen
         /\ Succ(h) = IF h + 1 < QueueLen THEN h + 1 ELSE 0
<1>1. QueueLen \in Nat \ {0} /\ h \in Nat /\ k \in Nat /\ h < QueueLen /\ k <= QueueLen
  BY QueueAssumption DEF Indexes
<1>2. PICK x : x = h + k
  OBVIOUS
<1>3. Place(h, k) = IF h + k < QueueLen THEN h + k ELSE h + k - QueueLen
  <2>1. QueueLen \in Nat \ {0} /\ x \in Nat /\ x < QueueLen + QueueLen
    BY <1>1, <1>2
  <2>2. Place(h, k) = x % QueueLen
    BY <1>2 DEF Place
  <2>3. CASE x < QueueLen
    <3>1. x % QueueLen = x
      BY ONLY <2>1, <2>3
    <3> QED  BY <1>2, <2>2, <2>3, <3>1
  <2>4. CASE QueueLen <= x
    <3>1. x % QueueLen = x - QueueLen
      BY ONLY <2>1, <2>4
    <3>2. ~(x < QueueLen)
      BY <2>1, <2>4
    <3> QED  BY <1>1, <1>2, <2>1, <2>2, <3>1, <3>2
  <2> QED  BY <2>1, <2>3, <2>4
<1>4. Succ(h) = IF h + 1 < QueueLen THEN h + 1 ELSE 0
  <2>1. CASE h + 1 < QueueLen
    <3>1. (h + 1) % QueueLen = h + 1
      BY <1>1, <2>1
    <3> QED  BY <2>1, <3>1 DEF Succ
  <2>2. CASE h + 1 = QueueLen
    <3>1. (h + 1) % QueueLen = 0
      BY <1>1, <2>2
    <3> QED  BY <1>1, <2>2, <3>1 DEF Succ
  <2> QED  BY <1>1, <2>1, <2>2
<1>5. Place(h, k) \in Indexes
  BY <1>1, <1>3 DEF Indexes
<1> QED  BY <1>3, <1>4, <1>5

(* One place further, from either end, is another place. *)
LEMMA PlacesFollow ==
  ASSUME NEW h \in Indexes, NEW k \in Nat, k < QueueLen
  PROVE  /\ Place(h, 0) = h
         /\ Succ(Place(h, k)) = Place(h, k + 1)
         /\ Place(Succ(h), k) = Place(h, k + 1)
         /\ \A i \in 0..(k - 1) : Place(h, i) # Place(h, k)
<1>1. QueueLen \in Nat \ {0} /\ h \in Nat /\ h < QueueLen
  BY QueueAssumption DEF Indexes
<1>2. 0 \in 0..QueueLen /\ k \in 0..QueueLen /\ k + 1 \in 0..QueueLen
  BY <1>1
<1>3. Place(h, 0) = h
  BY <1>1, <1>2, Places
<1>4. PICK here, next, behind :
        here = Place(h, k) /\ next = Place(h, k + 1) /\ behind = Succ(h)
  OBVIOUS
<1>5. /\ here \in Indexes /\ here = IF h + k < QueueLen THEN h + k ELSE h + k - QueueLen
      /\ next = IF h + (k + 1) < QueueLen THEN h + (k + 1) ELSE h + (k + 1) - QueueLen
      /\ behind = IF h + 1 < QueueLen THEN h + 1 ELSE 0
  BY <1>2, <1>4, Places
<1>6. Succ(here) = next
  <2>1. Succ(here) = IF here + 1 < QueueLen THEN here + 1 ELSE 0
    BY <1>2, <1>5, Places
  <2> QED  BY <1>1, <1>5, <2>1
<1>7. Place(behind, k) = next
  <2>1. behind \in Indexes
    BY <1>4, IndexesWrap
  <2>2. Place(behind, k) = IF behind + k < QueueLen THEN behind + k ELSE behind + k - QueueLen
    BY <1>2, <2>1, Places
  <2> QED  BY <1>1, <1>5, <2>2
<1>8. ASSUME NEW i \in 0..(k - 1) PROVE Place(h, i) # here
  <2>1. i \in 0..QueueLen
    BY <1>1
  <2>2. Place(h, i) = IF h + i < QueueLen THEN h + i ELSE h + i - QueueLen
    BY <2>1, Places
  <2> QED  BY <1>1, <1>5, <2>2
<1> QED  BY <1>3, <1>4, <1>6, <1>7, <1>8

(* A producer in the ring has it to itself. *)
LEMMA Alone ==
  ASSUME IInv, RingInv, TakesTurns, NEW p \in Producers, pc[p] \notin {"idle", "send"}
  PROVE  /\ initialized /\ tpc = "idle" /\ Waiting = count
         /\ \A q \in Producers \ {p} : pc[q] \in {"idle", "send"}
<1>1. InRing(p)
  BY DEF InRing
<1>2. initialized
  BY DEF TakesTurns, BeginsFirst
<1>3. \A q \in Producers \ {p} : ~ InRing(q)
  BY <1>1 DEF TakesTurns, OneAtATime
<1>4. tpc = "idle"
  <2>1. CASE p = Transport
    BY <2>1 DEF RingInv, RingPhases
  <2>2. CASE p # Transport
    BY <1>3, <2>2, QueueAssumption DEF InRing
  <2> QED  BY <2>1, <2>2
<1> QED  BY <1>2, <1>3, <1>4 DEF InRing, Waiting

(* While the transport task is in the ring no producer is. *)
LEMMA TransportAlone ==
  ASSUME IInv, RingInv, TakesTurns, tpc # "idle"
  PROVE  \A q \in Producers : pc[q] \in {"idle", "send"}
<1>1. InRing(Transport)
  BY DEF InRing
<1>2. \A q \in Producers : InRing(q) => q = Transport
  BY <1>1, QueueAssumption DEF TakesTurns, OneAtATime
<1> QED  BY <1>2 DEF InRing, RingInv, RingPhases

(* What was accepted stays so while the slots that wait are left alone. *)
LEMMA AcceptedKept ==
  ASSUME AcceptedWaits, accepted' = accepted, sent \subseteq sent',
         head' = head, Waiting' = Waiting,
         \A i \in 0..(Waiting - 1) : slots'[Place(head, i)] = slots[Place(head, i)]
  PROVE  AcceptedWaits'
<1>1. ASSUME NEW m \in accepted'
      PROVE  \/ Whole(m) \in sent'
             \/ \E i \in 0..(Waiting' - 1) : slots'[Place(head', i)] = Whole(m)
  <2>1. Whole(m) \in sent \/ \E i \in 0..(Waiting - 1) : slots[Place(head, i)] = Whole(m)
    BY <1>1 DEF AcceptedWaits
  <2> QED  BY <2>1
<1> QED  BY <1>1 DEF AcceptedWaits, Whole, Place

(* A producer that is not at work has no say in the ring. *)
LEMMA OutOfTheRing ==
  ASSUME IInv, RingInv, TakesTurns, TakesTurns', NEW p \in Producers,
         \/ \E m \in Msgs : Publish(p, m)
         \/ \E ok \in BOOLEAN : Send(p, ok)
         \/ DropFull(p)
  PROVE  RingInv'
<1>1. /\ pc[p] \notin Working /\ pc'[p] \notin Working
      /\ \A q \in Producers \ {p} : pc'[q] = pc[q] /\ msg'[q] = msg[q]
      /\ UNCHANGED <<slots, head, tail, count, connected, initialized, slot, loaded, tpc, tloaded,
                     accepted>>
      /\ sent \subseteq sent'
  BY DEF Publish, Send, DropFull, Goes, ProducerKeeps, drainer, IInv, TypeOK, Working
<1>2. RingPhases'
  <2>1. pc'[Transport] = "idle" \/ tpc = "idle"
    <3>1. CASE p = Transport
      BY <3>1 DEF Publish, Send, DropFull, Goes, RingInv, RingPhases
    <3>2. CASE p # Transport
      BY <1>1, <3>2, QueueAssumption DEF RingInv, RingPhases
    <3> QED  BY <3>1, <3>2
  <2> QED  BY <1>1, <2>1 DEF RingInv, RingPhases
<1>3. RingOrder'
  BY <1>1 DEF RingInv, RingOrder, TailStored, Working, Waiting, Place
<1>4. ASSUME NEW q \in Producers PROVE WriterInStep(q)'
  <2>1. CASE q = p
    BY <1>1, <2>1 DEF WriterInStep, Working, TailStored
  <2>2. CASE q # p
    BY <1>1, <2>2 DEF RingInv, WriterInStep, Whole, Place
  <2> QED  BY <2>1, <2>2
<1>5. AcceptedWaits'
  BY <1>1, AcceptedKept DEF RingInv, Waiting
<1> QED  BY <1>2, <1>3, <1>4, <1>5 DEF RingInv

(* What every step of a producer in the ring leaves as it is. *)
LeavesOthers(p) ==
  /\ \A q \in Producers \ {p} : pc'[q] \in {"idle", "send"}
  /\ tpc = "idle" /\ UNCHANGED <<head, tpc, tloaded, connected, initialized, sent>>

(* They are out of the ring, and the transport task too. *)
LEMMA LeftOthers ==
  ASSUME IInv, RingInv, TakesTurns, NEW p \in Producers, Enqueue(p)
  PROVE  LeavesOthers(p) /\ Waiting = count /\ RingPhases' /\ Waiting' = count'
<1>1. pc[p] \notin {"idle", "send"}
  BY DEF Enqueue, DropFull, HasRoom, CopyTopic, CopyPayload, LoadTail, StoreTail, LoadCount,
         StoreCount, Goes
<1>2. /\ initialized /\ tpc = "idle" /\ Waiting = count
      /\ \A q \in Producers \ {p} : pc[q] \in {"idle", "send"}
  BY <1>1, Alone
<1>3. UNCHANGED <<head, tpc, tloaded, connected, initialized, sent>>
  BY DEF Enqueue, DropFull, HasRoom, CopyTopic, CopyPayload, LoadTail, StoreTail, LoadCount,
         StoreCount, ProducerKeeps, drainer
<1>4. \A q \in Producers \ {p} : pc'[q] = pc[q]
  BY DEF Enqueue, DropFull, HasRoom, CopyTopic, CopyPayload, LoadTail, StoreTail, LoadCount,
         StoreCount, Goes, IInv, TypeOK
<1>5. LeavesOthers(p)
  BY <1>2, <1>3, <1>4 DEF LeavesOthers
<1>6. RingPhases'
  BY <1>2, <1>3 DEF RingInv, RingPhases
<1>7. Waiting' = count'
  BY <1>2, <1>3 DEF Waiting
<1> QED  BY <1>2, <1>5, <1>6, <1>7

(* The ring is in order again if the producer at work is in step. *)
LEMMA InOrder ==
  ASSUME NEW p \in Producers, LeavesOthers(p), WriterInStep(p)', AcceptedWaits', RingPhases',
         count' <= QueueLen,
         pc'[p] \notin TailStored => tail' = Place(head, count')
  PROVE  RingInv'
<1>1. \A q \in Producers \ {p} : WriterInStep(q)'
  BY DEF LeavesOthers, WriterInStep, Working, TailStored
<1>2. RingOrder'
  BY DEF LeavesOthers, RingOrder, Waiting, Place
<1> QED  BY <1>1, <1>2 DEF RingInv

(* A producer at work keeps the ring in order. *)
LEMMA WorkingStep ==
  ASSUME IInv, RingInv, TakesTurns, NEW p \in Producers,
         \/ HasRoom(p) \/ CopyTopic(p) \/ CopyPayload(p) \/ LoadTail(p) \/ StoreTail(p)
         \/ LoadCount(p) \/ StoreCount(p)
  PROVE  RingInv'
<1>1. /\ LeavesOthers(p) /\ Waiting = count /\ RingPhases' /\ Waiting' = count'
      /\ head' = head /\ tpc = "idle" /\ sent' = sent
  BY LeftOthers DEF LeavesOthers, Enqueue
<1>2. /\ WriterInStep(p) /\ AcceptedWaits /\ count <= QueueLen
      /\ head \in Indexes /\ tail \in Indexes /\ count \in Nat /\ QueueLen \in Nat \ {0}
      /\ slots \in [Indexes -> Parts] /\ slot[p] \in Indexes
      /\ pc \in [Producers -> {"idle", "send", "enqueue", "topic", "payload", "loadTail",
                               "storeTail", "loadCount", "storeCount"}]
      /\ slot \in [Producers -> Indexes] /\ loaded \in [Producers -> Nat]
  BY QueueAssumption DEF RingInv, RingOrder, IInv, TypeOK
<1>3. pc[p] \notin TailStored => tail = Place(head, count)
  <2>1. \A q \in Producers \ {p} : pc[q] \in {"idle", "send"}
    BY Alone DEF HasRoom, CopyTopic, CopyPayload, LoadTail, StoreTail, LoadCount, StoreCount, Goes
  <2> QED  BY <1>1, <2>1 DEF RingInv, RingOrder, TailStored
<1>4. count < QueueLen => \A i \in 0..(count - 1) : Place(head, i) # Place(head, count)
  BY <1>2, PlacesFollow
<1>5. CASE HasRoom(p)
  <2>1. UNCHANGED <<slots, tail, count, msg, slot, loaded, accepted>> /\ count < QueueLen
        /\ pc'[p] = "topic" /\ pc[p] = "enqueue"
    BY <1>2, <1>5 DEF HasRoom, Goes
  <2>2. WriterInStep(p)'
    BY <1>2, <2>1 DEF WriterInStep, Working, TailStored
  <2>3. AcceptedWaits'
    BY <1>1, <1>2, <2>1, AcceptedKept
  <2> QED  BY <1>1, <1>2, <1>3, <2>1, <2>2, <2>3, InOrder DEF TailStored
<1>6. CASE CopyTopic(p)
  <2>1. /\ UNCHANGED <<tail, count, msg, loaded, accepted>>
        /\ pc'[p] = "payload" /\ pc[p] = "topic" /\ slot'[p] = tail
        /\ slots' = [slots EXCEPT ![tail].topic = msg[p]]
    BY <1>2, <1>6 DEF CopyTopic, Goes
  <2>2. count < QueueLen /\ tail = Place(head, count)
    BY <1>2, <1>3, <2>1 DEF WriterInStep, Working, TailStored
  <2>3. slots'[tail].topic = msg[p]
    <3>1. slots[tail] \in Parts
      BY <1>2
    <3> QED  BY <1>2, <2>1, <3>1 DEF Parts
  <2>4. \A i \in 0..(count - 1) : slots'[Place(head, i)] = slots[Place(head, i)]
    BY <1>2, <1>4, <2>1, <2>2
  <2>5. WriterInStep(p)'
    BY <2>1, <2>2, <2>3 DEF WriterInStep, Working, TailStored
  <2>6. AcceptedWaits'
    BY <1>1, <1>2, <2>1, <2>4, AcceptedKept
  <2> QED  BY <1>1, <1>2, <1>3, <2>1, <2>2, <2>5, <2>6, InOrder DEF TailStored
<1>7. CASE CopyPayload(p)
  <2>1. /\ UNCHANGED <<tail, count, msg, slot, loaded, accepted>>
        /\ pc'[p] = "loadTail" /\ pc[p] = "payload"
        /\ slots' = [slots EXCEPT ![slot[p]].payload = msg[p]]
    BY <1>2, <1>7 DEF CopyPayload, Goes
  <2>2. /\ count < QueueLen /\ tail = Place(head, count)
        /\ slot[p] = tail /\ slots[tail].topic = msg[p]
    BY <1>2, <1>3, <2>1 DEF WriterInStep, Working, TailStored
  <2>3. slots'[tail] = Whole(msg[p])
    <3>1. PICK t, y : slots[tail] = [topic |-> t, payload |-> y]
      BY <1>2 DEF Parts
    <3>2. slots'[tail] = [slots[tail] EXCEPT !.payload = msg[p]]
      BY <1>2, <2>1, <2>2
    <3> QED  BY <2>2, <3>1, <3>2 DEF Whole
  <2>4. \A i \in 0..(count - 1) : slots'[Place(head, i)] = slots[Place(head, i)]
    BY <1>2, <1>4, <2>1, <2>2
  <2>5. WriterInStep(p)'
    BY <2>1, <2>2, <2>3 DEF WriterInStep, Working, TailStored, Whole
  <2>6. AcceptedWaits'
    BY <1>1, <1>2, <2>1, <2>4, AcceptedKept
  <2> QED  BY <1>1, <1>2, <1>3, <2>1, <2>2, <2>5, <2>6, InOrder DEF TailStored
<1>8. CASE LoadTail(p)
  <2>1. /\ UNCHANGED <<slots, tail, count, msg, slot, accepted>>
        /\ pc'[p] = "storeTail" /\ pc[p] = "loadTail" /\ loaded'[p] = tail
    BY <1>2, <1>8 DEF LoadTail, Goes
  <2>2. WriterInStep(p)'
    BY <1>2, <2>1 DEF WriterInStep, Working, TailStored, Whole
  <2>3. AcceptedWaits'
    BY <1>1, <1>2, <2>1, AcceptedKept
  <2> QED  BY <1>1, <1>2, <1>3, <2>1, <2>2, <2>3, InOrder DEF TailStored
<1>9. CASE StoreTail(p)
  <2>1. /\ UNCHANGED <<slots, count, msg, slot, loaded, accepted>>
        /\ pc'[p] = "loadCount" /\ pc[p] = "storeTail" /\ tail' = Succ(loaded[p])
    BY <1>2, <1>9 DEF StoreTail, Goes
  <2>2. /\ count < QueueLen /\ tail = Place(head, count) /\ loaded[p] = tail
        /\ slots[tail] = Whole(msg[p])
    BY <1>2, <1>3, <2>1 DEF WriterInStep, Working, TailStored
  <2>3. tail' = Place(head, count + 1)
    BY <1>2, <2>1, <2>2, PlacesFollow
  <2>4. WriterInStep(p)'
    BY <1>1, <2>1, <2>2, <2>3 DEF WriterInStep, Working, TailStored, Whole, Place
  <2>5. AcceptedWaits'
    BY <1>1, <1>2, <2>1, AcceptedKept
  <2> QED  BY <1>1, <1>2, <2>1, <2>4, <2>5, InOrder DEF TailStored
<1>10. CASE LoadCount(p)
  <2>1. /\ UNCHANGED <<slots, tail, count, msg, slot, accepted>>
        /\ pc'[p] = "storeCount" /\ pc[p] = "loadCount" /\ loaded'[p] = count
    BY <1>2, <1>10 DEF LoadCount, Goes
  <2>2. WriterInStep(p)'
    BY <1>1, <1>2, <2>1 DEF WriterInStep, Working, TailStored, Whole, Place
  <2>3. AcceptedWaits'
    BY <1>1, <1>2, <2>1, AcceptedKept
  <2> QED  BY <1>1, <1>2, <2>1, <2>2, <2>3, InOrder DEF TailStored
<1>11. CASE StoreCount(p)
  <2>1. /\ UNCHANGED <<slots, tail, msg, slot, loaded>>
        /\ pc'[p] = "idle" /\ pc[p] = "storeCount"
        /\ count' = loaded[p] + 1 /\ accepted' = accepted \cup {msg[p]}
    BY <1>2, <1>11 DEF StoreCount, Goes
  <2>2. /\ count < QueueLen /\ count' = count + 1 /\ tail' = Place(head, count')
        /\ slots[Place(head, count)] = Whole(msg[p])
    BY <1>2, <2>1 DEF WriterInStep, Working, TailStored
  <2>3. WriterInStep(p)'
    BY <2>1 DEF WriterInStep, Working, TailStored
  <2>4. AcceptedWaits'
    <3>1. ASSUME NEW m \in accepted'
          PROVE  \/ Whole(m) \in sent
                 \/ \E i \in 0..count : slots[Place(head, i)] = Whole(m)
      <4>1. CASE m \in accepted
        <5>1. Whole(m) \in sent \/ \E i \in 0..(count - 1) : slots[Place(head, i)] = Whole(m)
          BY <1>1, <1>2, <4>1 DEF AcceptedWaits
        <5>2. 0..(count - 1) \subseteq 0..count
          BY <1>2
        <5> QED  BY <5>1, <5>2
      <4>2. CASE m = msg[p]
        <5>1. count \in 0..count
          BY <1>2
        <5> QED  BY <2>2, <4>2, <5>1
      <4> QED  BY <2>1, <3>1, <4>1, <4>2
    <3>2. Waiting' - 1 = count
      BY <1>1, <1>2, <2>2
    <3> QED  BY <1>1, <2>1, <3>1, <3>2 DEF AcceptedWaits, Whole, Place
  <2>5. count' <= QueueLen
    BY <1>2, <2>2
  <2> QED  BY <1>1, <2>2, <2>3, <2>4, <2>5, InOrder
<1> QED  BY <1>5, <1>6, <1>7, <1>8, <1>9, <1>10, <1>11

(* The transport task keeps it in order too: begin() resets a ring nothing    *)
(* is in, and what drainQueue() has sent leaves with the count.               *)
LEMMA TransportInTurn ==
  ASSUME IInv, RingInv, TakesTurns, TakesTurns', Begin \/ Drain
  PROVE  RingInv'
<1>1. /\ UNCHANGED <<slots, pc, msg, slot, loaded, connected, accepted>>
      /\ pc[Transport] = "idle"
  BY DEF Begin, Drain, BeginCount, BeginTail, BeginHead, DrainStarts, DrainSends, DrainLoads,
         DrainStores, TransportKeeps, producer, RingInv, RingPhases
<1>2. /\ head \in Indexes /\ tail \in Indexes /\ count \in Nat /\ QueueLen \in Nat \ {0}
      /\ count <= QueueLen /\ initialized \in BOOLEAN
  BY QueueAssumption DEF RingInv, RingOrder, IInv, TypeOK
<1>3. CASE Begin
  <2>1. /\ ~ initialized /\ UNCHANGED <<tloaded, sent>>
        /\ count = 0 /\ head = 0 /\ tail = 0 /\ accepted = {}
        /\ count' = 0 /\ head' = 0 /\ tail' = 0 /\ accepted' = {}
        /\ tpc' \in {"idle", "beginTail", "beginHead"}
        /\ initialized' => tpc' = "idle"
    <3>1. ~ initialized /\ count = 0 /\ head = 0 /\ tail = 0 /\ accepted = {}
      BY <1>3 DEF Begin, BeginCount, BeginTail, BeginHead, RingInv, RingPhases
    <3>2. CASE BeginCount
      BY <1>1, <3>1, <3>2 DEF BeginCount
    <3>3. CASE BeginTail
      BY <1>1, <3>1, <3>3 DEF BeginTail
    <3>4. ASSUME NEW created \in BOOLEAN, BeginHead(created)
          PROVE  /\ UNCHANGED <<tail, count, tloaded, sent>> /\ head' = 0
                 /\ tpc' = "idle"
      BY <3>4 DEF BeginHead
    <3> QED  BY <1>1, <1>3, <3>1, <3>2, <3>3, <3>4 DEF Begin
  <2>2. \A q \in Producers : pc'[q] = "idle"
    BY <1>1, <2>1 DEF TakesTurns, BeginsFirst
  <2>3. RingPhases'
    BY <1>1, <2>1 DEF RingInv, RingPhases
  <2>4. Place(0, 0) = 0 /\ Waiting' = 0
    <3>1. 0 \in Indexes /\ 0 \in Nat /\ 0 < QueueLen
      BY <1>2 DEF Indexes
    <3>2. Place(0, 0) = 0
      BY <3>1, PlacesFollow
    <3> QED  BY <2>1, <3>2 DEF Waiting
  <2>5. RingOrder'
    BY <1>2, <2>1, <2>4 DEF RingOrder, Place
  <2>6. \A q \in Producers : WriterInStep(q)'
    BY <2>2 DEF WriterInStep, Working, TailStored
  <2>7. AcceptedWaits'
    BY <2>1 DEF AcceptedWaits
  <2> QED  BY <2>3, <2>5, <2>6, <2>7 DEF RingInv
<1>4. CASE Drain
  <2>1. /\ initialized /\ UNCHANGED <<tail, initialized>>
        /\ tpc' \in {"idle", "drain", "loadCount", "storeCount"}
    BY <1>4 DEF Drain, DrainStarts, DrainSends, DrainLoads, DrainStores, RingInv, RingPhases
  <2>2. RingPhases'
    BY <1>1, <2>1 DEF RingInv, RingPhases
  <2>3. \A q \in Producers : pc'[q] \in {"idle", "send"} /\ pc[q] \in {"idle", "send"}
    <3>1. \A q \in Producers : InRing(q)' => q = Transport
      <4>1. CASE tpc # "idle"
        BY <1>1, <4>1, TransportAlone DEF InRing
      <4>2. CASE tpc = "idle"
        <5>1. tpc' = "drain"
          BY <1>4, <4>2 DEF Drain, DrainStarts, DrainSends, DrainLoads, DrainStores
        <5>2. InRing(Transport)'
          BY <5>1 DEF InRing
        <5> QED  BY <5>2, QueueAssumption DEF TakesTurns, OneAtATime
      <4> QED  BY <4>1, <4>2
    <3> QED  BY <1>1, <3>1 DEF InRing
  <2>4. \A q \in Producers : WriterInStep(q)'
    BY <2>3 DEF WriterInStep, Working, TailStored
  <2>5. tail = Place(head, Waiting)
    BY <2>3 DEF RingInv, RingOrder, TailStored
  <2>6. CASE DrainStarts
    <3>1. UNCHANGED <<head, count, tloaded, sent>> /\ tpc = "idle" /\ tpc' = "drain"
      BY <2>6 DEF DrainStarts
    <3>2. Waiting' = Waiting
      BY <3>1 DEF Waiting
    <3>3. RingOrder'
      BY <1>2, <2>1, <2>5, <3>1, <3>2 DEF RingOrder, Place
    <3>4. AcceptedWaits'
      BY <1>1, <3>1, <3>2, AcceptedKept DEF RingInv
    <3> QED  BY <2>2, <2>4, <3>3, <3>4 DEF RingInv
  <2>7. ASSUME NEW ok \in BOOLEAN, DrainSends(ok) PROVE RingInv'
    <3>1. UNCHANGED <<count, tloaded>> /\ tpc = "drain" /\ Waiting = count /\ count >= 1
      BY <2>7 DEF DrainSends, Waiting, IInv, NoUnderflow
    <3>2. CASE ok
      <4>1. /\ sent' = sent \cup {slots[head]} /\ head' = Succ(head) /\ tpc' = "loadCount"
            /\ Waiting' = count - 1
        BY <2>7, <3>1, <3>2 DEF DrainSends, Waiting
      <4>2. ASSUME NEW i \in 0..(count - 1) PROVE Place(Succ(head), i) = Place(head, i + 1)
        BY <1>2, PlacesFollow
      <4>3. RingOrder'
        <5>1. Place(Succ(head), count - 1) = Place(head, (count - 1) + 1)
          BY <1>2, <3>1, <4>2
        <5>2. (count - 1) + 1 = count
          BY <1>2
        <5> QED  BY <1>2, <2>1, <2>5, <3>1, <4>1, <5>1, <5>2 DEF RingOrder, Place
      <4>4. ASSUME NEW m \in accepted
            PROVE  \/ Whole(m) \in sent'
                   \/ \E i \in 0..((count - 1) - 1) : slots[Place(Succ(head), i)] = Whole(m)
        <5>1. CASE Whole(m) \in sent
          BY <4>1, <5>1
        <5>2. ASSUME NEW i \in 0..(count - 1), slots[Place(head, i)] = Whole(m)
              PROVE  \/ Whole(m) \in sent'
                     \/ \E j \in 0..((count - 1) - 1) : slots[Place(Succ(head), j)] = Whole(m)
          <6>1. CASE i = 0
            <7>1. Place(head, 0) = head
              BY <1>2, PlacesFollow
            <7> QED  BY <4>1, <5>2, <6>1, <7>1
          <6>2. CASE i # 0
            <7>1. /\ i - 1 \in 0..((count - 1) - 1) /\ i - 1 \in 0..(count - 1)
                  /\ (i - 1) + 1 = i
              BY <1>2, <6>2
            <7>2. Place(Succ(head), i - 1) = Place(head, i)
              BY <4>2, <7>1
            <7> QED  BY <5>2, <7>1, <7>2
          <6> QED  BY <6>1, <6>2
        <5> QED  BY <3>1, <5>1, <5>2 DEF RingInv, AcceptedWaits
      <4>5. AcceptedWaits'
        BY <1>1, <4>1, <4>4 DEF AcceptedWaits, Whole, Place
      <4> QED  BY <2>2, <2>4, <4>3, <4>5 DEF RingInv
    <3>3. CASE ~ ok
      <4>1. UNCHANGED <<sent, head>> /\ tpc' = "idle" /\ Waiting' = Waiting
        BY <2>7, <3>1, <3>3 DEF DrainSends, Waiting
      <4>2. RingOrder'
        BY <1>2, <2>1, <2>5, <3>1, <4>1 DEF RingOrder, Place
      <4>3. AcceptedWaits'
        BY <1>1, <4>1, AcceptedKept DEF RingInv
      <4> QED  BY <2>2, <2>4, <4>2, <4>3 DEF RingInv
    <3> QED  BY <3>2, <3>3
  <2>8. CASE DrainLoads
    <3>1. /\ UNCHANGED <<head, count, sent>> /\ tloaded' = count
          /\ tpc = "loadCount" /\ tpc' = "storeCount" /\ Waiting' = Waiting
      BY <2>8 DEF DrainLoads, Waiting
    <3>2. RingOrder'
      BY <1>2, <2>1, <2>5, <3>1 DEF RingOrder, Place
    <3>3. AcceptedWaits'
      BY <1>1, <3>1, AcceptedKept DEF RingInv
    <3> QED  BY <2>2, <2>4, <3>2, <3>3 DEF RingInv
  <2>9. CASE DrainStores
    <3>1. UNCHANGED <<head, sent>> /\ tpc' = "idle" /\ tpc = "storeCount" /\ count' = tloaded - 1
      BY <2>9 DEF DrainStores
    <3>2. tloaded = count /\ tloaded >= 1
      BY <3>1 DEF RingInv, RingOrder, IInv, LoadedIsPositive
    <3>3. Waiting' = Waiting /\ count' <= QueueLen
      BY <1>2, <3>1, <3>2 DEF Waiting
    <3>4. RingOrder'
      BY <2>1, <2>5, <3>1, <3>3 DEF RingOrder, Place
    <3>5. AcceptedWaits'
      BY <1>1, <3>1, <3>3, AcceptedKept DEF RingInv
    <3> QED  BY <2>2, <2>4, <3>4, <3>5 DEF RingInv
  <2> QED  BY <1>4, <2>6, <2>7, <2>8, <2>9 DEF Drain
<1> QED  BY <1>3, <1>4

(* An empty ring is in order. *)
LEMMA RingStarts == Init => RingInv
<1> SUFFICES ASSUME Init PROVE RingInv
  OBVIOUS
<1>1. Place(0, 0) = 0 /\ Waiting = 0
  <2>1. 0 \in Indexes /\ 0 \in Nat /\ 0 < QueueLen
    BY QueueAssumption DEF Indexes
  <2>2. Place(0, 0) = 0
    BY <2>1, PlacesFollow
  <2> QED  BY <2>2 DEF Init, Waiting
<1>2. RingPhases /\ AcceptedWaits
  BY QueueAssumption DEF Init, RingPhases, AcceptedWaits
<1>3. RingOrder
  BY <1>1, QueueAssumption DEF Init, RingOrder
<1>4. \A p \in Producers : WriterInStep(p)
  BY DEF Init, WriterInStep, Working, TailStored
<1> QED  BY <1>2, <1>3, <1>4 DEF RingInv

(* Every step keeps the ring in order while turns are taken. *)
LEMMA RingStep == IInv /\ RingInv /\ TakesTurns /\ TakesTurns' /\ [Next]_vars => RingInv'
<1> SUFFICES ASSUME IInv, RingInv, TakesTurns, TakesTurns', [Next]_vars PROVE RingInv'
  OBVIOUS
<1>1. ASSUME NEW p \in Producers, NEW m \in Msgs, Publish(p, m) PROVE RingInv'
  BY <1>1, OutOfTheRing
<1>2. ASSUME NEW p \in Producers, NEW ok \in BOOLEAN, Send(p, ok) PROVE RingInv'
  BY <1>2, OutOfTheRing
<1>3. ASSUME NEW p \in Producers, Enqueue(p) PROVE RingInv'
  BY <1>3, OutOfTheRing, WorkingStep DEF Enqueue
<1>4. CASE Begin \/ Drain
  BY <1>4, TransportInTurn
<1>5. CASE ConnectionChanges \/ UNCHANGED vars
  <2>1. /\ UNCHANGED <<ring, producer, drainer, initialized, accepted, sent>>
        /\ connected' => initialized \/ connected
    BY <1>5 DEF ConnectionChanges, vars
  <2>2. RingPhases'
    BY <2>1 DEF ring, producer, drainer, RingInv, RingPhases
  <2>3. RingOrder'
    BY <2>1 DEF ring, producer, drainer, RingInv, RingOrder, Waiting, Place
  <2>4. \A p \in Producers : WriterInStep(p)'
    BY <2>1 DEF ring, producer, drainer, RingInv, WriterInStep, Whole, Place
  <2>5. AcceptedWaits'
    BY <2>1, AcceptedKept DEF ring, producer, drainer, RingInv, Waiting
  <2> QED  BY <2>2, <2>3, <2>4, <2>5 DEF RingInv
<1> QED  BY <1>1, <1>2, <1>3, <1>4, <1>5 DEF Next

(* What waits is in the queue. *)
LEMMA RingKeeps == IInv /\ RingInv => AcceptedIsKept
<1> SUFFICES ASSUME IInv, RingInv, NEW m \in accepted PROVE Whole(m) \in Queued \cup sent
  BY DEF AcceptedIsKept
<1>1. Waiting - 1 <= count - 1 /\ Waiting \in Int /\ count \in Nat
  BY DEF Waiting, IInv, TypeOK
<1>2. \A i \in 0..(Waiting - 1) : i \in 0..(count - 1)
  BY <1>1
<1> QED  BY <1>2 DEF RingInv, AcceptedWaits, Queued, Place

(* What publish() accepts stays in the queue until it is sent, for any number *)
(* of tasks, messages and slots, as long as one task at a time is in          *)
(* publish()'s queueing, begin() or drainQueue() and none publishes before    *)
(* begin(). The code leaves both to chance; nothing else loses a message.     *)
THEOREM TurnsKeepMessages == Spec /\ []TakesTurns => []AcceptedIsKept
<1>1. Init => RingInv
  BY RingStarts
<1>2. IInv /\ IInv' /\ RingInv /\ TakesTurns /\ TakesTurns' /\ [Next]_vars => RingInv'
  BY RingStep
<1>3. Spec => []IInv
  BY Invariance
<1>4. IInv /\ RingInv => AcceptedIsKept
  BY RingKeeps
<1> QED  BY <1>1, <1>2, <1>3, <1>4, PTL DEF Spec

-----------------------------------------------------------------------------
(* Frames: what is written decodes to what was sent.                          *)

(* A set of numbers that is not empty has a smallest. *)
LEMMA LeastNumber ==
  ASSUME NEW S, S \subseteq Nat, S # {}
  PROVE  \E x \in S : \A y \in S : x <= y
<1> DEFINE Less == {pair \in Nat \X Nat : pair[1] < pair[2]}
<1>1. IsWellFoundedOn(Less, Nat)
  BY NatLessThanWellFounded DEF OpToRel
<1>2. PICK x \in S : \A y \in S : <<y, x>> \notin Less
  <2> HIDE DEF Less
  <2> QED  BY <1>1, WFMin
<1>3. ASSUME NEW y \in S PROVE x <= y
  <2>1. x \in Nat /\ y \in Nat
    OBVIOUS
  <2>2. ~(y < x)
    BY <1>2, <2>1
  <2> QED  BY <2>1, <2>2
<1> QED  BY <1>3

(* The function that EncodingOf defines is the one its recursion says: the    *)
(* function on 0..k exists for every k, for there is no smallest k without.   *)
LEMMA EncodingOfDef ==
  ASSUME NEW s \in Seq(Nat)
  PROVE  /\ EncodingOf(s)[0] = Unencoded
         /\ \A i \in 1..Len(s) : EncodingOf(s)[i] = EncodeByte(EncodingOf(s)[i - 1], s[i])
<1> DEFINE Body(f, i) == IF i = 0 THEN Unencoded ELSE EncodeByte(f[i - 1], s[i])
           Upto(k) == \E f : f = [i \in 0..k |-> Body(f, i)]
           bad == {k \in Nat : ~Upto(k)}
<1>1. bad = {}
  <2> SUFFICES ASSUME bad # {} PROVE FALSE
    OBVIOUS
  <2>1. PICK k \in bad : \A j \in bad : k <= j
    <3>1. bad \subseteq Nat
      OBVIOUS
    <3> HIDE DEF bad
    <3> QED  BY <3>1, LeastNumber
  <2>2. CASE k = 0
    <3> DEFINE f == [i \in 0..0 |-> Unencoded]
    <3>1. f = [i \in 0..0 |-> Body(f, i)]
      OBVIOUS
    <3> QED  BY <2>2, <3>1
  <2>3. CASE k # 0
    <3>1. k \in Nat /\ k - 1 \in Nat /\ k - 1 \notin bad
      <4>1. k \in Nat
        BY <2>1
      <4>2. k - 1 \in Nat /\ ~(k <= k - 1)
        BY <2>3, <4>1
      <4> HIDE DEF bad
      <4> QED  BY <2>1, <4>1, <4>2
    <3>2. PICK f : f = [i \in 0..(k - 1) |-> Body(f, i)]
      BY <3>1
    <3> DEFINE g == [i \in 0..k |-> IF i < k THEN f[i] ELSE Body(f, k)]
    <3>3. ASSUME NEW i \in 0..k PROVE g[i] = Body(g, i)
      <4>1. CASE i = 0
        BY <2>3, <3>1, <3>2, <4>1
      <4>2. CASE i # 0 /\ i < k
        <5>1. i \in 0..(k - 1) /\ i - 1 \in 0..k /\ i - 1 < k
          BY <3>1, <4>2
        <5>2. g[i] = f[i] /\ g[i - 1] = f[i - 1]
          BY <4>2, <5>1
        <5>3. f[i] = Body(f, i)
          BY <3>2, <5>1
        <5> QED  BY <4>2, <5>2, <5>3
      <4>3. CASE i = k
        <5>1. k - 1 \in 0..k /\ k - 1 < k
          BY <3>1
        <5>2. g[k] = Body(f, k) /\ g[k - 1] = f[k - 1]
          BY <3>1, <5>1
        <5> QED  BY <4>3, <5>2
      <4> QED  BY <3>1, <4>1, <4>2, <4>3
    <3>4. g = [i \in 0..k |-> Body(g, i)]
      BY <3>3
    <3> QED  BY <2>1, <3>4
  <2> QED  BY <2>2, <2>3
<1>2. Len(s) \in Nat /\ Upto(Len(s))
  BY <1>1
<1> DEFINE after == EncodingOf(s)
<1>3. after = [i \in 0..Len(s) |-> Body(after, i)]
  BY <1>2 DEF EncodingOf
<1> HIDE DEF after
<1>4. after[0] = Unencoded
  BY <1>2, <1>3
<1>5. ASSUME NEW i \in 1..Len(s) PROVE after[i] = EncodeByte(after[i - 1], s[i])
  <2>1. i \in 0..Len(s) /\ i # 0
    BY <1>2
  <2> QED  BY <1>3, <2>1
<1> QED  BY <1>4, <1>5 DEF after

(* One block of what is decoded, and the decoding of the rest. *)
Block1(e, i, rest) ==
  SubSeq(e, i + 1, i + e[i] - 1)
    \o (IF e[i] # BlockCode /\ i + e[i] <= Len(e) THEN <<0>> ELSE <<>>)
    \o rest

(* So is the one of DecodingOf, built from the end of the bytes. *)
LEMMA DecodingOfDef ==
  ASSUME NEW e \in Seq(Nat)
  PROVE  /\ DecodingOf(e)[Len(e) + 1] = <<>>
         /\ \A i \in 1..Len(e) :
              e[i] # 0 /\ i + e[i] <= Len(e) + 1 =>
                DecodingOf(e)[i] = Block1(e, i, DecodingOf(e)[i + e[i]])
<1> DEFINE L == Len(e)
           Body(f, i) == IF i > L THEN <<>>
                         ELSE IF e[i] = 0 \/ i + e[i] > L + 1 THEN <<"malformed">>
                         ELSE Block1(e, i, f[i + e[i]])
           From(k) == \E f : f = [i \in (L + 1 - k)..(L + 1) |-> Body(f, i)]
           bad == {k \in 0..L : ~From(k)}
<1>0. L \in Nat /\ \A i \in 1..L : e[i] \in Nat
  OBVIOUS
<1> HIDE DEF L
<1>1. bad = {}
  <2> SUFFICES ASSUME bad # {} PROVE FALSE
    OBVIOUS
  <2>1. PICK k \in bad : \A j \in bad : k <= j
    <3>1. bad \subseteq Nat
      BY <1>0
    <3> HIDE DEF bad
    <3> QED  BY <3>1, LeastNumber
  <2>2. CASE k = 0
    <3> DEFINE f == [i \in (L + 1 - 0)..(L + 1) |-> <<>>]
    <3>1. f = [i \in (L + 1 - 0)..(L + 1) |-> Body(f, i)]
      BY <1>0
    <3> QED  BY <2>2, <3>1
  <2>3. CASE k # 0
    <3>1. k \in Nat /\ k - 1 \in 0..L /\ k <= L /\ k - 1 \notin bad
      <4>1. k \in 0..L
        BY <2>1
      <4>2. k \in Nat /\ k - 1 \in 0..L /\ k <= L /\ ~(k <= k - 1)
        BY <1>0, <2>3, <4>1
      <4> HIDE DEF bad
      <4> QED  BY <2>1, <4>2
    <3> DEFINE n == L + 1 - k
    <3>2. n \in 1..L /\ L + 1 - (k - 1) = n + 1
      BY <1>0, <2>3, <3>1
    <3>3. PICK f : f = [i \in (n + 1)..(L + 1) |-> Body(f, i)]
      BY <3>1, <3>2
    <3> HIDE DEF n
    <3> DEFINE g == [i \in n..(L + 1) |-> IF i = n THEN Body(f, n) ELSE f[i]]
    <3>4. ASSUME NEW i \in n..(L + 1) PROVE g[i] = Body(g, i)
      <4>1. i \in Nat /\ (i <= L => i \in 1..L /\ e[i] \in Nat)
        BY <1>0, <3>2
      <4>2. ASSUME i <= L, e[i] # 0, i + e[i] <= L + 1 PROVE g[i + e[i]] = f[i + e[i]]
        <5>1. i + e[i] \in n..(L + 1) /\ i + e[i] # n
          BY <1>0, <3>2, <4>1, <4>2
        <5> QED  BY <5>1
      <4>3. Body(g, i) = Body(f, i)
        BY <1>0, <4>1, <4>2
      <4>4. CASE i = n
        BY <3>2, <4>3, <4>4
      <4>5. CASE i # n
        <5>1. i \in (n + 1)..(L + 1)
          BY <1>0, <3>2, <4>5
        <5> QED  BY <3>3, <4>3, <4>5, <5>1
      <4> QED  BY <4>4, <4>5
    <3>5. g = [i \in n..(L + 1) |-> Body(g, i)]
      BY <3>4
    <3> QED  BY <2>1, <3>5 DEF n
  <2> QED  BY <2>2, <2>3
<1>2. From(L)
  <2>1. L \in 0..L /\ ~(L \in bad)
    <3> HIDE DEF bad
    <3> QED  BY <1>0, <1>1
  <2> HIDE DEF From
  <2> QED  BY <2>1
<1>3. L + 1 - L = 1
  BY <1>0
<1> DEFINE from == DecodingOf(e)
<1>4. from = [i \in 1..(L + 1) |-> Body(from, i)]
  <2>1. PICK f : f = [i \in 1..(L + 1) |-> Body(f, i)]
    BY <1>2, <1>3
  <2> QED  BY <2>1 DEF DecodingOf, Block1, L
<1> HIDE DEF from
<1>5. from[L + 1] = <<>>
  BY <1>0, <1>4
<1>6. ASSUME NEW i \in 1..L, e[i] # 0, i + e[i] <= L + 1
      PROVE  from[i] = Block1(e, i, from[i + e[i]])
  <2>1. i \in 1..(L + 1) /\ ~(i > L) /\ ~(i + e[i] > L + 1)
    BY <1>0, <1>6
  <2>2. from[i] = Body(from, i)
    BY <1>4, <2>1
  <2> QED  BY <1>6, <2>1, <2>2
<1> QED  BY <1>5, <1>6 DEF from, L

-----------------------------------------------------------------------------
(* Encoding *)

\* The open block ends where the output does and is not full.
EncoderOK(st) ==
  /\ st.out \in Seq(Nat) /\ st.at \in Nat \ {0} /\ st.code \in Nat \ {0}
  /\ st.code < BlockCode
  /\ Len(st.out) = st.at + st.code - 1

\* A byte either continues the open block or closes it and opens the next.
Continues(st, byte, new) ==
  /\ byte # 0
  /\ new.at = st.at /\ new.code = st.code + 1
  /\ Len(new.out) = Len(st.out) + 1
  /\ \A j \in 1..Len(st.out) : new.out[j] = st.out[j]
  /\ new.out[Len(st.out) + 1] = byte

Closes(st, byte, new) ==
  /\ new.code = 1 /\ new.at = Len(new.out)
  /\ \A j \in 1..Len(st.out) : j # st.at => new.out[j] = st.out[j]
  /\ \/ byte = 0 /\ new.at = Len(st.out) + 1 /\ new.out[st.at] = st.code
     \/ /\ byte # 0 /\ st.code + 1 = BlockCode /\ new.at = Len(st.out) + 2
        /\ new.out[st.at] = BlockCode /\ new.out[Len(st.out) + 1] = byte

(* A byte written over, and one appended. *)
LEMMA Overwritten ==
  ASSUME NEW q \in Seq(Nat), NEW i \in 1..Len(q), NEW v \in Nat,
         NEW r, r = [q EXCEPT ![i] = v]
  PROVE  /\ r \in Seq(Nat) /\ Len(r) = Len(q) /\ r[i] = v
         /\ \A j \in 1..Len(q) : j # i => r[j] = q[j]
BY ExceptSeq

(* Appending adds at the end.                                                *)
LEMMA Appended ==
  ASSUME NEW q \in Seq(Nat), NEW v \in Nat, NEW r, r = Append(q, v)
  PROVE  /\ r \in Seq(Nat) /\ Len(r) = Len(q) + 1 /\ r[Len(q) + 1] = v
         /\ \A j \in 1..Len(q) : r[j] = q[j]
OBVIOUS

(* A byte continues the block or closes it.                                  *)
LEMMA EncodeByteDoes ==
  ASSUME NEW st, EncoderOK(st), NEW byte \in Nat
  PROVE  /\ EncoderOK(EncodeByte(st, byte))
         /\ \/ Continues(st, byte, EncodeByte(st, byte))
            \/ Closes(st, byte, EncodeByte(st, byte))
<1>1. PICK q, at, code, n, new :
        /\ q = st.out /\ at = st.at /\ code = st.code /\ n = Len(q)
        /\ new = EncodeByte(st, byte)
  OBVIOUS
<1>2. /\ q \in Seq(Nat) /\ at \in 1..n /\ code \in Nat \ {0} /\ code < BlockCode
      /\ n \in Nat /\ n = at + code - 1 /\ BlockCode \in Nat
  BY <1>1, SerialFrameAssumption DEF EncoderOK
<1>3. CASE byte = 0
  <2>1. PICK out, longer : out = [q EXCEPT ![at] = code] /\ longer = Append(out, 0)
    OBVIOUS
  <2>2. new.out = longer /\ new.at = n + 1 /\ new.code = 1
    BY <1>1, <1>3, <2>1 DEF EncodeByte
  <2>3. /\ out \in Seq(Nat) /\ Len(out) = n /\ out[at] = code
        /\ \A j \in 1..n : j # at => out[j] = q[j]
    <3>1. q \in Seq(Nat) /\ at \in 1..Len(q) /\ code \in Nat
      BY <1>1, <1>2
    <3>2. /\ out \in Seq(Nat) /\ Len(out) = Len(q) /\ out[at] = code
          /\ \A j \in 1..Len(q) : j # at => out[j] = q[j]
      BY <2>1, <3>1, Overwritten
    <3> QED  BY <1>1, <3>2
  <2>4. /\ longer \in Seq(Nat) /\ Len(longer) = n + 1
        /\ \A j \in 1..n : longer[j] = out[j]
    <3>1. out \in Seq(Nat) /\ 0 \in Nat /\ longer = Append(out, 0)
      BY <2>1, <2>3
    <3>2. /\ longer \in Seq(Nat) /\ Len(longer) = Len(out) + 1
          /\ \A j \in 1..Len(out) : longer[j] = out[j]
      BY <3>1, Appended
    <3>3. Len(out) = n
      BY <2>3
    <3> QED  BY <3>2, <3>3
  <2>5. EncoderOK(new)
    BY <1>2, <2>2, <2>4, SerialFrameAssumption DEF EncoderOK
  <2>6. Closes(st, byte, new)
    BY <1>1, <1>2, <1>3, <2>2, <2>3, <2>4 DEF Closes
  <2> QED  BY <1>1, <2>5, <2>6
<1>4. CASE byte # 0
  <2>1. PICK out : out = Append(q, byte)
    OBVIOUS
  <2>2. /\ out \in Seq(Nat) /\ Len(out) = n + 1 /\ out[n + 1] = byte
        /\ \A j \in 1..n : out[j] = q[j]
    <3>1. /\ out \in Seq(Nat) /\ Len(out) = Len(q) + 1 /\ out[Len(q) + 1] = byte
          /\ \A j \in 1..Len(q) : out[j] = q[j]
      BY <1>2, <2>1, Appended
    <3> QED  BY <1>1, <3>1
  <2>3. CASE code + 1 = BlockCode
    <3>1. PICK closed, longer :
            closed = [out EXCEPT ![at] = BlockCode] /\ longer = Append(closed, 0)
      OBVIOUS
    <3>2. new.out = longer /\ new.at = n + 2 /\ new.code = 1
      BY <1>1, <1>2, <1>4, <2>1, <2>2, <2>3, <3>1 DEF EncodeByte
    <3>3. /\ closed \in Seq(Nat) /\ Len(closed) = n + 1 /\ closed[at] = BlockCode
          /\ \A j \in 1..(n + 1) : j # at => closed[j] = out[j]
      <4>1. at \in 1..Len(out)
        BY <1>2, <2>2
      <4> QED  BY <1>2, <2>2, <3>1, <4>1, Overwritten
    <3>4. /\ longer \in Seq(Nat) /\ Len(longer) = n + 2
          /\ \A j \in 1..(n + 1) : longer[j] = closed[j]
      <4>1. /\ longer \in Seq(Nat) /\ Len(longer) = Len(closed) + 1
            /\ \A j \in 1..Len(closed) : longer[j] = closed[j]
        BY <3>1, <3>3, Appended
      <4> QED  BY <1>2, <3>3, <4>1
    <3>5. EncoderOK(new)
      BY <1>2, <3>2, <3>4, SerialFrameAssumption DEF EncoderOK
    <3>6. at \in 1..(n + 1) /\ n + 1 \in 1..(n + 1) /\ n + 1 # at /\ 1..n \subseteq 1..(n + 1)
      BY <1>2
    <3>7. Closes(st, byte, new)
      BY <1>1, <1>2, <1>4, <2>2, <2>3, <3>2, <3>3, <3>4, <3>6 DEF Closes
    <3> QED  BY <1>1, <3>5, <3>7
  <2>4. CASE code + 1 # BlockCode
    <3>1. new.out = out /\ new.at = at /\ new.code = code + 1
      BY <1>1, <1>4, <2>1, <2>4 DEF EncodeByte
    <3>2. EncoderOK(new)
      BY <1>2, <2>2, <2>4, <3>1 DEF EncoderOK
    <3>3. Continues(st, byte, new)
      BY <1>1, <1>2, <1>4, <2>2, <3>1 DEF Continues
    <3> QED  BY <1>1, <3>2, <3>3
  <2> QED  BY <2>3, <2>4
<1> QED  BY <1>3, <1>4

\* The open block holds the last bytes that were read, and no zero but its
\* open code is in the output.
HoldsLast(s, i, st) ==
  /\ st.code <= i + 1
  /\ \A k \in 1..(st.code - 1) : st.out[st.at + k] = s[i - st.code + 1 + k]
NoZero(st) == \A j \in 1..Len(st.out) : j # st.at => st.out[j] # 0 /\ st.out[j] <= BlockCode

EncoderInv(s, i, st) == EncoderOK(st) /\ HoldsLast(s, i, st) /\ NoZero(st)

(* A byte keeps the invariant of the encoder. *)
LEMMA EncodeByteKeeps ==
  ASSUME NEW s \in Seq(Nat), NEW i \in 1..Len(s), NEW st, EncoderInv(s, i - 1, st),
         s[i] <= BlockCode
  PROVE  EncoderInv(s, i, EncodeByte(st, s[i]))
<1>1. PICK q, at, code, n, new :
        /\ q = st.out /\ at = st.at /\ code = st.code /\ n = Len(q)
        /\ new = EncodeByte(st, s[i])
  OBVIOUS
<1>2. /\ q \in Seq(Nat) /\ at \in 1..n /\ code \in Nat \ {0}
      /\ n \in Nat /\ n = at + code - 1 /\ i \in Nat /\ s[i] \in Nat
  <2>1. i \in Nat /\ s[i] \in Nat
    OBVIOUS
  <2>2. EncoderOK(st)
    BY DEF EncoderInv
  <2>3. q \in Seq(Nat) /\ at \in Nat \ {0} /\ code \in Nat \ {0} /\ n = at + code - 1
    BY <1>1, <2>2 DEF EncoderOK
  <2> QED  BY <2>1, <2>3
<1>3. EncoderOK(new) /\ (Continues(st, s[i], new) \/ Closes(st, s[i], new))
  BY <1>1, <1>2, EncodeByteDoes DEF EncoderInv
<1>4. /\ code <= i
      /\ \A k \in 1..(code - 1) : q[at + k] = s[(i - 1) - code + 1 + k]
      /\ \A j \in 1..n : j # at => q[j] # 0 /\ q[j] <= BlockCode
  BY <1>1, <1>2 DEF EncoderInv, HoldsLast, NoZero
<1>5. CASE Continues(st, s[i], new)
  <2>1. /\ s[i] # 0 /\ new.at = at /\ new.code = code + 1 /\ Len(new.out) = n + 1
        /\ \A j \in 1..n : new.out[j] = q[j]
        /\ new.out[n + 1] = s[i]
    BY <1>1, <1>5 DEF Continues
  <2>2. ASSUME NEW k \in 1..(new.code - 1) PROVE new.out[new.at + k] = s[i - new.code + 1 + k]
    <3>0. k \in 1..code
      BY <1>2, <2>1
    <3>1. CASE k = code
      <4>1. new.at + k = n + 1 /\ i - new.code + 1 + k = i
        BY <1>2, <2>1, <3>1
      <4> QED  BY <2>1, <4>1
    <3>2. CASE k # code
      <4>1. k \in 1..(code - 1) /\ at + k \in 1..n
        BY <1>2, <3>0, <3>2
      <4>2. i - new.code + 1 + k = (i - 1) - code + 1 + k
        BY <1>2, <2>1, <3>0
      <4> QED  BY <1>4, <2>1, <4>1, <4>2
    <3> QED  BY <3>1, <3>2
  <2>3. HoldsLast(s, i, new)
    BY <1>2, <1>4, <2>1, <2>2 DEF HoldsLast
  <2>4. ASSUME NEW j \in 1..(n + 1), j # at PROVE new.out[j] # 0 /\ new.out[j] <= BlockCode
    <3>1. j = n + 1 \/ j \in 1..n
      BY <1>2
    <3> QED  BY <1>4, <2>1, <2>4, <3>1
  <2>5. NoZero(new)
    BY <2>1, <2>4 DEF NoZero
  <2> QED  BY <1>1, <1>3, <2>3, <2>5 DEF EncoderInv
<1>6. CASE Closes(st, s[i], new)
  <2>1. /\ new.code = 1 /\ new.at = Len(new.out)
        /\ \A j \in 1..n : j # at => new.out[j] = q[j]
        /\ new.out[at] \in {code, BlockCode}
        /\ \/ new.at = n + 1
           \/ s[i] # 0 /\ new.at = n + 2 /\ new.out[n + 1] = s[i]
    BY <1>1, <1>6 DEF Closes
  <2>2. HoldsLast(s, i, new)
    BY <1>2, <2>1 DEF HoldsLast
  <2>3. ASSUME NEW j \in 1..Len(new.out), j # new.at
        PROVE  new.out[j] # 0 /\ new.out[j] <= BlockCode
    <3>1. \/ j \in 1..n /\ j # at
          \/ j = at
          \/ j = n + 1 /\ s[i] # 0 /\ new.out[n + 1] = s[i]
      BY <1>2, <2>1, <2>3
    <3>2. new.out[at] # 0 /\ new.out[at] <= BlockCode
      <4>1. code # 0 /\ code <= BlockCode /\ BlockCode # 0 /\ BlockCode <= BlockCode
        BY <1>1, <1>2, SerialFrameAssumption DEF EncoderInv, EncoderOK
      <4> QED  BY <2>1, <4>1
    <3> QED  BY <1>4, <2>1, <3>1, <3>2
  <2>4. NoZero(new)
    BY <2>3 DEF NoZero
  <2> QED  BY <1>1, <1>3, <2>2, <2>4 DEF EncoderInv
<1> QED  BY <1>3, <1>5, <1>6

(* The invariant holds after every byte. *)
LEMMA EncodingKeeps ==
  ASSUME NEW s \in Seq(Nat), \A i \in 1..Len(s) : s[i] <= BlockCode
  PROVE  \A i \in 0..Len(s) : EncoderInv(s, i, EncodingOf(s)[i])
<1> DEFINE st == EncodingOf(s)
           bad == {i \in 0..Len(s) : ~EncoderInv(s, i, st[i])}
<1>1. st[0] = Unencoded /\ \A i \in 1..Len(s) : st[i] = EncodeByte(st[i - 1], s[i])
  BY EncodingOfDef
<1> HIDE DEF st
<1>2. SUFFICES ASSUME bad # {} PROVE FALSE
  BY DEF st
<1>3. bad \subseteq Nat /\ bad \subseteq 0..Len(s)
  OBVIOUS
<1>4. PICK i \in bad : \A j \in bad : i <= j
  <2> HIDE DEF bad
  <2> QED  BY <1>2, <1>3, LeastNumber
<1>5. i # 0
  <2>1. EncoderInv(s, 0, Unencoded)
    BY SerialFrameAssumption DEF EncoderInv, EncoderOK, HoldsLast, NoZero, Unencoded
  <2> QED  BY <1>1, <1>4, <2>1
<1>6. i \in 1..Len(s) /\ i - 1 \in 0..Len(s) /\ ~(i <= i - 1)
  BY <1>3, <1>4, <1>5
<1>7. i - 1 \notin bad
  <2> HIDE DEF bad
  <2> QED  BY <1>4, <1>6
<1>8. EncoderInv(s, i - 1, st[i - 1])
  BY <1>6, <1>7
<1>9. EncoderInv(s, i, st[i])
  BY <1>1, <1>6, <1>8, EncodeByteKeeps
<1> QED  BY <1>4, <1>9

-----------------------------------------------------------------------------
(* Decoding what was encoded *)

\* The len bytes of e after place a are those of s after place b.
SameBytes(e, a, s, b, len) ==
  /\ a + len <= Len(e) /\ b + len <= Len(s)
  /\ \A k \in 1..len : e[a + k] = s[b + k]

(* A run of len elements copied out of a sequence.                           *)
LEMMA SubSeqOfLength ==
  ASSUME NEW q, NEW a \in Nat, NEW len \in Nat,
         \A i \in (a + 1)..(a + len) : q[i] \in Nat,
         NEW t, t = SubSeq(q, a + 1, a + len)
  PROVE  /\ t \in Seq(Nat) /\ Len(t) = len
         /\ \A i \in 1..((a + len) - (a + 1) + 1) : t[i] = q[(a + 1) + i - 1]
<1>1. PICK m, n : m = a + 1 /\ n = a + len
  OBVIOUS
<1>2. m \in Int /\ n \in Int
  BY <1>1
<1>3. \A i \in m..n : q[i] \in Nat
  BY <1>1
<1>4. /\ SubSeq(q, m, n) \in Seq(Nat)
      /\ Len(SubSeq(q, m, n)) = IF m <= n THEN n - m + 1 ELSE 0
      /\ \A i \in 1..(n - m + 1) : SubSeq(q, m, n)[i] = q[m + i - 1]
  BY ONLY <1>2, <1>3, SubSeqProperties
<1>5. t = SubSeq(q, m, n)
  BY <1>1
<1>6. /\ t \in Seq(Nat)
      /\ Len(t) = IF m <= n THEN n - m + 1 ELSE 0
      /\ \A i \in 1..(n - m + 1) : t[i] = q[m + i - 1]
  BY <1>4, <1>5
<1>7. (IF m <= n THEN n - m + 1 ELSE 0) = len
  BY <1>1
<1> QED  BY <1>1, <1>6, <1>7

(* Equal bytes make equal slices. *)
LEMMA SlicesEqual ==
  ASSUME NEW s \in Seq(Nat), NEW e \in Seq(Nat), NEW a \in Nat, NEW b \in Nat, NEW len \in Nat,
         SameBytes(e, a, s, b, len)
  PROVE  SubSeq(e, a + 1, a + len) = SubSeq(s, b + 1, b + len)
<1>0. /\ a + len <= Len(e) /\ b + len <= Len(s)
      /\ \A k \in 1..len : e[a + k] = s[b + k]
  BY DEF SameBytes
<1>1. PICK t, u : t = SubSeq(e, a + 1, a + len) /\ u = SubSeq(s, b + 1, b + len)
  OBVIOUS
<1>2. /\ \A i \in (a + 1)..(a + len) : e[i] \in Nat
      /\ \A i \in (b + 1)..(b + len) : s[i] \in Nat
  <2>1. PICK L, M : L = Len(e) /\ M = Len(s)
    OBVIOUS
  <2>0. L \in Nat /\ M \in Nat /\ a + len <= L /\ b + len <= M
    BY <1>0, <2>1
  <2>2. /\ L \in Nat /\ M \in Nat /\ a + len <= L /\ b + len <= M
        /\ \A i \in 1..L : e[i] \in Nat
        /\ \A i \in 1..M : s[i] \in Nat
    BY <2>0, <2>1
  <2>3. /\ \A i \in (a + 1)..(a + len) : i \in 1..L
        /\ \A i \in (b + 1)..(b + len) : i \in 1..M
    BY <2>2
  <2> QED  BY <2>2, <2>3
<1>3. /\ t \in Seq(Nat) /\ Len(t) = len
      /\ \A i \in 1..((a + len) - (a + 1) + 1) : t[i] = e[(a + 1) + i - 1]
  BY <1>1, <1>2, SubSeqOfLength
<1>4. /\ u \in Seq(Nat) /\ Len(u) = len
      /\ \A i \in 1..((b + len) - (b + 1) + 1) : u[i] = s[(b + 1) + i - 1]
  BY <1>1, <1>2, SubSeqOfLength
<1>5. ASSUME NEW i \in 1..len PROVE t[i] = u[i]
  <2>1. /\ i \in 1..((a + len) - (a + 1) + 1) /\ i \in 1..((b + len) - (b + 1) + 1)
        /\ (a + 1) + i - 1 = a + i /\ (b + 1) + i - 1 = b + i
    OBVIOUS
  <2> QED  BY <1>0, <1>3, <1>4, <2>1
<1>6. t = u
  BY <1>3, <1>4, <1>5, SeqEqual
<1> QED  BY <1>1, <1>6

(* A slice up to the end is cut in two anywhere. *)
LEMMA SliceCut ==
  ASSUME NEW s \in Seq(Nat), NEW m \in 1..(Len(s) + 1), NEW k \in (m - 1)..Len(s)
  PROVE  SubSeq(s, m, k) \o SubSeq(s, k + 1, Len(s)) = SubSeq(s, m, Len(s))
<1>1. Len(s) \in k..Len(s)
  OBVIOUS
<1> QED  BY <1>1, ConcatAdjacentSubSeq

\* Nothing that is written but the open code changes any more.
Frozen(e, st) ==
  /\ Len(st.out) <= Len(e)
  /\ \A j \in 1..Len(st.out) : j # st.at => e[j] = st.out[j]
\* From place at on, e decodes to what follows place a of s.
DecodesFrom(e, at, s, a) == DecodingOf(e)[at] = SubSeq(s, a + 1, Len(s))

\* From the open block on e decodes to the bytes from those it holds.
Decodes(s, e, i, st) == DecodesFrom(e, st.at, s, i - st.code + 1)

\* The block of e at place at holds the len bytes of s after place a; it ends
\* before next, and what follows it stands for what follows place more.
BlockOf(e, at, s, a, len, next, more) ==
  /\ e \in Seq(Nat) /\ s \in Seq(Nat) /\ a \in Nat /\ len \in Nat
  /\ at \in Nat \ {0} /\ e[at] = len + 1
  /\ SameBytes(e, at, s, a, len)
  /\ next = at + len + 1
  /\ \/ /\ len + 1 # BlockCode /\ next <= Len(e)
        /\ more = a + len + 1 /\ more <= Len(s) /\ s[more] = 0
     \/ /\ len + 1 = BlockCode \/ next = Len(e) + 1
        /\ more = a + len

(* A block decodes to the bytes it holds and the zero that ended it. *)
LEMMA BlockDecodes ==
  ASSUME NEW e, NEW at, NEW s, NEW a, NEW len, NEW next, NEW more,
         BlockOf(e, at, s, a, len, next, more), DecodesFrom(e, next, s, more)
  PROVE  DecodesFrom(e, at, s, a)
<1>0. e \in Seq(Nat) /\ s \in Seq(Nat)
  BY DEF BlockOf
<1>1. PICK L, M, c : L = Len(e) /\ M = Len(s) /\ c = e[at]
  OBVIOUS
<1>2. /\ L \in Nat /\ M \in Nat /\ a \in Nat /\ len \in Nat /\ at \in Nat \ {0}
      /\ c = len + 1 /\ next = at + c
      /\ at + len <= L /\ a + len <= M
  BY <1>0, <1>1 DEF BlockOf, SameBytes
<1>3. at \in 1..L /\ c # 0 /\ at + c <= L + 1
  BY <1>2
<1>4. DecodingOf(e)[at] = Block1(e, at, DecodingOf(e)[next])
  BY <1>0, <1>1, <1>2, <1>3, DecodingOfDef
<1>5. SubSeq(e, at + 1, at + len) = SubSeq(s, a + 1, a + len)
  BY <1>0, <1>2, SlicesEqual DEF BlockOf
<1>6. PICK ending : ending = IF c # BlockCode /\ next <= L THEN <<0>> ELSE <<>>
  OBVIOUS
<1>7. DecodingOf(e)[at] = (SubSeq(s, a + 1, a + len) \o ending) \o SubSeq(s, more + 1, M)
  <2>1. at + e[at] = next /\ at + e[at] - 1 = at + len
    BY <1>1, <1>2
  <2>2. DecodingOf(e)[next] = SubSeq(s, more + 1, M)
    BY <1>1 DEF DecodesFrom
  <2>3. Block1(e, at, DecodingOf(e)[next]) =
          SubSeq(e, at + 1, at + len) \o ending \o DecodingOf(e)[next]
    BY <1>1, <1>6, <2>1 DEF Block1
  <2> QED  BY <1>4, <1>5, <2>2, <2>3
<1>8. /\ SubSeq(s, a + 1, a + len) \o ending = SubSeq(s, a + 1, more)
      /\ more \in Nat /\ a <= more /\ more <= M
  <2>1. CASE len + 1 # BlockCode /\ next <= L /\ more = a + len + 1 /\ more <= M /\ s[more] = 0
    <3>1. ending = <<0>> /\ more \in Nat /\ a <= more
      BY <1>2, <1>6, <2>1
    <3>2. PICK m : m = a + 1
      OBVIOUS
    <3>3. m \in 1..M /\ more \in m..M /\ more - 1 = a + len
      BY <1>2, <2>1, <3>2
    <3>4. SubSeq(s, m, more) = SubSeq(s, m, more - 1) \o <<s[more]>>
      BY <1>0, <1>1, <3>3, SubSeqRecursiveSecond
    <3> QED  BY <2>1, <3>1, <3>2, <3>3, <3>4
  <2>2. CASE (len + 1 = BlockCode \/ next = L + 1) /\ more = a + len
    <3>1. ending = <<>> /\ more \in Nat /\ a <= more /\ more <= M
      BY <1>2, <1>6, <2>2
    <3>2. PICK m : m = a + 1
      OBVIOUS
    <3>3. m \in Int /\ more \in Int /\ \A j \in m..more : j \in 1..M
      BY <1>2, <3>1, <3>2
    <3>4. \A j \in 1..M : s[j] \in Nat
      BY <1>0, <1>1
    <3>5. SubSeq(s, m, more) \in Seq(Nat)
      <4>1. \A j \in m..more : s[j] \in Nat
        BY <3>3, <3>4
      <4> QED  BY <3>3, <4>1, SubSeqProperties
    <3>6. SubSeq(s, m, more) \o <<>> = SubSeq(s, m, more)
      BY <3>5, ConcatEmptySeq
    <3> QED  BY <2>2, <3>1, <3>2, <3>6
  <2> QED  BY <1>1, <2>1, <2>2 DEF BlockOf
<1>9. SubSeq(s, a + 1, more) \o SubSeq(s, more + 1, M) = SubSeq(s, a + 1, M)
  <2>1. PICK m : m = a + 1
    OBVIOUS
  <2>2. m \in 1..(Len(s) + 1) /\ more \in (m - 1)..Len(s)
    BY <1>1, <1>2, <1>8, <2>1
  <2>3. SubSeq(s, m, more) \o SubSeq(s, more + 1, Len(s)) = SubSeq(s, m, Len(s))
    BY <1>0, <2>2, SliceCut
  <2> QED  BY <1>1, <2>1, <2>3
<1> QED  BY <1>1, <1>7, <1>8, <1>9 DEF DecodesFrom

(* Both pass from the state after a byte to the state before it. *)
LEMMA BackOneByte ==
  ASSUME NEW s \in Seq(Nat), NEW i \in 1..Len(s), NEW st, EncoderInv(s, i - 1, st),
         NEW e \in Seq(Nat), Frozen(e, EncodeByte(st, s[i])), Decodes(s, e, i, EncodeByte(st, s[i]))
  PROVE  Frozen(e, st) /\ Decodes(s, e, i - 1, st)
<1>1. PICK q, at, code, n, new, out, nat, m, L :
        /\ q = st.out /\ at = st.at /\ code = st.code /\ n = Len(q)
        /\ new = EncodeByte(st, s[i]) /\ out = new.out /\ nat = new.at /\ m = Len(out)
        /\ L = Len(e)
  OBVIOUS
<1>2. /\ q \in Seq(Nat) /\ at \in 1..n /\ code \in Nat \ {0}
      /\ n \in Nat /\ n = at + code - 1 /\ i \in Nat /\ s[i] \in Nat
      /\ code < BlockCode /\ BlockCode \in Nat /\ L \in Nat
  <2>1. i \in Nat /\ s[i] \in Nat
    OBVIOUS
  <2>2. EncoderOK(st)
    BY DEF EncoderInv
  <2>3. L \in Nat
    BY <1>1
  <2>4. q \in Seq(Nat) /\ at \in Nat \ {0} /\ code \in Nat \ {0} /\ code < BlockCode /\ n = at + code - 1
    BY <1>1, <2>2 DEF EncoderOK
  <2>5. BlockCode \in Nat
    BY SerialFrameAssumption
  <2> QED  BY <2>1, <2>3, <2>4, <2>5
<1>3. Continues(st, s[i], new) \/ Closes(st, s[i], new)
  BY <1>1, <1>2, EncodeByteDoes DEF EncoderInv
<1>4. code <= i /\ \A k \in 1..(code - 1) : q[at + k] = s[(i - code) + k]
  <2>1. /\ code <= (i - 1) + 1
        /\ \A k \in 1..(code - 1) : q[at + k] = s[(i - 1) - code + 1 + k]
    BY <1>1 DEF EncoderInv, HoldsLast
  <2>2. ASSUME NEW k \in 1..(code - 1) PROVE (i - 1) - code + 1 + k = (i - code) + k
    BY <1>2
  <2> QED  BY <1>2, <2>1, <2>2
<1>5. /\ m <= L
      /\ \A j \in 1..m : j # nat => e[j] = out[j]
      /\ DecodesFrom(e, nat, s, i - new.code + 1)
  BY <1>1 DEF Frozen, Decodes
<1>6. CASE Continues(st, s[i], new)
  <2>1. /\ nat = at /\ new.code = code + 1 /\ m = n + 1
        /\ \A j \in 1..n : out[j] = q[j]
    BY <1>1, <1>6 DEF Continues
  <2>2. n <= L /\ \A j \in 1..n : j # at => e[j] = q[j]
    <3>1. n <= L /\ \A j \in 1..n : j \in 1..m
      BY <1>2, <1>5, <2>1
    <3>2. ASSUME NEW j \in 1..n, j # at PROVE e[j] = q[j]
      <4>1. e[j] = out[j]
        BY <1>5, <2>1, <3>1, <3>2
      <4> QED  BY <2>1, <4>1
    <3> QED  BY <3>1, <3>2
  <2>3. i - new.code + 1 = (i - 1) - code + 1
    BY <1>2, <2>1
  <2>4. Frozen(e, st)
    BY <1>1, <2>2 DEF Frozen
  <2>5. DecodesFrom(e, at, s, (i - 1) - code + 1)
    BY <1>5, <2>1, <2>3
  <2> QED  BY <1>1, <2>4, <2>5 DEF Decodes
<1>7. CASE Closes(st, s[i], new)
  <2>1. /\ new.code = 1 /\ nat = m
        /\ \A j \in 1..n : j # at => out[j] = q[j]
        /\ \/ s[i] = 0 /\ nat = n + 1 /\ out[at] = code
           \/ /\ s[i] # 0 /\ code + 1 = BlockCode /\ nat = n + 2
              /\ out[at] = BlockCode /\ out[n + 1] = s[i]
    BY <1>1, <1>7 DEF Closes
  <2>2. n < L /\ \A j \in 1..n : e[j] = out[j]
    <3>1. n < L /\ n < m
      BY <1>2, <1>5, <2>1
    <3>2. ASSUME NEW j \in 1..n PROVE j \in 1..m /\ j # nat
      BY <1>2, <2>1, <3>1, <3>2
    <3> QED  BY <1>5, <3>1, <3>2
  <2>3. Frozen(e, st)
    <3>1. \A j \in 1..n : j # at => e[j] = q[j]
      BY <2>1, <2>2
    <3>2. n <= L
      BY <1>2, <2>2
    <3> QED  BY <1>1, <3>1, <3>2 DEF Frozen
  <2>4. DecodesFrom(e, nat, s, i)
    <3>1. i - new.code + 1 = i
      BY <1>2, <2>1
    <3> QED  BY <1>5, <3>1
  <2>5. (i - 1) - code + 1 = i - code
    BY <1>2
  <2>6. \A k \in 1..(code - 1) : e[at + k] = s[(i - code) + k]
    <3> SUFFICES ASSUME NEW k \in 1..(code - 1) PROVE e[at + k] = s[(i - code) + k]
      OBVIOUS
    <3>1. at + k \in 1..n /\ at + k # at
      BY <1>2
    <3> QED  BY <1>4, <2>1, <2>2, <3>1
  <2>7. DecodesFrom(e, at, s, i - code)
    <3>0. e \in Seq(Nat) /\ s \in Seq(Nat) /\ i - code \in Nat /\ at \in Nat \ {0} /\ i <= Len(s)
      BY <1>2, <1>4
    <3>1. CASE s[i] = 0
      <4>1. e[at] = code /\ nat = at + code /\ nat <= L /\ code # BlockCode
        BY <1>2, <1>5, <2>1, <2>2, <3>1
      <4>2. SameBytes(e, at, s, i - code, code - 1)
        <5>0. at + (code - 1) <= L
          BY <1>2, <4>1
        <5>1. at + (code - 1) <= Len(e)
          BY <1>1, <5>0
        <5>2. (i - code) + (code - 1) <= Len(s)
          BY <1>2, <3>0
        <5> QED  BY <2>6, <5>1, <5>2 DEF SameBytes
      <4>3. /\ code - 1 \in Nat /\ (code - 1) + 1 = code /\ at + (code - 1) + 1 = nat
            /\ (i - code) + (code - 1) + 1 = i
        BY <1>2, <4>1
      <4>4. BlockOf(e, at, s, i - code, code - 1, nat, i)
        BY <1>1, <3>0, <3>1, <4>1, <4>2, <4>3 DEF BlockOf
      <4> QED  BY <2>4, <4>4, BlockDecodes
    <3>2. CASE s[i] # 0
      <4>1. /\ code + 1 = BlockCode /\ nat = n + 2 /\ out[at] = BlockCode /\ out[n + 1] = s[i]
        BY <2>1, <3>2
      <4>2. e[at] = BlockCode /\ nat = at + BlockCode /\ nat <= L
        <5>1. nat = at + BlockCode /\ nat <= L
          BY <1>2, <1>5, <2>1, <4>1
        <5> QED  BY <1>2, <2>2, <4>1, <5>1
      <4>3. e[n + 1] = s[i]
        <5>1. n + 1 \in 1..m /\ n + 1 # nat
          BY <1>2, <2>1, <4>1
        <5> QED  BY <1>5, <4>1, <5>1
      <4>4. ASSUME NEW k \in 1..code PROVE e[at + k] = s[(i - code) + k]
        <5>1. \/ k \in 1..(code - 1)
              \/ at + k = n + 1 /\ (i - code) + k = i
          BY <1>2
        <5> QED  BY <2>6, <4>3, <5>1
      <4>5. SameBytes(e, at, s, i - code, code)
        <5>0. at + code <= L
          BY <1>2, <4>1, <4>2
        <5>1. at + code <= Len(e)
          BY <1>1, <5>0
        <5>2. (i - code) + code <= Len(s)
          BY <1>2, <3>0
        <5> QED  BY <4>4, <5>1, <5>2 DEF SameBytes
      <4>6. (i - code) + code = i /\ at + code + 1 = nat
        BY <1>2, <4>1, <4>2
      <4>7. BlockOf(e, at, s, i - code, code, nat, i)
        BY <1>1, <1>2, <3>0, <4>1, <4>2, <4>5, <4>6 DEF BlockOf
      <4> QED  BY <2>4, <4>7, BlockDecodes
    <3> QED  BY <3>1, <3>2
  <2> QED  BY <1>1, <2>3, <2>5, <2>7 DEF Decodes
<1> QED  BY <1>3, <1>6, <1>7

(* From the last state back to the first, what was written decodes to the     *)
(* bytes that were read: there is no last state from which it does not.       *)
LEMMA DecodesBack ==
  ASSUME NEW s \in Seq(Nat), \A i \in 1..Len(s) : s[i] <= BlockCode, NEW e \in Seq(Nat),
         Frozen(e, EncodingOf(s)[Len(s)]), Decodes(s, e, Len(s), EncodingOf(s)[Len(s)])
  PROVE  Decodes(s, e, 0, Unencoded)
<1>1. PICK st, L : st = EncodingOf(s) /\ L = Len(s)
  OBVIOUS
<1> DEFINE Good(i) == Frozen(e, st[i]) /\ Decodes(s, e, i, st[i])
           bad == {k \in 0..L : ~Good(L - k)}
<1>2. L \in Nat /\ Good(L) /\ L - 0 = L
  BY <1>1
<1>3. ASSUME NEW i \in 1..L, Good(i) PROVE Good(i - 1)
  <2>1. i \in 1..Len(s) /\ i - 1 \in 0..Len(s)
    BY <1>1
  <2>2. st[i] = EncodeByte(st[i - 1], s[i])
    BY <1>1, <2>1, EncodingOfDef
  <2>3. EncoderInv(s, i - 1, st[i - 1])
    BY <1>1, <2>1, EncodingKeeps
  <2> QED  BY <1>3, <2>1, <2>2, <2>3, BackOneByte
<1> HIDE DEF Good
<1>4. bad = {}
  <2> SUFFICES ASSUME bad # {} PROVE FALSE
    OBVIOUS
  <2>1. PICK k \in bad : \A j \in bad : k <= j
    <3>1. bad \subseteq Nat
      BY <1>2
    <3> HIDE DEF bad
    <3> QED  BY <3>1, LeastNumber
  <2>2. k \in 0..L /\ ~Good(L - k) /\ k # 0
    BY <1>2, <2>1
  <2>3. k - 1 \in 0..L /\ ~(k <= k - 1) /\ L - (k - 1) \in 1..L /\ (L - (k - 1)) - 1 = L - k
    BY <1>2, <2>2
  <2>4. k - 1 \notin bad
    <3> HIDE DEF bad
    <3> QED  BY <2>1, <2>3
  <2>5. Good(L - (k - 1))
    BY <2>3, <2>4
  <2>6. Good((L - (k - 1)) - 1)
    BY <1>3, <2>3, <2>5
  <2> QED  BY <2>2, <2>3, <2>6
<1>5. Good(0)
  <2>1. L \in 0..L /\ L \notin bad /\ L - L = 0
    <3> HIDE DEF bad
    <3> QED  BY <1>2, <1>4
  <2> QED  BY <2>1
<1>6. st[0] = Unencoded
  BY <1>1, EncodingOfDef
<1> QED  BY <1>5, <1>6 DEF Good

(* What CobsEncode writes for any bytes has no zero and decodes to them.      *)
LEMMA RoundTrip ==
  ASSUME NEW s \in Seq(Nat), \A i \in 1..Len(s) : s[i] <= BlockCode, s # <<>>,
         NEW e, e = CobsEncode(s), e # <<>>
  PROVE  /\ e \in Seq(Nat) /\ Len(e) < EncMax
         /\ \A i \in 1..Len(e) : e[i] \in 1..BlockCode
         /\ CobsDecode(e) = s
<1>1. PICK end, q, at, code, n, L :
        /\ end = EncodingOf(s)[Len(s)] /\ q = end.out /\ at = end.at /\ code = end.code
        /\ n = Len(q) /\ L = Len(s)
  OBVIOUS
<1>2. L \in Nat /\ L \in 0..Len(s) /\ EncoderInv(s, L, end)
  <2>1. L \in Nat /\ L \in 0..Len(s)
    BY <1>1
  <2> QED  BY <1>1, <2>1, EncodingKeeps
<1>3. /\ q \in Seq(Nat) /\ at \in Nat \ {0} /\ code \in Nat \ {0} /\ code < BlockCode
      /\ n = at + code - 1 /\ BlockCode \in Nat
  BY <1>1, <1>2, SerialFrameAssumption DEF EncoderInv, EncoderOK
<1>4. n \in Nat /\ at \in 1..Len(q)
  <2>1. n \in Nat /\ at \in 1..n
    BY <1>3
  <2> QED  BY <1>1, <2>1
<1>5. e = [q EXCEPT ![at] = code]
  BY <1>1 DEF CobsEncode
<1>6. /\ e \in Seq(Nat) /\ Len(e) = n /\ e[at] = code
      /\ \A j \in 1..n : j # at => e[j] = q[j]
  <2>1. code \in Nat
    BY <1>3
  <2>2. /\ e \in Seq(Nat) /\ Len(e) = Len(q) /\ e[at] = code
        /\ \A j \in 1..Len(q) : j # at => e[j] = q[j]
    BY <1>3, <1>4, <1>5, <2>1, Overwritten
  <2> QED  BY <1>1, <2>2
<1>7. \A i \in 1..Len(e) : e[i] \in 1..BlockCode
  <2>1. \A j \in 1..n : j # at => q[j] # 0 /\ q[j] <= BlockCode
    BY <1>1, <1>2 DEF EncoderInv, NoZero
  <2>2. ASSUME NEW i \in 1..n PROVE e[i] # 0 /\ e[i] <= BlockCode
    <3>1. CASE i = at
      BY <1>3, <1>6, <3>1
    <3>2. CASE i # at
      <4>1. e[i] = q[i]
        BY <1>6, <3>2
      <4> QED  BY <2>1, <3>2, <4>1
    <3> QED  BY <3>1, <3>2
  <2>3. \A i \in 1..Len(e) : e[i] \in Nat
    BY <1>6
  <2> QED  BY <1>3, <1>6, <2>2, <2>3
<1>8. Frozen(e, end)
  BY <1>1, <1>4, <1>6 DEF Frozen
<1>9. Decodes(s, e, L, end)
  <2>1. code <= L + 1 /\ \A k \in 1..(code - 1) : q[at + k] = s[L - code + 1 + k]
    BY <1>1, <1>2 DEF EncoderInv, HoldsLast
  <2>2. PICK a, len, next : a = L - code + 1 /\ len = code - 1 /\ next = n + 1
    OBVIOUS
  <2>3. /\ a \in Nat /\ len \in Nat /\ at + len = n /\ a + len = L /\ code = len + 1
        /\ next = at + len + 1
    BY <1>2, <1>3, <1>4, <2>1, <2>2
  <2>4. SameBytes(e, at, s, a, len)
    <3>0. at + len <= n /\ a + len <= L
      BY <1>2, <1>4, <2>3
    <3>1. at + len <= Len(e) /\ a + len <= Len(s)
      BY <1>1, <1>6, <3>0
    <3>2. ASSUME NEW k \in 1..len PROVE e[at + k] = s[a + k]
      <4>1. at + k \in 1..n /\ at + k # at
        BY <1>3, <1>4, <2>3
      <4>2. e[at + k] = q[at + k]
        BY <1>6, <4>1
      <4> QED  BY <2>1, <2>2, <4>2
    <3> QED  BY <3>1, <3>2 DEF SameBytes
  <2>5. next = Len(e) + 1
    BY <1>6, <2>2
  <2>6. BlockOf(e, at, s, a, len, next, L)
    BY <1>3, <1>6, <2>3, <2>4, <2>5 DEF BlockOf
  <2>7. DecodesFrom(e, next, s, L)
    <3>1. DecodingOf(e)[Len(e) + 1] = <<>>
      BY <1>6, DecodingOfDef
    <3>2. SubSeq(s, L + 1, Len(s)) = <<>>
      BY <1>1, <1>2, SubSeqEmpty
    <3> QED  BY <2>5, <3>1, <3>2 DEF DecodesFrom
  <2>8. DecodesFrom(e, at, s, a)
    BY <2>6, <2>7, BlockDecodes
  <2> QED  BY <1>1, <2>2, <2>8 DEF Decodes
<1>10. Decodes(s, e, 0, Unencoded)
  BY <1>1, <1>6, <1>8, <1>9, DecodesBack
<1>11. DecodesFrom(e, 1, s, 0)
  BY <1>10 DEF Decodes, Unencoded
<1>12. CobsDecode(e) = SubSeq(s, 1, Len(s))
  BY <1>11 DEF DecodesFrom, CobsDecode
<1>13. Len(e) < EncMax
  <2>1. ~(Len(q) >= EncMax)
    BY <1>1 DEF CobsEncode
  <2> QED  BY <1>1, <1>4, <1>6, <2>1, SerialFrameAssumption
<1> QED  BY <1>6, <1>7, <1>12, <1>13, SubSeqFull

-----------------------------------------------------------------------------
(* The specification *)

\* What is on the wire, if anything, is the encoding of the last frame taken.
WireInv ==
  /\ opened \in BOOLEAN
  /\ frame \in Seq({0, 1}) /\ Len(frame) <= RawMax
  /\ onWire # <<>> => frame # <<>> /\ onWire = CobsEncode(frame)

(* What is on the wire is an encoding, always.                               *)
LEMMA WireKept == FrameSpec => []WireInv
<1>1. FrameInit => WireInv
  <2>1. <<>> \in Seq({0, 1}) /\ Len(<<>>) = 0 /\ 0 <= RawMax
    BY SerialFrameAssumption
  <2> QED  BY <2>1 DEF FrameInit, WireInv
<1>2. WireInv /\ [FrameNext]_frameVars => WireInv'
  <2> SUFFICES ASSUME WireInv, [FrameNext]_frameVars PROVE WireInv'
    OBVIOUS
  <2>1. CASE OpenPort
    BY <2>1 DEF OpenPort, WireInv
  <2>2. CASE SendSubscribeFrame
    <3>1. PICK bytes \in Frames : SendFrame(bytes)
      BY <2>2 DEF SendSubscribeFrame
    <3>2. opened' = opened
      BY <2>2 DEF SendSubscribeFrame
    <3>3. bytes \in Seq({0, 1}) /\ bytes # <<>>
      <4>1. PICK n \in 1..FrameMax : bytes \in [1..n -> {0, 1}]
        BY DEF Frames
      <4>2. n \in Nat \ {0}
        BY SerialFrameAssumption
      <4> QED  BY <4>1, <4>2
    <3>4. CASE Len(bytes) > RawMax
      BY <3>1, <3>2, <3>4 DEF SendFrame, WireInv
    <3>5. CASE ~(Len(bytes) > RawMax)
      <4>1. frame' = bytes /\ onWire' = CobsEncode(bytes)
        BY <3>1, <3>5 DEF SendFrame
      <4>2. Len(bytes) <= RawMax
        BY <3>3, <3>5, SerialFrameAssumption
      <4> QED  BY <3>2, <3>3, <4>1, <4>2 DEF WireInv
    <3> QED  BY <3>4, <3>5
  <2>3. CASE UNCHANGED frameVars
    BY <2>3 DEF frameVars, WireInv
  <2> QED  BY <2>1, <2>2, <2>3 DEF FrameNext
<1> QED  BY <1>1, <1>2, PTL DEF FrameSpec

(* Which decodes.                                                            *)
LEMMA WireSound == WireInv => FrameTypeOK /\ FrameDecodes
<1> SUFFICES ASSUME WireInv PROVE FrameTypeOK /\ FrameDecodes
  OBVIOUS
<1>1. CASE onWire = <<>>
  BY <1>1, SerialFrameAssumption DEF WireInv, FrameTypeOK, FrameDecodes
<1>2. CASE onWire # <<>>
  <2>1. frame \in Seq({0, 1}) /\ frame # <<>> /\ onWire = CobsEncode(frame)
    BY <1>2 DEF WireInv
  <2>2. frame \in Seq(Nat)
    BY <2>1
  <2>3. \A i \in 1..Len(frame) : frame[i] <= BlockCode
    <3>1. \A i \in 1..Len(frame) : frame[i] \in {0, 1}
      BY <2>1
    <3>2. 0 <= BlockCode /\ 1 <= BlockCode
      BY SerialFrameAssumption
    <3> QED  BY <3>1, <3>2
  <2>4. /\ onWire \in Seq(Nat) /\ Len(onWire) < EncMax
        /\ \A i \in 1..Len(onWire) : onWire[i] \in 1..BlockCode
        /\ CobsDecode(onWire) = frame
    BY <1>2, <2>1, <2>2, <2>3, RoundTrip
  <2>5. DOMAIN onWire = 1..Len(onWire)
    BY <2>4
  <2>6. \A i \in DOMAIN onWire : onWire[i] \in 1..BlockCode
    BY <2>4, <2>5
  <2>7. \A i \in DOMAIN onWire : onWire[i] # 0 /\ onWire[i] \in 0..BlockCode
    BY <2>6, SerialFrameAssumption
  <2> QED  BY <2>4, <2>7 DEF WireInv, FrameTypeOK, FrameDecodes
<1> QED  BY <1>1, <1>2

(* The state of the serial frame stays in its ranges, and what is written in  *)
(* its buffer. *)
THEOREM FrameTypeCorrect == FrameSpec => []FrameTypeOK
BY WireKept, WireSound, PTL

(* Whatever bytes a frame holds and wherever its runs fall on the blocks,     *)
(* what cobs_encode writes has no delimiter inside, and cobs_decode gives the *)
(* frame back.                                                                *)
THEOREM FramesDecode == FrameSpec => []FrameDecodes
BY WireKept, WireSound, PTL

-----------------------------------------------------------------------------
(* Lines: what is routed was sent as one line.                                *)

\* A line as it is sent, byte by byte.
Sent(l, i) == IF i <= Len(l) THEN l[i] ELSE IF i = Len(l) + 1 THEN Return ELSE LineFeed

\* w is what is left of l on the wire.
LeftOf(l, w) ==
  /\ l \in Seq(Fields) /\ w \in Seq(Fields \cup {Return, LineFeed})
  /\ Len(w) <= Len(l) + 2
  /\ \A i \in 1..Len(w) : w[i] = Sent(l, Len(l) + 2 - Len(w) + i)

\* How many fields of l have been read.
ReadOf(l, w) == IF Len(w) <= 2 THEN Len(l) ELSE Len(l) + 2 - Len(w)

\* x holds the last fields that were read.
Holds(l, w, x) ==
  /\ x \in Seq(Fields) /\ Len(x) <= ReadOf(l, w)
  /\ \A i \in 1..Len(x) : x[i] = l[ReadOf(l, w) - Len(x) + i]

(* A line just sent is all on the wire.                                      *)
LEMMA LineSent ==
  ASSUME NEW l \in Seq(Fields), NEW w, w = l \o <<Return, LineFeed>>
  PROVE  LeftOf(l, w)
<1>1. PICK n : n = Len(l)
  OBVIOUS
<1>2. n \in Nat /\ Len(<<Return, LineFeed>>) = 2
  BY <1>1
<1>3. w \in Seq(Fields \cup {Return, LineFeed})
  <2>1. /\ l \in Seq(Fields \cup {Return, LineFeed})
        /\ <<Return, LineFeed>> \in Seq(Fields \cup {Return, LineFeed})
    OBVIOUS
  <2> QED  BY <2>1, ConcatProperties
<1>4. /\ Len(w) = n + 2
      /\ \A i \in 1..n : w[i] = l[i]
      /\ w[n + 1] = Return /\ w[n + 2] = LineFeed
  BY <1>1, <1>2
<1>5. ASSUME NEW i \in 1..Len(w) PROVE w[i] = Sent(l, Len(l) + 2 - Len(w) + i)
  <2>1. Len(l) + 2 - Len(w) + i = i /\ i \in 1..(n + 2)
    BY <1>1, <1>2, <1>4
  <2>2. w[i] = Sent(l, i)
    <3>1. i \in Nat /\ n = Len(l) /\ n \in Nat
      BY <1>1, <1>2, <2>1
    <3>2. CASE i <= n
      <4>1. i \in 1..n
        BY <2>1, <3>1, <3>2
      <4>2. w[i] = l[i]
        BY <1>4, <4>1
      <4> QED  BY <3>1, <3>2, <4>2 DEF Sent
    <3>3. CASE i = n + 1
      BY <1>4, <3>1, <3>3 DEF Sent
    <3>4. CASE i = n + 2
      <4>1. w[i] = LineFeed
        BY <1>4, <3>4
      <4>2. ~(i <= Len(l)) /\ i # Len(l) + 1
        BY <3>1, <3>4
      <4> QED  BY <4>1, <4>2 DEF Sent
    <3>5. i <= n \/ i = n + 1 \/ i = n + 2
      BY <1>2, <2>1
    <3> QED  BY <3>2, <3>3, <3>4, <3>5
  <2> QED  BY <2>1, <2>2
<1> QED  BY <1>1, <1>3, <1>4, <1>5 DEF LeftOf

(* A byte read is the next one of the line.                                  *)
LEMMA WireShortens ==
  ASSUME NEW l, NEW w, LeftOf(l, w), w # <<>>, NEW v, v = Tail(w)
  PROVE  LeftOf(l, v) /\ Len(v) = Len(w) - 1 /\ Len(w) \in Nat \ {0}
         /\ Head(w) = Sent(l, Len(l) + 2 - Len(w) + 1)
<1>1. PICK n, m : n = Len(l) /\ m = Len(w)
  OBVIOUS
<1>2. /\ l \in Seq(Fields) /\ w \in Seq(Fields \cup {Return, LineFeed})
      /\ n \in Nat /\ m \in Nat /\ m <= n + 2
      /\ \A i \in 1..m : w[i] = Sent(l, n + 2 - m + i)
  BY <1>1 DEF LeftOf
<1>3. m # 0
  BY <1>1, <1>2
<1>4. /\ v \in Seq(Fields \cup {Return, LineFeed}) /\ Len(v) = m - 1
      /\ \A i \in 1..(m - 1) : v[i] = w[i + 1]
  BY <1>1, <1>2, HeadTailProperties
<1>5. ASSUME NEW i \in 1..(m - 1) PROVE v[i] = Sent(l, n + 2 - (m - 1) + i)
  <2>1. i + 1 \in 1..m /\ n + 2 - m + (i + 1) = n + 2 - (m - 1) + i
    BY <1>2, <1>3
  <2> QED  BY <1>2, <1>4, <2>1
<1>6. LeftOf(l, v)
  <2>1. m - 1 <= n + 2
    BY <1>2
  <2> QED  BY <1>1, <1>2, <1>4, <1>5, <2>1 DEF LeftOf
<1>7. Head(w) = Sent(l, n + 2 - m + 1)
  <2>1. 1 \in 1..m
    BY <1>2, <1>3
  <2> QED  BY <1>2, <2>1
<1> QED  BY <1>1, <1>2, <1>3, <1>4, <1>6, <1>7

(* A field that is read may be appended, and an end of line read.            *)
LEMMA FieldRead ==
  ASSUME NEW l, NEW w, NEW x, LeftOf(l, w), Holds(l, w, x), w # <<>>, Head(w) \in Fields
  PROVE  Holds(l, Tail(w), Append(x, Head(w)))
<1>1. PICK n, m, k, v, b, y :
        /\ n = Len(l) /\ m = Len(w) /\ k = Len(x)
        /\ v = Tail(w) /\ b = Head(w) /\ y = Append(x, b)
  OBVIOUS
<1>2. /\ LeftOf(l, v) /\ Len(v) = m - 1 /\ m \in Nat \ {0} /\ b = Sent(l, n + 2 - m + 1)
  BY <1>1, WireShortens
<1>3. n \in Nat /\ m <= n + 2 /\ x \in Seq(Fields) /\ k \in Nat /\ b \in Fields
  BY <1>1 DEF LeftOf, Holds
<1>4. m > 2
  <2> SUFFICES ASSUME m <= 2 PROVE FALSE
    BY <1>2
  <2>1. n + 2 - m + 1 > n
    BY <1>2, <1>3
  <2>2. b \in {Return, LineFeed}
    BY <1>1, <1>2, <2>1, <1>3 DEF Sent
  <2> QED  BY <1>3, <2>2 DEF Fields
<1>5. b = l[n + 3 - m] /\ ReadOf(l, w) = n + 2 - m /\ ReadOf(l, v) = n + 3 - m
  <2>1. n + 2 - m + 1 = n + 3 - m /\ n + 3 - m <= n /\ ~(m <= 2)
    BY <1>2, <1>3, <1>4
  <2>2. b = l[n + 3 - m]
    BY <1>1, <1>2, <2>1 DEF Sent
  <2>3. ReadOf(l, w) = n + 2 - m
    BY <1>1, <2>1 DEF ReadOf
  <2>4. ReadOf(l, v) = n + 3 - m
    BY <1>1, <1>2, <1>3, <1>4 DEF ReadOf
  <2> QED  BY <2>2, <2>3, <2>4
<1>6. k <= n + 2 - m /\ \A i \in 1..k : x[i] = l[n + 2 - m - k + i]
  BY <1>1, <1>5 DEF Holds
<1>7. /\ y \in Seq(Fields) /\ Len(y) = k + 1 /\ y[k + 1] = b
      /\ \A i \in 1..k : y[i] = x[i]
  BY <1>1, <1>3, AppendProperties
<1>8. ASSUME NEW i \in 1..(k + 1) PROVE y[i] = l[n + 3 - m - (k + 1) + i]
  <2>1. CASE i = k + 1
    <3>1. n + 3 - m - (k + 1) + i = n + 3 - m
      BY <1>2, <1>3, <2>1
    <3> QED  BY <1>5, <1>7, <2>1, <3>1
  <2>2. CASE i # k + 1
    <3>1. i \in 1..k /\ n + 3 - m - (k + 1) + i = n + 2 - m - k + i
      BY <1>2, <1>3, <2>2
    <3> QED  BY <1>6, <1>7, <3>1
  <2> QED  BY <2>1, <2>2
<1>9. k + 1 <= n + 3 - m
  BY <1>2, <1>3, <1>6
<1>10. Holds(l, v, y)
  <2>0. ReadOf(l, v) = n + 3 - m
    BY <1>5
  <2>1. ReadOf(l, v) - Len(y) = n + 3 - m - (k + 1)
    BY <1>2, <1>3, <1>7, <2>0
  <2>2. \A i \in 1..Len(y) : y[i] = l[ReadOf(l, v) - Len(y) + i]
    BY <1>7, <1>8, <2>1
  <2>3. Len(y) <= ReadOf(l, v)
    BY <1>5, <1>7, <1>9
  <2> QED  BY <1>7, <2>2, <2>3 DEF Holds
<1> QED  BY <1>1, <1>10

(* The carriage return is skipped.                                           *)
LEMMA EndRead ==
  ASSUME NEW l, NEW w, NEW x, LeftOf(l, w), Holds(l, w, x), w # <<>>, Head(w) = Return
  PROVE  Holds(l, Tail(w), x) /\ Tail(w) # <<>>
<1>1. PICK n, m, v : n = Len(l) /\ m = Len(w) /\ v = Tail(w)
  OBVIOUS
<1>2. /\ LeftOf(l, v) /\ Len(v) = m - 1 /\ m \in Nat \ {0} /\ Return = Sent(l, n + 2 - m + 1)
  BY <1>1, WireShortens
<1>3. n \in Nat /\ m <= n + 2 /\ l \in Seq(Fields)
  BY <1>1 DEF LeftOf
<1>4. m = 2
  <2>1. Return # LineFeed
    BY DEF Return, LineFeed
  <2>2. n + 2 - m + 1 > n
    <3> SUFFICES ASSUME n + 2 - m + 1 <= n PROVE FALSE
      BY <1>2, <1>3
    <3>1. n + 2 - m + 1 \in 1..Len(l)
      BY <1>1, <1>2, <1>3
    <3>2. l[n + 2 - m + 1] \in Fields /\ Return = l[n + 2 - m + 1]
      BY <1>1, <1>2, <1>3, <3>1 DEF Sent
    <3> QED  BY <3>2 DEF Fields
  <2>3. n + 2 - m + 1 = n + 1
    BY <1>1, <1>2, <2>1, <2>2 DEF Sent
  <2> QED  BY <1>2, <1>3, <2>3
<1>5. ReadOf(l, w) = n /\ ReadOf(l, v) = n
  <2>1. Len(w) = 2 /\ Len(v) = 1
    <3>1. m - 1 = 1
      BY <1>4
    <3> QED  BY <1>1, <1>2, <1>4, <3>1
  <2>2. 2 <= 2 /\ 1 <= 2
    OBVIOUS
  <2> QED  BY <1>1, <2>1, <2>2 DEF ReadOf
<1>6. Holds(l, v, x)
  BY <1>5 DEF Holds
<1>7. v # <<>>
  BY <1>2, <1>4
<1> QED  BY <1>1, <1>6, <1>7

(* What is held at the line feed is the end of the line, which then is read. *)
LEMMA LineFeedRead ==
  ASSUME NEW l, NEW w, NEW x, LeftOf(l, w), Holds(l, w, x), w # <<>>, Head(w) = LineFeed
  PROVE  EndOf(l, x)
<1>1. PICK n, m, k : n = Len(l) /\ m = Len(w) /\ k = Len(x)
  OBVIOUS
<1>2. m \in Nat \ {0} /\ LineFeed = Sent(l, n + 2 - m + 1)
  BY <1>1, WireShortens
<1>3. n \in Nat /\ m <= n + 2 /\ l \in Seq(Fields) /\ x \in Seq(Fields) /\ k \in Nat
  BY <1>1 DEF LeftOf, Holds
<1>4. m = 1
  <2>1. Return # LineFeed
    BY DEF Return, LineFeed
  <2>2. n + 2 - m + 1 > n
    <3> SUFFICES ASSUME n + 2 - m + 1 <= n PROVE FALSE
      BY <1>2, <1>3
    <3>1. n + 2 - m + 1 \in 1..Len(l)
      BY <1>1, <1>2, <1>3
    <3>2. l[n + 2 - m + 1] \in Fields /\ LineFeed = l[n + 2 - m + 1]
      BY <1>1, <1>2, <1>3, <3>1 DEF Sent
    <3> QED  BY <3>2 DEF Fields
  <2>3. n + 2 - m + 1 # n + 1
    BY <1>1, <1>2, <2>1 DEF Sent
  <2> QED  BY <1>2, <1>3, <2>2, <2>3
<1>5. ReadOf(l, w) = n
  BY <1>1, <1>4 DEF ReadOf
<1>6. k <= n /\ \A i \in 1..k : x[i] = l[n - k + i]
  BY <1>1, <1>5 DEF Holds
<1>7. PICK from, t : from = n - k + 1 /\ t = SubSeq(l, from, n)
  OBVIOUS
<1>8. from \in Int /\ n \in Int /\ from >= 1 /\ n - from + 1 = k
  BY <1>3, <1>6, <1>7
<1>9. \A i \in from..n : l[i] \in Fields
  <2>1. \A i \in 1..n : l[i] \in Fields
    BY <1>1, <1>3
  <2>2. \A i \in from..n : i \in 1..n
    BY <1>3, <1>8
  <2> QED  BY <2>1, <2>2
<1>10. /\ t \in Seq(Fields) /\ Len(t) = k
       /\ \A i \in 1..(n - from + 1) : t[i] = l[from + i - 1]
  <2>1. Len(t) = IF from <= n THEN n - from + 1 ELSE 0
    BY <1>7, <1>8, <1>9, SubSeqProperties
  <2>2. /\ t \in Seq(Fields)
        /\ \A i \in 1..(n - from + 1) : t[i] = l[from + i - 1]
    BY <1>7, <1>8, <1>9, SubSeqProperties
  <2> QED  BY <1>3, <1>8, <2>1, <2>2
<1>11. ASSUME NEW i \in 1..k PROVE x[i] = t[i]
  <2>1. i \in 1..(n - from + 1) /\ from + i - 1 = n - k + i
    BY <1>3, <1>6, <1>7, <1>8
  <2> QED  BY <1>6, <1>10, <2>1
<1>12. x = t
  BY <1>1, <1>3, <1>10, <1>11, SeqEqual
<1> QED  BY <1>1, <1>6, <1>7, <1>12 DEF EndOf

-----------------------------------------------------------------------------
(* The specification *)

\* The buffer holds fields of the line on the wire and no others.
BufferInv ==
  /\ LeftOf(line, wire) /\ Holds(line, wire, rx)
  /\ wire = <<>> => rx = <<>>
  /\ ~listening => rx = <<>>

RoutingInv == RoutingTypeOK /\ BufferInv

(* An empty buffer holds nothing of a line.                                  *)
LEMMA EmptyHolds ==
  ASSUME NEW l, NEW w, LeftOf(l, w)
  PROVE  Holds(l, w, <<>>)
<1>1. PICK n, m : n = Len(l) /\ m = Len(w)
  OBVIOUS
<1>2. n \in Nat /\ m \in Nat /\ m <= n + 2
  BY <1>1 DEF LeftOf
<1>3. ReadOf(l, w) \in Nat
  BY <1>1, <1>2 DEF ReadOf
<1> QED  BY <1>3 DEF Holds

(* Nothing is sent or held at first.                                         *)
LEMMA RoutingInitially == RoutingInit => RoutingInv
<1> SUFFICES ASSUME RoutingInit PROVE RoutingInv
  OBVIOUS
<1>1. RoutingTypeOK
  <2>1. Len(<<>>) <= RxBytes /\ MaxLines \in 0..MaxLines
    BY RoutingAssumption
  <2>2. routed.outcome = "none"
    BY DEF RoutingInit, NothingRouted
  <2> QED  BY <2>1, <2>2 DEF RoutingInit, RoutingTypeOK
<1>2. LeftOf(<<>>, <<>>)
  BY DEF LeftOf
<1> QED  BY <1>1, <1>2, EmptyHolds DEF RoutingInit, RoutingInv, BufferInv

(* What becomes of a message.                                                *)
LEMMA Outcomes ==
  ASSUME NEW payload
  PROVE  DispatchMessage(payload) \in {"none", "applied", "restart", "nothing", "refused"}
BY DEF DispatchMessage, CapabilityOutcome, SystemOutcome

(* Every step keeps the invariant, and routes what was sent or nothing.      *)
LEMMA RoutingStep ==
  ASSUME RoutingInv, [RoutingNext]_routingVars
  PROVE  /\ RoutingInv'
         /\ routed' # routed /\ routed'.origin = "uart" => EndOf(line, routed'.payload)
<1> DEFINE Channels == {<<>>, <<"uart">>, <<"mqtt">>, <<"uart", "mqtt">>}
           Results == {"none", "applied", "restart", "nothing", "refused"}
<1>1. /\ channels \in Channels /\ listening \in BOOLEAN /\ Len(rx) <= RxBytes
      /\ linesLeft \in 0..MaxLines /\ routed.outcome \in Results
      /\ LeftOf(line, wire) /\ Holds(line, wire, rx)
      /\ wire = <<>> => rx = <<>>
      /\ ~listening => rx = <<>>
  BY DEF RoutingInv, RoutingTypeOK, BufferInv
<1>2. Len(<<>>) <= RxBytes
  BY RoutingAssumption
<1>3. CASE ConfigureSerial
  <2>1. /\ channels' = <<"uart">>
        /\ UNCHANGED <<listening, line, wire, rx, routed, linesLeft>>
    BY <1>3 DEF ConfigureSerial, AddChannel
  <2> QED  BY <1>1, <2>1 DEF RoutingInv, RoutingTypeOK, BufferInv
<1>4. CASE StartTransports
  <2>1. /\ AddChannel("mqtt") /\ listening' \in BOOLEAN /\ rx' = <<>>
        /\ UNCHANGED <<line, wire, routed, linesLeft>>
    BY <1>4 DEF StartTransports
  <2>2. channels' \in {<<"mqtt">>, <<"uart", "mqtt">>}
    <3>1. ~HasChannel("mqtt") /\ channels' = Append(channels, "mqtt")
      BY <2>1 DEF AddChannel
    <3>2. channels \notin {<<"mqtt">>, <<"uart", "mqtt">>}
      BY <3>1 DEF HasChannel
    <3>0. \/ channels = <<>> \/ channels = <<"uart">>
          \/ channels = <<"mqtt">> \/ channels = <<"uart", "mqtt">>
      BY <1>1
    <3>3. channels = <<>> \/ channels = <<"uart">>
      BY <3>0, <3>2
    <3>4. Append(<<>>, "mqtt") = <<"mqtt">> /\ Append(<<"uart">>, "mqtt") = <<"uart", "mqtt">>
      <4>1. PICK q : q = Append(<<"uart">>, "mqtt")
        OBVIOUS
      <4>2. <<"uart">> \in Seq({"uart", "mqtt"}) /\ <<"uart", "mqtt">> \in Seq({"uart", "mqtt"})
            /\ Len(<<"uart">>) = 1 /\ Len(<<"uart", "mqtt">>) = 2 /\ <<"uart">>[1] = "uart"
            /\ <<"uart", "mqtt">>[1] = "uart" /\ <<"uart", "mqtt">>[2] = "mqtt"
        OBVIOUS
      <4>3. /\ q \in Seq({"uart", "mqtt"}) /\ Len(q) = 2
            /\ q[1] = "uart" /\ q[2] = "mqtt"
        BY <4>1, <4>2, AppendProperties
      <4>4. q = <<"uart", "mqtt">>
        <5>1. \A i \in 1..2 : i = 1 \/ i = 2
          OBVIOUS
        <5> QED  BY <4>2, <4>3, <5>1, SeqEqual
      <4>5. Append(<<>>, "mqtt") = <<"mqtt">>
        OBVIOUS
      <4> QED  BY <4>1, <4>4, <4>5
    <3> QED  BY <3>1, <3>3, <3>4
  <2> QED  BY <1>1, <1>2, <2>1, <2>2, EmptyHolds DEF RoutingInv, RoutingTypeOK, BufferInv
<1>5. CASE Restart
  <2>1. /\ channels' = <<>> /\ listening' = FALSE /\ rx' = <<>> /\ routed' = NothingRouted
        /\ UNCHANGED <<line, wire, linesLeft>>
    BY <1>5 DEF Restart
  <2>2. routed'.outcome = "none" /\ routed'.origin # "uart"
    BY <2>1 DEF NothingRouted
  <2> QED  BY <1>1, <1>2, <2>1, <2>2, EmptyHolds DEF RoutingInv, RoutingTypeOK, BufferInv
<1>6. CASE PeerSends
  <2>1. PICK l \in Lines : line' = l /\ wire' = l \o <<Return, LineFeed>>
    BY <1>6 DEF PeerSends
  <2>2. /\ wire = <<>> /\ linesLeft' = linesLeft - 1 /\ linesLeft > 0
        /\ UNCHANGED <<channels, listening, rx, routed>>
    BY <1>6 DEF PeerSends
  <2>3. LeftOf(line', wire')
    BY <2>1, RoutingAssumption, LineSent
  <2>4. rx' = <<>> /\ Holds(line', wire', rx')
    BY <1>1, <2>2, <2>3, EmptyHolds
  <2>5. linesLeft' \in 0..MaxLines
    BY <1>1, <2>2, RoutingAssumption
  <2> QED  BY <1>1, <2>2, <2>3, <2>4, <2>5 DEF RoutingInv, RoutingTypeOK, BufferInv
<1>7. CASE PortClosed
  <2>1. /\ ~listening /\ wire # <<>> /\ wire' = Tail(wire)
        /\ UNCHANGED <<channels, listening, line, rx, routed, linesLeft>>
    BY <1>7 DEF PortClosed
  <2>2. LeftOf(line', wire')
    BY <1>1, <2>1, WireShortens
  <2>3. rx' = <<>> /\ Holds(line', wire', rx')
    BY <1>1, <2>1, <2>2, EmptyHolds
  <2> QED  BY <1>1, <2>1, <2>2, <2>3 DEF RoutingInv, RoutingTypeOK, BufferInv
<1>8. CASE Pump
  <2>1. /\ listening /\ wire # <<>> /\ wire' = Tail(wire)
        /\ UNCHANGED <<channels, listening, line, linesLeft>>
    BY <1>8 DEF Pump
  <2>2. LeftOf(line', wire') /\ Len(wire) \in Nat \ {0}
        /\ Head(wire) = Sent(line, Len(line) + 2 - Len(wire) + 1)
    BY <1>1, <2>1, WireShortens
  <2>3. CASE Head(wire) = Return
    <3>0. Return # LineFeed
      BY DEF Return, LineFeed
    <3>1. UNCHANGED <<rx, routed>>
      BY <1>8, <2>3, <3>0 DEF Pump
    <3>2. Holds(line', wire', rx') /\ wire' # <<>>
      BY <1>1, <2>1, <2>3, <3>1, EndRead
    <3> QED  BY <1>1, <2>1, <2>2, <3>1, <3>2 DEF RoutingInv, RoutingTypeOK, BufferInv
  <2>4. CASE Head(wire) = LineFeed
    <3>1. Return # LineFeed
      BY DEF Return, LineFeed
    <3>2. /\ rx' = <<>>
          /\ IF rx # <<>> THEN DecodeAndDispatch(rx) ELSE UNCHANGED routed
      BY <1>8, <2>4, <3>1 DEF Pump
    <3>3. \/ routed' = routed
          \/ /\ routed'.outcome \in Results /\ routed'.payload = rx
      BY <3>2, Outcomes DEF DecodeAndDispatch, OnMessageReceived
    <3>4. EndOf(line, rx)
      BY <1>1, <2>1, <2>4, LineFeedRead
    <3>5. Holds(line', wire', rx')
      BY <2>2, <3>2, EmptyHolds
    <3>6. routed'.outcome \in Results
      BY <1>1, <3>3
    <3> QED  BY <1>1, <1>2, <2>1, <2>2, <3>2, <3>3, <3>4, <3>5, <3>6
             DEF RoutingInv, RoutingTypeOK, BufferInv
  <2>5. CASE Head(wire) \notin {Return, LineFeed}
    <3>1. /\ rx' = IF Len(rx) < RxBytes THEN Append(rx, Head(wire)) ELSE <<>>
          /\ routed' = routed
      BY <1>8, <2>5 DEF Pump
    <3>2. Head(wire) \in Fields
      <4>1. wire \in Seq(Fields \cup {Return, LineFeed})
        BY <1>1 DEF LeftOf
      <4> QED  BY <2>1, <2>5, <4>1, HeadTailProperties
    <3>3. Holds(line', wire', rx')
      <4>1. CASE Len(rx) < RxBytes
        BY <1>1, <2>1, <3>1, <3>2, <4>1, FieldRead
      <4>2. CASE ~(Len(rx) < RxBytes)
        BY <2>2, <3>1, <4>2, EmptyHolds
      <4> QED  BY <4>1, <4>2
    <3>4. Len(rx') <= RxBytes
      <4>1. rx \in Seq(Fields)
        BY <1>1 DEF Holds
      <4>2. CASE Len(rx) < RxBytes
        <5>1. Len(rx') = Len(rx) + 1 /\ Len(rx) \in Nat
          BY <3>1, <3>2, <4>1, <4>2, AppendProperties
        <5> QED  BY <4>2, <5>1, RoutingAssumption
      <4>3. CASE ~(Len(rx) < RxBytes)
        BY <1>2, <3>1, <4>3
      <4> QED  BY <4>2, <4>3
    <3>5. wire' # <<>>
      <4> SUFFICES ASSUME wire' = <<>> PROVE FALSE
        OBVIOUS
      <4>1. Len(wire) = 1
        <5>1. Len(wire') = Len(wire) - 1
          BY <1>1, <2>1, WireShortens
        <5> QED  BY <2>2, <5>1
      <4>2. PICK n : n = Len(line)
        OBVIOUS
      <4>3. n \in Nat
        BY <1>1, <4>2 DEF LeftOf
      <4>4. n + 2 - 1 + 1 = n + 2
        BY <4>3
      <4>5. Head(wire) = Sent(line, n + 2)
        BY <2>2, <4>1, <4>2, <4>4
      <4>6. ~(n + 2 <= n) /\ n + 2 # n + 1
        BY <4>3
      <4> QED  BY <2>5, <4>2, <4>5, <4>6 DEF Sent
    <3> QED  BY <1>1, <2>1, <2>2, <3>1, <3>3, <3>4, <3>5 DEF RoutingInv, RoutingTypeOK, BufferInv
  <2> QED  BY <2>3, <2>4, <2>5
<1>9. CASE MqttMessage
  <2>1. PICK payload \in Lines : OnMessageReceived("mqtt", payload)
    BY <1>9 DEF MqttMessage
  <2>2. UNCHANGED <<channels, listening, line, wire, rx, linesLeft>>
    BY <1>9 DEF MqttMessage
  <2>3. routed'.outcome \in Results /\ routed'.origin = "mqtt"
    BY <2>1, Outcomes DEF OnMessageReceived
  <2> QED  BY <1>1, <2>2, <2>3 DEF RoutingInv, RoutingTypeOK, BufferInv
<1>10. CASE UNCHANGED routingVars
  BY <1>1, <1>10 DEF routingVars, RoutingInv, RoutingTypeOK, BufferInv
<1> QED  BY <1>3, <1>4, <1>5, <1>6, <1>7, <1>8, <1>9, <1>10 DEF RoutingNext

(* The invariant holds in every state of every behaviour.                    *)
LEMMA RoutingInvariant == RoutingSpec => []RoutingInv
<1>1. RoutingInv /\ [RoutingNext]_routingVars => RoutingInv'
  BY RoutingStep
<1> QED  BY <1>1, RoutingInitially, PTL DEF RoutingSpec

(* The receive buffer never holds more than its bytes, and no channel is      *)
(* registered twice or out of its order.                                      *)
THEOREM RoutingTypeCorrect == RoutingSpec => []RoutingTypeOK
<1>1. RoutingInv => RoutingTypeOK
  BY DEF RoutingInv
<1> QED  BY <1>1, RoutingInvariant, PTL

(* Wherever pump() is cut, by a full buffer, by a frame that is too long, by  *)
(* a restart or by the port being opened in the middle of a line, what it     *)
(* hands on is the end of one line.                                           *)
THEOREM LinesAreNeverSpliced == RoutingSpec => NeverSpliced
<1>1. RoutingInv /\ [RoutingNext]_routingVars
        => [(routed' # routed /\ routed'.origin = "uart")
              => EndOf(line, routed'.payload)]_routingVars
  BY RoutingStep
<1> QED  BY <1>1, RoutingInvariant, PTL DEF RoutingSpec, NeverSpliced

=============================================================================
