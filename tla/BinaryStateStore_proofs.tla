----------------------- MODULE BinaryStateStore_proofs -----------------------
(* Proofs that the properties of BinaryStateStore hold for any identities   *)
(* and any number of records.                                               *)
EXTENDS BinaryStateStore, TLAPS

-----------------------------------------------------------------------------
(* Lemmas about snapshots. *)

(* The empty snapshot, and what a boot finds usable, are well formed. *)
LEMMA EmptyOK == Empty \in Snapshots /\ Unique(Empty) /\ \A id \in Ids : ~ Holds(Empty, id)
BY StoreAssumption DEF Empty, Snapshots, Record, Unused, States, Unique, Holds

LEMMA UsableOK ==
  ASSUME NEW blob \in [kind : Kinds, recs : Snapshots], Unique(blob.recs)
  PROVE  Usable(blob) \in Snapshots /\ Unique(Usable(blob))
BY EmptyOK DEF Usable

(* In a snapshot without duplicates, an identity's value is the one of any  *)
(* record of its own.                                                       *)
LEMMA ValueOfRecord ==
  ASSUME NEW snap \in Snapshots, Unique(snap),
         NEW id \in Ids, NEW s \in Slots, snap[s].id = id
  PROVE  Holds(snap, id) /\ ValueOf(snap, id) = snap[s].state
<1> DEFINE t == CHOOSE x \in Slots : snap[x].id = id
<1>1. t \in Slots /\ snap[t].id = id
  OBVIOUS
<1>2. t = s
  BY <1>1, StoreAssumption DEF Unique
<1>3. QED
  BY <1>2 DEF Holds, ValueOf

LEMMA ValueOfState ==
  ASSUME NEW snap \in Snapshots, NEW id \in Ids, Holds(snap, id)
  PROVE  ValueOf(snap, id) \in States
<1> DEFINE t == CHOOSE x \in Slots : snap[x].id = id
<1>1. t \in Slots
  BY DEF Holds
<1>2. QED
  BY <1>1 DEF ValueOf, Snapshots, Record

(* What requestSave does to the desired snapshot: it stays without          *)
(* duplicates, it holds the new value, and no other identity is disturbed.  *)
LEMMA SlotUpdate ==
  ASSUME NEW snap \in Snapshots, Unique(snap),
         NEW id \in Ids, NEW v \in States,
         NEW s \in Slots, IsSlotFor(s, snap, id)
  PROVE  /\ Put(snap, s, id, v) \in Snapshots
         /\ Unique(Put(snap, s, id, v))
         /\ Holds(Put(snap, s, id, v), id)
         /\ ValueOf(Put(snap, s, id, v), id) = v
         /\ \A j \in Ids \ {id} :
              /\ Holds(Put(snap, s, id, v), j) <=> Holds(snap, j)
              /\ Holds(snap, j) => ValueOf(Put(snap, s, id, v), j) = ValueOf(snap, j)
<1> DEFINE new == Put(snap, s, id, v)
<1>1. new \in Snapshots
  BY DEF Snapshots, Record, Put
<1>2. new[s].id = id /\ new[s].state = v
  BY DEF Snapshots, Put
<1>3. \A t \in Slots \ {s} : new[t] = snap[t] /\ snap[t].id # id
  BY StoreAssumption DEF Snapshots, IsSlotFor, Unique, Holds, Put
<1> HIDE DEF new
<1>4. Unique(new)
  BY <1>2, <1>3 DEF Unique
<1>5. snap[s].id \in {id, NoId}
  BY DEF IsSlotFor
<1>6. ASSUME NEW j \in Ids \ {id}
      PROVE  /\ Holds(new, j) <=> Holds(snap, j)
             /\ Holds(snap, j) => ValueOf(new, j) = ValueOf(snap, j)
  <2>1. \A t \in Slots : new[t].id = j <=> snap[t].id = j
    BY <1>2, <1>3, <1>5, StoreAssumption
  <2>2. Holds(new, j) <=> Holds(snap, j)
    BY <2>1 DEF Holds
  <2>3. ASSUME Holds(snap, j)
        PROVE  ValueOf(new, j) = ValueOf(snap, j)
    <3>1. PICK t \in Slots : snap[t].id = j
      BY <2>3 DEF Holds
    <3>2. t # s /\ new[t].id = j
      BY <2>1, <3>1, <1>2
    <3>3. ValueOf(snap, j) = snap[t].state
      BY <3>1, ValueOfRecord
    <3>4. ValueOf(new, j) = new[t].state
      BY <3>2, <1>1, <1>4, ValueOfRecord
    <3>5. QED
      BY <3>2, <3>3, <3>4, <1>3
  <2>4. QED
    BY <2>2, <2>3
<1>7. Holds(new, id) /\ ValueOf(new, id) = v
  BY <1>1, <1>2, <1>4, ValueOfRecord
<1>8. QED
  BY <1>1, <1>4, <1>6, <1>7 DEF new

-----------------------------------------------------------------------------
(* The inductive invariant.  NoLostWakeup and CommittedIsDurable are not    *)
(* inductive by themselves: they need that before the writer runs nothing   *)
(* is pending, and that a commit the writer has yet to publish is the       *)
(* snapshot NVS holds.                                                      *)

Staged ==
  /\ pc # "publish" => rc = "Ok"
  /\ (pc = "publish" /\ rc = "Ok") => attempt = Usable(flash)

Phases ==
  /\ phase # "running" => (pc = "none" /\ desired = committed)
  /\ phase = "off" => (~ loadOk /\ desired = Empty)

(* After a good read, no snapshot on its way to NVS lacks a record of NVS;  *)
(* a snapshot being written has no record the desired one lacks.            *)
Covers ==
  \A id \in Ids :
    /\ (loadOk /\ Holds(Usable(flash), id)) =>
         /\ Holds(desired, id)
         /\ pc \in {"write", "commit", "publish"} => Holds(attempt, id)
    /\ (pc \in {"write", "commit", "publish"} /\ Holds(attempt, id))
         => Holds(desired, id)

IInv ==
  /\ TypeOK
  /\ UniqueRecords
  /\ CommittedIsDurable
  /\ NoLostWakeup
  /\ Staged
  /\ Phases
  /\ Covers

LEMMA InitIInv == Init => IInv
<1> SUFFICES ASSUME Init PROVE IInv
  OBVIOUS
<1> USE DEF Init, Volatile
<1>1. flash \in [kind : Kinds, recs : Snapshots] /\ Unique(flash.recs)
  BY DEF Blobs
<1>2. TypeOK
  BY <1>1, EmptyOK DEF TypeOK, Unset
<1>3. UniqueRecords
  BY <1>1, EmptyOK DEF UniqueRecords
<1>4. CommittedIsDurable /\ NoLostWakeup /\ Staged /\ Phases /\ Covers
  BY DEF CommittedIsDurable, NoLostWakeup, Staged, Phases, Covers
<1>5. QED
  BY <1>2, <1>3, <1>4 DEF IInv

-----------------------------------------------------------------------------
(* One lemma for each kind of step. *)

LEMMA CrashIInv == ASSUME IInv, Crash PROVE IInv'
<1> USE DEF Crash
<1>1. TypeOK'
  BY EmptyOK DEF IInv, TypeOK, Unset
<1>2. UniqueRecords'
  BY EmptyOK DEF IInv, UniqueRecords
<1>3. CommittedIsDurable' /\ NoLostWakeup' /\ Staged' /\ Phases' /\ Covers'
  BY DEF CommittedIsDurable, NoLostWakeup, Staged, Phases, Covers
<1>4. QED
  BY <1>1, <1>2, <1>3 DEF IInv

LEMMA LoadIInv ==
  ASSUME IInv, NEW read \in BOOLEAN, NEW firmware \in Firmwares,
         LoadSnapshot(read, firmware)
  PROVE  IInv'
<1> USE DEF LoadSnapshot
<1>1. Usable(flash) \in Snapshots /\ Unique(Usable(flash))
  BY UsableOK DEF IInv, TypeOK, UniqueRecords
<1>2. pc = "none" /\ rc = "Ok"
  BY DEF IInv, Phases, Staged
<1>3. TypeOK'
  BY <1>1, EmptyOK, StoreAssumption DEF IInv, TypeOK
<1>4. UniqueRecords'
  BY <1>1, EmptyOK DEF IInv, UniqueRecords
<1>5. CommittedIsDurable' /\ NoLostWakeup' /\ Staged' /\ Phases' /\ Covers'
  BY <1>2 DEF CommittedIsDurable, NoLostWakeup, Staged, Phases, Covers
<1>6. QED
  BY <1>3, <1>4, <1>5 DEF IInv

LEMMA ActivateIInv ==
  ASSUME IInv, NEW created \in BOOLEAN, ActivateWriter(created)
  PROVE  IInv'
<1> USE DEF ActivateWriter
<1>1. pc = "none" /\ desired = committed
  BY DEF IInv, Phases
<1>2. TypeOK'
  BY DEF IInv, TypeOK
<1>3. UniqueRecords' /\ Staged' /\ Phases'
  BY <1>1 DEF IInv, UniqueRecords, Staged, Phases
<1>4. CommittedIsDurable' /\ NoLostWakeup' /\ Covers'
  BY <1>1 DEF IInv, CommittedIsDurable, NoLostWakeup, Covers
<1>5. QED
  BY <1>2, <1>3, <1>4 DEF IInv

LEMMA SetupIInv ==
  ASSUME IInv, NEW id \in Ids, NEW confirmed \in BOOLEAN, NEW read \in States,
         Setup(id, confirmed, read)
  PROVE  IInv'
<1> USE DEF Setup
<1>1. TypeOK'
  BY ValueOfState DEF IInv, TypeOK
<1>2. UniqueRecords' /\ CommittedIsDurable' /\ NoLostWakeup' /\ Staged' /\ Phases' /\ Covers'
  BY DEF IInv, UniqueRecords, CommittedIsDurable, NoLostWakeup, Staged, Phases, Covers
<1>3. QED
  BY <1>1, <1>2 DEF IInv

LEMMA NewState == ASSUME TypeOK, NEW id \in Ids, NewStable(id)
                  PROVE  /\ Other(stable[id]) \in States
                         /\ stable' \in [Ids -> States \cup {Unset}]
BY DEF TypeOK, NewStable, Other, States

LEMMA RequestIInv == ASSUME IInv, NEW id \in Ids, RequestSave(id) PROVE IInv'
<1> USE DEF RequestSave, NewStable
<1> DEFINE v == Other(stable[id])
<1>1. v \in States /\ stable' \in [Ids -> States \cup {Unset}]
  BY NewState DEF IInv
<1>2. PICK s \in Slots : IsSlotFor(s, desired, id) /\ desired' = Put(desired, s, id, v)
  OBVIOUS
<1>3. desired \in Snapshots /\ Unique(desired)
  BY DEF IInv, TypeOK, UniqueRecords
<1>4. desired' \in Snapshots /\ Unique(desired')
  BY <1>1, <1>2, <1>3, SlotUpdate
<1>5. \A j \in Ids : Holds(desired, j) => Holds(desired', j)
  BY <1>1, <1>2, <1>3, SlotUpdate
<1>6. TypeOK'
  BY <1>1, <1>4 DEF IInv, TypeOK
<1>7. UniqueRecords'
  BY <1>4 DEF IInv, UniqueRecords
<1>8. CommittedIsDurable' /\ NoLostWakeup' /\ Staged' /\ Phases'
  BY DEF IInv, CommittedIsDurable, NoLostWakeup, Staged, Phases
<1>9. Covers'
  BY <1>5 DEF IInv, Covers
<1>10. QED
  BY <1>6, <1>7, <1>8, <1>9 DEF IInv

LEMMA RefuseIInv == ASSUME IInv, NEW id \in Ids, RefuseSave(id) PROVE IInv'
<1> USE DEF RefuseSave, NewStable
<1>1. TypeOK'
  BY NewState DEF IInv, TypeOK
<1>2. UniqueRecords' /\ CommittedIsDurable' /\ NoLostWakeup' /\ Staged' /\ Phases' /\ Covers'
  BY DEF IInv, UniqueRecords, CommittedIsDurable, NoLostWakeup, Staged, Phases, Covers
<1>3. QED
  BY <1>1, <1>2 DEF IInv

LEMMA NotifyIInv == ASSUME IInv, NEW id \in Ids, NotifyWriter(id) PROVE IInv'
<1> USE DEF NotifyWriter
<1>1. TypeOK'
  BY DEF IInv, TypeOK
<1>2. UniqueRecords' /\ CommittedIsDurable' /\ NoLostWakeup' /\ Staged' /\ Phases' /\ Covers'
  BY DEF IInv, UniqueRecords, CommittedIsDurable, NoLostWakeup, Staged, Phases, Covers
<1>3. QED
  BY <1>1, <1>2 DEF IInv

LEMMA WriterIInv == ASSUME IInv, Writer PROVE IInv'
<1> USE DEF WriterKeeps
<1>1. CASE TakeNotification
  BY <1>1 DEF TakeNotification, IInv, TypeOK, UniqueRecords, CommittedIsDurable,
              NoLostWakeup, Staged, Phases, Covers
<1>2. CASE Drain
  BY <1>2 DEF Drain, IInv, TypeOK, UniqueRecords, CommittedIsDurable,
              NoLostWakeup, Staged, Phases, Covers
<1>3. ASSUME NEW ok \in BOOLEAN, WriteBlob(ok) PROVE IInv'
  BY <1>3 DEF WriteBlob, IInv, TypeOK, UniqueRecords, CommittedIsDurable,
              NoLostWakeup, Staged, Phases, Covers
<1>4. ASSUME NEW ok \in BOOLEAN, CommitBlob(ok) PROVE IInv'
  <2> USE <1>4 DEF CommitBlob
  <2>1. CASE ok
    <3>1. flash' = [kind |-> "v3", recs |-> attempt] /\ Usable(flash)' = attempt
      BY <2>1 DEF Usable
    <3>2. TypeOK'
      BY <2>1, <3>1 DEF IInv, TypeOK, Kinds
    <3>3. UniqueRecords'
      BY <3>1 DEF IInv, UniqueRecords
    <3>4. CommittedIsDurable' /\ NoLostWakeup' /\ Staged' /\ Phases'
      BY <2>1, <3>1 DEF IInv, CommittedIsDurable, NoLostWakeup, Staged, Phases
    <3>5. Covers'
      BY <3>1 DEF IInv, Covers
    <3>6. QED
      BY <3>2, <3>3, <3>4, <3>5 DEF IInv
  <2>2. CASE ~ ok
    BY <2>2 DEF IInv, TypeOK, UniqueRecords, CommittedIsDurable,
                NoLostWakeup, Staged, Phases, Covers
  <2>3. QED
    BY <2>1, <2>2
<1>5. CASE Publish
  BY <1>5 DEF Publish, IInv, TypeOK, UniqueRecords, CommittedIsDurable,
              NoLostWakeup, Staged, Phases, Covers
<1>6. QED
  BY <1>1, <1>2, <1>3, <1>4, <1>5 DEF Writer

LEMMA NextIInv == ASSUME IInv, [Next]_vars PROVE IInv'
<1>1. CASE UNCHANGED vars
  BY <1>1 DEF vars, IInv, TypeOK, UniqueRecords, CommittedIsDurable,
              NoLostWakeup, Staged, Phases, Covers
<1>2. CASE Crash
  BY <1>2, CrashIInv
<1>3. CASE Boot
  BY <1>3, LoadIInv, ActivateIInv DEF Boot
<1>4. ASSUME NEW id \in Ids, Capability(id) PROVE IInv'
  BY <1>4, SetupIInv, RequestIInv, RefuseIInv DEF Capability
<1>5. ASSUME NEW id \in Ids, NotifyWriter(id) PROVE IInv'
  BY <1>5, NotifyIInv
<1>6. CASE Writer
  BY <1>6, WriterIInv
<1>7. QED
  BY <1>1, <1>2, <1>3, <1>4, <1>5, <1>6 DEF Next

THEOREM Invariance == Spec => []IInv
BY InitIInv, NextIInv, PTL DEF Spec

-----------------------------------------------------------------------------
(* The provider, its callers, its writer and NVS keep to their types.       *)
THEOREM TypeCorrect == Spec => []TypeOK
BY Invariance, PTL DEF IInv

(* No identity ever owns two records, in memory or in NVS, whatever sequence *)
(* of firmwares, saves and power losses the device has been through.         *)
THEOREM RecordsAreUnique == Spec => []UniqueRecords
BY Invariance, PTL DEF IInv

(* tryGet answers from the snapshot a reboot would find.                     *)
THEOREM CommittedDurable == Spec => []CommittedIsDurable
BY Invariance, PTL DEF IInv

(* The writer never sleeps on a pending state unless its last write failed.  *)
THEOREM WakeupNotLost == Spec => []NoLostWakeup
BY Invariance, PTL DEF IInv

(* After a good read, no step of the boot removes an identity from NVS.      *)
THEOREM GoodBootKeepsRecords == Spec => RecordsKept
<1>1. ASSUME IInv, [Next]_vars
      PROVE  [loadOk => \A id \in Ids : Holds(Usable(flash), id) => Holds(Usable(flash)', id)]_vars
  <2>1. CASE UNCHANGED flash
    BY <2>1 DEF Usable
  <2>2. ASSUME NEW ok \in BOOLEAN, CommitBlob(ok), ok
        PROVE  loadOk => \A id \in Ids : Holds(Usable(flash), id) => Holds(Usable(flash)', id)
    <3>1. pc = "commit" /\ Usable(flash)' = attempt
      BY <2>2 DEF CommitBlob, Usable
    <3>2. QED
      BY <1>1, <3>1 DEF IInv, Covers
  <2>3. [Next]_vars => UNCHANGED flash \/ \E ok \in BOOLEAN : CommitBlob(ok) /\ ok
    BY DEF vars, Next, Crash, Boot, LoadSnapshot, ActivateWriter, Capability, Setup,
           RequestSave, RefuseSave, NewStable, NotifyWriter, Writer, TakeNotification,
           Drain, WriteBlob, CommitBlob, Publish
  <2>4. QED
    BY <1>1, <2>1, <2>2, <2>3
<1>2. QED
  BY Invariance, <1>1, PTL DEF Spec, RecordsKept

-----------------------------------------------------------------------------
(* The store implements the abstract specification.                         *)

LEMMA PictureOfEmpty == Picture(Empty) = Durable!Blank
BY EmptyOK DEF Picture, Durable!Blank, Durable!None

LEMMA PictureOK ==
  ASSUME NEW snap \in Snapshots
  PROVE  Picture(snap) \in Durable!Pictures
BY ValueOfState DEF Picture, Durable!Pictures, Durable!None

LEMMA PictureOfPut ==
  ASSUME NEW snap \in Snapshots, Unique(snap), NEW id \in Ids, NEW v \in States,
         NEW s \in Slots, IsSlotFor(s, snap, id)
  PROVE  Picture(Put(snap, s, id, v)) = [Picture(snap) EXCEPT ![id] = v]
<1>1. \A j \in Ids : Picture(Put(snap, s, id, v))[j] = [Picture(snap) EXCEPT ![id] = v][j]
  BY SlotUpdate DEF Picture
<1>2. QED
  BY <1>1 DEF Picture

LEMMA StepRefines ==
  ASSUME IInv, IInv', [Next]_vars
  PROVE  [Durable!Next]_<<Picture(Usable(flash)), Picture(desired),
                          IF pc \in {"write", "commit"} THEN {Picture(attempt)} ELSE {}>>
<1> DEFINE W == IF pc \in {"write", "commit"} THEN {Picture(attempt)} ELSE {}
<1>1. Crash => Durable!Next
  BY PictureOfEmpty DEF Crash, Durable!Next, Durable!PowerLoss, Usable
<1> DEFINE Same == UNCHANGED <<Picture(Usable(flash)), Picture(desired), W>>
<1>2. ASSUME NEW read \in BOOLEAN, NEW firmware \in Firmwares, LoadSnapshot(read, firmware)
      PROVE  Durable!Start \/ Same
  <2>1. pc = "none" /\ pc' = "none" /\ desired = Empty
    BY <1>2 DEF LoadSnapshot, IInv, Phases
  <2>2. CASE read
    BY <1>2, <2>1, <2>2, PictureOfEmpty DEF LoadSnapshot, Durable!Start, Usable
  <2>3. CASE ~ read
    BY <1>2, <2>1, <2>3 DEF LoadSnapshot, Usable, Picture
  <2>4. QED
    BY <2>2, <2>3
<1>3. ASSUME NEW id \in Ids, RequestSave(id) PROVE Durable!Want(id, Other(stable[id]))
  <2> DEFINE v == Other(stable[id])
  <2>1. PICK s \in Slots : IsSlotFor(s, desired, id) /\ desired' = Put(desired, s, id, v)
    BY <1>3 DEF RequestSave
  <2>2. v \in States
    BY <1>3, NewState DEF RequestSave, IInv
  <2> HIDE DEF v
  <2>5. Picture(Put(desired, s, id, v)) = [Picture(desired) EXCEPT ![id] = v]
    BY <2>1, <2>2, PictureOfPut DEF IInv, TypeOK, UniqueRecords
  <2>3. Picture(desired)' = [Picture(desired) EXCEPT ![id] = v]
    BY <2>1, <2>5
  <2>4. QED
    BY <1>3, <2>3 DEF RequestSave, NewStable, Durable!Want, Usable, v
<1>4. Writer => Durable!Next \/ Same
  <2> SUFFICES ASSUME Writer PROVE Durable!Next \/ Same
    OBVIOUS
  <2>1. CASE TakeNotification
    BY <2>1 DEF TakeNotification, WriterKeeps, Picture, Usable
  <2>2. CASE Drain
    BY <2>2 DEF Drain, WriterKeeps, Picture, Usable, Durable!Next, Durable!Take
  <2>3. ASSUME NEW ok \in BOOLEAN, WriteBlob(ok) PROVE Durable!Abandon \/ Same
    BY <2>3 DEF WriteBlob, WriterKeeps, Picture, Usable, Durable!Abandon
  <2>4. ASSUME NEW ok \in BOOLEAN, CommitBlob(ok) PROVE Durable!Abandon \/ Durable!Commit
    BY <2>4 DEF CommitBlob, WriterKeeps, Picture, Usable, Durable!Abandon, Durable!Commit
  <2>5. CASE Publish
    BY <2>5 DEF Publish, WriterKeeps, Picture, Usable
  <2>6. QED
    BY <2>1, <2>2, <2>3, <2>4, <2>5 DEF Writer, Durable!Next
<1>5. ASSUME NEW id \in Ids, Capability(id) \/ NotifyWriter(id), ~ RequestSave(id)
      PROVE  Same
  BY <1>5 DEF Capability, Setup, RefuseSave, NewStable, NotifyWriter, Picture, Usable
<1>6. \A id \in Ids : RequestSave(id) => Durable!Next
  BY <1>3, NewState DEF Durable!Next, RequestSave, IInv
<1>7. ASSUME NEW created \in BOOLEAN, ActivateWriter(created) PROVE Same
  BY <1>7 DEF ActivateWriter, Picture, Usable, IInv, Phases
<1>8. UNCHANGED vars => Same
  BY DEF vars, Picture, Usable
<1> HIDE DEF Same
<1>9. Boot => Durable!Start \/ Same
  BY <1>2, <1>7 DEF Boot
<1>10. Durable!Next \/ Same
  BY <1>1, <1>4, <1>5, <1>6, <1>8, <1>9 DEF Next, Capability, Durable!Next
<1>11. QED
  BY <1>10 DEF Same

THEOREM StoreImplementsDurableState == Spec => ImplementsDurableState
<1>1. Init => Durable!Init
  <2> SUFFICES ASSUME Init PROVE Durable!Init
    OBVIOUS
  <2>1. flash \in [kind : Kinds, recs : Snapshots] /\ Unique(flash.recs)
    BY DEF Init, Blobs
  <2>2. Picture(Usable(flash)) \in Durable!Pictures
    BY <2>1, UsableOK, PictureOK
  <2>3. QED
    BY <2>2, PictureOfEmpty DEF Init, Volatile, Durable!Init
<1>2. QED
  BY <1>1, Invariance, StepRefines, PTL DEF Spec, ImplementsDurableState, Durable!Spec
=============================================================================
