-------------------------- MODULE BinaryStateStore --------------------------
(***************************************************************************)
(* Persistence of the on/off state of the binary capabilities              *)
(* (EspNvsBinaryCapabilityStateProvider) and the part of                   *)
(* BinaryCommandCapability that restores from it and requests saves.       *)
(*                                                                         *)
(* The tasks that run capabilities update a desired snapshot in memory,    *)
(* under a mutex, and notify one writer task, which copies the snapshot    *)
(* out, writes and commits it to NVS without the mutex, and only then      *)
(* publishes it as committed.  The device may lose power between any two   *)
(* of these steps; the next boot reads the blob once, and that read may    *)
(* fail.  Which capabilities the firmware registers may differ from one    *)
(* boot to the next.                                                       *)
(*                                                                         *)
(* A region run under the mutex is one action.  The write, commit and      *)
(* failure counters of the diagnostics are left out; the last error they   *)
(* go with is kept.                                                        *)
(***************************************************************************)
EXTENDS Naturals, FiniteSets

CONSTANTS
  Ids,              \* identities, a pair (capability_name, type) each
  Firmwares,        \* the identities each firmware of the device registers
  NoId,             \* the identity field of an unused record
  MaxRecords,       \* MAX_RECORDS: 12 in the code
  LegacyMaxRecords  \* LEGACY_MAX_RECORDS: 8 in the code

ASSUME StoreAssumption ==
  /\ NoId \notin Ids
  /\ Firmwares \subseteq SUBSET Ids
  /\ MaxRecords \in Nat \ {0}
  /\ LegacyMaxRecords \in 1..MaxRecords

VARIABLES
  flash,       \* what NVS holds: the kind of the blob and its records
  phase,       \* of the boot: "off", "loaded" (snapshot read), "running"
  loadOk,      \* the boot's one read ended with Ok
  registered,  \* the identities the firmware of this boot registers
  stable,      \* _lastStableIsOn, or "unset" before the capability's setup()
  desired,     \* _desired
  committed,   \* _committed
  notifying,   \* callers between requestSave's unlock and its notification
  notified,    \* the writer's task notification
  writerAvailable,
  pc,          \* the writer: "none", "wait", "drain", "write", "commit", "publish"
  attempt,     \* the writer's local copy of _desired
  rc,          \* what writeAndCommit returned
  lastError

vars == <<flash, phase, loadOk, registered, stable, desired, committed,
          notifying, notified, writerAvailable, pc, attempt, rc, lastError>>

Slots     == 1..MaxRecords
States    == {"off", "on"}
Other(v)  == IF v = "on" THEN "off" ELSE "on"
Record    == [id : Ids \cup {NoId}, state : States]
Unused    == [id |-> NoId, state |-> "off"]
Snapshots == [Slots -> Record]
Empty     == [s \in Slots |-> Unused]
Kinds     == {"absent", "v3", "legacy", "invalid"}
Unset     == "unset"

(* No identity owns two records.  Nothing in the code looks for it:        *)
(* findRecordIndex returns the first, so a second one would be a value     *)
(* nobody ever reads or updates.                                           *)
Unique(snap) == \A s, t \in Slots : snap[s].id = snap[t].id /\ snap[s].id # NoId => s = t

(* findRecordIndex: the record tryGet answers from. *)
Holds(snap, id) == \E s \in Slots : snap[s].id = id
ValueOf(snap, id) == snap[CHOOSE s \in Slots : snap[s].id = id].state

(* A slip in requestSave: the first slot that fits, used or not. *)
IsFirstFit(s, snap, id) ==
  /\ snap[s].id \in {id, NoId}
  /\ \A t \in 1..(s - 1) : snap[t].id \notin {id, NoId}

(* The slot requestSave uses: the identity's own, else the first unused.   *)
IsSlotFor(s, snap, id) ==
  \/ snap[s].id = id
  \/ /\ ~ Holds(snap, id)
     /\ snap[s].id = NoId
     /\ \A t \in 1..(s - 1) : snap[t].id # NoId

Put(snap, s, id, v) == [snap EXCEPT ![s] = [id |-> id, state |-> v]]

Full(snap, id) == ~ \E s \in Slots : IsSlotFor(s, snap, id)

(* A slip in loadSnapshot: a legacy snapshot keeps its own size. *)
UsableAsStored(blob) ==
  IF blob.kind = "legacy" THEN [s \in 1..LegacyMaxRecords |-> blob.recs[s]]
  ELSE IF blob.kind = "v3" THEN blob.recs ELSE Empty

(* What loadSnapshot finds usable in the blob: a v3 snapshot, or a legacy  *)
(* one, whose records fill the first slots.                                *)
Usable(blob) == IF blob.kind \in {"v3", "legacy"} THEN blob.recs ELSE Empty

-----------------------------------------------------------------------------
(* A device may start over whatever an earlier firmware left in NVS.  That *)
(* each identity has one record in it is not what loading validates but    *)
(* what that firmware's requestSave, which is this one's, left.            *)
Blobs ==
  {b \in [kind : Kinds, recs : Snapshots] :
     /\ Unique(b.recs)
     /\ \A s \in Slots : b.recs[s].id = NoId => b.recs[s] = Unused
     /\ b.kind \in {"absent", "invalid"} => b.recs = Empty
     /\ b.kind = "legacy" => \A s \in Slots : s > LegacyMaxRecords => b.recs[s] = Unused}

Volatile ==
  /\ phase = "off"
  /\ loadOk = FALSE
  /\ registered = {}
  /\ stable = [id \in Ids |-> Unset]
  /\ desired = Empty
  /\ committed = Empty
  /\ notifying = {}
  /\ notified = FALSE
  /\ writerAvailable = FALSE
  /\ pc = "none"
  /\ attempt = Empty
  /\ rc = "Ok"
  /\ lastError = "Ok"

Init == flash \in Blobs /\ Volatile

(* Power is lost: RAM and tasks are gone, NVS stays. *)
Crash ==
  /\ phase # "off"
  /\ phase' = "off"
  /\ loadOk' = FALSE
  /\ registered' = {}
  /\ stable' = [id \in Ids |-> Unset]
  /\ desired' = Empty
  /\ committed' = Empty
  /\ notifying' = {}
  /\ notified' = FALSE
  /\ writerAvailable' = FALSE
  /\ pc' = "none"
  /\ attempt' = Empty
  /\ rc' = "Ok"
  /\ lastError' = "Ok"
  /\ UNCHANGED flash

(* A slip in loadSnapshot: records of capabilities this firmware does not  *)
(* have are left behind.                                                   *)
LoadRegistered(read, firmware) ==
  LET known == [s \in Slots |-> IF Usable(flash)[s].id \in firmware
                                   THEN Usable(flash)[s] ELSE Unused] IN
  /\ phase = "off"
  /\ phase' = "loaded"
  /\ loadOk' = (read /\ flash.kind # "invalid")
  /\ Cardinality(firmware) <= MaxRecords
  /\ desired' = IF read THEN known ELSE Empty
  /\ committed' = IF read THEN known ELSE Empty
  /\ registered' = firmware
  /\ UNCHANGED <<flash, stable, notifying, notified, writerAvailable, pc,
                 attempt, rc, lastError>>

(* loadSnapshot.  `read' is whether init, open and get_blob succeed; when  *)
(* one fails, or the blob is not valid, the cache stays empty and the boot *)
(* goes on.  The builder registers at most MAX_RECORDS capabilities.       *)
LoadSnapshot(read, firmware) ==
  /\ phase = "off"
  /\ phase' = "loaded"
  /\ loadOk' = (read /\ flash.kind # "invalid")
  /\ Cardinality(firmware) <= MaxRecords
  /\ desired' = IF read THEN Usable(flash) ELSE Empty
  /\ committed' = IF read THEN Usable(flash) ELSE Empty
  /\ registered' = firmware
  /\ UNCHANGED <<flash, stable, notifying, notified, writerAvailable, pc,
                 attempt, rc, lastError>>

(* activateWriter, whatever loadSnapshot returned.  Without memory for the *)
(* mutex or the task the writer stays unavailable for the boot.            *)
ActivateWriter(created) ==
  /\ phase = "loaded"
  /\ phase' = "running"
  /\ writerAvailable' = created
  /\ pc' = IF created THEN "wait" ELSE "none"
  /\ lastError' = IF created THEN lastError ELSE "NoMem"
  /\ UNCHANGED <<flash, loadOk, registered, stable, desired, committed,
                 notifying, notified, attempt, rc>>

(* BinaryCommandCapability::setup.  A record the adapter accepts and       *)
(* confirms by read-back becomes the state; otherwise the state is the one *)
(* the adapter reads.  Either way it is the baseline of later requests.    *)
Setup(id, confirmed, read) ==
  /\ phase = "running"
  /\ id \in registered
  /\ stable[id] = Unset
  /\ stable' = [stable EXCEPT ![id] =
                  IF Holds(committed, id) /\ confirmed
                    THEN ValueOf(committed, id) ELSE read]
  /\ UNCHANGED <<flash, phase, loadOk, registered, desired, committed,
                 notifying, notified, writerAvailable, pc, attempt, rc, lastError>>

-----------------------------------------------------------------------------
(* syncFromHardware sees a confirmed state other than the last stable one  *)
(* and requests a save.  The baseline moves before the request is made, so *)
(* a refused request is not made again for the same state.                 *)
NewStable(id) ==
  /\ phase = "running"
  /\ stable[id] # Unset
  /\ stable' = [stable EXCEPT ![id] = Other(stable[id])]
  /\ UNCHANGED <<flash, phase, loadOk, registered, committed, notified,
                 writerAvailable, pc, attempt, rc, lastError>>

(* A slip in requestSave: an identity that has a record is taken to be     *)
(* pending already, and the writer is not notified again.                  *)
RequestCoalesced(id) ==
  /\ NewStable(id)
  /\ writerAvailable
  /\ \E s \in Slots :
       /\ IsSlotFor(s, desired, id)
       /\ desired' = Put(desired, s, id, Other(stable[id]))
  /\ notifying' = IF Holds(desired, id) THEN notifying ELSE notifying \cup {id}

(* requestSave, its region under the mutex. *)
RequestSave(id) ==
  /\ NewStable(id)
  /\ writerAvailable
  /\ \E s \in Slots :
       /\ IsSlotFor(s, desired, id)
       /\ desired' = Put(desired, s, id, Other(stable[id]))
  /\ notifying' = notifying \cup {id}

(* requestSave returns InvalidState, or Overflow when no slot is left. *)
RefuseSave(id) ==
  /\ NewStable(id)
  /\ ~ writerAvailable \/ Full(desired, id)
  /\ UNCHANGED <<desired, notifying>>

(* requestSave, after the unlock. *)
NotifyWriter(id) ==
  /\ id \in notifying
  /\ notifying' = notifying \ {id}
  /\ notified' = TRUE
  /\ UNCHANGED <<flash, phase, loadOk, registered, stable, desired, committed,
                 writerAvailable, pc, attempt, rc, lastError>>

-----------------------------------------------------------------------------
WriterKeeps == UNCHANGED <<phase, loadOk, registered, stable, desired,
                           notifying, writerAvailable>>

(* ulTaskNotifyTake(pdTRUE, portMAX_DELAY) *)
TakeNotification ==
  /\ pc = "wait"
  /\ notified
  /\ notified' = FALSE
  /\ pc' = "drain"
  /\ WriterKeeps
  /\ UNCHANGED <<flash, committed, attempt, rc, lastError>>

(* The head of the drain loop: nothing pending, or a copy to write. *)
Drain ==
  /\ pc = "drain"
  /\ IF desired = committed
       THEN pc' = "wait" /\ UNCHANGED attempt
       ELSE pc' = "write" /\ attempt' = desired
  /\ WriterKeeps
  /\ UNCHANGED <<flash, committed, notified, rc, lastError>>

(* writeAndCommit: nvs_open and nvs_set_blob, then nvs_commit.  Only a     *)
(* commit that succeeds changes what NVS holds after a reboot.             *)
WriteBlob(ok) ==
  /\ pc = "write"
  /\ pc' = IF ok THEN "commit" ELSE "publish"
  /\ rc' = IF ok THEN rc ELSE "StorageFail"
  /\ WriterKeeps
  /\ UNCHANGED <<flash, committed, notified, attempt, lastError>>

(* A slip in writeAndCommit: the live snapshot is written, not the copy. *)
CommitLive(ok) ==
  /\ pc = "commit"
  /\ pc' = "publish"
  /\ rc' = IF ok THEN "Ok" ELSE "StorageFail"
  /\ flash' = IF ok THEN [kind |-> "v3", recs |-> desired] ELSE flash
  /\ WriterKeeps
  /\ UNCHANGED <<committed, notified, attempt, lastError>>

CommitBlob(ok) ==
  /\ pc = "commit"
  /\ pc' = "publish"
  /\ rc' = IF ok THEN "Ok" ELSE "StorageFail"
  /\ flash' = IF ok THEN [kind |-> "v3", recs |-> attempt] ELSE flash
  /\ WriterKeeps
  /\ UNCHANGED <<committed, notified, attempt, lastError>>

(* Slips in the writer task: it publishes the live snapshot, or forgets    *)
(* the failure.                                                            *)
PublishLive ==
  /\ pc = "publish"
  /\ lastError' = rc
  /\ rc' = "Ok"
  /\ IF rc = "Ok"
       THEN committed' = desired /\ pc' = "drain"
       ELSE UNCHANGED committed /\ pc' = "wait"
  /\ WriterKeeps
  /\ UNCHANGED <<flash, notified, attempt>>

PublishSilently ==
  /\ pc = "publish"
  /\ rc' = "Ok"
  /\ IF rc = "Ok"
       THEN committed' = attempt /\ pc' = "drain"
       ELSE UNCHANGED committed /\ pc' = "wait"
  /\ WriterKeeps
  /\ UNCHANGED <<flash, notified, attempt, lastError>>

(* Back under the mutex: a failure ends the drain until a notification. *)
Publish ==
  /\ pc = "publish"
  /\ lastError' = rc
  /\ rc' = "Ok"
  /\ IF rc = "Ok"
       THEN committed' = attempt /\ pc' = "drain"
       ELSE UNCHANGED committed /\ pc' = "wait"
  /\ WriterKeeps
  /\ UNCHANGED <<flash, notified, attempt>>

-----------------------------------------------------------------------------
Boot ==
  \/ \E read \in BOOLEAN, firmware \in Firmwares : LoadSnapshot(read, firmware)
  \/ \E created \in BOOLEAN : ActivateWriter(created)

Capability(id) ==
  \/ \E confirmed \in BOOLEAN, read \in States : Setup(id, confirmed, read)
  \/ RequestSave(id)
  \/ RefuseSave(id)

Writer ==
  \/ TakeNotification
  \/ Drain
  \/ \E ok \in BOOLEAN : WriteBlob(ok)
  \/ \E ok \in BOOLEAN : CommitBlob(ok)
  \/ Publish

Next ==
  \/ Crash
  \/ Boot
  \/ \E id \in Ids : Capability(id)
  \/ \E id \in Ids : NotifyWriter(id)
  \/ Writer

(* The scheduler runs the writer task while it is ready and lets a caller  *)
(* that has unlocked reach its notification.  Nothing makes NVS succeed.   *)
Fairness == WF_vars(Writer) /\ \A id \in Ids : WF_vars(NotifyWriter(id))

Spec == Init /\ [][Next]_vars /\ Fairness

-----------------------------------------------------------------------------
Wants(id, v)    == Holds(desired, id) /\ ValueOf(desired, id) = v
Persists(id, v) == Holds(committed, id) /\ ValueOf(committed, id) = v

(* Type invariant of the provider, the writer task and NVS. *)
TypeOK ==
  /\ flash \in [kind : Kinds, recs : Snapshots]
  /\ phase \in {"off", "loaded", "running"}
  /\ loadOk \in BOOLEAN
  /\ registered \in SUBSET Ids
  /\ stable \in [Ids -> States \cup {Unset}]
  /\ desired \in Snapshots
  /\ committed \in Snapshots
  /\ notifying \in SUBSET Ids
  /\ notified \in BOOLEAN
  /\ writerAvailable \in BOOLEAN
  /\ pc \in {"none", "wait", "drain", "write", "commit", "publish"}
  /\ attempt \in Snapshots
  /\ rc \in {"Ok", "StorageFail"}
  /\ lastError \in {"Ok", "StorageFail", "NoMem"}

(* No snapshot, in memory or in NVS, ever gives one identity two records,  *)
(* whatever firmwares have used the device (findRecordIndex stops at the   *)
(* first match, so a duplicate would hold a stale value).                  *)
UniqueRecords ==
  /\ Unique(desired)
  /\ Unique(committed)
  /\ Unique(attempt)
  /\ Unique(flash.recs)

(* tryGet answers from what survives a reboot: after a good read, the      *)
(* committed snapshot is the one in NVS at every moment but the one        *)
(* between a successful commit and its publication.                        *)
CommittedIsDurable ==
  loadOk =>
    \/ committed = Usable(flash)
    \/ pc = "publish" /\ rc = "Ok" /\ attempt = Usable(flash)

(* No wake-up is lost: when the writer sleeps with nobody about to notify  *)
(* it, every requested state is committed or the last write failed.        *)
NoLostWakeup ==
  (pc = "wait" /\ ~ notified /\ notifying = {} /\ desired # committed)
    => lastError # "Ok"

(* A record that a good boot found in NVS is never lost in that boot: no   *)
(* write drops an identity whose record it had read (an identity this      *)
(* firmware does not register included).                                   *)
RecordsKept ==
  [][loadOk => \A id \in Ids : Holds(Usable(flash), id) => Holds(Usable(flash)', id)]_vars

(* What the specification says of every reboot after a successful commit:  *)
(* the confirmed record is there to be restored.                           *)
ConfirmedRecordSurvives ==
  [][\A id \in Ids : Holds(Usable(flash), id) => Holds(Usable(flash)', id)]_vars

(* No requested state is forgotten: one that stays the desired state of its *)
(* identity gets committed, or its failure shows in the status, unless     *)
(* power is lost, however often the other capabilities change.             *)
RequestResolves ==
  \A id \in Ids, v \in States :
    (Wants(id, v) /\ ~ Persists(id, v))
      ~> (Persists(id, v) \/ ~ Wants(id, v) \/ lastError # "Ok")

-----------------------------------------------------------------------------
(* The store implements DurableState: a snapshot stands for the picture of *)
(* its records.                                                            *)
Picture(snap) ==
  [id \in Ids |-> IF Holds(snap, id) THEN ValueOf(snap, id) ELSE "none"]

Durable == INSTANCE DurableState WITH
  durable <- Picture(Usable(flash)),
  wanted  <- Picture(desired),
  writing <- IF pc \in {"write", "commit"} THEN {Picture(attempt)} ELSE {}

(* Every step of the provider, its callers, its writer and the power is a  *)
(* step of DurableState or changes nothing it shows: NVS only ever holds a *)
(* picture the capabilities wanted at one instant.                         *)
ImplementsDurableState == Durable!Spec
=============================================================================
