------------------------- MODULE SettingsSync_proofs -------------------------
(* Proofs about SettingsSync: what memory, NVS and the server agree on,       *)
(* whatever the tasks, losses of power and resets do in between.              *)
EXTENDS SettingsSync, TLAPS

Stored == [present : BOOLEAN, val : Settings]
Registered(s) == [s EXCEPT !.registered = TRUE]

\* TypeOK in two parts, what is stored or sent and how far each task is.
DataTyped ==
  /\ flash \in Stored /\ current \in Settings /\ regSnapshot \in Settings
  /\ taken \in Answers /\ pending \in Answers

Labels == {"handle", "clear", "apply", "save", "finish", "sync",
           "start", "check", "register", "persist", "attempt", "transport", "restart"}
ControlTyped ==
  /\ phase \in {"off", "provisioning", "running"}
  /\ state \in {"Idle", "LoadedFromCache", "FetchingFromApi", "Ready", "Error"}
  /\ level \in 0..3
  /\ network \in {"down", "gotIp", "ready"}
  /\ pc \in Labels
  /\ fetch \in {"none", "http", "written", "published"}
  /\ reg \in {"none", "http", "ok", "failed"}
  /\ reset \in {"none", "erased", "cleared", "kept"}

FlagsTyped ==
  /\ hasCurrent \in BOOLEAN /\ isChanged \in BOOLEAN /\ syncDue \in BOOLEAN /\ failing \in BOOLEAN
  /\ saveFailed \in BOOLEAN /\ hasPending \in BOOLEAN /\ regDue \in BOOLEAN
  /\ registered \in BOOLEAN /\ started \in BOOLEAN /\ accepted \in BOOLEAN

\* A boot begins with nothing, and only a running device is reset.
Fresh ==
  /\ phase = "off" =>
       current = Blank /\ ~hasCurrent /\ ~saveFailed /\ reset = "none" /\ pc = "handle"
         /\ reg = "none"
  /\ phase = "provisioning" => pc \in {"handle", "restart"}
  /\ reset # "none" => phase = "running"

\* Whatever says that the device is registered, or will say so, is right.
ServerKnows ==
  flash.val.registered \/ current.registered \/ reg = "ok" \/ pc = "persist" => accepted

\* What a reboot would read of `f' has all that memory has in `s'.
Covers(f, s) ==
  /\ f.present /\ [f.val EXCEPT !.rest = s.rest] = s
  /\ s.rest # NoRest => f.val.rest = s.rest

\* The device runs, and no factory reset has erased NVS.
Running == phase = "running" /\ reset \in {"none", "kept"}

\* A running device has credentials, and a registration in flight knows what
\* memory does, unless an answer has changed that and will restart the device.
MemoryKnown ==
  Running =>
    /\ hasCurrent /\ current.net
    /\ pc = "save" => isChanged
    /\ reg # "none" /\ pc \notin {"save", "restart"} /\ (pc = "finish" => ~isChanged)
         => regSnapshot = current
    /\ pc = "persist" => reg = "none" /\ Registered(regSnapshot) = current

\* NVS has what memory has, or a save is about to bring it there.
NvsFollows ==
  Running /\ ~saveFailed =>
    /\ current.mqtt = NoMqtt => flash.val.mqtt = NoMqtt
    /\ pc \notin {"save", "persist"} => Covers(flash, current)

Typed == DataTyped /\ ControlTyped /\ FlagsTyped

IInv == Typed /\ FetchAccountedFor /\ Fresh /\ ServerKnows /\ MemoryKnown /\ NvsFollows

-----------------------------------------------------------------------------
(* Merging and storing settings *)

(* Merged settings are settings, registered only if one of the two was, and   *)
(* keep credentials and a broker.                                             *)
LEMMA ApplyTyped ==
  ASSUME NEW s \in Settings, NEW o \in Settings
  PROVE  /\ ApplyChanges(s, o) \in Settings
         /\ ApplyChanges(s, o).registered => s.registered \/ o.registered
         /\ s.net => ApplyChanges(s, o).net
         /\ ApplyChanges(s, o).mqtt = NoMqtt => s.mqtt = NoMqtt
BY DEF ApplyChanges, Settings

(* Settings merged with a registered copy of themselves are that copy.        *)
LEMMA ApplyRegistered ==
  ASSUME NEW s \in Settings
  PROVE  ApplyChanges(s, Registered(s)) = Registered(s)
<1> DEFINE r == Registered(s)
           a == ApplyChanges(s, r)
<1>1. /\ r \in Settings /\ r.registered = TRUE
      /\ r.net = s.net /\ r.config = s.config /\ r.mqtt = s.mqtt /\ r.rest = s.rest
  BY DEF Registered, Settings
<1> HIDE DEF r
<1>2. a \in Settings
  BY <1>1, ApplyTyped
<1>3. a.net = r.net /\ a.registered = r.registered
  BY <1>1 DEF ApplyChanges, Settings
<1>4. a.config = r.config /\ a.mqtt = r.mqtt /\ a.rest = r.rest
  BY <1>1 DEF ApplyChanges, Settings
<1> HIDE DEF a
<1>5. a = r
  BY <1>1, <1>2, <1>3, <1>4 DEF Settings
<1> QED  BY <1>5 DEF r, a

(* What is stored is settings, registered as what was to be stored, and has   *)
(* all of it, unless NVS had more.                                            *)
LEMMA StoreTyped ==
  ASSUME NEW f \in Stored, NEW s \in Settings
  PROVE  /\ Store(f, s) \in Stored
         /\ Store(f, s).val.registered = s.registered
         /\ s.net => Store(f, s).val.net
         /\ s.net /\ (s.mqtt = NoMqtt => f.val.mqtt = NoMqtt) => Covers(Store(f, s), s)
<1>1. f.val \in Settings
  BY DEF Stored
<1>2. Store(f, s).val \in Settings
  BY <1>1 DEF Store, Settings
<1>3. Store(f, s) \in Stored
  BY <1>2 DEF Store, Stored
<1>4. /\ Store(f, s).val.registered = s.registered
      /\ s.net => Store(f, s).val.net
  BY <1>1 DEF Store, Settings
<1>5. s.net /\ (s.mqtt = NoMqtt => f.val.mqtt = NoMqtt) => Covers(Store(f, s), s)
  <2> SUFFICES ASSUME s.net, s.mqtt = NoMqtt => f.val.mqtt = NoMqtt
               PROVE  Covers(Store(f, s), s)
    OBVIOUS
  <2> DEFINE v == Store(f, s).val
  <2>1. /\ v \in Settings /\ v.net = s.net /\ v.config = s.config /\ v.mqtt = s.mqtt
        /\ v.registered = s.registered /\ (s.rest # NoRest => v.rest = s.rest)
    BY <1>1, <1>2 DEF Store, Settings
  <2>2. Store(f, s).present
    BY DEF Store
  <2> HIDE DEF v
  <2>3. [v EXCEPT !.rest = s.rest] = s
    BY <2>1 DEF Settings
  <2> QED  BY <2>1, <2>2, <2>3 DEF Covers, v
<1> QED  BY <1>3, <1>4, <1>5

(* Saving, whatever it could read and however it ended, keeps NVS settings    *)
(* that are registered and have credentials as before or as what was saved.   *)
LEMMA SaveTyped ==
  ASSUME flash \in Stored, NEW s \in Settings, NEW saved \in BOOLEAN, Save(s, saved)
  PROVE  /\ flash' \in Stored
         /\ flash'.val.registered => s.registered \/ flash.val.registered
         /\ s.net /\ flash.val.net => flash'.val.net
         /\ saved /\ s.net /\ (s.mqtt = NoMqtt => flash.val.mqtt = NoMqtt) =>
              Covers(flash', s)
<1>1. NoFlash \in Stored /\ NoFlash.val.mqtt = NoMqtt
  BY DEF NoFlash, Blank, Stored, Settings
<1>2. CASE flash' = Store(flash, s)
  BY <1>2, StoreTyped
<1>3. CASE flash' = Store(NoFlash, s)
  BY <1>1, <1>3, StoreTyped
<1>4. CASE ~saved /\ flash' = flash
  BY <1>4
<1> QED  BY <1>2, <1>3, <1>4 DEF Save

(* Storing over settings with a broker leaves one.                            *)
LEMMA BrokerStays ==
  ASSUME NEW s \in Settings, NEW f, Covers(f, s)
  PROVE  s.mqtt = NoMqtt => f.val.mqtt = NoMqtt
BY DEF Covers, Settings

(* The gate's level stays a level. *)
LEMMA RaiseTyped ==
  ASSUME level \in 0..3, NEW n \in {None, Available, Synced, Syncing}
  PROVE  Raise(n) \in 0..3
BY DEF Raise, None, Available, Synced, Syncing

(* No settings, and the failure of a request. *)
LEMMA NothingTyped ==
  /\ Blank \in Settings /\ Failure \in Answers /\ NoFlash \in Stored
  /\ ~Blank.registered /\ ~NoFlash.val.registered /\ ~NoFlash.val.net
BY DEF Blank, Settings, Failure, Answers, NoFlash, Stored

(* Answers are settings that are not registered. *)
LEMMA AnswerTyped ==
  ASSUME NEW a \in Answers
  PROVE  a.val \in Settings /\ ~a.val.registered /\ a.ok \in BOOLEAN
BY DEF Answers

(* Settings with the flag set. *)
LEMMA RegisteredTyped ==
  ASSUME NEW s \in Settings
  PROVE  Registered(s) \in Settings /\ Registered(s).registered
BY DEF Registered, Settings

-----------------------------------------------------------------------------
(* Boots *)

(* A device starts in the invariant. *)
LEMMA InitIInv == Init => IInv
<1> SUFFICES ASSUME Init PROVE IInv
  OBVIOUS
<1>1. flash \in Stored /\ flash.val.registered \in BOOLEAN
  BY DEF Init, Stored, Settings
<1>2. DataTyped
  BY <1>1, NothingTyped DEF Init, DataTyped
<1>3. level \in 0..3
  BY DEF Init, None
<1>4. ControlTyped
  BY <1>3 DEF Init, ControlTyped, Labels
<1>5. FlagsTyped
  BY <1>1 DEF Init, FlagsTyped
<1>6. FetchAccountedFor /\ Fresh /\ MemoryKnown /\ NvsFollows
  BY DEF Init, FetchAccountedFor, Fresh, MemoryKnown, NvsFollows, Running
<1>7. ServerKnows
  BY NothingTyped DEF Init, ServerKnows
<1> QED  BY <1>2, <1>4, <1>5, <1>6, <1>7 DEF IInv, Typed

(* Power may be lost, or a restart come, at any time. *)
LEMMA TurnOffIInv == ASSUME IInv, TurnOff PROVE IInv'
<1> USE DEF IInv, Typed
<1>1. DataTyped'
  BY NothingTyped DEF TurnOff, DataTyped
<1>2. level' \in 0..3
  BY DEF TurnOff, None
<1>3. ControlTyped'
  BY <1>2 DEF TurnOff, ControlTyped, Labels
<1>4. FlagsTyped'
  BY DEF TurnOff, FlagsTyped
<1>5. FetchAccountedFor' /\ Fresh' /\ MemoryKnown' /\ NvsFollows'
  BY DEF TurnOff, FetchAccountedFor, Fresh, MemoryKnown, NvsFollows, Running
<1>6. ServerKnows'
  BY NothingTyped DEF TurnOff, ServerKnows
<1> QED  BY <1>1, <1>3, <1>4, <1>5, <1>6

(* A boot takes up what NVS holds, if it can read it. *)
LEMMA BootIInv ==
  ASSUME IInv, NEW nvs \in {"read", "unread", "erased"}, Boot(nvs)
  PROVE  IInv'
<1> USE DEF IInv, Typed
<1> DEFINE loaded == nvs = "read" /\ flash.present
<1>1. /\ loaded \in BOOLEAN /\ flash.val \in Settings
      /\ loaded => flash.present
  BY DEF DataTyped, Stored
<1>2. /\ phase = "off" /\ hasCurrent' = loaded
      /\ flash' \in {flash, NoFlash} /\ (loaded => flash' = flash)
      /\ current' = IF loaded THEN flash.val ELSE current
      /\ state' \in {"LoadedFromCache", "Idle"}
      /\ level' = IF loaded THEN Raise(Available) ELSE level
      /\ phase' \in {"running", "provisioning"} /\ (phase' = "running" => loaded /\ flash.val.net)
      /\ UNCHANGED <<isChanged, syncDue, failing, saveFailed, network, pc, taken,
                     fetcher, registry, started, reset, accepted>>
  BY DEF Boot
<1> HIDE DEF loaded
<1>3. DataTyped'
  BY <1>1, <1>2, NothingTyped DEF DataTyped, fetcher, registry
<1>4. level' \in 0..3
  BY <1>2, RaiseTyped DEF ControlTyped
<1>5. ControlTyped' /\ FlagsTyped'
  BY <1>1, <1>2, <1>4 DEF ControlTyped, FlagsTyped, fetcher, registry
<1>6. FetchAccountedFor' /\ Fresh'
  BY <1>2 DEF FetchAccountedFor, Fresh
<1>7. Running' => current' = flash'.val /\ Covers(flash', current')
  <2> SUFFICES ASSUME Running' PROVE current' = flash'.val /\ Covers(flash', current')
    OBVIOUS
  <2>1. loaded /\ flash' = flash /\ current' = flash.val
    BY <1>2 DEF Running
  <2> QED  BY <1>1, <2>1 DEF Covers, Settings
<1>8. Fresh /\ pc = "handle" /\ reg' = "none" /\ pc' = "handle"
  BY <1>2 DEF Fresh, registry
<1>9. MemoryKnown' /\ NvsFollows'
  BY <1>2, <1>7, <1>8 DEF MemoryKnown, NvsFollows, Running
<1>10. ServerKnows'
  BY <1>1, <1>2, NothingTyped DEF ServerKnows, registry
<1> QED  BY <1>3, <1>5, <1>6, <1>9, <1>10

(* A configuration comes in; it is saved or not. *)
LEMMA ProvisionIInv == ASSUME IInv, NEW saved \in BOOLEAN, Provision(saved) PROVE IInv'
<1> USE DEF IInv, Typed
<1> DEFINE new == [Blank EXCEPT !.net = TRUE]
<1>1. new \in Settings /\ ~new.registered
  BY DEF Blank, Settings
<1>2. /\ phase = "provisioning" /\ pc = "handle"
      /\ current' = ApplyChanges(current, new) /\ hasCurrent' = TRUE
      /\ isChanged' \in BOOLEAN
      /\ Save(new, saved) \/ flash' = NoFlash
      /\ saveFailed' = (saveFailed \/ ~ saved)
      /\ pc' = IF saved THEN "restart" ELSE pc
      /\ UNCHANGED <<phase, state, level, syncDue, failing, network, taken,
                     fetcher, registry, started, reset, accepted>>
  BY DEF Provision, FlagsTyped
<1> HIDE DEF new
<1>3. current \in Settings /\ flash \in Stored
  BY DEF DataTyped
<1>4. /\ current' \in Settings /\ flash' \in Stored
      /\ current'.registered => current.registered
      /\ flash'.val.registered => flash.val.registered
  BY <1>1, <1>2, <1>3, ApplyTyped, SaveTyped, NothingTyped
<1>5. DataTyped'
  BY <1>2, <1>4 DEF DataTyped, fetcher, registry
<1>6. ControlTyped' /\ FlagsTyped'
  BY <1>2 DEF ControlTyped, FlagsTyped, Labels, fetcher, registry
<1>7. FetchAccountedFor' /\ Fresh' /\ MemoryKnown' /\ NvsFollows'
  BY <1>2 DEF FetchAccountedFor, Fresh, MemoryKnown, NvsFollows, Running, fetcher
<1>8. ServerKnows'
  BY <1>2, <1>4 DEF ServerKnows, registry
<1> QED  BY <1>5, <1>6, <1>7, <1>8

-----------------------------------------------------------------------------
(* The transport task *)

(* A step that writes no settings disturbs nothing about them. *)
LEMMA NothingSaved ==
  ASSUME IInv, phase = "running", phase' = phase, reset' = reset, accepted' = accepted,
         UNCHANGED <<flash, current, hasCurrent, isChanged, saveFailed>>,
         pc \notin {"save", "persist", "restart"}, pc' \notin {"save", "persist", "finish"},
         pc = "finish" /\ isChanged => pc' = "restart",
         reg' = "ok" => reg = "ok",
         reg' # "none" => reg # "none" /\ regSnapshot' = regSnapshot
  PROVE  Fresh' /\ MemoryKnown' /\ NvsFollows' /\ ServerKnows'
<1> USE DEF IInv
<1>1. Fresh'
  BY DEF Fresh
<1>2. MemoryKnown' /\ NvsFollows'
  BY DEF MemoryKnown, NvsFollows, Covers, Running
<1>3. ServerKnows'
  BY DEF ServerKnows
<1> QED  BY <1>1, <1>2, <1>3

(* So does a step of another task that leaves the transport task where it is. *)
LEMMA OtherTask ==
  ASSUME IInv, phase' = phase, pc' = pc, reset' = reset, accepted => accepted',
         UNCHANGED <<flash, current, hasCurrent, isChanged, saveFailed, regSnapshot>>,
         reg' = "ok" => reg = "ok" \/ accepted',
         reg' # "none" => reg # "none"
  PROVE  Fresh' /\ MemoryKnown' /\ NvsFollows' /\ ServerKnows'
<1> USE DEF IInv
<1>1. Fresh'
  BY DEF Fresh
<1>2. Registered(regSnapshot)' = Registered(regSnapshot)
  BY DEF Registered
<1>3. MemoryKnown'
  BY <1>2 DEF MemoryKnown, Running
<1>4. NvsFollows'
  BY DEF NvsFollows, Covers, Running
<1>5. ServerKnows'
  BY DEF ServerKnows
<1> QED  BY <1>1, <1>3, <1>4, <1>5

(* An answer is copied, then its flag cleared. *)
LEMMA TakeIInv == ASSUME IInv, TakePending \/ ClearPending PROVE IInv'
<1> USE DEF IInv, Typed
<1>1. /\ phase = "running" /\ pc \in {"handle", "clear"} /\ pc' \in {"clear", "sync", "apply"}
      /\ taken' \in {taken, pending} /\ pending' \in {pending, Failure}
      /\ hasPending' \in BOOLEAN
      /\ UNCHANGED <<phase, network, reset, accepted, flash, manager, fetch, registry, started>>
  BY DEF TakePending, ClearPending, At, TransportKeeps, fetcher, FlagsTyped
<1>2. DataTyped'
  BY <1>1, NothingTyped DEF DataTyped, manager, registry
<1>3. ControlTyped'
  BY <1>1 DEF ControlTyped, manager, registry, Labels
<1>4. FlagsTyped'
  BY <1>1 DEF FlagsTyped, manager, registry
<1>5. FetchAccountedFor'
  BY DEF TakePending, ClearPending, At, TransportKeeps, fetcher, manager, FetchAccountedFor
<1>6. Fresh' /\ MemoryKnown' /\ NvsFollows' /\ ServerKnows'
  BY <1>1, NothingSaved DEF manager, registry
<1> QED  BY <1>2, <1>3, <1>4, <1>5, <1>6

(* A failure is applied, or the end of an answer. *)
LEMMA SettleIInv == ASSUME IInv, ApplyFailure \/ FinishApply PROVE IInv'
<1> USE DEF IInv, Typed
<1>1. /\ phase = "running" /\ pc \in {"apply", "finish"}
      /\ pc' \in {"sync", "restart"} /\ state' \in {"Ready", "Error"}
      /\ pc = "finish" /\ isChanged => pc' = "restart"
      /\ level' \in {Raise(None), Raise(Available), Raise(Synced)}
      /\ failing' \in BOOLEAN /\ syncDue' \in BOOLEAN /\ taken' = Failure
      /\ UNCHANGED <<phase, network, reset, accepted, flash, current, hasCurrent, isChanged,
                     saveFailed, fetcher, registry, started>>
  BY DEF ApplyFailure, FinishApply, At, TransportKeeps
<1>2. level' \in 0..3
  BY <1>1, RaiseTyped DEF ControlTyped
<1>3. DataTyped'
  BY <1>1, NothingTyped DEF DataTyped, fetcher, registry
<1>4. ControlTyped'
  BY <1>1, <1>2 DEF ControlTyped, fetcher, registry, Labels
<1>5. FlagsTyped'
  BY <1>1 DEF FlagsTyped, fetcher, registry
<1>6. FetchAccountedFor'
  BY <1>1 DEF FetchAccountedFor
<1>7. Fresh' /\ MemoryKnown' /\ NvsFollows' /\ ServerKnows'
  BY <1>1, NothingSaved DEF registry
<1> QED  BY <1>3, <1>4, <1>5, <1>6, <1>7

(* An answer changes memory, which is then saved, or leaves it as it is. *)
LEMMA ApplyAnswerIInv == ASSUME IInv, ApplyAnswer PROVE IInv'
<1> USE DEF IInv, Typed
<1> DEFINE candidate == ApplyChanges(current, taken.val)
<1>1. /\ taken.val \in Settings /\ ~taken.val.registered
      /\ current \in Settings /\ flash \in Stored
  BY AnswerTyped DEF DataTyped
<1>2. /\ candidate \in Settings /\ (candidate.registered => current.registered)
      /\ current.net => candidate.net
      /\ candidate.mqtt = NoMqtt => current.mqtt = NoMqtt
  BY <1>1, ApplyTyped
<1>3. /\ phase = "running" /\ pc = "apply" /\ pc' \in {"save", "finish"}
      /\ current' = candidate /\ hasCurrent' = TRUE
      /\ pc' = "save" => isChanged'
      /\ pc' = "finish" => current' = current
      /\ isChanged' \in BOOLEAN
      /\ UNCHANGED <<phase, network, reset, accepted, flash, state, level, syncDue, failing,
                     saveFailed, taken, fetcher, registry, started>>
  BY DEF ApplyAnswer, At, TransportKeeps, FlagsTyped
<1>4. DataTyped'
  BY <1>2, <1>3 DEF DataTyped, fetcher, registry
<1>5. ControlTyped' /\ FlagsTyped'
  BY <1>3 DEF ControlTyped, FlagsTyped, fetcher, registry, Labels
<1>6. FetchAccountedFor' /\ Fresh'
  BY <1>3 DEF FetchAccountedFor, Fresh
<1>7. ServerKnows'
  BY <1>2, <1>3 DEF ServerKnows, registry
<1>8. MemoryKnown'
  BY <1>2, <1>3 DEF MemoryKnown, Running, registry
<1>9. NvsFollows'
  BY <1>2, <1>3 DEF NvsFollows, Running, Covers
<1> QED  BY <1>4, <1>5, <1>6, <1>7, <1>8, <1>9

(* Memory is saved, or fails to be. *)
LEMMA SaveCurrentIInv == ASSUME IInv, NEW saved \in BOOLEAN, SaveCurrent(saved) PROVE IInv'
<1> USE DEF IInv, Typed
<1>1. /\ phase = "running" /\ pc = "save" /\ pc' = "finish"
      /\ Save(current, saved)
      /\ saveFailed' = (saveFailed \/ ~ saved)
      /\ UNCHANGED <<phase, network, reset, accepted, current, hasCurrent, isChanged, state, level,
                     syncDue, failing, taken, fetcher, registry, started>>
  BY DEF SaveCurrent, At, TransportKeeps
<1>2. /\ flash' \in Stored
      /\ flash'.val.registered => current.registered \/ flash.val.registered
      /\ saved /\ current.net /\ (current.mqtt = NoMqtt => flash.val.mqtt = NoMqtt) =>
           Covers(flash', current)
  BY <1>1, SaveTyped DEF DataTyped
<1>3. DataTyped'
  BY <1>1, <1>2 DEF DataTyped, fetcher, registry
<1>4. ControlTyped' /\ FlagsTyped'
  BY <1>1 DEF ControlTyped, FlagsTyped, fetcher, registry, Labels
<1>5. FetchAccountedFor' /\ Fresh'
  BY <1>1 DEF FetchAccountedFor, Fresh
<1>6. ServerKnows'
  BY <1>1, <1>2 DEF ServerKnows, registry
<1>7. MemoryKnown'
  BY <1>1 DEF MemoryKnown, Running, registry
<1>8. NvsFollows'
  <2> SUFFICES ASSUME Running', ~saveFailed'
               PROVE  Covers(flash', current) /\ (current.mqtt = NoMqtt => flash'.val.mqtt = NoMqtt)
    BY <1>1 DEF NvsFollows, Covers
  <2>1. Running /\ ~saveFailed /\ saved
    BY <1>1 DEF Running
  <2>2. Covers(flash', current)
    BY <1>2, <2>1 DEF MemoryKnown, NvsFollows
  <2> QED  BY <2>2, BrokerStays DEF DataTyped
<1> QED  BY <1>3, <1>4, <1>5, <1>6, <1>7, <1>8

(* The steps of the loop that only decide. *)
LEMMA DecideIInv == ASSUME IInv, DecideSync \/ CheckFetching \/ StartTransport PROVE IInv'
<1> USE DEF IInv, Typed
<1>1. /\ phase = "running" /\ pc \in {"sync", "check", "transport"}
      /\ pc' \in {"start", "check", "handle", "register", "transport"}
      /\ started' \in BOOLEAN
      /\ UNCHANGED <<phase, network, reset, accepted, flash, manager, taken, fetcher, registry>>
  BY DEF DecideSync, CheckFetching, StartTransport, At, TransportKeeps, FlagsTyped, Operational,
         DataTyped, Settings
<1>2. DataTyped'
  BY <1>1 DEF DataTyped, manager, fetcher, registry
<1>3. ControlTyped'
  BY <1>1 DEF ControlTyped, manager, fetcher, registry, Labels
<1>4. FlagsTyped'
  BY <1>1 DEF FlagsTyped, manager, fetcher, registry
<1>5. FetchAccountedFor'
  BY <1>1 DEF FetchAccountedFor, manager, fetcher
<1>6. Fresh' /\ MemoryKnown' /\ NvsFollows' /\ ServerKnows'
  BY <1>1, NothingSaved DEF manager, registry
<1> QED  BY <1>2, <1>3, <1>4, <1>5, <1>6

(* A refresh starts, or does not. *)
LEMMA SyncIInv == ASSUME IInv, SyncFromApi PROVE IInv'
<1> USE DEF IInv, Typed
<1>1. /\ phase = "running" /\ pc = "start" /\ pc' = "check"
      /\ UNCHANGED <<phase, network, reset, accepted, flash, current, hasCurrent, isChanged, saveFailed,
                     taken, pending, hasPending, registry, started>>
  BY DEF SyncFromApi, At, TransportKeeps
<1>2. /\ level' \in {level, Raise(None), Raise(Available), Raise(Syncing)}
      /\ failing' \in {failing, TRUE} /\ syncDue' \in {syncDue, FALSE}
      /\ \/ state' = "Ready" /\ fetch' = fetch
         \/ UNCHANGED <<state, fetch>>
         \/ state' = "FetchingFromApi" /\ fetch' = "http"
  BY DEF SyncFromApi, SyncWithoutNetwork, SyncStillRunning, SyncNotStarted, SyncStarted
<1>3. level' \in 0..3
  BY <1>2, RaiseTyped DEF ControlTyped
<1>4. DataTyped'
  BY <1>1 DEF DataTyped, registry
<1>5. ControlTyped'
  BY <1>1, <1>2, <1>3 DEF ControlTyped, registry, Labels
<1>6. FlagsTyped'
  BY <1>1, <1>2 DEF FlagsTyped, registry
<1>7. FetchAccountedFor'
  BY <1>1, <1>2 DEF FetchAccountedFor
<1>8. Fresh' /\ MemoryKnown' /\ NvsFollows' /\ ServerKnows'
  BY <1>1, NothingSaved DEF registry
<1> QED  BY <1>4, <1>5, <1>6, <1>7, <1>8

(* A registration that succeeded enters memory: what will be saved, the       *)
(* snapshot it started from, is then what memory is.                          *)
LEMMA CompleteIInv == ASSUME IInv, CompleteRegistration PROVE IInv'
<1> USE DEF IInv, Typed
<1>1. /\ phase = "running" /\ pc = "register" /\ pc' \in {"persist", "attempt"}
      /\ reg' \in {"none", reg} /\ reg' # "ok"
      /\ regDue' \in BOOLEAN
      /\ UNCHANGED <<phase, network, reset, accepted, flash, state, level, syncDue, failing,
                     saveFailed, taken, fetcher, registered, started>>
  BY DEF CompleteRegistration, At, TransportKeeps, FlagsTyped
<1>2. FetchAccountedFor' /\ Fresh'
  BY <1>1 DEF FetchAccountedFor, Fresh, fetcher
<1>3. CASE reg # "ok"
  <2>1. /\ pc' = "attempt" /\ UNCHANGED <<current, hasCurrent, isChanged>>
        /\ regSnapshot' \in {regSnapshot, Blank}
        /\ reg' # "none" => reg # "none" /\ regSnapshot' = regSnapshot
    BY <1>3 DEF CompleteRegistration
  <2>2. DataTyped'
    BY <1>1, <2>1, NothingTyped DEF DataTyped, fetcher
  <2>3. ControlTyped' /\ FlagsTyped'
    BY <1>1, <2>1 DEF ControlTyped, FlagsTyped, fetcher, Labels
  <2>4. Fresh' /\ MemoryKnown' /\ NvsFollows' /\ ServerKnows'
    BY <1>1, <2>1, NothingSaved
  <2> QED  BY <1>2, <2>2, <2>3, <2>4
<1>4. CASE reg = "ok"
  <2>1. /\ pc' = "persist" /\ hasCurrent' = TRUE /\ isChanged' \in BOOLEAN /\ reg' = "none"
        /\ current' = ApplyChanges(current, Registered(regSnapshot))
        /\ regSnapshot' = regSnapshot
    BY <1>4 DEF CompleteRegistration, Registered, FlagsTyped
  <2>2. /\ Registered(regSnapshot) \in Settings /\ Registered(regSnapshot).registered
        /\ current \in Settings
    BY RegisteredTyped DEF DataTyped
  <2>3. /\ current' \in Settings
        /\ current.net => current'.net
        /\ current'.mqtt = NoMqtt => current.mqtt = NoMqtt
    BY <2>1, <2>2, ApplyTyped
  <2>4. Running => current' = Registered(regSnapshot)
    <3> SUFFICES ASSUME Running PROVE current' = Registered(regSnapshot)
      OBVIOUS
    <3>1. regSnapshot = current
      BY <1>1, <1>4 DEF MemoryKnown
    <3> QED  BY <2>1, <2>2, <3>1, ApplyRegistered
  <2>5. Registered(regSnapshot)' = Registered(regSnapshot)
    BY <2>1 DEF Registered
  <2>6. DataTyped'
    BY <1>1, <2>1, <2>3 DEF DataTyped, fetcher
  <2>7. ControlTyped' /\ FlagsTyped'
    BY <1>1, <2>1 DEF ControlTyped, FlagsTyped, fetcher, Labels
  <2>8. accepted /\ ServerKnows'
    BY <1>1, <1>4 DEF ServerKnows
  <2>9. MemoryKnown'
    BY <1>1, <2>1, <2>3, <2>4, <2>5 DEF MemoryKnown, Running
  <2>10. NvsFollows'
    BY <1>1, <2>1, <2>3 DEF NvsFollows, Running
  <2> QED  BY <1>2, <2>6, <2>7, <2>8, <2>9, <2>10
<1> QED  BY <1>3, <1>4

(* The registration is saved, or fails to be. *)
LEMMA PersistIInv ==
  ASSUME IInv, NEW saved \in BOOLEAN, PersistRegistration(saved)
  PROVE  IInv'
<1> USE DEF IInv, Typed
<1>1. /\ phase = "running" /\ pc = "persist" /\ pc' = "attempt"
      /\ Save(Registered(regSnapshot), saved)
      /\ saveFailed' = (saveFailed \/ ~ saved)
      /\ registered' = saved /\ regDue' = (regDue /\ saved) /\ regSnapshot' = Blank
      /\ UNCHANGED <<phase, network, reset, accepted, current, hasCurrent, isChanged, state, level,
                     syncDue, failing, taken, fetcher, reg, started>>
  BY DEF PersistRegistration, Registered, At, TransportKeeps
<1>2. /\ flash' \in Stored
      /\ saved /\ Registered(regSnapshot).net
           /\ (Registered(regSnapshot).mqtt = NoMqtt => flash.val.mqtt = NoMqtt) =>
         Covers(flash', Registered(regSnapshot))
  BY <1>1, RegisteredTyped, SaveTyped DEF DataTyped
<1>3. DataTyped'
  BY <1>1, <1>2, NothingTyped DEF DataTyped, fetcher
<1>4. ControlTyped'
  BY <1>1 DEF ControlTyped, fetcher, Labels
<1>5. FlagsTyped'
  BY <1>1 DEF FlagsTyped, fetcher
<1>6. FetchAccountedFor' /\ Fresh'
  BY <1>1 DEF FetchAccountedFor, Fresh, fetcher
<1>7. ServerKnows'
  BY <1>1 DEF ServerKnows
<1>8. MemoryKnown'
  BY <1>1 DEF MemoryKnown, Running
<1>9. NvsFollows'
  <2> SUFFICES ASSUME Running', ~saveFailed'
               PROVE  Covers(flash', current) /\ (current.mqtt = NoMqtt => flash'.val.mqtt = NoMqtt)
    BY <1>1 DEF NvsFollows, Covers
  <2>1. Running /\ ~saveFailed /\ saved
    BY <1>1 DEF Running
  <2>2. Registered(regSnapshot) = current /\ current.net
    BY <1>1, <2>1 DEF MemoryKnown
  <2>3. Covers(flash', current)
    BY <1>2, <2>1, <2>2 DEF NvsFollows
  <2> QED  BY <2>3, BrokerStays DEF DataTyped
<1> QED  BY <1>3, <1>4, <1>5, <1>6, <1>7, <1>8, <1>9

(* The rest of the registration manager's turn. *)
LEMMA AttemptIInv == ASSUME IInv, AttemptRegistration PROVE IInv'
<1> USE DEF IInv, Typed
<1>1. /\ phase = "running" /\ pc = "attempt" /\ pc' = "transport"
      /\ UNCHANGED <<phase, network, reset, accepted, flash, manager, taken, fetcher, started>>
  BY DEF AttemptRegistration, At, TransportKeeps
<1>2. /\ \/ UNCHANGED <<reg, regSnapshot>>
         \/ reg' = "http" /\ regSnapshot' = current
      /\ regDue' \in {regDue, FALSE} /\ registered' \in {registered, TRUE}
  BY DEF AttemptRegistration, RegistrationWaits, RegisteredInCache, RegistrationPostponed,
         RegistrationStarts, registry
<1>3. DataTyped'
  BY <1>1, <1>2 DEF DataTyped, manager, fetcher
<1>4. ControlTyped'
  BY <1>1, <1>2 DEF ControlTyped, manager, fetcher, Labels
<1>5. FlagsTyped'
  BY <1>1, <1>2 DEF FlagsTyped, manager, fetcher
<1>6. FetchAccountedFor' /\ Fresh'
  BY <1>1 DEF FetchAccountedFor, Fresh, manager, fetcher
<1>7. MemoryKnown'
  BY <1>1, <1>2 DEF MemoryKnown, Running, manager
<1>8. NvsFollows'
  BY <1>1 DEF NvsFollows, Covers, Running, manager
<1>9. ServerKnows'
  BY <1>1, <1>2 DEF ServerKnows, manager
<1> QED  BY <1>3, <1>4, <1>5, <1>6, <1>7, <1>8, <1>9

-----------------------------------------------------------------------------
(* The other tasks, the timers and the factory reset *)

(* The fetcher's task. *)
LEMMA FetchIInv == ASSUME IInv, FetchTask PROVE IInv'
<1> USE DEF IInv, Typed
<1>1. /\ UNCHANGED <<flash, phase, pc, taken, started, manager, network, registry, reset, accepted>>
      /\ \/ fetch' = "written" /\ pending' \in Answers /\ hasPending' = hasPending
         \/ fetch = "written" /\ fetch' = "published" /\ hasPending' /\ pending' = pending
            /\ hasPending' \in BOOLEAN
         \/ fetch = "published" /\ fetch' = "none" /\ UNCHANGED <<pending, hasPending>>
  BY DEF FetchTask, FetchAnswers, FetchPublishes, FetchEnds, Elsewhere
<1>2. DataTyped'
  BY <1>1 DEF DataTyped, manager, registry
<1>3. ControlTyped'
  BY <1>1 DEF ControlTyped, manager, registry
<1>4. FlagsTyped'
  BY <1>1 DEF FlagsTyped, manager, registry
<1>5. FetchAccountedFor'
  BY <1>1 DEF FetchAccountedFor, manager
<1>6. Fresh' /\ MemoryKnown' /\ NvsFollows' /\ ServerKnows'
  BY <1>1, OtherTask DEF manager, registry
<1> QED  BY <1>2, <1>3, <1>4, <1>5, <1>6

(* The registration's task: only the server's word ends it well. *)
LEMMA RegistrationIInv == ASSUME IInv, RegistrationTask PROVE IInv'
<1> USE DEF IInv, Typed
<1>1. PICK sent \in BOOLEAN, ok \in BOOLEAN : RegistrationEnds(sent, ok)
  BY DEF RegistrationTask
<1>2. /\ reg = "http" /\ reg' = (IF ok THEN "ok" ELSE "failed") /\ (ok => sent)
      /\ accepted' = (accepted \/ sent)
      /\ UNCHANGED <<flash, phase, pc, taken, started, manager, network, fetcher, regSnapshot,
                     regDue, registered, reset>>
  BY <1>1 DEF RegistrationEnds, Elsewhere
<1>3. DataTyped'
  BY <1>2 DEF DataTyped, manager, fetcher
<1>4. ControlTyped'
  BY <1>2 DEF ControlTyped, manager, fetcher
<1>5. FlagsTyped'
  BY <1>2 DEF FlagsTyped, manager, fetcher
<1>6. FetchAccountedFor'
  BY <1>2 DEF FetchAccountedFor, manager, fetcher
<1>7. Fresh' /\ MemoryKnown' /\ NvsFollows' /\ ServerKnows'
  BY <1>2, OtherTask DEF manager
<1> QED  BY <1>3, <1>4, <1>5, <1>6, <1>7

(* The network and the timers. *)
LEMMA EnvironmentIInv == ASSUME IInv, NetworkChanges \/ Timers PROVE IInv'
<1> USE DEF IInv, Typed
<1>1. /\ network' \in {network, "down", "gotIp", "ready"}
      /\ syncDue' \in {syncDue, TRUE} /\ regDue' \in {regDue, TRUE}
      /\ UNCHANGED <<flash, phase, pc, taken, started, current, hasCurrent, isChanged, state, level, failing,
                     saveFailed, fetcher, reg, regSnapshot, registered, reset, accepted>>
  BY DEF NetworkChanges, Timers, SyncTimer, RegistrationTimer, Elsewhere, manager, registry
<1>2. DataTyped'
  BY <1>1 DEF DataTyped, fetcher
<1>3. ControlTyped'
  BY <1>1 DEF ControlTyped, fetcher
<1>4. FlagsTyped'
  BY <1>1 DEF FlagsTyped, fetcher
<1>5. FetchAccountedFor'
  BY <1>1 DEF FetchAccountedFor, fetcher
<1>6. Fresh' /\ MemoryKnown' /\ NvsFollows' /\ ServerKnows'
  BY <1>1, OtherTask
<1> QED  BY <1>2, <1>3, <1>4, <1>5, <1>6

(* The factory reset erases NVS, then memory, or does not. *)
LEMMA ResetIInv == ASSUME IInv, FactoryReset PROVE IInv'
<1> USE NothingTyped DEF IInv, Typed
<1>1. /\ phase = "running" /\ reset' \in {"erased", "kept", "cleared"}
      /\ flash' \in {flash, NoFlash} /\ current' \in {current, Blank}
      /\ hasCurrent' \in {hasCurrent, FALSE} /\ state' \in {state, "Idle"}
      /\ isChanged' \in {isChanged, FALSE}
      /\ reset' = "kept" => reset = "none"
                            /\ UNCHANGED <<flash, current, hasCurrent, isChanged>>
      /\ UNCHANGED <<phase, pc, taken, started, level, syncDue, failing, saveFailed, network,
                     fetcher, registry, accepted>>
  BY DEF FactoryReset, ResetErases, ResetClears, Elsewhere, manager, Fresh
<1>2. DataTyped'
  BY <1>1 DEF DataTyped, fetcher, registry
<1>3. ControlTyped'
  BY <1>1 DEF ControlTyped, fetcher, registry
<1>4. FlagsTyped'
  BY <1>1 DEF FlagsTyped, fetcher, registry
<1>5. FetchAccountedFor' /\ Fresh'
  BY <1>1 DEF FetchAccountedFor, Fresh, fetcher
<1>6. MemoryKnown' /\ NvsFollows'
  <2>1. CASE reset' = "kept"
    <3>1. Registered(regSnapshot)' = Registered(regSnapshot)
      BY <1>1 DEF Registered, registry
    <3>2. MemoryKnown'
      BY <1>1, <2>1, <3>1 DEF MemoryKnown, Running, registry
    <3>3. NvsFollows'
      BY <1>1, <2>1 DEF NvsFollows, Running, Covers
    <3> QED  BY <3>2, <3>3
  <2>2. CASE reset' # "kept"
    BY <1>1, <2>2 DEF MemoryKnown, NvsFollows, Running
  <2> QED  BY <2>1, <2>2
<1>7. ServerKnows'
  BY <1>1 DEF ServerKnows, registry
<1> QED  BY <1>2, <1>3, <1>4, <1>5, <1>6, <1>7

-----------------------------------------------------------------------------
(* The theorems *)

(* Every step keeps the invariant. *)
LEMMA NextIInv == ASSUME IInv, [Next]_vars PROVE IInv'
<1>1. CASE TurnOff \/ Restart
  BY <1>1, TurnOffIInv DEF Restart
<1>2. CASE \E nvs \in {"read", "unread", "erased"} : Boot(nvs)
  BY <1>2, BootIInv
<1>3. CASE \E saved \in BOOLEAN : Provision(saved)
  BY <1>3, ProvisionIInv
<1>4. CASE Transport
  BY <1>4, TakeIInv, SettleIInv, ApplyAnswerIInv, SaveCurrentIInv, DecideIInv, SyncIInv,
     CompleteIInv, PersistIInv, AttemptIInv DEF Transport
<1>5. CASE FetchTask \/ RegistrationTask
  BY <1>5, FetchIInv, RegistrationIInv
<1>6. CASE NetworkChanges \/ Timers \/ FactoryReset
  BY <1>6, EnvironmentIInv, ResetIInv
<1>7. CASE UNCHANGED vars
  <2>1. UNCHANGED <<flash, phase, manager, network, pc, taken, fetcher, registry, started, reset,
                    accepted>>
    BY <1>7 DEF vars
  <2>2. DataTyped'
    BY <2>1 DEF IInv, Typed, DataTyped, manager, fetcher, registry
  <2>3. ControlTyped'
    BY <2>1 DEF IInv, Typed, ControlTyped, manager, fetcher, registry
  <2>4. FlagsTyped'
    BY <2>1 DEF IInv, Typed, FlagsTyped, manager, fetcher, registry
  <2>5. FetchAccountedFor'
    BY <2>1 DEF IInv, FetchAccountedFor, manager, fetcher
  <2>6. Fresh' /\ MemoryKnown' /\ NvsFollows' /\ ServerKnows'
    BY <2>1, OtherTask DEF manager, registry
  <2> QED  BY <2>2, <2>3, <2>4, <2>5, <2>6 DEF IInv, Typed
<1> QED  BY <1>1, <1>2, <1>3, <1>4, <1>5, <1>6, <1>7 DEF Next

(* The invariant holds in every state of every behaviour. *)
THEOREM Invariance == Spec => []IInv
BY InitIInv, NextIInv, PTL DEF Spec

(* The settings, the tasks and the flags keep their types. *)
THEOREM TypeCorrect == Spec => []TypeOK
<1>1. IInv => TypeOK
  BY DEF IInv, Typed, TypeOK, DataTyped, ControlTyped, FlagsTyped, Stored, Labels, None, Syncing
<1> QED  BY <1>1, Invariance, PTL

(* A fetch that the manager waits for always has an answer on its way,        *)
(* however the copy of the answer and the clearing of its flag are timed.     *)
THEOREM EveryFetchIsAnswered == Spec => []FetchAccountedFor
BY Invariance, PTL DEF IInv

(* Neither NVS nor memory ever says registered of a device the server does    *)
(* not know, over any number of boots, resets, losses and retries.            *)
THEOREM RegisteredMeansAccepted == Spec => []RegisteredIsTrue
<1>1. IInv => RegisteredIsTrue
  BY DEF IInv, ServerKnows, RegisteredIsTrue
<1> QED  BY <1>1, Invariance, PTL

(* Between saves and without a failed one, a reboot reads all that the device *)
(* runs with, although a registration saves the settings it started from, a   *)
(* save may start from zeros, and NVS merges what memory replaces.            *)
THEOREM RebootReadsTheSame == Spec => []MemorySurvivesReboot
<1>1. IInv => MemorySurvivesReboot
  BY DEF IInv, NvsFollows, MemorySurvivesReboot, Covers, Running
<1> QED  BY <1>1, Invariance, PTL

(* What a running device saves always has its credentials, even when it does  *)
(* not merge with what NVS has, so only a reset takes them out.               *)
THEOREM CredentialsStay == Spec => CredentialsKept
<1>1. ASSUME IInv, [Next]_vars
      PROVE  phase = "running" /\ flash.val.net /\ ~flash.val.net'
               => reset' \in {"erased", "cleared"}
  <2> SUFFICES ASSUME Next, phase = "running", flash.val.net, ~flash.val.net'
               PROVE  reset' \in {"erased", "cleared"}
    BY <1>1 DEF vars
  <2> USE <1>1 DEF IInv, Typed
  <2>1. flash \in Stored /\ current \in Settings /\ Registered(regSnapshot) \in Settings
    BY RegisteredTyped DEF DataTyped
  <2>2. flash' # flash
    OBVIOUS
  <2>3. CASE TurnOff \/ Restart
    BY <2>2, <2>3 DEF TurnOff, Restart
  <2>4. CASE (\E nvs \in {"read", "unread", "erased"} : Boot(nvs)) \/ (\E saved \in BOOLEAN : Provision(saved))
    BY <2>4 DEF Boot, Provision
  <2>5. CASE Transport
    <3>1. CASE \E saved \in BOOLEAN : SaveCurrent(saved)
      <4>1. PICK saved \in BOOLEAN : SaveCurrent(saved)
        BY <3>1
      <4>2. Save(current, saved) /\ reset' = reset /\ ~current.net
        BY <2>1, <4>1, SaveTyped DEF SaveCurrent, TransportKeeps
      <4> QED  BY <4>2 DEF MemoryKnown, Running, ControlTyped
    <3>2. CASE \E saved \in BOOLEAN : PersistRegistration(saved)
      <4>1. PICK saved \in BOOLEAN : PersistRegistration(saved)
        BY <3>2
      <4>2. /\ Save(Registered(regSnapshot), saved) /\ reset' = reset /\ pc = "persist"
        BY <4>1 DEF PersistRegistration, Registered, At, TransportKeeps
      <4>3. ~Registered(regSnapshot).net
        BY <2>1, <4>2, SaveTyped
      <4> QED  BY <4>2, <4>3 DEF MemoryKnown, Running, ControlTyped
    <3>3. CASE TakePending \/ ClearPending \/ ApplyFailure \/ ApplyAnswer \/ FinishApply
      BY <2>2, <3>3 DEF TakePending, ClearPending, ApplyFailure, ApplyAnswer, FinishApply
    <3>4. CASE DecideSync \/ SyncFromApi \/ CheckFetching \/ CompleteRegistration
      BY <2>2, <3>4 DEF DecideSync, SyncFromApi, CheckFetching, CompleteRegistration
    <3>5. CASE AttemptRegistration \/ StartTransport
      BY <2>2, <3>5 DEF AttemptRegistration, StartTransport
    <3> QED  BY <2>5, <3>1, <3>2, <3>3, <3>4, <3>5 DEF Transport
  <2>6. CASE FetchTask
    BY <2>2, <2>6 DEF FetchTask, FetchAnswers, FetchPublishes, FetchEnds, Elsewhere
  <2>7. CASE RegistrationTask \/ NetworkChanges \/ Timers
    BY <2>2, <2>7 DEF RegistrationTask, RegistrationEnds, NetworkChanges, Timers, SyncTimer,
                RegistrationTimer, Elsewhere
  <2>8. CASE FactoryReset
    BY <2>2, <2>8 DEF FactoryReset, ResetErases, ResetClears, Elsewhere
  <2> QED  BY <2>3, <2>4, <2>5, <2>6, <2>7, <2>8 DEF Next
<1>2. IInv /\ [Next]_vars =>
        [phase = "running" /\ flash.val.net /\ ~flash.val.net'
           => reset' \in {"erased", "cleared"}]_vars
  BY <1>1
<1> QED  BY <1>2, Invariance, PTL DEF Spec, CredentialsKept

(* Once a reset has cleared memory with no answer and no registration in      *)
(* flight, no task writes settings again before the restart.                  *)
THEOREM ResetIsFinal == Spec => ResetStays
<1>1. ASSUME IInv, [Next]_vars
      PROVE  ResetDone => ResetDone' \/ phase' = "off"
  <2> SUFFICES ASSUME ResetDone PROVE ResetDone' \/ phase' = "off"
    OBVIOUS
  <2> USE DEF ResetDone, InFlight
  <2>1. phase = "running"
    BY <1>1 DEF IInv, Fresh
  <2>2. CASE TurnOff \/ Restart
    BY <2>2 DEF TurnOff, Restart
  <2>3. CASE \/ \E nvs \in {"read", "unread", "erased"} : Boot(nvs)
             \/ \E saved \in BOOLEAN : Provision(saved)
    BY <2>1, <2>3 DEF Boot, Provision
  <2>4. CASE Transport
    <3>1. CASE TakePending \/ ClearPending \/ ApplyFailure \/ ApplyAnswer \/ FinishApply
      BY <3>1 DEF TakePending, ClearPending, ApplyFailure, ApplyAnswer, FinishApply, At,
                  TransportKeeps, manager, fetcher, registry
    <3>2. CASE DecideSync \/ CheckFetching \/ StartTransport
      BY <3>2 DEF DecideSync, CheckFetching, StartTransport, At, TransportKeeps, manager, fetcher,
                  registry
    <3>3. CASE SyncFromApi
      BY <3>3 DEF SyncFromApi, SyncWithoutNetwork, SyncStillRunning, SyncNotStarted, SyncStarted,
                  At, TransportKeeps, registry
    <3>4. CASE CompleteRegistration
      BY <3>4 DEF CompleteRegistration, At, TransportKeeps, fetcher
    <3>5. CASE AttemptRegistration
      BY <3>5 DEF AttemptRegistration, RegistrationWaits, RegisteredInCache,
                  RegistrationPostponed, RegistrationStarts, At, TransportKeeps, manager,
                  fetcher, registry
    <3>6. CASE \/ \E saved \in BOOLEAN : SaveCurrent(saved)
               \/ \E saved \in BOOLEAN : PersistRegistration(saved)
      BY <3>6 DEF SaveCurrent, PersistRegistration, At
    <3> QED  BY <2>4, <3>1, <3>2, <3>3, <3>4, <3>5, <3>6 DEF Transport
  <2>5. CASE FetchTask
    BY <2>5 DEF FetchTask, FetchAnswers, FetchPublishes, FetchEnds, Elsewhere, manager, registry
  <2>6. CASE RegistrationTask
    BY <2>6 DEF RegistrationTask, RegistrationEnds
  <2>7. CASE NetworkChanges \/ Timers
    BY <2>7 DEF NetworkChanges, Timers, SyncTimer, RegistrationTimer, Elsewhere, manager, fetcher,
                registry
  <2>8. CASE FactoryReset
    BY <2>8 DEF FactoryReset, ResetErases, ResetClears
  <2>9. CASE UNCHANGED vars
    BY <2>9 DEF vars, manager, fetcher, registry
  <2> QED  BY <1>1, <2>2, <2>3, <2>4, <2>5, <2>6, <2>7, <2>8, <2>9 DEF Next
<1>2. IInv /\ [Next]_vars => [ResetDone => ResetDone' \/ phase' = "off"]_vars
  BY <1>1
<1> QED  BY <1>2, Invariance, PTL DEF Spec, ResetStays
=============================================================================
