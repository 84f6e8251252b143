---------------------------- MODULE SettingsSync ----------------------------
(***************************************************************************)
(* The life of the device's settings: NVS, the cache in memory             *)
(* (SettingsManager), the gate of readiness (SettingsGateImpl), the API    *)
(* fetcher's task, the device registration and its task, the bootstrap,    *)
(* provisioning, the factory reset button and restarts.                    *)
(*                                                                         *)
(* Five tasks touch them without a lock.  The transport task runs the loop *)
(* SmartSysApp::handleTransportWork, one action here for each stretch      *)
(* between two points where another task can be seen; `pc' is where it is. *)
(* The fetcher and registration tasks answer it through flags.  The main   *)
(* loop runs the factory reset; the WiFi events change the network.        *)
(*                                                                         *)
(* Settings keep whether WiFi and API credentials are valid (`net'),       *)
(* in_config_mode, device_registered and the MQTT configuration in two     *)
(* parts: the primary broker, which an answer must have, and the rest,     *)
(* which it may lack (user and password, the other brokers, the topics).   *)
(* A timer is due or not.  cancel() of the fetcher is called nowhere and   *)
(* is left out.                                                            *)
(***************************************************************************)
EXTENDS Naturals

CONSTANTS
  Mqtts,   \* the valid primary brokers
  NoMqtt,  \* no host
  Rests,   \* what an MQTT configuration may have besides
  NoRest   \* nothing: each of these strings empty

ASSUME SettingsAssumption == NoMqtt \notin Mqtts /\ NoRest \notin Rests

VARIABLES
  flash,       \* NVS: the stored settings and whether there are any
  phase,       \* "off", "provisioning" or "running": the path of this boot
  current,     \* _current
  hasCurrent,  \* _has_current
  isChanged,   \* _current._is_changed
  state,       \* _state of SettingsManager
  level,       \* of the settings gate
  syncDue,     \* now >= _nextApiSyncAtMs
  failing,     \* _apiSyncFailures > 0
  saveFailed,  \* _stats.nvs_save_fail > 0
  network,     \* "down", "gotIp" (isConnected) or "ready" (the gate's bits too)
  pc,          \* the transport task
  taken,       \* its copy of the answer, while it applies it
  fetch,       \* the fetcher's task
  pending,     \* _pendingUpdate
  hasPending,  \* _hasPending
  reg,         \* the registration task: "none", "http", or "ok", "failed" (completed)
  regSnapshot, \* registrationSettingsSnapshot_
  regDue,      \* now >= nextAttemptAtMs_
  registered,  \* registered_ of DeviceRegistrationManager
  started,     \* transportStarted_
  reset,       \* the factory reset: "none", "erased", "cleared", "kept"
  accepted     \* the server has this device registered

manager  == <<current, hasCurrent, isChanged, state, level, syncDue, failing, saveFailed>>
fetcher  == <<fetch, pending, hasPending>>
registry == <<reg, regSnapshot, regDue, registered>>
vars == <<flash, phase, manager, network, pc, taken, fetcher, registry,
          started, reset, accepted>>

Settings == {s \in [net : BOOLEAN, config : BOOLEAN, mqtt : Mqtts \cup {NoMqtt},
                     rest : Rests \cup {NoRest}, registered : BOOLEAN] :
               s.mqtt = NoMqtt => s.rest = NoRest}
Blank    == [net |-> FALSE, config |-> FALSE, mqtt |-> NoMqtt, rest |-> NoRest,
             registered |-> FALSE]

(* What the parser makes of an answer of the API, which must name a        *)
(* broker, or a failure of the request, of its status or of the parser.    *)
Answers == {a \in [ok : BOOLEAN, val : Settings] :
              /\ ~ a.val.registered
              /\ a.ok => a.val.mqtt # NoMqtt
              /\ ~ a.ok => a.val = Blank}
Failure == [ok |-> FALSE, val |-> Blank]

None      == 0
Available == 1
Synced    == 2
Syncing   == 3

(* SettingsGateImpl::setLevel *)
Raise(new) == IF new > level THEN new ELSE level

(* Settings::applyChanges: only valid parts replace, the MQTT              *)
(* configuration as a whole, and the flag only rises.                      *)
ApplyChanges(s, o) ==
  [net        |-> s.net \/ o.net,
   config     |-> o.config,
   mqtt       |-> IF o.mqtt # NoMqtt THEN o.mqtt ELSE s.mqtt,
   rest       |-> IF o.mqtt # NoMqtt THEN o.rest ELSE s.rest,
   registered |-> s.registered \/ o.registered]

(* A slip in toStored: only the primary broker is copied. *)
StoreWithoutRest(old, s) ==
  [present |-> TRUE,
   val     |-> [net        |-> old.val.net \/ s.net,
                config     |-> s.config,
                mqtt       |-> IF s.mqtt # NoMqtt THEN s.mqtt ELSE old.val.mqtt,
                rest       |-> old.val.rest,
                registered |-> s.registered]]

(* toStored over `old': valid parts and strings that are not empty         *)
(* replace, the flags follow.                                              *)
Store(old, s) ==
  [present |-> TRUE,
   val     |-> [net        |-> old.val.net \/ s.net,
                config     |-> s.config,
                mqtt       |-> IF s.mqtt # NoMqtt THEN s.mqtt ELSE old.val.mqtt,
                rest       |-> IF s.rest # NoRest THEN s.rest ELSE old.val.rest,
                registered |-> s.registered]]

NoFlash == [present |-> FALSE, val |-> Blank]

(* save() of the provider, which merges with what is stored, or starts     *)
(* from zeros when it cannot read that.  A failure may come before the     *)
(* blob is set or from the commit after it.                                *)
Save(s, saved) ==
  \/ flash' \in {Store(flash, s), Store(NoFlash, s)}
  \/ ~ saved /\ flash' = flash

Operational == hasCurrent /\ current.net /\ current.mqtt # NoMqtt

-----------------------------------------------------------------------------
Init ==
  /\ flash \in [present : BOOLEAN, val : Settings]
  /\ ~ flash.present => flash = NoFlash
  /\ accepted = flash.val.registered
  /\ phase = "off"
  /\ current = Blank
  /\ hasCurrent = FALSE
  /\ isChanged = FALSE
  /\ state = "Idle"
  /\ level = None
  /\ syncDue = TRUE
  /\ failing = FALSE
  /\ saveFailed = FALSE
  /\ network = "down"
  /\ pc = "handle"
  /\ taken = Failure
  /\ fetch = "none"
  /\ pending = Failure
  /\ hasPending = FALSE
  /\ reg = "none"
  /\ regSnapshot = Blank
  /\ regDue = TRUE
  /\ registered = FALSE
  /\ started = FALSE
  /\ reset = "none"

(* Power loss or esp_restart(): NVS and the server stay. *)
TurnOff ==
  /\ phase # "off"
  /\ phase' = "off"
  /\ current' = Blank
  /\ hasCurrent' = FALSE
  /\ isChanged' = FALSE
  /\ state' = "Idle"
  /\ level' = None
  /\ syncDue' = TRUE
  /\ failing' = FALSE
  /\ saveFailed' = FALSE
  /\ network' = "down"
  /\ pc' = "handle"
  /\ taken' = Failure
  /\ fetch' = "none"
  /\ pending' = Failure
  /\ hasPending' = FALSE
  /\ reg' = "none"
  /\ regSnapshot' = Blank
  /\ regDue' = TRUE
  /\ registered' = FALSE
  /\ started' = FALSE
  /\ reset' = "none"
  /\ UNCHANGED <<flash, accepted>>

(* SettingsManager::init and ConnectivityBootstrap::run.  The provider     *)
(* reads what NVS holds, or cannot, or has to erase NVS to initialise it.  *)
Boot(nvs) ==
  LET loaded == nvs = "read" /\ flash.present IN
  /\ phase = "off"
  /\ flash' = IF nvs = "erased" THEN NoFlash ELSE flash
  /\ hasCurrent' = loaded
  /\ current' = IF loaded THEN flash.val ELSE current
  /\ state' = IF loaded THEN "LoadedFromCache" ELSE "Idle"
  /\ level' = IF loaded THEN Raise(Available) ELSE level
  /\ phase' = IF loaded /\ flash.val.net /\ ~ flash.val.config
                THEN "running" ELSE "provisioning"
  /\ UNCHANGED <<isChanged, syncDue, failing, saveFailed, network, pc, taken,
                 fetcher, registry, started, reset, accepted>>

(* ProvisioningController::completeProvisioning: the restart is scheduled  *)
(* only after the save succeeded; until then another attempt may come.     *)
(* Where the boot could not initialise NVS the save does, and may erase it.*)
Provision(saved) ==
  LET new == [Blank EXCEPT !.net = TRUE] IN
  /\ phase = "provisioning"
  /\ pc = "handle"
  /\ current' = ApplyChanges(current, new)
  /\ hasCurrent' = TRUE
  /\ isChanged' = (isChanged \/ current' # current)
  /\ Save(new, saved) \/ (~ hasCurrent /\ ~ saved /\ flash' = NoFlash)
  /\ saveFailed' = (saveFailed \/ ~ saved)
  /\ pc' = IF saved THEN "restart" ELSE pc
  /\ UNCHANGED <<phase, state, level, syncDue, failing, network, taken,
                 fetcher, registry, started, reset, accepted>>

-----------------------------------------------------------------------------
(* The transport task.                                                     *)
At(label) == phase = "running" /\ pc = label
TransportKeeps == UNCHANGED <<phase, network, reset, accepted>>

(* SettingsManager::handle copies a published answer, ... *)
TakePending ==
  /\ At("handle")
  /\ IF hasPending THEN pc' = "clear" /\ taken' = pending
                   ELSE pc' = "sync" /\ UNCHANGED taken
  /\ TransportKeeps
  /\ UNCHANGED <<flash, manager, fetcher, registry, started>>

(* ... only then clears the flag (without it the published answer is not   *)
(* read before it is written again, and is forgotten here), ...            *)
ClearPending ==
  /\ At("clear")
  /\ hasPending' = FALSE
  /\ pending' = IF fetch = "written" THEN pending ELSE Failure
  /\ pc' = "apply"
  /\ TransportKeeps
  /\ UNCHANGED <<flash, manager, taken, fetch, registry, started>>

(* A slip in applyPendingUpdate: a failure leaves the state as it was. *)
ApplyFailureQuietly ==
  /\ At("apply")
  /\ ~ taken.ok
  /\ level' = Raise(IF hasCurrent THEN Available ELSE None)
  /\ failing' = TRUE
  /\ syncDue' = FALSE
  /\ pc' = "sync"
  /\ taken' = Failure
  /\ TransportKeeps
  /\ UNCHANGED <<flash, current, hasCurrent, isChanged, state, saveFailed, fetcher,
                 registry, started>>

(* ... and applies it: applyPendingUpdate, a failure. *)
ApplyFailure ==
  /\ At("apply")
  /\ ~ taken.ok
  /\ state' = IF hasCurrent THEN "Ready" ELSE "Error"
  /\ level' = Raise(IF hasCurrent THEN Available ELSE None)
  /\ failing' = TRUE
  /\ syncDue' = FALSE
  /\ pc' = "sync"
  /\ taken' = Failure
  /\ TransportKeeps
  /\ UNCHANGED <<flash, current, hasCurrent, isChanged, saveFailed, fetcher,
                 registry, started>>

(* applyPendingUpdate, new settings: into memory first, ... *)
ApplyAnswer ==
  LET candidate == ApplyChanges(current, taken.val) IN
  /\ At("apply")
  /\ taken.ok
  /\ current' = candidate
  /\ IF candidate # current
       THEN isChanged' = TRUE /\ pc' = "save"
       ELSE isChanged' = (hasCurrent /\ isChanged) /\ pc' = "finish"
  /\ hasCurrent' = TRUE
  /\ TransportKeeps
  /\ UNCHANGED <<flash, state, level, syncDue, failing, saveFailed, taken,
                 fetcher, registry, started>>

(* A slip in applyPendingUpdate: the answer is saved without what the      *)
(* device has besides.                                                     *)
SaveAnswer(saved) ==
  /\ At("save")
  /\ Save(taken.val, saved)
  /\ saveFailed' = (saveFailed \/ ~ saved)
  /\ pc' = "finish"
  /\ TransportKeeps
  /\ UNCHANGED <<current, hasCurrent, isChanged, state, level, syncDue, failing,
                 taken, fetcher, registry, started>>

(* ... then _provider.save(_current); a failure only counts, ... *)
SaveCurrent(saved) ==
  /\ At("save")
  /\ Save(current, saved)
  /\ saveFailed' = (saveFailed \/ ~ saved)
  /\ pc' = "finish"
  /\ TransportKeeps
  /\ UNCHANGED <<current, hasCurrent, isChanged, state, level, syncDue, failing,
                 taken, fetcher, registry, started>>

(* ... then the gate, the backoff and the update callback, which restarts  *)
(* the device when the settings are marked as changed: by this answer, or  *)
(* by a registration saved earlier in the boot.                            *)
FinishApply ==
  /\ At("finish")
  /\ state' = "Ready"
  /\ level' = Raise(Synced)
  /\ failing' = FALSE
  /\ syncDue' = TRUE
  /\ pc' = IF isChanged THEN "restart" ELSE "sync"
  /\ taken' = Failure
  /\ TransportKeeps
  /\ UNCHANGED <<flash, current, hasCurrent, isChanged, saveFailed, fetcher,
                 registry, started>>

(* The end of SettingsManager::handle. *)
DecideSync ==
  /\ At("sync")
  /\ pc' = IF level = Available /\ network = "ready" /\ syncDue
             THEN "start" ELSE "check"
  /\ TransportKeeps
  /\ UNCHANGED <<flash, manager, taken, fetcher, registry, started>>

(* syncFromApi finds the network gone, ... *)
SyncWithoutNetwork ==
  /\ network # "ready"
  /\ level' = Raise(IF hasCurrent THEN Available ELSE None)
  /\ failing' = TRUE
  /\ syncDue' = FALSE
  /\ UNCHANGED <<state, fetch>>

(* ... or the fetcher not finished, ... *)
SyncStillRunning ==
  /\ network = "ready"
  /\ fetch # "none"
  /\ UNCHANGED <<state, level, failing, syncDue, fetch>>

(* A slip in syncFromApi: the state says fetching before the task exists. *)
SyncNotStartedYetFetching ==
  /\ network = "ready"
  /\ fetch = "none"
  /\ level' = Raise(Syncing)
  /\ state' = "FetchingFromApi"
  /\ failing' = TRUE
  /\ syncDue' = FALSE
  /\ UNCHANGED fetch

(* ... or no settings, or cannot create the fetcher's task, ... *)
SyncNotStarted ==
  /\ network = "ready"
  /\ fetch = "none"
  /\ level' = Raise(Syncing)
  /\ state' = IF hasCurrent THEN "Ready" ELSE state
  /\ failing' = TRUE
  /\ syncDue' = FALSE
  /\ UNCHANGED fetch

(* A slip in refreshFromApiAsync: it fetches without settings. *)
SyncStartedBlindly ==
  /\ network = "ready"
  /\ fetch = "none"
  /\ level' = Raise(Syncing)
  /\ state' = "FetchingFromApi"
  /\ fetch' = "http"
  /\ UNCHANGED <<failing, syncDue>>

(* ... or starts it. *)
SyncStarted ==
  /\ network = "ready"
  /\ fetch = "none"
  /\ hasCurrent
  /\ level' = Raise(Syncing)
  /\ state' = "FetchingFromApi"
  /\ fetch' = "http"
  /\ UNCHANGED <<failing, syncDue>>

SyncFromApi ==
  /\ At("start")
  /\ SyncWithoutNetwork \/ SyncStillRunning \/ SyncNotStarted \/ SyncStarted
  /\ pc' = "check"
  /\ TransportKeeps
  /\ UNCHANGED <<flash, current, hasCurrent, isChanged, saveFailed, taken, pending,
                 hasPending, registry, started>>

(* handleTransportWork does nothing more while a fetch is on. *)
CheckFetching ==
  /\ At("check")
  /\ pc' = IF state = "FetchingFromApi" THEN "handle"
           ELSE IF network # "down" /\ ~ registered THEN "register"
           ELSE "transport"
  /\ TransportKeeps
  /\ UNCHANGED <<flash, manager, taken, fetcher, registry, started>>

(* A slip in completeRegistrationIfReady: completed is taken for success. *)
CompleteRegistrationAnyway ==
  /\ At("register")
  /\ reg' = IF reg \in {"ok", "failed"} THEN "none" ELSE reg
  /\ IF reg \in {"ok", "failed"}
       THEN /\ current' = ApplyChanges(current, [regSnapshot EXCEPT !.registered = TRUE])
            /\ isChanged' = (isChanged \/ current' # current)
            /\ hasCurrent' = TRUE
            /\ pc' = "persist"
       ELSE UNCHANGED <<current, hasCurrent, isChanged>> /\ pc' = "attempt"
  /\ TransportKeeps
  /\ UNCHANGED <<flash, state, level, syncDue, failing, saveFailed, taken,
                 fetcher, regSnapshot, regDue, registered, started>>

(* completeRegistrationIfReady.  A success goes through                    *)
(* SettingsManager::save, first the memory, ...                            *)
CompleteRegistration ==
  /\ At("register")
  /\ reg' = IF reg \in {"ok", "failed"} THEN "none" ELSE reg
  /\ IF reg = "ok"
       THEN /\ current' = ApplyChanges(current, [regSnapshot EXCEPT !.registered = TRUE])
            /\ isChanged' = (isChanged \/ current' # current)
            /\ hasCurrent' = TRUE
            /\ pc' = "persist"
       ELSE UNCHANGED <<current, hasCurrent, isChanged>> /\ pc' = "attempt"
  /\ regSnapshot' = IF reg = "failed" THEN Blank ELSE regSnapshot
  /\ regDue' = (regDue /\ reg # "failed")
  /\ TransportKeeps
  /\ UNCHANGED <<flash, state, level, syncDue, failing, saveFailed, taken,
                 fetcher, registered, started>>

(* ... then NVS, which gets the snapshot the registration started from,    *)
(* and which nothing reads any more.                                       *)
PersistRegistration(saved) ==
  /\ At("persist")
  /\ Save([regSnapshot EXCEPT !.registered = TRUE], saved)
  /\ saveFailed' = (saveFailed \/ ~ saved)
  /\ registered' = saved
  /\ regDue' = (regDue /\ saved)
  /\ pc' = "attempt"
  /\ regSnapshot' = Blank
  /\ TransportKeeps
  /\ UNCHANGED <<current, hasCurrent, isChanged, state, level, syncDue, failing,
                 taken, fetcher, reg, started>>

(* The rest of DeviceRegistrationManager::handle: nothing to do yet, ... *)
RegistrationWaits ==
  /\ registered \/ network = "down" \/ reg # "none" \/ ~ regDue
  /\ UNCHANGED registry

(* ... or registered already, as the cache says, ... *)
RegisteredInCache ==
  /\ ~ registered /\ network # "down" /\ reg = "none" /\ regDue
  /\ hasCurrent /\ current.registered /\ current.mqtt # NoMqtt
  /\ registered' = TRUE
  /\ UNCHANGED <<reg, regSnapshot, regDue>>

(* ... or no usable settings, or no task: a retry is scheduled, ... *)
RegistrationPostponed ==
  /\ ~ registered /\ network # "down" /\ reg = "none" /\ regDue
  /\ ~ (hasCurrent /\ current.registered /\ current.mqtt # NoMqtt)
  /\ regDue' = FALSE
  /\ UNCHANGED <<reg, regSnapshot, registered>>

(* ... or the registration task starts with a copy of the settings. *)
RegistrationStarts ==
  /\ ~ registered /\ network # "down" /\ reg = "none" /\ regDue
  /\ hasCurrent /\ current.net
  /\ ~ (current.registered /\ current.mqtt # NoMqtt)
  /\ reg' = "http"
  /\ regSnapshot' = current
  /\ UNCHANGED <<regDue, registered>>

AttemptRegistration ==
  /\ At("attempt")
  /\ \/ RegistrationWaits
     \/ RegisteredInCache
     \/ RegistrationPostponed
     \/ RegistrationStarts
  /\ pc' = "transport"
  /\ TransportKeeps
  /\ UNCHANGED <<flash, manager, taken, fetcher, started>>

(* The transports start once the device is registered or has an MQTT       *)
(* configuration to work with.                                             *)
StartTransport ==
  /\ At("transport")
  /\ started' = (started \/ registered \/ Operational)
  /\ pc' = "handle"
  /\ TransportKeeps
  /\ UNCHANGED <<flash, manager, taken, fetcher, registry>>

-----------------------------------------------------------------------------
Elsewhere == UNCHANGED <<flash, phase, pc, taken, started>>

(* A slip in the fetcher: it parses over the settings in use. *)
FetchMerges(answer) ==
  /\ phase = "running"
  /\ fetch = "http"
  /\ answer.ok => network = "ready"
  /\ fetch' = "written"
  /\ pending' = [answer EXCEPT !.val = ApplyChanges(current, answer.val)]
  /\ Elsewhere
  /\ UNCHANGED <<manager, network, hasPending, registry, reset, accepted>>

(* The fetcher's task: an answer, in two stores, then the end of the task. *)
FetchAnswers(answer) ==
  /\ phase = "running"
  /\ fetch = "http"
  /\ answer.ok => network = "ready"
  /\ fetch' = "written"
  /\ pending' = answer
  /\ Elsewhere
  /\ UNCHANGED <<manager, network, hasPending, registry, reset, accepted>>

FetchPublishes ==
  /\ fetch = "written"
  /\ fetch' = "published"
  /\ hasPending' = TRUE
  /\ Elsewhere
  /\ UNCHANGED <<manager, network, pending, registry, reset, accepted>>

FetchEnds ==
  /\ fetch = "published"
  /\ fetch' = "none"
  /\ Elsewhere
  /\ UNCHANGED <<manager, network, pending, hasPending, registry, reset, accepted>>

(* The registration task: the server may take the request and its answer   *)
(* be lost; a repeated one answers 409, a success.                         *)
RegistrationEnds(sent, ok) ==
  /\ reg = "http"
  /\ sent => network = "ready"
  /\ ok => sent
  /\ reg' = IF ok THEN "ok" ELSE "failed"
  /\ accepted' = (accepted \/ sent)
  /\ Elsewhere
  /\ UNCHANGED <<manager, network, fetcher, regSnapshot, regDue, registered, reset>>

(* WiFi: _gotIp rises before the gate's bits do. *)
NetworkChanges ==
  /\ phase = "running"
  /\ network' \in IF network = "down" THEN {"gotIp"}
                  ELSE IF network = "gotIp" THEN {"ready", "down"}
                  ELSE {"down"}
  /\ Elsewhere
  /\ UNCHANGED <<manager, fetcher, registry, reset, accepted>>

SyncTimer ==
  /\ ~ syncDue
  /\ syncDue' = TRUE
  /\ Elsewhere
  /\ UNCHANGED <<current, hasCurrent, isChanged, state, level, failing, saveFailed,
                 network, fetcher, registry, reset, accepted>>

RegistrationTimer ==
  /\ ~ regDue
  /\ regDue' = TRUE
  /\ Elsewhere
  /\ UNCHANGED <<manager, network, fetcher, reg, regSnapshot, registered, reset,
                 accepted>>

(* The button, held for 15 s: SettingsManager::clear erases NVS, then      *)
(* memory if that worked, and the device restarts 2 s later.               *)
ResetErases(erased) ==
  /\ phase = "running"
  /\ reset = "none"
  /\ reset' = IF erased THEN "erased" ELSE "kept"
  /\ flash' = IF erased THEN NoFlash ELSE flash
  /\ UNCHANGED <<phase, manager, network, pc, taken, fetcher, registry,
                 started, accepted>>

ResetClears ==
  /\ reset = "erased"
  /\ reset' = "cleared"
  /\ current' = Blank
  /\ hasCurrent' = FALSE
  /\ isChanged' = FALSE
  /\ state' = "Idle"
  /\ Elsewhere
  /\ UNCHANGED <<level, syncDue, failing, saveFailed, network, fetcher, registry,
                 accepted>>

Restart ==
  /\ pc = "restart" \/ reset \in {"cleared", "kept"}
  /\ TurnOff

-----------------------------------------------------------------------------
Transport ==
  \/ TakePending \/ ClearPending
  \/ ApplyFailure \/ ApplyAnswer \/ FinishApply
  \/ \E saved \in BOOLEAN : SaveCurrent(saved)
  \/ DecideSync \/ SyncFromApi \/ CheckFetching
  \/ CompleteRegistration \/ AttemptRegistration
  \/ \E saved \in BOOLEAN : PersistRegistration(saved)
  \/ StartTransport

FetchTask == (\E a \in Answers : FetchAnswers(a)) \/ FetchPublishes \/ FetchEnds
RegistrationTask == \E sent, ok \in BOOLEAN : RegistrationEnds(sent, ok)
Timers == SyncTimer \/ RegistrationTimer
FactoryReset == (\E erased \in BOOLEAN : ResetErases(erased)) \/ ResetClears

Next ==
  \/ TurnOff
  \/ \E nvs \in {"read", "unread", "erased"} : Boot(nvs)
  \/ \E saved \in BOOLEAN : Provision(saved)
  \/ Transport
  \/ FetchTask
  \/ RegistrationTask
  \/ NetworkChanges
  \/ Timers
  \/ FactoryReset
  \/ Restart

(* Every task gets to run, every HTTP request ends, a timer goes off and a *)
(* restart that was ordered happens.                                       *)
Fairness ==
  /\ WF_vars(Transport)
  /\ WF_vars(FetchTask)
  /\ WF_vars(RegistrationTask)
  /\ WF_vars(SyncTimer)
  /\ WF_vars(ResetClears)
  /\ WF_vars(Restart)

Spec == Init /\ [][Next]_vars /\ Fairness

-----------------------------------------------------------------------------
(* Type invariant of the settings' life cycle. *)
TypeOK ==
  /\ flash \in [present : BOOLEAN, val : Settings]
  /\ phase \in {"off", "provisioning", "running"}
  /\ current \in Settings
  /\ hasCurrent \in BOOLEAN
  /\ isChanged \in BOOLEAN
  /\ state \in {"Idle", "LoadedFromCache", "FetchingFromApi", "Ready", "Error"}
  /\ level \in None..Syncing
  /\ syncDue \in BOOLEAN
  /\ failing \in BOOLEAN
  /\ saveFailed \in BOOLEAN
  /\ network \in {"down", "gotIp", "ready"}
  /\ pc \in {"handle", "clear", "apply", "save", "finish", "sync", "start", "check",
             "register", "persist", "attempt", "transport", "restart"}
  /\ taken \in Answers
  /\ fetch \in {"none", "http", "written", "published"}
  /\ pending \in Answers
  /\ hasPending \in BOOLEAN
  /\ reg \in {"none", "http", "ok", "failed"}
  /\ regSnapshot \in Settings
  /\ regDue \in BOOLEAN
  /\ registered \in BOOLEAN
  /\ started \in BOOLEAN
  /\ reset \in {"none", "erased", "cleared", "kept"}
  /\ accepted \in BOOLEAN

(* A fetch never stays open: while the manager reports FetchingFromApi,    *)
(* which stops registration and transports, an answer is on its way to the *)
(* transport task.                                                         *)
FetchAccountedFor ==
  state = "FetchingFromApi" =>
    \/ fetch \in {"http", "written"}
    \/ hasPending
    \/ pc \in {"apply", "save", "finish"}

(* The registered flag, in NVS or in memory, is never set for a device the *)
(* server does not know, over any number of boots, resets and provisionings*)
(* (a device that believes it is registered never asks again).             *)
RegisteredIsTrue ==
  flash.val.registered \/ (hasCurrent /\ current.registered) => accepted

(* Nothing a running device knows depends on its memory: a reboot finds    *)
(* all of it in NVS, unless a save failed or a save or a reset is in       *)
(* progress, although a registration saves the older settings it started   *)
(* from and a save may start from zeros.  NVS may have more: what an       *)
(* answer left empty is taken from memory and comes back with a reboot.    *)
MemorySurvivesReboot ==
  (/\ phase = "running" /\ hasCurrent
   /\ ~ saveFailed
   /\ reset = "none"
   /\ pc \notin {"save", "persist"})
     => /\ flash.present
        /\ [flash.val EXCEPT !.rest = current.rest] = current
        /\ current.rest # NoRest => flash.val.rest = current.rest

(* An answer or a registration that may still be saved. *)
InFlight ==
  \/ fetch \in {"http", "written"} \/ hasPending
  \/ pc \in {"clear", "apply", "save", "persist"}
  \/ reg \in {"http", "ok"}

ResetDone == reset = "cleared" /\ ~ flash.present /\ ~ hasCurrent /\ ~ InFlight

(* Factory reset: once NVS is erased and memory cleared with no answer and *)
(* no registration in flight, nothing writes settings again before the     *)
(* restart, whatever the transport task goes on to do.  One in flight may  *)
(* still be saved, and undo the reset.                                     *)
ResetStays == [][ResetDone => ResetDone' \/ phase' = "off"]_vars

(* A running device takes WiFi and API credentials out of NVS only for a   *)
(* factory reset, whatever parts an answer lacks, saves cannot read and    *)
(* registrations bring back.  An erased NVS and a save in provisioning     *)
(* that fails may lose them too, while the device does not run.            *)
CredentialsKept ==
  [][phase = "running" /\ flash.val.net /\ ~ flash.val.net'
       => reset' \in {"erased", "cleared"}]_vars

(* A device with WiFi credentials and an MQTT broker in its cache starts   *)
(* its transports whether or not the API answers and the network stays,    *)
(* or restarts.                                                            *)
TransportStarts ==
  (phase = "running" /\ Operational) ~> (started \/ phase = "off" \/ ~ hasCurrent)

(* What the manager says of a failed refresh: "Keep cached settings usable *)
(* for MQTT while API sync keeps retrying".  The network stays up here.    *)
ApiSyncKeepsRetrying ==
  (At("apply") /\ ~ taken.ok /\ hasCurrent)
    ~> (fetch = "http" \/ phase = "off" \/ network # "ready" \/ ~ hasCurrent)

(* "Runtime settings changed; restarting device to apply updated           *)
(* configuration": what the device restarts into, where the save           *)
(* succeeded, is the configuration it restarts for.  It is not so: a user, *)
(* a password or another string that an answer clears stays in NVS, the    *)
(* device comes up with it, gets the same answer, finds it changed and     *)
(* restarts, on every boot.                                                *)
RestartApplies ==
  (phase = "running" /\ pc = "restart" /\ reset = "none" /\ ~ saveFailed)
     => flash.present /\ flash.val = current

(* What the transport loop says: "The settings refresh must finish before  *)
(* registration or MQTT starts".                                           *)
NoOverlappingHandshakes == ~ (fetch = "http" /\ reg = "http")
=============================================================================
