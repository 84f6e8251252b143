# TLA+ models of IoTSmartSysCore

Models of the core of IoTSmartSysCore, the ESP32 firmware library for IoT
devices, with the TLC runs that check them and TLAPS proofs of theorems about
them.  In `PROJECT.json` a path starts with `src/`, the root of the
repository, so the implementation is under `src/src/`.

## The system

A device boots, reads its settings from NVS, and either opens provisioning
(no usable settings) or connects to WiFi, refreshes its settings from an HTTP
API, registers itself there, and connects to an MQTT broker.  Capabilities
(light, valve, garage door, sensors) turn commands into hardware states and
hardware states into events; events go to MQTT, and the states of on/off
capabilities go to NVS so that a reboot restores them.

Tasks, with no lock between them except the store's mutex:

| task | runs | touches |
|---|---|---|
| main loop | `SmartSysApp::handle`: device state, provisioning, factory reset, capabilities, OTA | settings (reset), offline queue (events), store (requests) |
| `iot_network` | `WiFiManager::handle` every 50 ms | gate bits, WiFi state |
| `iot_transport` | `handleTransportWork` every 20 ms: settings, registration, transports | settings, registration, MQTT service |
| WiFi events | `WiFiManager::onWiFiEvent` | gate bits, WiFi state |
| esp-mqtt | connection and message callbacks | `_connected`, observed flag, commands, offline queue |
| `settings_fetch` | one HTTP request | pending answer, APP_NETWORK_BUSY |
| `device_register` | one HTTP request | registration result, APP_NETWORK_BUSY |
| `bcs_writer` | writes the store to NVS | store |

### Inventory

| component | state | operations | what is hard | what makes it correct |
|---|---|---|---|---|
| binary state store (`EspNvsBinaryCapabilityStateProvider`) | blob in NVS, committed and desired snapshots, writer task | load, activate, requestSave, tryGet, write, commit | several callers, power loss, failing NVS, changing firmware | one record per identity; committed is durable; no request forgotten; nothing lost |
| binary capabilities (`CapabilityHelpers.h`) | last stable state | setup and restore, command, sync | restore confirmed by read-back; refused requests | what is stored is what was confirmed |
| settings manager and gate | settings in memory, state, gate level, retry time | init, handle, sync, apply, save, clear | answers through a flag; restart on change; level that only rises | a reboot reads all that memory has; retries go on; credentials stay |
| settings fetcher, parser | task, answer | start, run, finish | retries, HTTP fallback, lost network | every fetch ends in an answer |
| device registration | registered flag, task, snapshot | handle, complete, retry | lost answers, stale snapshot | registered only if the server knows |
| bootstrap, application loop | path of the boot, started flag | setup, handle, transport loop | order of sync, registration, transports | a configured device gets to MQTT |
| provisioning | channels, transfer over BLE, scheduled restart | start, connect, transfer, save, restart | broken transfers, failed save, power loss | a saved configuration boots; pieces of one transfer |
| factory reset, system commands | button time, scheduled restart | press, erase, restart | in-flight writers, bouncing, a slow loop | a settled reset stays; only a long press should reset |
| MQTT service, client adapter | connection state, attempts, profile, queue, statistics | handle, begin, stop, publish, callbacks | callbacks in another task, timeouts, fallback broker | client follows service; keeps trying; queue should be kept |
| WiFi manager | state, credentials, access point cache, roaming | handle, events, retry, roam | events against the loop; shared bits | always on its way to a connection |
| connectivity gate | bits | set, clear, wait | many writers | bits mean what they say |
| settings storage (`EspIdfNvsSettingsProvider`) | blob of one of five layouts | load, save, saveWiFiOnly, erase | migration, merge with what is there, reads that fail | the next boot finds all that was saved |
| transport hub, commands | channels, dispatchers | dispatch, forward | commands in the MQTT task | a command reaches its capability once |
| serial transport | line buffer, frame | read, frame, publish | bounded buffers | lines not joined, whole lines only; frames decode |
| OTA | last check, update state | check, download, verify, restart | long blocking work, failure | the updater never restarts into an unverified image |
| capability registration | slots, arena, identities | add, roll back | capacity, duplicates | objects apart, identities unique |
| garage control | two debounced sensors, state, lock | open, close, stop, lock, sensors | commands against the loop | the state, and what is published, is the door's |
| current sensor, power and energy | phases, zero, samples, baseline | sample, calibrate, accumulate | supply lost in between, gaps in readings | shown only if measured |
| LED, alarm, debouncers, latches | timers | handle | timers against commands | transitions only when stable |
| other drivers, displays, logging, JSON, pins | buffers | read, format | little state | not modelled |

The hazards behind these are listed, each with its line and the properties
that look for it, under `hazards` in `PROJECT.json`.

## Modules

### BinaryStateStore, DurableState

`BinaryStateStore` models the provider, its writer task, the requests of the
capabilities and NVS.  A region under the mutex is one action; outside of it
each step another task or a power loss can separate is an action: the
notification after the unlock, the notification taken, the drain's copy, the
write, the commit, the publication.  `Crash` may come between any two.
`LoadSnapshot` may fail to read, and each boot may register other
identities.  `Setup` and `NewStable` are `BinaryCommandCapability`: the
baseline moves before the request is made, so `RefuseSave` loses it.

`DurableState` is what the store promises with no records or tasks: NVS holds
a whole picture of the states that were wanted at one instant.  The
refinement maps a snapshot to the picture of its records and the writer's
copy to the picture being written.

### SettingsSync

Settings in memory and in NVS, the gate, the fetcher, the registration, the
bootstrap, provisioning, the factory reset and restarts.  The transport task
is a loop over `pc` with one action per stretch between two points where
another task's write is visible: an answer is copied (`TakePending`) and the
flag cleared afterwards (`ClearPending`); memory changes before NVS
(`ApplyAnswer`, `SaveCurrent`; `CompleteRegistration`,
`PersistRegistration`).  The other tasks and the timers are actions of their
own.  Settings keep what the control depends on: valid network credentials,
config mode, the registered flag, and the MQTT configuration in two parts, since
memory and NVS treat it differently: `ApplyChanges` replaces it whole in memory,
`Store` keeps in NVS what the new one lacks (`rest`: user, password, the other
brokers, the topics).  A save may fail to read the blob it merges with and then
starts from zeros; a boot may fail to read NVS, or erase it to initialise it.
`isChanged` is the mark on the settings in memory: set by an answer or a
registration, it stays until the restart it causes.

### MqttService

The connection's state machine of `MqttService::handle` with the callbacks of
the MQTT library and the WiFi events interleaved wherever `handle` reads what
they write: the gate, the observed-disconnection flag, `_connected`.  The
split of `scheduleRetry` into the counted attempt and the stopped client is
such a place.  The library's client is absent, stopped or running; `StartClient`
may leave it stopped without a word, as `start()` does, and while it runs it may
connect and disconnect at will.  Broker profiles are numbers; the
fallback is the first valid one that is not selected.

### OfflineQueue

`publish` and the ring it fills while the broker cannot be reached.  Events
of capabilities come from the main loop, announcements and events caused by
commands from the MQTT task, metrics from the transport task, which also
drains one message per call; nothing is locked.  `_qCount++`, `_qCount--` and
the moves of the tail are a load and a store each (`LoadCount`, `StoreCount`,
`DrainLoads`, `DrainStores`, `LoadTail`, `StoreTail`), and topic and payload
of a message are copied apart, so every way in which two tasks overwrite each
other's slot or count is in the model.  `BeginCount`, `BeginTail` and
`BeginHead` are `begin()`, which `startConnect` calls until the client could
be created: the three stores of `_qHead = _qTail = _qCount = 0`.  The client
may refuse a message and its connection may change at any time.

### WiFiConnection

`WiFiManager::handle` against `onWiFiEvent`, which the WiFi library calls from
a task of its own.  An event first writes the flags and the timer
(`OnConnected`, `OnGotIp`, `OnDisconnected`) and then the bits of the gate
(`WriteBits`); `hpc` is where `handle` may be overtaken: after it decided that
it is connected, after it saw the loss of the connection, around the waits
behind `WiFi.disconnect` and during the scans, which take seconds.  Events
wait in a queue, so those of an earlier connection reach the manager after it
began the next one.  The library does not reconnect by itself, since
`autoReconnect` is off.  Which access point is chosen is left open, but the
network of an attempt is the code's: `credential`, moved on by each retry and
reset by a connection, or the target that roaming prepared.

### Provisioning

Configuration mode and its end.  The provisioning task polls the manager and
serves the portal (`PortalSave`); callbacks of the Bluetooth stack receive a
configuration whole (`BleDirect`) or in pieces (`BleBegin`, `BleData`,
`BleEnd`).  A piece is known by the transfer it was sent in and a transfer by
the BEGIN that opened it, so a buffer shows where its pieces come from.
`CompleteProvisioning` may fail to save.  `PowerLost` may come at any time.

### SettingsFetch

The task of one request: `Attempt` decides, `PerformOnce` is the exchange,
`NoClient` is an exchange there is no memory for, `WaitForTime`, `Backoff` and the two phases (the URL as it is, then plain HTTP
for the one host that allows it) follow the code's loop, and `Performed` is its
decision after each attempt.  A chunk of the body is known by the attempt that
appended it.  `Parse` is which documents the parser takes and which of their
brokers it keeps.  Another task cancels, the network and the clock come and go.
`heard` is the status of the last exchange over TLS.

### SettingsStorage

The blob in NVS in the layouts of five firmware generations.  `LoadedFrom` is
what a boot makes of each, `SavedOver` what a save merges into the blob it found
(`Found`: the one there, or zeros when it cannot be read).  Strings that are
written, read and merged alike are one value of the constant `Texts`; a broker
has two, its host and its login, since a broker without a host is skipped and an
empty user, password or protocol keeps the old one.  The pair of WiFi fields the first generations had and its synchronisation with the
selected profile are kept, since several functions rewrite them.

### FirmwareUpdate

`OtaHandle` is the decision of `OTAManager::handle`; `CheckAndUpdate` is
`FirmwareUpdater` from the manifest to the restart, one action per exchange with
the server and per buffer written.  The two partitions are what the next boot
starts (`boot`) and what runs (`firmware`).  An image is as intended or damaged;
`UpdateEnd` is what closing the update activates.  Networks, downloads and
power fail between any two steps.

### GarageControl

The main loop samples, derives, publishes and remembers; the commands `lock`,
`unlock` and `stop` read the state, press buttons and write it back from
another task, so their reads and writes are steps of their own.  `stop` on a
moving door presses twice with a pause.  The debouncer's clock is a choice of
the sensors whose sample has lasted (`settled`).  The state the loop works with
(`current`), the one it compares with (`last`) and the one published last
(`published`) are three variables, as they are three things in the code.

### CapabilityRegistry

Every add of `CapabilitiesBuilder` with its rollback, as a function of the
registry: arena offset, arrays, pins and ids.  An add runs in the main task
before `setup`, so it is one step.  The sizes and alignments are a constant.

### Routing, SerialFrame

`Routing` cuts the bytes of the UART into lines, drops and reuses its buffer as
the code does, parses, runs the command and forwards to the other channels what
was refused.  A byte stands for a whole JSON field, and no field is the end of
a line, which JSON escapes.  `SerialFrame` is the frame
a subscription is sent in and its COBS encoding, with the decoding that
defines it (`CobsDecode`), over every frame of zeros and non-zeros.  Encoding
and decoding are recursive functions over the positions of a sequence.

### CurrentSensor, PowerMeter, ResetButton

`CurrentSensor` has the phases of the ACS712 driver and the publication of its
capability: one sample per turn, of the supply or of the signal.  A sample is
known by the phase and the supply it was taken under, so the zero shows what it
was made of.  `PowerMeter` is the energy over a sensor that comes and goes; its
variable `sound` measures, apart from the code, the time in which there were
readings.  `ResetButton` reads a pin that may change between any two reads, in
turns of free length; `releasedAt` is when the adapter last found it released, and
`clearing.held` how long the button had been held when the settings were cleared.

### MC_Device

`MqttService`, `OfflineQueue`, `WiFiConnection` and the eleven modules after them
share no variable, so one instance checks them: `focus` says whose steps a
behaviour takes and the others rest in an initial state.  The state space is the
sum of theirs.  The fairness of all components is four conditions, each over the
disjunction of one action of every component (`Granted`, `Loop`, `SecondTask`,
`ThirdTask`): `focus` never changes, so in a behaviour a condition is that of the
component the behaviour is about.  Only for `MqttService` does `Granted` join two
actions, and those are never both enabled for ever: `FirstConnect` is over once
it succeeded, `ConnectAgain` begins then.

The names of actions and variables follow the code; the map in `PROJECT.json`
gives the lines of each definition.  Each definition that a comment calls a
slip is a wrong variant of the definition after it and is used by no
specification; checking the property with the slip in place shows that the
property can fail.

## Runs

| run | shows | instance |
|---|---|---|
| `store` | unique records, truthful committed snapshot, no lost wake-up, records kept by a good boot, refinement of `DurableState`, a requested state committed or its failure reported | 3 identities, 2 firmwares, 2 records, 1 legacy record |
| `store_read_failure` | **fails**: confirmed records are lost after one failed read | 2 identities, 3 firmwares, 2 records |
| `settings` | a fetch always has an answer coming, registered only if the server knows, a reboot finds all that memory holds, a settled reset stays, credentials stay, a configured device starts its transports | 1 broker, 1 rest of an MQTT configuration |
| `settings_retry` | **fails**: the API is asked once per boot | as `settings` |
| `settings_overlap` | **fails**: registration and refresh overlap | as `settings` |
| `settings_restart` | **fails**: a restart brings the old configuration back | as `settings` |
| `device` | what the next table lists, component by component | see Bounds |
| `offline_queue_loss` | **fails**: an accepted message is lost | 2 tasks, 3 messages, 2 slots |
| `failed_save` | **fails**: after a save that failed no configuration is taken any more | 2 pieces, 4 connections |
| `reset_hold` | **fails**: the settings are cleared by a button nobody held | a hold of 3, turns of up to 2 |
| `garage_published` | **fails**: the published state of a door that stays at an endpoint is another one for ever | 1 command |
| `serial_overflow` | **fails**: the end of an overlong line is taken for a message | 1 line, buffers as in `device` |

The properties of `device`:

| component | property | says |
|---|---|---|
| all | `TypeOK`, `TypesOK` | types, and counters, arrays and buffers inside their limits |
| queue | `NoUnderflow`, `DrainsOut` | the count never underflows; a connected device empties the queue |
| registration | `RegistrySound` | objects stay apart in the arena; current sensors keep an id of their own |
| MQTT | `ClientFollowsService`, `NothingStale`, `OfflineAccounting`, `MqttKeepsTrying` | a client runs only as the service says; nothing outlives its connection; connections and disconnections are counted in turns; connected again and again, or the fallback keeps being started |
| WiFi | `SettledIsAnnounced`, `LateBitIsTakenBack`, `WifiKeepsTrying`, `TriesEveryNetwork` | a settled connection is announced; a late bit is taken back; the manager never stops trying and tries every network |
| garage | `GarageSettles` | the state the loop works with finds back to a door that stays at an endpoint; what is published is the run `garage_published` |
| routing | `NeverSpliced` | what is handed on is the end of one line, never of two; that it is the whole line is the run `serial_overflow` |
| frame | `FrameDecodes` | a frame has no zero inside and decodes to what was encoded |
| storage | `StorageFaithful` | an upgrade, or a save and a restart, takes nothing away that the device runs with |
| firmware | `RestartsVerified`, `CheckConcludes` | the updater restarts only into what it verified; a check ends |
| provisioning | `OneTransfer`, `SavedConfigBoots` | transfers do not mix; a saved configuration comes to run |
| fetch | `FetchSound` | plain HTTP never right after an answer over TLS, a body of one attempt, one task |
| sensors | `PowerSound` | amperes rest on a clean zero and a good supply, energy on readings |

The nine failing runs are disagreements between the code and what its
comments or documents say, listed under `findings`:

- A failed read at boot leaves the snapshot empty and the writer active; the
  first save then writes the empty snapshot plus one record over the blob.
- `syncFromApi` raises the gate to `Syncing`, above `Available` and `Synced`;
  since the level only rises and a sync starts only at `Available`, the
  scheduled retry never runs.
- `WiFiManager::isConnected` is true before the gate's bits are set, so
  registration may start first and the refresh then starts beside it.
- An answer replaces the MQTT configuration in memory, but a save never clears a
  string in NVS: a user or a password that an answer clears is back after the
  restart "to apply updated configuration", the same answer is a change again,
  and the device restarts on every boot.
- `begin()` of the MQTT service, called by the first connection attempt, empties
  the ring; what `publish` accepted before is lost and not counted as dropped.
- `handleNewConfig` marks the device provisioned and stops the channels whatever
  became of the save, so "a further attempt" waits for a power cycle.
- `FactoryResetButtonController::handle` asks `digitalActive()`, which reads the
  pin anew, and measures the hold from the adapter's last change: a press between
  the two reads has the age of the released state, and a device that ran for 15 s
  is reset by a touch, against "Keep pressed for 15s to clear settings".
- `lock`, `unlock` and `stop` publish an edit of the state they read, perhaps
  before the door arrived; the loop publishes only a change against what it
  derived last, so `closed` may never be published again while the door is
  closed, against GAR-004 and GAR-005 of `GARAGE-CONTROL-STATE.md`.
- A full serial buffer is emptied and reading goes on, so the rest of the line
  becomes a message, against "Overflow: discard current line".

What the models show besides and no document contradicts is in the notes of
`hazards`:

- Closing an update after its hash was refused activates the image for the next
  power cycle.
- Blobs of the third layout are never loaded.
- A save that fails does not keep the device from restarting to apply what it
  could not save.
- A boot that finds no free pages in NVS, or another version, erases the
  settings; no reset is needed.
- An answer or a registration in flight at a factory reset is still saved and
  undoes it: `ResetStays` is about a reset that has settled.
- A device without the time of day goes over to plain HTTP with no exchange over
  TLS, and one whose first attempt was answered with a 5xx does so after a
  second one that was not: `FetchSound` is about the last exchange over TLS.
- The MQTT service may wait in `Connecting` for a client that never started.

### Bounds

Three identities for two records and firmwares with two of them and with the
third make one identity find the store full, two share it and one be an orphan
of the other firmware; the initial blob may be of any.  One legacy slot out of two
makes a legacy blob differ from a v3 blob.  One broker and one rest make an MQTT
configuration absent, bare or full, so an answer can bring each part and clear the
rest; another broker would be one more change of what changes already.  The three
profiles and the threshold of three are the code's own; attempts are counted
up to the threshold (`FallbackThreshold`), above which the code compares them
no further.  Counters of statistics are left out or, for the connections and
disconnections, kept as a difference (`balance`).  Three messages for one slot
let the ring be full, the index wrap and both tasks be in `enqueue` at once
with one message to spare; that a count does not underflow is proved for any
number of tasks, messages and slots.  Two undelivered events are two of the
three of a connection; the library waits while two are undelivered, and the
manager's own disconnection may add a third, so a disconnection, or the end of
one connection, can be late for the next.  No run uses symmetry.

In `device`:

- *MQTT and WiFi.* The bounds just named: three profiles, a threshold of three,
  three networks, two undelivered events.
- *Registration.* Three capabilities, five adapters and eleven units of arena,
  where a capability takes three and an adapter one or three (`MCLayout`):
  either array or the arena may be the one that is full, before or in the
  middle of an add, and alignment leaves gaps.
- *Garage.* One command from outside against the endless loop; a `stop` on a
  moving door is two edits.  A second command would start when the first has
  ended, from a state the loop may reach by itself.
- *Routing.* A buffer of six fields, a raw buffer of five and lines of up to
  nine (`MCLines`) that are shorter than both, between them, and longer than
  either; two lines, since a property about splicing needs one before and one
  after.
- *Storage.* All five layouts with full settings, first ones (half a broker)
  and zeros (`MCOldBlobs`), and answers that set, omit, change or clear brokers,
  logins and the other groups (`MCAnswers`), over blobs that are read or not.
- *Firmware.* Three tries as in the code, an image of two buffers (a first and
  a last) and two mishaps (`MaxMishaps`: a lost network, a failed download, a
  power cycle), so that one may follow up on another.
- *Provisioning.* Configurations of two pieces, four connections or BEGINs and
  one loss of power: a transfer cut twice in different ways, then one that
  works.
- *Fetch.* Two attempts, one chunk of body and one over, two fetches, documents
  of two brokers: a retry, a fallback, an answer too long and a fetch after a
  cancelled one.
- *Sensors.* Two samples for a zero and two for a reading, power 0 and 1, gaps
  of one or two over four units of time.
- *Frame.* A block of three bytes and a code, frames up to seven bytes: none,
  one and two full blocks, each with a zero or the end after it.  Raw and
  encoded buffers of six and eight refuse the longest.
- *Button.* A hold of two (three in `reset_hold`), turns of up to two, seven
  units of time: two presses in full.

### Fairness

Weak fairness of the writer, transport, fetch and registration tasks and of
the notification that follows an unlock: FreeRTOS schedules every ready task
and none of these waits for a lock that is held over blocking work.  Weak
fairness of a timer: time passes.  Strong fairness of creating an MQTT client
that starts (`FirstConnect`, `ConnectAgain`): it needs memory that other work gives back.  Strong fairness of a
publication from the ring (`device`): the client of a lasting
connection refuses while its buffer is full, and sends it.  Nothing makes
NVS, the network, the API or a broker succeed; nothing forces a power loss or
a reset.  The MQTT service is run by the transport task, which
`TransportStarts` shows not to stay blocked by a refresh.

In `device` the main loop and the task of a command keep running (weak fairness
of `Handle` and `Execute` of the garage, of `OtaHandle` and `CheckAndUpdate` of
the update).  Strong fairness of a turn in which every sample has lasted: turns
follow one another within milliseconds and the debounce interval passes while a
door stands still.  `GatesOpen` is fair, for a network comes back and the
settings become available; a failed download is a mishap and mishaps are
bounded, so `CheckConcludes` says that a check ends once downloads stop
failing.  The provisioning task runs (`RestartWhenDue`) and the bootstrap
chooses one of its paths.

## Proofs

The theorems hold for all values of the constants the named assumption of the
module allows, and rest on nothing else.

| module | assumption | theorems | properties |
|---|---|---|---|
| `BinaryStateStore_proofs` | `StoreAssumption` | `TypeCorrect`, `RecordsAreUnique`, `CommittedDurable`, `WakeupNotLost`, `GoodBootKeepsRecords`, `StoreImplementsDurableState` | `TypeOK`, `UniqueRecords`, `CommittedIsDurable`, `NoLostWakeup`, `RecordsKept`, `ImplementsDurableState` |
| `MqttService_proofs` | `MqttAssumption` | `MqttTypeCorrect`, `ServiceAndClientAgree`, `NothingOutlivesItsConnection`, `ConnectionsAreCounted` | `ClientFollowsService`, `NothingStale`, `OfflineAccounting` |
| `Messages_proofs` | those of `OfflineQueue`, `SerialFrame` and `Routing` | `TypeCorrect`, `CountNeverUnderflows`, `TurnsKeepMessages`; `FrameTypeCorrect`, `FramesDecode`; `RoutingTypeCorrect`, `LinesAreNeverSpliced` | `TypeOK`, `NoUnderflow`; `FrameDecodes`; `NeverSpliced` |
| `WiFiConnection_proofs` | `WiFiAssumption` | `WifiTypeCorrect`, `SettledConnectionIsAnnounced` | `SettledIsAnnounced` |
| `SettingsSync_proofs` | `SettingsAssumption` | `TypeCorrect`, `EveryFetchIsAnswered`, `RegisteredMeansAccepted`, `RebootReadsTheSame`, `CredentialsStay`, `ResetIsFinal` | `TypeOK`, `FetchAccountedFor`, `RegisteredIsTrue`, `MemorySurvivesReboot`, `CredentialsKept`, `ResetStays` |
| `Capabilities_proofs` | those of `CapabilityRegistry`, `GarageControl`, `ResetButton`, `PowerMeter` and `CurrentSensor` | `AddsAreSound`, `LimitsHold`, `RegistryTypes`; `GarageTypes`; `ButtonTypes`; `GapsAreNotCounted`, `MeterTypes`; `CalibrationIsSound`, `CurrentTypes` | `RegistrySound` |
| `Delivery_proofs` | those of `Provisioning`, `SettingsFetch`, `FirmwareUpdate` and `SettingsStorage` | `ProvisioningTypes`, `TransfersDoNotMix`; `FetchTypes`, `FetchIsSound`; `FirmwareTypes`, `UpdaterRestartsVerified`; `StorageTypeCorrect`, `StorageIsFaithful` | `OneTransfer`; `FetchSound`; `RestartsVerified`; `StorageFaithful` |
| `Device_proofs` | those of the fourteen components | `DeviceTypes`, `DevicePowerSound`, `DeviceIsSafe` | `TypesOK`, `PowerSound`, and the other safety properties of `device` |

Each proves an inductive invariant (`IInv`, or a name of the component's) by one
lemma per action or group of actions; the properties follow from it.  Few are
inductive alone, and what has to be added is why the code is right:

- **Store.** A commit publishes the writer's copy, so `IInv` says what that
  copy is: after a commit that succeeded and before its publication it is the
  snapshot in NVS (`Staged`).  Before the writer runs nothing is pending
  (`Phases`).  After a good read the desired snapshot, and the copy while it is
  written, lacks no record that NVS has, and the copy has no record the desired
  snapshot lacks (`Covers`); that is what keeps records through a write that
  replaces the whole blob.  In the refinement proof every action maps to an
  action of `DurableState` or to a stutter.
- **MQTT service.** Where `handle` is says what the state and the client are
  (`MqttPhases`), and once `handle` has taken the flag of an observed
  disconnection only a running client sets it again (`FlagTaken`); hence a
  successor is not torn down.  That connections and disconnections come in
  turns needs both.  The broker tried is a profile because the minimum of a
  set of numbers is one of them (`MinIsMember`, from the well-foundedness of
  the natural numbers).
- **Offline queue.** Only the transport task lowers the count, and producers
  store a count that grew, so a count the drain saw or loaded stays positive
  (`LoadedIsPositive`), however stale it is.
  That an accepted message is kept is false of the code, and `TurnsKeepMessages`
  says what it takes to lose one: as long as one task at a time is in the ring
  and none publishes before `begin` has reset it (`TakesTurns`), the tail stays
  one place behind what waits, through the wrap (`PlacesFollow`), a producer
  writes where nothing waits (`WriterInStep`), and so each message accepted was
  sent or waits (`AcceptedWaits`).  The code ensures neither condition; with
  only one of them as a state constraint of `MC_OfflineQueue` TLC still finds a
  loss.
- **WiFi.** Of the events only an address leaves `_gotIp` set while its bits
  are due (`EventsAgree`), and IP_READY can be missing in the settled state
  only while a writer is about to set it or the manager is about to leave
  (`AnnouncedOrDue`).
- **Settings.** Not only the stored and the current flag but a registration
  that ended well, and one about to be saved, mean that the server accepted the
  device (`ServerKnows`); answers never carry the flag.  A reboot
  finds what memory has because what is saved has it all: after a registration the
  older snapshot is saved while memory holds a merge, and the two are the same
  unless an answer came between, which restarts the device (`MemoryKnown`); and
  storing over any blob, or over zeros, keeps what is stored (`NvsFollows`,
  `Covers`).  Credentials stay for the same reason: what a running device saves has
  them itself.  A boot starts with empty memory (`Fresh`).
- **Registry.** All an add may place lies behind the offset, and what is
  registered before it (`Inside`, `AllApart`), for aligning never moves back; a
  rollback therefore uncovers nothing registered.  An id is taken with its only
  capability and refused to later ones (`IdsOnce`).  That the adapters of a
  garage control are created one after the other is a recursive function, whose
  equation is shown by the smallest argument without a value.
- **Provisioning.** `OneTransfer` is inductive with the types: every way out of
  a connection empties the buffer, and every BEGIN empties it under a new number.
- **Firmware.** The type invariant is the induction; the action property follows
  from the guard of the restart and from what refuses an image.
- **Fetch.** While the task tries, the status the loop decides on is the last
  one heard over TLS, and the phase in the clear was entered with none
  (`StatusHeard`), which includes that there was no exchange; the body is of the attempt on the air (`BodyOfTurn`).
- **Sensors.** A baseline is the last evaluation, and that one was sound
  (`MeterInv`); a calibration goes on only under a supply that allows it and
  collects only its own samples, and what a stopped one brings back has a zero
  that is still there (`CalibrationInv`).
- **Storage.** What a boot loads from a blob of any version is whole settings
  (`Complete`), by a lemma for each generation (`FromV4` to `FromV7`); a save
  over any blob keeps or replaces each group (`StoresAs`), and loading what was
  saved gives each group back (`ReadsTo`, `OverridesTo`).  Whatever blob, or
  zeros, a save merges with, what memory has goes through it (`Merged`,
  `SaveFound`), so the blob is left out of the invariant (`SavedFound`) but for
  what the next boot finds.  `UpgradeIsFaithful` is then about the blob alone.
- **Frames.** What the encoder has written before the open block is finished
  and never written again (`Frozen`), the open block holds the last bytes read
  (`HoldsLast`) and no byte but the open code is zero (`NoZero`).  The decoding
  is followed backwards, since it is defined from the end: the bytes after a
  position of the encoding decode to the bytes of the frame after the
  position's own (`DecodesFrom`), and one byte less is one step back
  (`BackOneByte`), over a continued block, a closed one or a full one
  (`BlockDecodes`).  What both recursive functions compute is shown by the
  smallest number for which it fails: no induction theorem of the library takes
  part, only the well-foundedness of the natural numbers.
- **Lines.** What is on the wire is the end of the line sent last (`LeftOf`),
  and the receive buffer holds what was read of it just before (`Holds`): a
  piece that ends where reading is, wherever its beginning was cut.  Hence what
  a line feed ends is an end of that line.  No field being an end of line
  is part of `RoutingAssumption`.
- **Times and counts.** No time the button or the meter remembers is later than
  now (`ButtonTimes`, `MeterTimes`), and the sound time is no longer than time
  itself, so the energy has a bound; a reading cut short leaves fewer samples
  than a reading takes (`Filled`).
- **Device.** A step of the composition is a step of each component or leaves
  it alone (`DeviceStep`), so a behaviour of the device is one of each component
  (`DeviceProjects`), and the invariants and action properties of the run
  `device` follow from the components' theorems, for all constants.

Every invariant and every safety property of an action that a run checks is
proved.  Only model-checked are the liveness properties, whose fairness is out
of the prover's reach, and what the runs that expect a violation refute.

## Not modelled, and why

- The blink timer of the LED and the alarm's pattern, the priority of conditions
  behind the state LED, displays, logging and metrics: outputs nothing reads.
- The debouncers and latches of the digital sensors, except the garage's and
  the reset button's; the other sensor capabilities compare and publish.
- Torn reads: settings are strings copied while another task writes them.
  `SettingsSync` reads and writes them whole, `GarageControl` its state; the
  hazard is listed.
- `cancel()` of the fetcher is called by nothing; `SettingsFetch` has it since
  the task provides for it.
- `_settingsReady` of the MQTT service is always true where the transport task
  runs, since the gate's level never goes back.
- Times are over or not over, except in the sensors and the button; the 32-bit
  wrap of `millis()` is listed as a hazard.
- Formatting, the fields of JSON documents, headers and TLS, the arithmetic of
  samples, registers of drivers, pin tables, the pages of the portal, and the
  scan and list of networks in configuration mode.
- Which access point is chosen, the cache of scans and the RSSI thresholds of
  roaming are nondeterministic in `WiFiConnection`.
- The subscriptions of the MQTT service, arguments `publish` refuses, and
  ArduinoOTA, to which an update is pushed.
- The properties of one module assume the others' behaviour as its
  environment: `MqttService` sees any change of the network bits, not only
  those `WiFiConnection` makes; `SettingsSync` sees a fetch as one answer or
  none, which `SettingsFetch` details.

## Plan

The parts with state of their own are modelled; what could follow:

1. `SettingsFetch` shown to implement the fetch of `SettingsSync`.
2. The order in which the ring hands its messages on while turns are taken.
3. Backoff and wrap of time as functions checked against a definition over
   unbounded integers; choice of an access point.
4. `LedCapability`, `DebouncedDigital` and `LatchedTrigger` over the requests of
   `BinaryStateStore`.
