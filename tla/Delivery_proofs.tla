---------------------------- MODULE Delivery_proofs ----------------------------
(* Proofs about what reaches the device in pieces or in several attempts: a   *)
(* configuration over BLE (Provisioning), the settings over HTTP              *)
(* (SettingsFetch), a firmware (FirmwareUpdate) and what an earlier firmware  *)
(* left in flash (SettingsStorage), for every length, number of attempts,     *)
(* connections and failures.                                                  *)
EXTENDS Provisioning, SettingsFetch, FirmwareUpdate, SettingsStorage, TLAPS

-----------------------------------------------------------------------------
(* A configuration: the chunks of one transfer never mix with another's. *)

\* The type of the transfer in full; TLC cannot enumerate its buffers.
ShapeOK ==
  transferred \in [inProgress : BOOLEAN, expected : {0, Announced}, buffer : Seq(Nat)]

PInv == ProvisioningTypeOK /\ ShapeOK /\ OneTransfer

-----------------------------------------------------------------------------
(* A transfer that is not there has no chunks, and no client stays connected. *)
LEMMA NothingReceived ==
  /\ NoTransfer \in [inProgress : BOOLEAN, expected : {0, Announced}, buffer : Seq(Nat)]
  /\ Len(NoTransfer.buffer) = 0
  /\ DOMAIN NoTransfer.buffer = {}
<1> DEFINE empty == <<>>
<1>1. empty \in Seq(Nat) /\ Len(empty) = 0 /\ DOMAIN empty = {}
  OBVIOUS
<1>2. NoTransfer = [inProgress |-> FALSE, expected |-> 0, buffer |-> empty]
  BY DEF NoTransfer
<1> HIDE DEF empty
<1> QED  BY <1>1, <1>2

(* Nothing is received yet when the device starts. *)
LEMMA ProvisioningStarts == ProvisioningInit => PInv
<1> SUFFICES ASSUME ProvisioningInit PROVE PInv
  OBVIOUS
<1> USE ProvisioningAssumption DEF ProvisioningInit
<1>1. ShapeOK /\ OneTransfer
  BY NothingReceived DEF ShapeOK, OneTransfer
<1>2. ble \in [connected : BOOLEAN, transfer : 0..MaxConnections]
  BY DEF Unconnected
<1>3. /\ transferred.inProgress \in BOOLEAN /\ transferred.expected \in {0, Announced}
      /\ Len(transferred.buffer) <= Announced + 1
  BY NothingReceived
<1>4. powerCycles \in 0..MaxPowerCycles
  OBVIOUS
<1>5. active \subseteq built
  OBVIOUS
<1> QED  BY <1>1, <1>2, <1>3, <1>4, <1>5 DEF PInv, ProvisioningTypeOK

(* What the manager does on a new configuration keeps its variables' types. *)
LEMMA ManagerKeepsTypes ==
  ASSUME ProvisioningTypeOK, NEW config \in {"portal", "direct", "chunked"},
         NewConfig(config) \/ Rejected
  PROVE  /\ active' \subseteq built
         /\ provisioned' \in BOOLEAN /\ restartDue' \in BOOLEAN /\ failedSave' \in BOOLEAN
         /\ flash' \in {"none", "portal", "direct", "chunked"}
         /\ told' \in {"nothing", "receiving", "applied", "failed"}
BY DEF ProvisioningTypeOK, NewConfig, CompleteProvisioning, StopAllChannels,
       Rejected

(* A reboot empties the buffer with the connection. *)
LEMMA RebootKeepsPInv ==
  ASSUME PInv, Rebooted, powerCycles' \in 0..MaxPowerCycles
  PROVE  PInv'
<1> USE ProvisioningAssumption DEF Rebooted
<1>1. ShapeOK' /\ OneTransfer'
  BY NothingReceived DEF ShapeOK, OneTransfer
<1>2. ble' \in [connected : BOOLEAN, transfer : 0..MaxConnections]
  BY DEF Unconnected, PInv, ProvisioningTypeOK
<1>3. /\ transferred'.inProgress \in BOOLEAN /\ transferred'.expected \in {0, Announced}
      /\ Len(transferred'.buffer) <= Announced + 1
  BY NothingReceived
<1>4. active' \subseteq built'
  OBVIOUS
<1> QED  BY <1>1, <1>2, <1>3, <1>4 DEF PInv, ProvisioningTypeOK

(* Steps of the bootstrap and of the portal do not touch the transfer. *)
LEMMA ManagerStep ==
  ASSUME PInv, ProvisioningBegin \/ RuntimeBegin \/ PortalSave
  PROVE  PInv'
<1> USE DEF PInv, ProvisioningTypeOK, ShapeOK, OneTransfer, bleVars, managerVars
<1>1. CASE ProvisioningBegin
  <2>1. active' \subseteq built
    BY <1>1 DEF ProvisioningBegin, StartHighestPriorityChannels, BleChannelBegin
  <2>2. /\ UNCHANGED <<built, provisioned, restartDue, flash, told, failedSave, bleVars, powerCycles>>
        /\ mode' = "config"
    BY <1>1 DEF ProvisioningBegin
  <2> HIDE DEF StartHighestPriorityChannels
  <2>3. ShapeOK' /\ OneTransfer'
    BY <2>2
  <2> QED  BY <2>1, <2>2, <2>3
<1>2. CASE RuntimeBegin
  BY <1>2 DEF RuntimeBegin
<1>3. CASE PortalSave
  BY <1>3, ManagerKeepsTypes DEF PortalSave
<1> QED  BY <1>1, <1>2, <1>3

(* A connection, lost or new, and a BEGIN leave an empty buffer or found one. *)
LEMMA ConnectionStep ==
  ASSUME PInv, BleConnect \/ BleDisconnect \/ BleBegin
  PROVE  PInv'
<1> USE ProvisioningAssumption, NothingReceived
    DEF PInv, ProvisioningTypeOK, ShapeOK, OneTransfer, managerVars, Unconnected
<1>1. CASE BleConnect
  BY <1>1 DEF BleConnect
<1>2. CASE BleDisconnect
  BY <1>2 DEF BleDisconnect
<1>3. CASE BleBegin
  <2> DEFINE empty == <<>>
  <2>1. empty \in Seq(Nat) /\ Len(empty) = 0 /\ DOMAIN empty = {}
    OBVIOUS
  <2>2. PICK n \in {0, Announced} :
          transferred' = [inProgress |-> TRUE, expected |-> n, buffer |-> empty]
    BY <1>3 DEF BleBegin
  <2>3. /\ ble' \in [connected : BOOLEAN, transfer : 0..MaxConnections]
        /\ told' = "receiving"
        /\ UNCHANGED <<built, mode, active, provisioned, restartDue, flash, failedSave, powerCycles>>
    BY <1>3 DEF BleBegin
  <2> HIDE DEF empty
  <2>4. ShapeOK' /\ OneTransfer' /\ Len(transferred'.buffer) = 0
    BY <2>1, <2>2
  <2> QED  BY <2>2, <2>3, <2>4
<1> QED  BY <1>1, <1>2, <1>3

(* A chunk is of the transfer that is open. *)
LEMMA DataStep ==
  ASSUME PInv, BleData
  PROVE  PInv'
<1> USE ProvisioningAssumption DEF PInv, ProvisioningTypeOK, ShapeOK, OneTransfer
<1> DEFINE grown == Append(transferred.buffer, ble.transfer)
<1>1. /\ ble.connected
      /\ UNCHANGED <<built, mode, active, provisioned, restartDue, flash, failedSave, ble, powerCycles>>
      /\ told' \in {"receiving", "failed"}
  BY DEF BleData, Listening
<1>2. /\ grown \in Seq(Nat)
      /\ Len(grown) = Len(transferred.buffer) + 1
      /\ \A i \in DOMAIN grown : grown[i] = ble.transfer
  OBVIOUS
<1>3. \/ UNCHANGED transferred
      \/ transferred' = NoTransfer
      \/ transferred' = [transferred EXCEPT !.buffer = grown]
  BY DEF BleData
<1>4. Len(transferred.buffer) <= Announced
  BY DEF BleData
<1>5. CASE UNCHANGED transferred
  BY <1>1, <1>5
<1>6. CASE transferred' = NoTransfer
  BY <1>1, <1>6, NothingReceived
<1>7. CASE transferred' = [transferred EXCEPT !.buffer = grown]
  <2>1. /\ transferred'.buffer = grown
        /\ transferred'.inProgress = transferred.inProgress
        /\ transferred'.expected = transferred.expected
        /\ transferred' \in [inProgress : BOOLEAN, expected : {0, Announced}, buffer : Seq(Nat)]
    BY <1>2, <1>7
  <2> QED  BY <1>1, <1>2, <1>4, <2>1
<1> QED  BY <1>3, <1>5, <1>6, <1>7

(* END, and a configuration in one write, empty the buffer or leave it. *)
LEMMA EndStep ==
  ASSUME PInv, BleEnd \/ BleDirect
  PROVE  PInv'
<1> USE ProvisioningAssumption, NothingReceived
    DEF PInv, ProvisioningTypeOK, ShapeOK, OneTransfer, bleVars
<1>1. CASE BleEnd
  <2>1. /\ NewConfig("chunked") \/ Rejected
        /\ transferred' \in {transferred, NoTransfer}
        /\ UNCHANGED <<built, mode, ble, powerCycles>>
    BY <1>1 DEF BleEnd
  <2> QED  BY <2>1, ManagerKeepsTypes
<1>2. CASE BleDirect
  BY <1>2, ManagerKeepsTypes DEF BleDirect
<1> QED  BY <1>1, <1>2

(* Every step keeps the invariant. *)
LEMMA ProvisioningStep == PInv /\ [ProvisioningNext]_provisioningVars => PInv'
<1> SUFFICES ASSUME PInv, [ProvisioningNext]_provisioningVars PROVE PInv'
  OBVIOUS
<1>1. CASE ProvisioningBegin \/ RuntimeBegin \/ PortalSave
  BY <1>1, ManagerStep
<1>2. CASE RestartWhenDue \/ PowerLost
  <2>1. Rebooted /\ powerCycles' \in 0..MaxPowerCycles
    BY <1>2, ProvisioningAssumption DEF RestartWhenDue, PowerLost, PInv, ProvisioningTypeOK
  <2> QED  BY <2>1, RebootKeepsPInv
<1>3. CASE BleConnect \/ BleDisconnect \/ BleBegin
  BY <1>3, ConnectionStep
<1>4. CASE BleData
  BY <1>4, DataStep
<1>5. CASE BleEnd \/ BleDirect
  BY <1>5, EndStep
<1>6. CASE UNCHANGED provisioningVars
  BY <1>6 DEF provisioningVars, managerVars, bleVars, PInv, ProvisioningTypeOK, ShapeOK,
              OneTransfer
<1> QED  BY <1>1, <1>2, <1>3, <1>4, <1>5, <1>6 DEF ProvisioningNext

(* Types, and chunks of the transfer that is open, in every state. *)
THEOREM ProvisioningInvariance == ProvisioningSpec => []PInv
BY ProvisioningStarts, ProvisioningStep, PTL DEF ProvisioningSpec

(* Manager, channels and transfer keep their types. *)
THEOREM ProvisioningTypes == ProvisioningSpec => []ProvisioningTypeOK
BY ProvisioningInvariance, PTL DEF PInv

(* onConfigWrite never appends a chunk to what another transfer left. *)
THEOREM TransfersDoNotMix == ProvisioningSpec => []OneTransfer
BY ProvisioningInvariance, PTL DEF PInv

-----------------------------------------------------------------------------
(* The settings: what goes out in the clear, which attempt a body comes from *)
(* and that there is one task.                                               *)

Turns == [phase : {0, 1}, attempt : 0..MaxAttempts]

\* In full, what FetchTypeOK says of the fields.
FetchShape ==
  /\ FetchTypeOK
  /\ turn \in Turns
  /\ body \in [from : SUBSET Turns, size : 0..BodyCap]

Trying == fetchTask \in {"attempt", "wait_for_time", "air", "backoff"}

\* The status that decides on the fallback is that of the last exchange over
\* TLS, and after the fallback there was none.
StatusHeard ==
  Trying => /\ turn.phase = 1 => url = "api" /\ heard = None
            /\ turn.phase = 0 /\ url # "plain" => httpStatus = heard

\* The body is emptied before each attempt.
BodyOfTurn ==
  /\ fetchTask = "wait_for_time" => body.from = {} /\ Tls
  /\ fetchTask = "air" => body.from \subseteq {turn}
  /\ fetchTask = "backoff" => turn.attempt < MaxAttempts

FInv == FetchShape /\ OneFetchTask /\ StatusHeard /\ BodyOfTurn /\ BodyOfOneAttempt

-----------------------------------------------------------------------------
(* An empty body is a body. *)
LEMMA NoBodyTyped == NoBody \in [from : SUBSET Turns, size : 0..BodyCap] /\ NoBody.from = {}
BY FetchAssumption DEF NoBody

(* Nothing runs when the device starts. *)
LEMMA FetchStarts == FetchInit => FInv
<1> SUFFICES ASSUME FetchInit PROVE FInv
  OBVIOUS
<1> USE DEF FetchInit
<1>1. turn \in Turns /\ turn.phase = 0 /\ turn.attempt = 0
  BY FetchAssumption DEF Turns
<1>2. FetchTypeOK
  <2>1. body.size \in 0..BodyCap /\ fetches \in 0..MaxFetches
    BY NoBodyTyped, FetchAssumption
  <2>2. turn.phase \in {0, 1} /\ turn.attempt \in 0..MaxAttempts
    BY <1>1, FetchAssumption
  <2> QED  BY <2>1, <2>2 DEF FetchTypeOK
<1> QED  BY <1>1, <1>2, NoBodyTyped
         DEF FInv, FetchShape, OneFetchTask, StatusHeard, Trying, BodyOfTurn, BodyOfOneAttempt

(* start() finds no task; a cancel and the surroundings touch none. *)
LEMMA CallerStep ==
  ASSUME FInv, FetchStart \/ FetchCancel \/ Surroundings
  PROVE  FInv'
<1> USE FetchAssumption, NoBodyTyped
    DEF FInv, FetchShape, FetchTypeOK, OneFetchTask, StatusHeard, Trying, BodyOfTurn,
        BodyOfOneAttempt
<1>1. CASE FetchStart
  <2>1. /\ fetchTask' \in {"none", "created"}
        /\ fetchRunning' = (fetchTask' = "created")
        /\ url' \in {"api", "other", "plain"}
        /\ fetchCancel' = FALSE /\ body' = NoBody /\ fetches' \in 0..MaxFetches
        /\ UNCHANGED <<turn, httpStatus, heard, result, online, clockSet>>
    BY <1>1 DEF FetchStart
  <2> QED  BY <2>1
<1>2. CASE FetchCancel
  BY <1>2 DEF FetchCancel, taskVars, Tls
<1>3. CASE Surroundings
  <2>1. /\ UNCHANGED <<fetchTask, fetchRunning, fetchCancel, url, turn, httpStatus, body, heard,
                       result, fetches>>
        /\ online' \in BOOLEAN /\ clockSet' \in BOOLEAN
    BY <1>3 DEF Surroundings, taskVars
  <2> QED  BY <2>1 DEF Tls
<1> QED  BY <1>1, <1>2, <1>3

(* The fallback, with the state that attempt, backoff and callback need. *)
LEMMA PerformedKeeps ==
  ASSUME FInv, NEW err, NEW status \in {None, "2xx", "408", "4xx", "5xx"},
         fetchTask \in {"wait_for_time", "air"}, Performed(err, status),
         fetchTask = "wait_for_time" => err = "timeout",
         turn.phase = 0 /\ url # "plain" => heard' = status,
         ~(turn.phase = 0 /\ url # "plain") => heard' = heard,
         UNCHANGED <<body, surroundings>>
  PROVE  FInv'
<1> USE FetchAssumption DEF FInv, FetchShape, FetchTypeOK
<1>1. /\ httpStatus' = status
      /\ UNCHANGED <<body, fetchRunning, fetchCancel, url, online, clockSet, fetches>>
      /\ heard' \in {None, "2xx", "408", "4xx", "5xx"}
      /\ fetchRunning
  BY DEF Performed, surroundings, OneFetchTask, None
<1>2. CASE fetchTask' = "callback" /\ UNCHANGED turn
           /\ (result'.err = "ok" => fetchTask = "air")
  BY <1>1, <1>2 DEF OneFetchTask, StatusHeard, Trying, BodyOfTurn, BodyOfOneAttempt
<1>3. CASE fetchTask' = "backoff" /\ UNCHANGED <<turn, result>> /\ turn.attempt < MaxAttempts
  BY <1>1, <1>3 DEF OneFetchTask, StatusHeard, Trying, BodyOfTurn, BodyOfOneAttempt
<1>4. CASE /\ fetchTask' = "attempt" /\ turn' = [phase |-> 1, attempt |-> 1]
           /\ turn.phase = 0 /\ url = "api" /\ status = None
  <2>1. turn' \in Turns /\ turn'.phase = 1 /\ turn'.attempt = 1
    BY <1>4 DEF Turns
  <2> QED  BY <1>1, <1>4, <2>1
           DEF OneFetchTask, StatusHeard, Trying, BodyOfTurn, BodyOfOneAttempt
<1>5. \/ fetchTask' = "callback" /\ UNCHANGED turn /\ (result'.err = "ok" => err = "ok")
      \/ fetchTask' = "backoff" /\ UNCHANGED <<turn, result>> /\ ShouldRetry(err, status)
      \/ /\ fetchTask' = "attempt" /\ turn' = [phase |-> 1, attempt |-> 1]
         /\ ShouldUseHttpFallback(err, status)
  BY DEF Performed, FinishAndCallback
<1> QED  BY <1>2, <1>3, <1>4, <1>5
         DEF ShouldRetry, ShouldUseHttpFallback, HasFallbackUrl

(* The start of a task and of an attempt. *)
LEMMA AttemptStep ==
  ASSUME FInv, TaskEntry \/ Attempt \/ Backoff
  PROVE  FInv'
<1> USE FetchAssumption, NoBodyTyped
    DEF FInv, FetchShape, FetchTypeOK, OneFetchTask, StatusHeard, Trying, BodyOfTurn,
        BodyOfOneAttempt, surroundings
<1>1. CASE TaskEntry
  <2>1. turn' \in Turns /\ turn'.phase = 0 /\ turn'.attempt = 1
    BY <1>1 DEF TaskEntry, Turns
  <2> QED  BY <1>1, <2>1 DEF TaskEntry, None
<1>2. CASE Attempt
  <2>1. /\ fetchTask = "attempt"
        /\ UNCHANGED <<turn, httpStatus, heard, surroundings>>
        /\ \/ fetchTask' = "callback" /\ result'.err # "ok" /\ UNCHANGED body
           \/ fetchTask' = (IF Tls THEN "wait_for_time" ELSE "air") /\ body' = NoBody
    BY <1>2 DEF Attempt, FinishAndCallback
  <2> QED  BY <2>1 DEF Tls
<1>3. CASE Backoff
  <2>1. turn' \in Turns /\ turn'.phase = turn.phase
    BY <1>3 DEF Backoff, Turns
  <2>2. turn'.attempt \in 0..MaxAttempts
    BY <2>1 DEF Turns
  <2> QED  BY <1>3, <2>1, <2>2 DEF Backoff
<1> QED  BY <1>1, <1>2, <1>3

(* The wait for the time of day, and the exchange. *)
LEMMA ExchangeStep ==
  ASSUME FInv, WaitForTime \/ AppendBody \/ NoClient \/ PerformOnce
  PROVE  FInv'
<1>1. CASE WaitForTime
  <2>1. CASE Performed("timeout", httpStatus)
    <3>1. httpStatus \in {None, "2xx", "408", "4xx", "5xx"} /\ turn.phase = 0 /\ url # "plain"
      BY <1>1 DEF WaitForTime, FInv, FetchShape, FetchTypeOK, BodyOfTurn, Tls
    <3>2. heard' = httpStatus
      BY <1>1, <3>1 DEF WaitForTime, FInv, StatusHeard, Trying
    <3> QED  BY <1>1, <2>1, <3>1, <3>2, PerformedKeeps DEF WaitForTime
  <2>2. CASE fetchTask' = "air" /\ UNCHANGED <<turn, lastErr, httpStatus, result>>
    BY <1>1, <2>2
       DEF WaitForTime, FInv, FetchShape, FetchTypeOK, OneFetchTask, StatusHeard, Trying,
           BodyOfTurn, BodyOfOneAttempt, surroundings
  <2> QED  BY <1>1, <2>1, <2>2 DEF WaitForTime
<1>2. CASE AppendBody
  <2> USE FetchAssumption DEF FInv, FetchShape
  <2>1. /\ body' \in [from : SUBSET Turns, size : 0..BodyCap]
        /\ body'.from \subseteq {turn}
    BY <1>2 DEF AppendBody, BodyOfTurn
  <2>2. body'.size \in 0..BodyCap
    BY <2>1
  <2> QED  BY <1>2, <2>1, <2>2
           DEF AppendBody, FetchTypeOK, OneFetchTask, StatusHeard, Trying, BodyOfTurn,
               BodyOfOneAttempt, surroundings
<1>3. CASE PerformOnce
  <2>1. PICK answer \in FetchAnswers :
          /\ Performed(answer.err, answer.status)
          /\ heard' = IF Tls THEN answer.status ELSE heard
    BY <1>3 DEF PerformOnce
  <2>2. answer.status \in {None, "2xx", "408", "4xx", "5xx"}
    BY DEF FetchAnswers
  <2>3. turn.phase \in {0, 1}
    BY DEF FInv, FetchShape, FetchTypeOK
  <2> QED  BY <1>3, <2>1, <2>2, <2>3, PerformedKeeps DEF PerformOnce, Tls
<1>4. CASE NoClient
  <2>1. httpStatus \in {None, "2xx", "408", "4xx", "5xx"} /\ heard' = heard
    BY <1>4 DEF NoClient, FInv, FetchShape, FetchTypeOK
  <2>2. turn.phase = 0 /\ url # "plain" => heard = httpStatus
    BY <1>4 DEF NoClient, FInv, StatusHeard, Trying
  <2> QED  BY <1>4, <2>1, <2>2, PerformedKeeps DEF NoClient
<1> QED  BY <1>1, <1>2, <1>3, <1>4

(* The callback and the end of the task. *)
LEMMA CallbackStep ==
  ASSUME FInv, Callback \/ TaskEnds
  PROVE  FInv'
<1>1. /\ UNCHANGED <<turn, httpStatus, heard, body, fetchCancel, url, online, clockSet, fetches>>
      /\ \/ fetchTask = "callback" /\ fetchTask' = "called_back" /\ UNCHANGED fetchRunning
         \/ fetchTask' = "none" /\ fetchRunning' = FALSE
  BY DEF Callback, TaskEnds, taskVars
<1>2. FetchTypeOK'
  BY <1>1 DEF FInv, FetchShape, FetchTypeOK
<1>3. FetchShape'
  BY <1>1, <1>2 DEF FInv, FetchShape
<1>4. OneFetchTask'
  BY <1>1 DEF FInv, OneFetchTask
<1> QED  BY <1>1, <1>3, <1>4 DEF FInv, StatusHeard, Trying, BodyOfTurn, BodyOfOneAttempt

(* Every step keeps the invariant. *)
LEMMA FetchStep == FInv /\ [FetchNext]_fetchVars => FInv'
<1> SUFFICES ASSUME FInv, [FetchNext]_fetchVars PROVE FInv'
  OBVIOUS
<1>1. CASE UNCHANGED fetchVars
  BY <1>1 DEF fetchVars, FInv, FetchShape, FetchTypeOK, OneFetchTask, StatusHeard, Trying,
              BodyOfTurn, BodyOfOneAttempt, Tls
<1> QED  BY <1>1, CallerStep, AttemptStep, ExchangeStep, CallbackStep DEF FetchNext

(* Types, one task, the status and the body of the attempt at hand. *)
THEOREM FetchInvariance == FetchSpec => []FInv
BY FetchStarts, FetchStep, PTL DEF FetchSpec

(* The fetcher keeps its types. *)
THEOREM FetchTypes == FetchSpec => []FetchTypeOK
BY FetchInvariance, PTL DEF FInv, FetchShape

(* Plain HTTP never follows a TLS exchange that got a status, a success       *)
(* brings the body of its own attempt, and there is one task at a time.       *)
THEOREM FetchIsSound == FetchSpec => []FetchSound
<1>1. FInv => FetchSound
  BY DEF FInv, FetchSound, NotPlainAfterAnswer, StatusHeard, Trying
<1> QED  BY <1>1, FetchInvariance, PTL

-----------------------------------------------------------------------------
(* A firmware: the updater restarts only into one it has checked. *)

(* The updater is idle and well-typed after a boot. *)
LEMMA IdleTyped ==
  /\ Idle \in UpdaterStates
  /\ [Idle EXCEPT !.at = "manifest", !.attempt = 1] \in UpdaterStates
<1>1. 0 \in 0..MaxRetries /\ 1 \in 0..MaxRetries /\ 0 \in 0..ImageSize
  BY FirmwareAssumption
<1>2. Idle \in UpdaterStates
  BY <1>1 DEF Idle, UpdaterStates
<1>3. ASSUME NEW u \in UpdaterStates
      PROVE  [u EXCEPT !.at = "manifest", !.attempt = 1] \in UpdaterStates
  BY <1>1 DEF UpdaterStates
<1> QED  BY <1>2, <1>3

(* A device starts well-typed. *)
LEMMA FirmwareStarts == FirmwareInit => FirmwareTypeOK
<1> SUFFICES ASSUME FirmwareInit PROVE FirmwareTypeOK
  OBVIOUS
<1> USE DEF FirmwareInit
<1>1. mishaps \in 0..MaxMishaps
  BY FirmwareAssumption
<1>2. updater \in UpdaterStates
  BY IdleTyped
<1>3. gates \in [settings : BOOLEAN, network : BOOLEAN]
  OBVIOUS
<1>4. method \in {"none", "ota", "auto"} /\ verify \in BOOLEAN
  OBVIOUS
<1>5. checked \in BOOLEAN /\ fallback \in BOOLEAN /\ arduinoOta \in BOOLEAN
  OBVIOUS
<1>6. boot \in {"old", "intended", "damaged"} /\ firmware \in {"old", "intended", "damaged"}
  OBVIOUS
<1> QED  BY <1>1, <1>2, <1>3, <1>4, <1>5, <1>6 DEF FirmwareTypeOK

(* A mishap uses up one of those that are left. *)
LEMMA MishapCounts ==
  ASSUME FirmwareTypeOK, Mishap
  PROVE  mishaps' \in 0..MaxMishaps /\ mishaps' # mishaps
BY FirmwareAssumption DEF FirmwareTypeOK, Mishap

(* Manifest and OTAManager::handle keep the types. *)
LEMMA ManifestStep ==
  ASSUME FirmwareTypeOK, OtaHandle \/ FetchManifest \/ ParseManifest
  PROVE  FirmwareTypeOK' /\ UNCHANGED firmware
<1> USE FirmwareAssumption, IdleTyped DEF FirmwareTypeOK
<1>1. CASE OtaHandle
  <2>1. updater' \in {updater, [Idle EXCEPT !.at = "manifest", !.attempt = 1]}
    BY <1>1 DEF OtaHandle
  <2>2. arduinoOta' \in BOOLEAN
        /\ UNCHANGED <<method, verify, gates, checked, fallback, boot, firmware, mishaps>>
    BY <1>1 DEF OtaHandle, ArduinoOtaSetup
  <2> QED  BY <2>1, <2>2
<1>2. CASE FetchManifest
  <2> DEFINE Same == UNCHANGED <<checked, fallback>>
  <2>1. \/ Concluded(FALSE) \/ Concluded(TRUE)
        \/ Same /\ updater' = [updater EXCEPT !.at = "parse"]
        \/ Same /\ updater.attempt < MaxRetries /\ updater' = [updater EXCEPT !.attempt = @ + 1]
    <3>1. CASE updater.attempt = 1 /\ ~gates.network
      BY <1>2, <3>1 DEF FetchManifest
    <3>2. CASE ~(updater.attempt = 1 /\ ~gates.network)
      BY <1>2, <3>2 DEF FetchManifest
    <3> QED  BY <3>1, <3>2
  <2>2. UNCHANGED <<method, verify, gates, arduinoOta, boot, firmware, mishaps>>
    BY <1>2 DEF FetchManifest
  <2>3. updater' \in UpdaterStates
    BY <2>1 DEF Concluded, UpdaterStates
  <2> QED  BY <2>1, <2>2, <2>3 DEF Concluded
<1>3. CASE ParseManifest
  <2>1. \/ updater' = Idle
        \/ \E hash \in {"usable", "unusable"} :
             updater' = [updater EXCEPT !.at = "open", !.hash = hash]
    BY <1>3 DEF ParseManifest, Concluded
  <2>2. /\ checked' \in BOOLEAN /\ fallback' \in BOOLEAN
        /\ UNCHANGED <<method, verify, gates, arduinoOta, boot, firmware, mishaps>>
    BY <1>3 DEF ParseManifest, Concluded
  <2>3. updater' \in UpdaterStates
    BY <2>1 DEF UpdaterStates
  <2> QED  BY <2>2, <2>3
<1> QED  BY <1>1, <1>2, <1>3

(* The download keeps the types, and the firmware that runs. *)
LEMMA DownloadStep ==
  ASSUME FirmwareTypeOK, OpenDownload \/ Download \/ CheckFails
  PROVE  FirmwareTypeOK' /\ UNCHANGED firmware
<1> USE FirmwareAssumption, IdleTyped, MishapCounts DEF FirmwareTypeOK
<1>1. CASE OpenDownload
  <2>1. updater' \in UpdaterStates
    BY <1>1 DEF OpenDownload, UpdaterStates
  <2>2. mishaps' \in 0..MaxMishaps
    BY <1>1 DEF OpenDownload
  <2> QED  BY <1>1, <2>1, <2>2 DEF OpenDownload
<1>2. CASE Download
  <2>1. \/ updater' \in {Idle, [updater EXCEPT !.at = "check"]}
        \/ /\ updater.written < ImageSize
           /\ updater' \in {[updater EXCEPT !.written = @ + 1],
                            [updater EXCEPT !.written = @ + 1, !.image = "damaged"]}
    BY <1>2 DEF Download
  <2>2. /\ mishaps' \in 0..MaxMishaps
        /\ UNCHANGED <<method, verify, gates, checked, fallback, arduinoOta, boot, firmware>>
    BY <1>2 DEF Download
  <2>3. updater' \in UpdaterStates
    <3>1. CASE updater' \in {Idle, [updater EXCEPT !.at = "check"]}
      BY <3>1 DEF UpdaterStates
    <3>2. CASE updater.written < ImageSize
      <4>1. updater.written + 1 \in 0..ImageSize
        BY <3>2 DEF UpdaterStates
      <4>2. CASE updater' = [updater EXCEPT !.written = @ + 1]
        BY <4>1, <4>2 DEF UpdaterStates
      <4>3. CASE updater' = [updater EXCEPT !.written = @ + 1, !.image = "damaged"]
        BY <4>1, <4>3 DEF UpdaterStates
      <4> QED  BY <2>1, <3>1, <4>2, <4>3
    <3> QED  BY <2>1, <3>1, <3>2
  <2> QED  BY <2>2, <2>3
<1>3. CASE CheckFails
  <2>1. updater.image \in {"intended", "damaged"}
    BY DEF UpdaterStates
  <2> QED  BY <1>3, <2>1 DEF CheckFails, UpdateEnd
<1> QED  BY <1>1, <1>2, <1>3

(* The end of an update keeps the types, and restarts into what was checked. *)
LEMMA FinishStep ==
  ASSUME FirmwareTypeOK, Finish
  PROVE  /\ FirmwareTypeOK'
         /\ updater.written = ImageSize
         /\ mishaps' = mishaps /\ verify /\ updater.hash = "usable" => firmware' = "intended"
<1> USE FirmwareAssumption, IdleTyped, MishapCounts DEF FirmwareTypeOK
<1>1. updater.image = "damaged" => ~(verify /\ updater.hash = "usable")
  BY DEF Finish, HashRefuses
<1>2. updater.image \in {"intended", "damaged"} /\ updater.written = ImageSize
  BY DEF UpdaterStates, Finish
<1>4. CASE /\ boot' = updater.image /\ firmware' = boot'
           /\ checked' = FALSE /\ fallback' = FALSE /\ arduinoOta' = FALSE
           /\ gates' = [settings |-> FALSE, network |-> FALSE]
           /\ UNCHANGED mishaps
  BY <1>1, <1>2, <1>4 DEF Finish
<1>3. CASE Mishap /\ UNCHANGED <<boot, firmware, checked, fallback, arduinoOta, gates>>
  BY <1>2, <1>3 DEF Finish
<1> QED  BY <1>4, <1>3 DEF Finish

(* Gates, network and power keep the types; only power changes the firmware. *)
LEMMA EnvironmentStep ==
  ASSUME FirmwareTypeOK, GatesOpen \/ NetworkLost \/ PowerCycle
  PROVE  FirmwareTypeOK' /\ (firmware' = firmware \/ mishaps' # mishaps)
<1> USE FirmwareAssumption, IdleTyped, MishapCounts DEF FirmwareTypeOK
<1>1. CASE GatesOpen
  BY <1>1 DEF GatesOpen
<1>2. CASE NetworkLost
  BY <1>2 DEF NetworkLost
<1>3. CASE PowerCycle
  BY <1>3 DEF PowerCycle
<1> QED  BY <1>1, <1>2, <1>3

(* Every step keeps the types. *)
LEMMA FirmwareStep == FirmwareTypeOK /\ [FirmwareNext]_firmwareVars => FirmwareTypeOK'
<1> SUFFICES ASSUME FirmwareTypeOK, [FirmwareNext]_firmwareVars PROVE FirmwareTypeOK'
  OBVIOUS
<1>1. CASE UNCHANGED firmwareVars
  BY <1>1 DEF firmwareVars, FirmwareTypeOK
<1> QED  BY <1>1, ManifestStep, DownloadStep, FinishStep, EnvironmentStep
            DEF FirmwareNext, CheckAndUpdate

(* OTAManager and FirmwareUpdater keep their types. *)
THEOREM FirmwareTypes == FirmwareSpec => []FirmwareTypeOK
BY FirmwareStarts, FirmwareStep, PTL DEF FirmwareSpec

(* A restart of the updater is into an image that passed the checks. *)
LEMMA RestartIsVerified ==
  FirmwareTypeOK /\ [FirmwareNext]_firmwareVars =>
    [(updater.at = "check" /\ firmware' # firmware /\ mishaps' = mishaps)
       => /\ updater.written = ImageSize
          /\ (verify /\ updater.hash = "usable") => firmware' = "intended"]_firmwareVars
<1> DEFINE Verified ==
      (updater.at = "check" /\ firmware' # firmware /\ mishaps' = mishaps)
        => /\ updater.written = ImageSize
           /\ (verify /\ updater.hash = "usable") => firmware' = "intended"
<1> SUFFICES ASSUME FirmwareTypeOK, FirmwareNext PROVE Verified
  BY DEF firmwareVars
<1> QED  BY ManifestStep, DownloadStep, FinishStep, EnvironmentStep
            DEF FirmwareNext, CheckAndUpdate

(* performOta restarts only into an image that is complete and, where the     *)
(* settings and the manifest allow a check, the one the manifest describes.   *)
THEOREM UpdaterRestartsVerified == FirmwareSpec => RestartsVerified
BY RestartIsVerified, FirmwareTypes, PTL DEF FirmwareSpec, RestartsVerified

-----------------------------------------------------------------------------
(* Storage: blobs of every version, read, changed and saved.                  *)

-----------------------------------------------------------------------------
(* WiFi settings *)

(* The settings the code starts from are settings.                           *)
LEMMA DefaultsTyped ==
  DefaultWifi \in WifiSettings /\ EmptyWifi \in WifiSettings
  /\ Defaults \in Settings /\ Zeroed \in Settings
<1>0. NoBroker \in Brokers
  BY StorageAssumption DEF NoBroker, Brokers
<1>1. DefaultWifi \in WifiSettings /\ EmptyWifi \in WifiSettings
  BY StorageAssumption DEF DefaultWifi, EmptyWifi, WifiSettings
<1>2. Defaults \in Settings
  BY <1>0, <1>1, StorageAssumption DEF Defaults, Settings
<1>3. Zeroed \in Settings
  BY <1>0, <1>1, StorageAssumption DEF Zeroed, Settings
<1> QED  BY <1>1, <1>2, <1>3

(* Synchronising the pair of the first generations with the selected profile *)
(* gives WiFi settings again, valid when they were, and once is enough.      *)
LEMMA Synced ==
  ASSUME NEW w \in WifiSettings
  PROVE  /\ SyncSelectedLegacyFields(w) \in WifiSettings
         /\ WifiValid(SyncSelectedLegacyFields(w)) <=> WifiValid(w)
         /\ SyncSelectedLegacyFields(SyncSelectedLegacyFields(w)) = SyncSelectedLegacyFields(w)
         /\ WifiValid(w) =>
              LET v == SyncSelectedLegacyFields(w) IN [v EXCEPT !.profile = OrPrimary(@)] = v
<1>1. PICK v : v = SyncSelectedLegacyFields(w)
  OBVIOUS
<1>2. CASE HasAnyProfile(w)
  <2>1. v = [w EXCEPT !.legacy = Selected(w), !.profile = OrPrimary(w.profile)]
    BY <1>1, <1>2 DEF SyncSelectedLegacyFields
  <2>2. Selected(w) \in Texts /\ OrPrimary(w.profile) \in Texts \ {""}
    BY StorageAssumption DEF Selected, OrPrimary, WifiSettings
  <2>3. v \in WifiSettings
    BY <2>1, <2>2 DEF WifiSettings
  <2>4. /\ v.primary = w.primary /\ v.secondary = w.secondary /\ v.tertiary = w.tertiary
        /\ v.legacy = Selected(w) /\ v.profile = OrPrimary(w.profile)
    BY <2>1, <2>2 DEF WifiSettings
  <2>5. HasAnyProfile(v)
    BY <1>2, <2>4 DEF HasAnyProfile
  <2>6. Selected(v) = Selected(w)
    BY <2>4 DEF Selected, OrPrimary
  <2>7. [v EXCEPT !.legacy = Selected(v), !.profile = OrPrimary(v.profile)] = v
    BY <2>2, <2>3, <2>4, <2>6 DEF WifiSettings, OrPrimary
  <2>8. [v EXCEPT !.profile = OrPrimary(v.profile)] = v
    BY <2>2, <2>3, <2>4 DEF WifiSettings, OrPrimary
  <2> QED  BY <1>1, <1>2, <2>3, <2>5, <2>7, <2>8 DEF SyncSelectedLegacyFields, WifiValid
<1>3. CASE ~HasAnyProfile(w) /\ w.legacy # ""
  <2>1. v = [w EXCEPT !.primary = w.legacy, !.profile = "primary"]
    BY <1>1, <1>3 DEF SyncSelectedLegacyFields
  <2>2. v \in WifiSettings
    BY <2>1, StorageAssumption DEF WifiSettings
  <2>3. /\ v.primary = w.legacy /\ v.secondary = w.secondary /\ v.tertiary = w.tertiary
        /\ v.legacy = w.legacy /\ v.profile = "primary"
    BY <2>1 DEF WifiSettings
  <2>4. WifiValid(v) <=> ValidPair(w.legacy)
    BY <1>3, <2>3 DEF WifiValid, HasAnyProfile
  <2>5. WifiValid(w) <=> ValidPair(w.legacy)
    BY <1>3 DEF WifiValid
  <2>6. SyncSelectedLegacyFields(v) = v
    <3>1. [v EXCEPT !.primary = v.legacy, !.profile = "primary"] = v
      BY <2>2, <2>3 DEF WifiSettings
    <3>2. [v EXCEPT !.legacy = Selected(v), !.profile = OrPrimary(v.profile)] = v
      BY <2>2, <2>3 DEF WifiSettings, Selected, OrPrimary
    <3> QED  BY <3>1, <3>2 DEF SyncSelectedLegacyFields
  <2>7. [v EXCEPT !.profile = OrPrimary(v.profile)] = v
    BY <2>2, <2>3 DEF WifiSettings, OrPrimary
  <2> QED  BY <1>1, <2>2, <2>4, <2>5, <2>6, <2>7
<1>4. CASE ~HasAnyProfile(w) /\ w.legacy = ""
  BY <1>1, <1>4 DEF SyncSelectedLegacyFields, WifiValid, ValidPair
<1> QED  BY <1>2, <1>3, <1>4

-----------------------------------------------------------------------------
(* Loading *)

\* Two settings with the same groups, the brokers, the WiFi and the mode aside.
AlikeInText(s, t) ==
  /\ s.registered = t.registered /\ s.interval = t.interval
  /\ s.topics = t.topics /\ s.profile = t.profile
  /\ s.firmware = t.firmware /\ s.update = t.update /\ s.api = t.api
Alike(s, t) ==
  /\ AlikeInText(s, t)
  /\ s.primary = t.primary /\ s.secondary = t.secondary /\ s.tertiary = t.tertiary

(* Such settings are equal but for the WiFi and the brokers.                 *)
LEMMA SettingsEqual ==
  ASSUME NEW s \in Settings, NEW t \in Settings, AlikeInText(s, t), s.config = t.config
  PROVE  t = [s EXCEPT !.wifi = t.wifi, !.primary = t.primary, !.secondary = t.secondary,
                       !.tertiary = t.tertiary]
BY DEF AlikeInText, Settings

\* The compiled credentials take the place of WiFi that cannot be used, and
\* nothing else but the configuration mode changes.
OverridesTo(s, o) ==
  /\ o \in Settings /\ Alike(s, o)
  /\ o.config = IF WifiValid(s.wifi) \/ CompiledWifi = "" THEN s.config ELSE FALSE
  /\ WifiValid(s.wifi) => o.wifi = SyncSelectedLegacyFields(s.wifi)
  /\ WifiValid(o.wifi) <=> WifiValid(s.wifi) \/ ValidPair(CompiledWifi)
  /\ WifiValid(o.wifi) => SyncSelectedLegacyFields(o.wifi) = o.wifi

(* The override does just that.                                              *)
LEMMA Overridden ==
  ASSUME NEW s \in Settings
  PROVE  OverridesTo(s, ApplyCompiledWifiOverride(s))
<1>0. PICK o : o = ApplyCompiledWifiOverride(s)
  OBVIOUS
<1>1. s.wifi \in WifiSettings
  BY DEF Settings
<1>2. CASE WifiValid(s.wifi)
  <2>1. PICK v : v = SyncSelectedLegacyFields(s.wifi)
    OBVIOUS
  <2>2. v \in WifiSettings /\ WifiValid(v) /\ SyncSelectedLegacyFields(v) = v
    BY <1>1, <1>2, <2>1, Synced
  <2>3. o = [s EXCEPT !.wifi = v]
    BY <1>0, <1>2, <2>1 DEF ApplyCompiledWifiOverride
  <2>4. o \in Settings /\ Alike(s, o) /\ o.config = s.config /\ o.wifi = v
    BY <2>2, <2>3 DEF Settings, Alike, AlikeInText
  <2> QED  BY <1>0, <1>2, <2>1, <2>2, <2>4 DEF OverridesTo
<1>3. CASE ~WifiValid(s.wifi) /\ CompiledWifi = ""
  <2>1. o = s /\ ~ValidPair(CompiledWifi)
    BY <1>0, <1>3 DEF ApplyCompiledWifiOverride, ValidPair
  <2> QED  BY <1>0, <1>3, <2>1 DEF Alike, AlikeInText, OverridesTo
<1>4. CASE ~WifiValid(s.wifi) /\ CompiledWifi # ""
  <2>1. PICK v : v = [s.wifi EXCEPT !.legacy = CompiledWifi, !.primary = CompiledWifi,
                                    !.profile = "primary"]
    OBVIOUS
  <2>2. /\ v \in WifiSettings /\ v.legacy = CompiledWifi /\ v.primary = CompiledWifi
        /\ v.secondary = s.wifi.secondary /\ v.tertiary = s.wifi.tertiary
        /\ v.profile = "primary"
    BY <1>1, <2>1, StorageAssumption DEF WifiSettings
  <2>3. o = [s EXCEPT !.wifi.legacy = CompiledWifi, !.wifi.primary = CompiledWifi,
                      !.wifi.profile = "primary", !.config = FALSE]
    BY <1>0, <1>4 DEF ApplyCompiledWifiOverride
  <2>4. o.wifi = v
    BY <2>1, <2>3 DEF Settings, WifiSettings
  <2>5. Alike(s, o) /\ o.config = FALSE
    BY <2>3 DEF Settings, Alike, AlikeInText
  <2>6. o \in Settings
    BY <2>2, <2>3, <2>4 DEF Settings
  <2>7. WifiValid(v) <=> ValidPair(CompiledWifi)
    BY <1>4, <2>2 DEF WifiValid, HasAnyProfile
  <2>8. WifiValid(v) => SyncSelectedLegacyFields(v) = v
    <3> HAVE WifiValid(v)
    <3>1. HasAnyProfile(v) /\ Selected(v) = v.legacy /\ OrPrimary(v.profile) = v.profile
      BY <2>2, <2>7 DEF HasAnyProfile, Selected, OrPrimary
    <3>2. [v EXCEPT !.legacy = Selected(v), !.profile = OrPrimary(v.profile)] = v
      BY <2>2, <3>1 DEF WifiSettings
    <3> QED  BY <3>1, <3>2 DEF SyncSelectedLegacyFields
  <2> QED  BY <1>0, <1>4, <2>4, <2>5, <2>6, <2>7, <2>8 DEF OverridesTo
<1> QED  BY <1>2, <1>3, <1>4

\* Loaded settings have an interval and a profile.
Complete(t) == t \in Settings /\ t.interval > 0 /\ t.profile # ""

(* What each layout gives. *)
LEMMA FromV4 ==
  ASSUME NEW s \in Settings
  PROVE  Complete(FromLegacyStoredV4(s))
<1>0. PICK t : t = FromLegacyStoredV4(s)
  OBVIOUS
<1>1. s.wifi.legacy \in Texts /\ Defaults \in Settings
  BY DefaultsTyped DEF Settings, WifiSettings
<1>2. OrPrimary(s.profile) \in Texts \ {""}
  BY StorageAssumption DEF OrPrimary, Settings
<1>3. t.interval = 60 /\ t.interval \in Nat /\ t.profile # ""
  BY <1>0, <1>2 DEF FromLegacyStoredV4, Defaults
<1>4. PICK w : w = [Defaults.wifi EXCEPT !.legacy = s.wifi.legacy]
  OBVIOUS
<1>5. w \in WifiSettings /\ t.wifi = w
  BY <1>0, <1>1, <1>4 DEF FromLegacyStoredV4, Settings, WifiSettings
<1>6. t \in Settings
  <2>1. t = [Defaults EXCEPT !.config = s.config, !.primary = s.primary,
               !.secondary = s.secondary, !.topics = s.topics, !.profile = OrPrimary(s.profile),
               !.firmware = s.firmware, !.update = s.update, !.wifi = w, !.api = s.api]
    BY <1>0, <1>1, <1>4 DEF FromLegacyStoredV4, Settings
  <2> QED  BY <1>1, <1>2, <1>5, <2>1 DEF Settings
<1>7. t.interval > 0
  <2>1. \A i \in Nat : i = 60 => i > 0
    OBVIOUS
  <2> QED  BY <1>3, <2>1
<1> QED  BY <1>0, <1>3, <1>6, <1>7 DEF Complete

(* A blob of version 5 is read as complete settings.                         *)
LEMMA FromV5 ==
  ASSUME NEW s \in Settings
  PROVE  Complete(FromLegacyStoredV5(s))
<1>0. PICK t : t = FromLegacyStoredV5(s)
  OBVIOUS
<1>1. PICK u : u = FromLegacyStoredV4(s)
  OBVIOUS
<1>2. u \in Settings /\ u.interval > 0 /\ u.profile # ""
  BY <1>1, FromV4 DEF Complete
<1>3. t = [u EXCEPT !.registered = s.registered, !.tertiary = s.tertiary,
                    !.wifi.primary = s.wifi.legacy, !.wifi.profile = "primary"]
  BY <1>0, <1>1 DEF FromLegacyStoredV5
<1>4. PICK w : w = [u.wifi EXCEPT !.primary = s.wifi.legacy, !.profile = "primary"]
  OBVIOUS
<1>5. w \in WifiSettings
  BY <1>2, <1>4, StorageAssumption DEF Settings, WifiSettings
<1>6. t = [u EXCEPT !.registered = s.registered, !.tertiary = s.tertiary, !.wifi = w]
  BY <1>2, <1>3, <1>4 DEF Settings
<1>7. t \in Settings /\ t.interval = u.interval /\ t.profile = u.profile
  BY <1>2, <1>5, <1>6 DEF Settings
<1> QED  BY <1>0, <1>2, <1>7 DEF Complete

(* So is one of version 6.                                                   *)
LEMMA FromV6 ==
  ASSUME NEW s \in Settings
  PROVE  Complete(FromLegacyStoredV6(s))
<1>0. PICK t : t = FromLegacyStoredV6(s)
  OBVIOUS
<1>1. PICK u : u = FromLegacyStoredV5(s)
  OBVIOUS
<1>2. u \in Settings /\ u.interval > 0 /\ u.profile # ""
  BY <1>1, FromV5 DEF Complete
<1>3. s.wifi \in WifiSettings
  BY DEF Settings
<1>4. SyncSelectedLegacyFields(s.wifi) \in WifiSettings
  BY <1>3, Synced
<1>5. t = [u EXCEPT !.wifi = SyncSelectedLegacyFields(s.wifi)]
  BY <1>0, <1>1 DEF FromLegacyStoredV6
<1>6. t \in Settings /\ t.interval = u.interval /\ t.profile = u.profile
  BY <1>2, <1>4, <1>5 DEF Settings
<1> QED  BY <1>0, <1>2, <1>6 DEF Complete

\* The groups of settings read from a blob of the present layout.
ReadsTo(s, t) ==
  /\ s.interval > 0 => t.interval = s.interval
  /\ t.registered = s.registered /\ t.profile = OrPrimary(s.profile)
  /\ t.primary = s.primary /\ t.secondary = s.secondary /\ t.tertiary = s.tertiary
  /\ t.topics = s.topics /\ t.firmware = s.firmware /\ t.update = s.update
  /\ t.api = s.api

(* One of version 7 is read as it is, its WiFi synchronised.                 *)
LEMMA FromV7 ==
  ASSUME NEW s \in Settings
  PROVE  /\ Complete(FromStored(s)) /\ ReadsTo(s, FromStored(s))
         /\ FromStored(s).config = s.config
         /\ FromStored(s).wifi = SyncSelectedLegacyFields(s.wifi)
<1>0. PICK t : t = FromStored(s)
  OBVIOUS
<1>1. PICK u : u = FromLegacyStoredV6(s)
  OBVIOUS
<1>2. u \in Settings /\ u.interval > 0
  BY <1>1, FromV6 DEF Complete
<1>3. t = [u EXCEPT !.interval = IF s.interval > 0 THEN s.interval ELSE u.interval]
  BY <1>0, <1>1 DEF FromStored
<1>4. s.interval \in Nat
  BY DEF Settings
<1>5. t.interval = IF s.interval > 0 THEN s.interval ELSE u.interval
  BY <1>2, <1>3 DEF Settings
<1>6. t \in Settings /\ t.interval > 0 /\ (s.interval > 0 => t.interval = s.interval)
  <2>1. t.interval \in Nat /\ t.interval > 0
    BY <1>2, <1>4, <1>5 DEF Settings
  <2>2. t \in Settings
    BY <1>2, <1>3, <1>4 DEF Settings
  <2> QED  BY <1>5, <2>1, <2>2
<1>7. Alike(u, [t EXCEPT !.interval = u.interval]) /\ t.config = u.config /\ t.wifi = u.wifi
  BY <1>2, <1>3 DEF Settings, Alike, AlikeInText
<1>8. /\ u.config = s.config /\ u.registered = s.registered
      /\ u.primary = s.primary /\ u.secondary = s.secondary /\ u.tertiary = s.tertiary
      /\ u.topics = s.topics /\ u.firmware = s.firmware /\ u.update = s.update
      /\ u.api = s.api /\ u.wifi = SyncSelectedLegacyFields(s.wifi)
      /\ u.profile = OrPrimary(s.profile)
  BY <1>1 DEF FromLegacyStoredV6, FromLegacyStoredV5, FromLegacyStoredV4, Defaults
<1>9. t.profile # ""
  <2>1. t.profile = OrPrimary(s.profile)
    BY <1>2, <1>3, <1>8 DEF Settings
  <2> QED  BY <2>1 DEF OrPrimary
<1>10. Complete(t)
  BY <1>6, <1>9 DEF Complete
<1>11. ReadsTo(s, t) /\ t.config = s.config /\ t.wifi = SyncSelectedLegacyFields(s.wifi)
  BY <1>6, <1>7, <1>8 DEF Alike, AlikeInText, ReadsTo
<1> QED  BY <1>0, <1>10, <1>11

Blobs == [version : 3..7, settings : Settings]

\* What the layout of the blob gives, before the compiled credentials.
ReadFrom(b) ==
  CASE b.version = 7 -> FromStored(b.settings)
    [] b.version = 6 -> FromLegacyStoredV6(b.settings)
    [] b.version = 5 -> FromLegacyStoredV5(b.settings)
    [] b.version = 4 -> FromLegacyStoredV4(b.settings)

(* Whatever generation a blob is of, the settings it gives have an interval, *)
(* a profile, and WiFi that is synchronised when it can be used.             *)
LEMMA Loaded ==
  ASSUME NEW b \in Blobs, Readable(b), NEW l, l = LoadedFrom(b)
  PROVE  /\ l \in Settings /\ l.interval > 0 /\ l.profile # ""
         /\ WifiValid(l.wifi) => SyncSelectedLegacyFields(l.wifi) = l.wifi
         /\ ~WifiValid(l.wifi) => /\ ~ValidPair(CompiledWifi)
                                  /\ CompiledWifi = "" \/ l.config = FALSE
<1>1. b.version \in 4..7 /\ b.settings \in Settings
  <2>1. b.version \in 3..7 /\ b.settings \in Settings
    BY DEF Blobs
  <2>2. b.version # 3
    BY DEF Readable, LayoutOf, SizeOf
  <2> QED  BY <2>1, <2>2
<1>2. Complete(ReadFrom(b))
  <2>1. CASE b.version = 7
    BY <1>1, <2>1, FromV7 DEF ReadFrom
  <2>2. CASE b.version = 6
    BY <1>1, <2>2, FromV6 DEF ReadFrom
  <2>3. CASE b.version = 5
    BY <1>1, <2>3, FromV5 DEF ReadFrom
  <2>4. CASE b.version = 4
    BY <1>1, <2>4, FromV4 DEF ReadFrom
  <2> QED  BY <1>1, <2>1, <2>2, <2>3, <2>4
<1>3. PICK s : s = ReadFrom(b)
  OBVIOUS
<1>4. s \in Settings /\ s.interval > 0 /\ s.profile # ""
  BY <1>2, <1>3 DEF Complete
<1>5. l = ApplyCompiledWifiOverride(s)
  BY <1>3 DEF LoadedFrom, ReadFrom
<1>6. OverridesTo(s, l)
  BY <1>4, <1>5, Overridden
<1>7. l.interval = s.interval /\ l.profile = s.profile
  BY <1>6 DEF OverridesTo, Alike, AlikeInText
<1> QED  BY <1>4, <1>6, <1>7 DEF OverridesTo

\* A blob of the present layout gives its own settings.
Gives(s, l) ==
  /\ ReadsTo(s, l)
  /\ l.config = IF WifiValid(s.wifi) \/ CompiledWifi = "" THEN s.config ELSE FALSE
  /\ WifiValid(s.wifi) => l.wifi = SyncSelectedLegacyFields(s.wifi)
  /\ WifiValid(l.wifi) <=> WifiValid(s.wifi) \/ ValidPair(CompiledWifi)

(* Loading a blob of version 7.                                              *)
LEMMA LoadedSeven ==
  ASSUME NEW b \in Blobs, b.version = 7
  PROVE  Gives(b.settings, LoadedFrom(b))
<1>0. PICK s, t, l : s = b.settings /\ t = FromStored(s) /\ l = LoadedFrom(b)
  OBVIOUS
<1>1. s \in Settings /\ s.wifi \in WifiSettings
  BY <1>0 DEF Blobs, Settings
<1>2. /\ t \in Settings /\ ReadsTo(s, t)
      /\ t.config = s.config /\ t.wifi = SyncSelectedLegacyFields(s.wifi)
  BY <1>0, <1>1, FromV7 DEF Complete
<1>3. l = ApplyCompiledWifiOverride(t)
  BY <1>0 DEF LoadedFrom
<1>4. OverridesTo(t, l)
  BY <1>2, <1>3, Overridden
<1>5. /\ WifiValid(t.wifi) <=> WifiValid(s.wifi)
      /\ SyncSelectedLegacyFields(t.wifi) = SyncSelectedLegacyFields(s.wifi)
  BY <1>1, <1>2, Synced
<1>6. ReadsTo(s, l)
  BY <1>2, <1>4 DEF OverridesTo, Alike, AlikeInText, ReadsTo
<1>7. Gives(s, l)
  BY <1>2, <1>4, <1>5, <1>6 DEF OverridesTo, Gives
<1> QED  BY <1>0, <1>7

-----------------------------------------------------------------------------
(* Saving *)

\* What a save of src over e writes of each group.
StoresAs(src, e, o) ==
  /\ o.config = src.config /\ o.registered = src.registered
  /\ o.interval = src.interval /\ o.update = src.update
  /\ o.primary = MergeBroker(src.primary, e.primary)
  /\ o.secondary = MergeBroker(src.secondary, e.secondary)
  /\ o.tertiary = MergeBroker(src.tertiary, e.tertiary)
  /\ o.topics = IfNotEmpty(src.topics, e.topics)
  /\ o.profile = IfNotEmpty(src.profile, e.profile)
  /\ o.firmware = IfNotEmpty(src.firmware, e.firmware)
  /\ o.api = IfNotEmpty(src.api, e.api)
  /\ o.wifi = IF WifiValid(src.wifi) THEN SyncSelectedLegacyFields(src.wifi) ELSE e.wifi

(* A merged broker is a broker, with what the new one has; merged with itself *)
(* it stays, and merged with none it is the new one, unless that has no host. *)
LEMMA Merged ==
  ASSUME NEW n \in Brokers, NEW o \in Brokers
  PROVE  /\ MergeBroker(n, o) \in Brokers
         /\ HasBroker(MergeBroker(n, o), n)
         /\ MergeBroker(n, n) = n
         /\ SameBroker(MergeBroker(n, NoBroker), n)
BY DEF MergeBroker, HasBroker, SameBroker, NoBroker, Brokers, IfNotEmpty

(* What a save writes is settings, each group as above.                      *)
LEMMA Stored ==
  ASSUME NEW src \in Settings, NEW e \in Settings
  PROVE  ToStored(src, e) \in Settings /\ StoresAs(src, e, ToStored(src, e))
<1>1. PICK w, v, o :
        /\ w = SyncSelectedLegacyFields(src.wifi) /\ o = ToStored(src, e)
        /\ v = IF WifiValid(w) THEN [w EXCEPT !.profile = OrPrimary(@)] ELSE e.wifi
  OBVIOUS
<1>2. src.wifi \in WifiSettings /\ e.wifi \in WifiSettings
  BY DEF Settings
<1>3. /\ w \in WifiSettings /\ (WifiValid(w) <=> WifiValid(src.wifi))
      /\ WifiValid(src.wifi) => [w EXCEPT !.profile = OrPrimary(@)] = w
  BY <1>1, <1>2, Synced
<1>4. v \in WifiSettings /\ v = IF WifiValid(src.wifi) THEN w ELSE e.wifi
  BY <1>1, <1>2, <1>3
<1>5. o = [e EXCEPT
        !.config = src.config, !.registered = src.registered, !.interval = src.interval,
        !.primary = MergeBroker(src.primary, @), !.secondary = MergeBroker(src.secondary, @),
        !.tertiary = MergeBroker(src.tertiary, @), !.topics = IfNotEmpty(src.topics, @),
        !.profile = IfNotEmpty(src.profile, @), !.firmware = IfNotEmpty(src.firmware, @),
        !.update = src.update, !.wifi = v, !.api = IfNotEmpty(src.api, @)]
  BY <1>1 DEF ToStored
<1>6. StoresAs(src, e, o)
  BY <1>1, <1>4, <1>5 DEF StoresAs, Settings
<1>7. o \in Settings
  <2>1. PICK a1, a2, a3, a4, a5, a6, a7 :
          /\ a1 = MergeBroker(src.primary, e.primary)
          /\ a2 = MergeBroker(src.secondary, e.secondary)
          /\ a3 = MergeBroker(src.tertiary, e.tertiary)
          /\ a4 = IfNotEmpty(src.topics, e.topics)
          /\ a5 = IfNotEmpty(src.profile, e.profile)
          /\ a6 = IfNotEmpty(src.firmware, e.firmware)
          /\ a7 = IfNotEmpty(src.api, e.api)
    OBVIOUS
  <2>2. {a4, a5, a6, a7} \subseteq Texts /\ {a1, a2, a3} \subseteq Brokers
    <3>1. {a4, a5, a6, a7} \subseteq Texts
      BY <2>1 DEF IfNotEmpty, Settings
    <3>2. /\ src.primary \in Brokers /\ src.secondary \in Brokers /\ src.tertiary \in Brokers
          /\ e.primary \in Brokers /\ e.secondary \in Brokers /\ e.tertiary \in Brokers
      BY DEF Settings
    <3> QED  BY <2>1, <3>1, <3>2, Merged
  <2>3. o = [e EXCEPT
          !.config = src.config, !.registered = src.registered, !.interval = src.interval,
          !.primary = a1, !.secondary = a2, !.tertiary = a3, !.topics = a4, !.profile = a5,
          !.firmware = a6, !.update = src.update, !.wifi = v, !.api = a7]
    BY <1>5, <2>1 DEF Settings
  <2> QED  BY <1>4, <2>2, <2>3 DEF Settings
<1> QED  BY <1>1, <1>6, <1>7

(* A save goes over settings and leaves a blob of the present layout.        *)
LEMMA SavedBlob ==
  ASSUME NEW b \in {NoBlob} \cup Blobs, NEW s \in Settings, NEW e \in Found(b)
  PROVE  e \in Settings /\ SavedOver(e, s) \in Blobs
<1>1. Existing(b) \in Settings
  BY DefaultsTyped DEF Existing, StorageVersion, NoBlob, Blobs
<1>2. e \in Settings
  BY <1>1, DefaultsTyped DEF Found
<1>3. ToStored(s, e) \in Settings
  BY <1>2, Stored
<1> QED  BY <1>2, <1>3 DEF SavedOver, Blobs, StorageVersion

\* The same settings but for a broker without a host and a WiFi that could not
\* be used.
SameSettings(t, l) ==
  /\ t = [l EXCEPT !.wifi = t.wifi, !.primary = t.primary, !.secondary = t.secondary,
                   !.tertiary = t.tertiary]
  /\ SameBroker(t.primary, l.primary) /\ SameBroker(t.secondary, l.secondary)
  /\ SameBroker(t.tertiary, l.tertiary)
  /\ IF WifiValid(l.wifi) THEN t.wifi = l.wifi ELSE ~WifiValid(t.wifi)

(* A save of what was loaded gives it again. *)
LEMMA UpgradeOf ==
  ASSUME NEW b \in Blobs, Readable(b), NEW l, l = LoadedFrom(b), NEW e \in Found(b),
         NEW t, t = LoadedFrom(SavedOver(e, l))
  PROVE  SameSettings(t, l)
<1>1. /\ l \in Settings /\ l.interval > 0 /\ l.profile # ""
      /\ WifiValid(l.wifi) => SyncSelectedLegacyFields(l.wifi) = l.wifi
      /\ ~WifiValid(l.wifi) => /\ ~ValidPair(CompiledWifi)
                               /\ CompiledWifi = "" \/ l.config = FALSE
  BY Loaded
<1>2. PICK o, c : o = ToStored(l, e) /\ c = SavedOver(e, l)
  OBVIOUS
<1>3. e \in Settings /\ c \in Blobs
  BY <1>1, <1>2, SavedBlob
<1>4. c.version = 7 /\ c.settings = o
  BY <1>2 DEF SavedOver, StorageVersion
<1>5. StoresAs(l, e, o)
  BY <1>1, <1>2, <1>3, Stored
<1>6. Gives(o, t)
  BY <1>2, <1>3, <1>4, LoadedSeven
<1>7. /\ l.topics = "" => e.topics = ""
      /\ l.firmware = "" => e.firmware = ""
      /\ l.api = "" => e.api = ""
      /\ ~WifiValid(l.wifi) => ~WifiValid(e.wifi)
      /\ \/ e.primary = l.primary /\ e.secondary = l.secondary /\ e.tertiary = l.tertiary
         \/ e.primary = NoBroker /\ e.secondary = NoBroker /\ e.tertiary = NoBroker
  <2>1. CASE b.version = 7 /\ e = b.settings
    <3>1. Gives(e, l)
      BY <2>1, LoadedSeven
    <3> QED  BY <3>1 DEF Gives, ReadsTo
  <2>2. CASE e = Zeroed
    <3>1. ~WifiValid(EmptyWifi)
      BY DEF WifiValid, HasAnyProfile, ValidPair, EmptyWifi, DefaultWifi
    <3> QED  BY <2>2, <3>1 DEF Zeroed
  <2> QED  BY <2>1, <2>2 DEF Found, Existing, StorageVersion
<1>8. Readable(c) /\ t = LoadedFrom(c)
  BY <1>2, <1>4 DEF Readable, LayoutOf, SizeOf, NoBlob
<1>9. t \in Settings
  BY <1>3, <1>8, Loaded
<1>10. AlikeInText(l, t)
  <2>1. t.profile = l.profile
    BY <1>1, <1>5, <1>6 DEF IfNotEmpty, OrPrimary, StoresAs, Gives, ReadsTo
  <2>2. t.interval = l.interval
    BY <1>1, <1>5, <1>6 DEF StoresAs, Gives, ReadsTo
  <2>3. t.topics = l.topics /\ t.firmware = l.firmware /\ t.api = l.api
    BY <1>5, <1>6, <1>7 DEF IfNotEmpty, StoresAs, Gives, ReadsTo
  <2> QED  BY <1>5, <1>6, <2>1, <2>2, <2>3 DEF AlikeInText, StoresAs, Gives, ReadsTo
<1>11. /\ SameBroker(t.primary, l.primary) /\ SameBroker(t.secondary, l.secondary)
       /\ SameBroker(t.tertiary, l.tertiary)
  <2>1. l.primary \in Brokers /\ l.secondary \in Brokers /\ l.tertiary \in Brokers
    BY <1>1 DEF Settings
  <2>2. /\ t.primary = MergeBroker(l.primary, e.primary)
        /\ t.secondary = MergeBroker(l.secondary, e.secondary)
        /\ t.tertiary = MergeBroker(l.tertiary, e.tertiary)
    BY <1>5, <1>6 DEF StoresAs, Gives, ReadsTo
  <2>3. \A n \in Brokers : SameBroker(MergeBroker(n, n), n) /\ SameBroker(MergeBroker(n, NoBroker), n)
    <3>1. NoBroker \in Brokers
      BY StorageAssumption DEF NoBroker, Brokers
    <3> QED  BY <3>1, Merged DEF SameBroker
  <2>4. CASE e.primary = l.primary /\ e.secondary = l.secondary /\ e.tertiary = l.tertiary
    BY <2>1, <2>2, <2>3, <2>4
  <2>5. CASE e.primary = NoBroker /\ e.secondary = NoBroker /\ e.tertiary = NoBroker
    BY <2>1, <2>2, <2>3, <2>5
  <2> QED  BY <1>7, <2>4, <2>5
<1>12. CASE WifiValid(l.wifi)
  <2>1. o.wifi = l.wifi
    BY <1>1, <1>5, <1>12 DEF StoresAs
  <2>2. t.wifi = l.wifi /\ t.config = l.config
    BY <1>1, <1>5, <1>6, <1>12, <2>1 DEF StoresAs, Gives
  <2> QED  BY <1>1, <1>9, <1>10, <1>11, <1>12, <2>2, SettingsEqual DEF SameSettings
<1>13. CASE ~WifiValid(l.wifi)
  <2>1. o.wifi = e.wifi /\ ~WifiValid(e.wifi) /\ ~ValidPair(CompiledWifi)
    BY <1>1, <1>5, <1>7, <1>13 DEF StoresAs
  <2>2. ~WifiValid(t.wifi) /\ t.config = l.config
    BY <1>1, <1>5, <1>6, <1>13, <2>1 DEF StoresAs, Gives
  <2> QED  BY <1>1, <1>9, <1>10, <1>11, <1>13, <2>2, SettingsEqual DEF SameSettings
<1> QED  BY <1>12, <1>13

-----------------------------------------------------------------------------
(* The specification *)

\* What a save that succeeded leaves for the next boot.
SavedFound == saved => booted /\ NextBootAgrees

StorageInv == StorageTypeOK /\ SavedFound

(* Changing settings keeps them settings.                                    *)
LEMMA Applied ==
  ASSUME NEW s \in Settings, NEW a \in Settings
  PROVE  ApplyChanges(s, a) \in Settings
<1>1. PICK o : o = ApplyChanges(s, a)
  OBVIOUS
<1>2. PICK api, version, update, primary, secondary, tertiary, topics, profile, wifi :
        /\ api = IfNotEmpty(a.api, s.api)
        /\ version = IfNotEmpty(a.firmware, s.firmware)
        /\ update = (IF a.firmware = "" THEN s.update ELSE a.update)
        /\ primary = (IF a.primary.host = "" THEN s.primary ELSE a.primary)
        /\ secondary = (IF a.primary.host = "" THEN s.secondary ELSE a.secondary)
        /\ tertiary = (IF a.primary.host = "" THEN s.tertiary ELSE a.tertiary)
        /\ topics = (IF a.primary.host = "" THEN s.topics ELSE a.topics)
        /\ profile = (IF a.primary.host = "" THEN s.profile ELSE a.profile)
        /\ wifi = (IF WifiValid(a.wifi) THEN a.wifi ELSE s.wifi)
  OBVIOUS
<1>3. /\ {api, version, update, topics, profile} \subseteq Texts
      /\ {primary, secondary, tertiary} \subseteq Brokers
      /\ wifi \in WifiSettings
  BY <1>2 DEF IfNotEmpty, Settings
<1>4. PICK registered : registered = (s.registered \/ a.registered)
  OBVIOUS
<1>5. o = [s EXCEPT !.config = a.config, !.registered = registered,
             !.interval = a.interval, !.api = api, !.firmware = version, !.update = update,
             !.primary = primary, !.secondary = secondary, !.tertiary = tertiary,
             !.topics = topics, !.profile = profile, !.wifi = wifi]
  BY <1>1, <1>2, <1>4 DEF ApplyChanges, Settings
<1>6. o \in Settings
  <2>1. a.config \in BOOLEAN /\ registered \in BOOLEAN /\ a.interval \in Nat
    BY <1>4 DEF Settings
  <2> QED  BY <1>3, <1>5, <2>1 DEF Settings
<1> QED  BY <1>1, <1>6

\* What the next boot must find.
Keeps(t, s) ==
  /\ t.registered = s.registered /\ t.update = s.update
  /\ s.interval > 0 => t.interval = s.interval
  /\ HasBroker(t.primary, s.primary) /\ HasBroker(t.secondary, s.secondary)
  /\ HasBroker(t.tertiary, s.tertiary)
  /\ HasText(t.topics, s.topics) /\ HasText(t.profile, s.profile)
  /\ HasText(t.firmware, s.firmware) /\ HasText(t.api, s.api)
  /\ WifiValid(s.wifi) => t.wifi = SyncSelectedLegacyFields(s.wifi)

(* Whatever settings are saved over, the next boot finds them.               *)
LEMMA SaveFound ==
  ASSUME NEW b \in {NoBlob} \cup Blobs, NEW s \in Settings, NEW e \in Found(b),
         NEW c, c = SavedOver(e, s), NEW t, t = LoadedFrom(c)
  PROVE  c \in Blobs /\ Keeps(t, s)
<1>1. PICK o : o = ToStored(s, e)
  OBVIOUS
<1>2. e \in Settings /\ c \in Blobs
  BY <1>1, SavedBlob
<1>3. c.version = 7 /\ c.settings = o
  BY <1>1 DEF SavedOver, StorageVersion
<1>4. StoresAs(s, e, o)
  BY <1>1, <1>2, Stored
<1>5. Gives(o, t)
  BY <1>2, <1>3, LoadedSeven
<1>6. /\ t.registered = s.registered /\ t.update = s.update
      /\ s.interval > 0 => t.interval = s.interval
      /\ HasText(t.topics, s.topics) /\ HasText(t.profile, s.profile)
      /\ HasText(t.firmware, s.firmware) /\ HasText(t.api, s.api)
  BY <1>4, <1>5 DEF StoresAs, Gives, ReadsTo, IfNotEmpty, HasText, OrPrimary
<1>7. HasBroker(t.primary, s.primary) /\ HasBroker(t.secondary, s.secondary)
      /\ HasBroker(t.tertiary, s.tertiary)
  <2>1. /\ s.primary \in Brokers /\ s.secondary \in Brokers /\ s.tertiary \in Brokers
        /\ e.primary \in Brokers /\ e.secondary \in Brokers /\ e.tertiary \in Brokers
    BY <1>2 DEF Settings
  <2>2. /\ t.primary = MergeBroker(s.primary, e.primary)
        /\ t.secondary = MergeBroker(s.secondary, e.secondary)
        /\ t.tertiary = MergeBroker(s.tertiary, e.tertiary)
    BY <1>4, <1>5 DEF StoresAs, Gives, ReadsTo
  <2> QED  BY <2>1, <2>2, Merged
<1>8. ASSUME WifiValid(s.wifi) PROVE t.wifi = SyncSelectedLegacyFields(s.wifi)
  <2>1. s.wifi \in WifiSettings
    BY DEF Settings
  <2>2. o.wifi = SyncSelectedLegacyFields(s.wifi)
    BY <1>4, <1>8 DEF StoresAs
  <2>3. WifiValid(o.wifi) /\ SyncSelectedLegacyFields(o.wifi) = o.wifi
    BY <1>8, <2>1, <2>2, Synced
  <2> QED  BY <1>5, <2>2, <2>3 DEF Gives
<1> QED  BY <1>2, <1>6, <1>7, <1>8 DEF Keeps

(* The base of the WiFi-only save is settings, and so is what it writes.     *)
LEMMA WiFiOnlyBlob ==
  ASSUME NEW b \in {NoBlob} \cup Blobs, NEW w \in WifiSettings, NEW base \in WiFiOnlyBases(b)
  PROVE  [version |-> StorageVersion,
          settings |-> [base EXCEPT !.wifi = [w EXCEPT !.profile = OrPrimary(@)]]] \in Blobs
<1>1. base \in Settings
  <2>1. CASE b.version = 6
    <3>1. b.settings \in Settings
      BY <2>1 DEF Blobs, NoBlob
    <3>2. FromLegacyStoredV6(b.settings) \in Settings
      BY <3>1, FromV6 DEF Complete
    <3> QED  BY <2>1, <3>2, DefaultsTyped, Stored DEF WiFiOnlyBases
  <2>2. CASE b.version # 6
    BY <2>2, DefaultsTyped, SavedBlob DEF WiFiOnlyBases
  <2> QED  BY <2>1, <2>2
<1>2. [w EXCEPT !.profile = OrPrimary(@)] \in WifiSettings
  BY StorageAssumption DEF WifiSettings, OrPrimary
<1>3. PICK v : v = [w EXCEPT !.profile = OrPrimary(@)]
  OBVIOUS
<1>4. [base EXCEPT !.wifi = v] \in Settings
  BY <1>1, <1>2, <1>3 DEF Settings
<1> QED  BY <1>3, <1>4 DEF Blobs, StorageVersion

(* A device that was just flashed, or upgraded.                              *)
LEMMA StorageInitially == StorageInit => StorageInv
<1> SUFFICES ASSUME StorageInit PROVE StorageInv
  OBVIOUS
<1>1. StorageTypeOK
  BY DefaultsTyped, StorageAssumption DEF StorageInit, StorageTypeOK
<1> QED  BY <1>1 DEF StorageInit, StorageInv, SavedFound

(* Every step keeps the invariant.                                           *)
LEMMA StorageStep == StorageInv /\ [StorageNext]_storageVars => StorageInv'
<1> SUFFICES ASSUME StorageInv, [StorageNext]_storageVars PROVE StorageInv'
  OBVIOUS
<1>1. /\ blob \in {NoBlob} \cup Blobs /\ running \in Settings
      /\ booted \in BOOLEAN /\ saved \in BOOLEAN
      /\ saved => booted /\ NextBootAgrees
  BY DEF StorageInv, StorageTypeOK, SavedFound, Blobs
<1>2. ASSUME blob' \in {NoBlob} \cup Blobs, running' = Defaults, ~booted', booted' \in BOOLEAN, saved' = FALSE
      PROVE  StorageInv'
  BY <1>2, DefaultsTyped DEF StorageInv, StorageTypeOK, SavedFound, Blobs
<1>3. CASE Load
  <2>1. /\ ~booted /\ booted' = TRUE /\ blob' \in {blob, NoBlob} /\ saved' = saved
        /\ running' \in {running, IF Readable(blob') THEN LoadedFrom(blob') ELSE running}
    BY <1>3 DEF Load
  <2>2. saved' = FALSE
    BY <1>1, <2>1
  <2>3. Readable(blob') => blob' \in Blobs
    BY <1>1, <2>1 DEF Readable
  <2>4. running' \in Settings
    BY <1>1, <2>1, <2>3, Loaded
  <2> QED  BY <1>1, <2>1, <2>2, <2>4 DEF StorageInv, StorageTypeOK, SavedFound, Blobs
<1>4. CASE SaveAnswer
  <2>1. PICK a \in Answers : running' = ApplyChanges(running, a)
    BY <1>4 DEF SaveAnswer
  <2>2. PICK e \in Found(blob) : booted /\ booted' = booted /\ Writes(SavedOver(e, running'))
    BY <1>4 DEF SaveAnswer
  <2>3. a \in Settings
    BY StorageAssumption
  <2>4. running' \in Settings
    BY <1>1, <2>1, <2>3, Applied
  <2>5. PICK c, t : c = SavedOver(e, running') /\ t = LoadedFrom(c)
    OBVIOUS
  <2>6. c \in Blobs /\ Keeps(t, running')
    BY <1>1, <2>4, <2>5, SaveFound
  <2>7. \/ blob' = c /\ saved' = TRUE
        \/ blob' \in {blob, c} /\ saved' = FALSE
    BY <2>2, <2>5 DEF Writes
  <2>8. StorageTypeOK'
    BY <1>1, <2>2, <2>4, <2>6, <2>7 DEF StorageTypeOK, Blobs
  <2>9. SavedFound'
    <3>1. CASE saved' = FALSE
      BY <3>1 DEF SavedFound
    <3>2. CASE blob' = c /\ saved' = TRUE
      <4>1. t = LoadedFrom(blob')
        BY <2>5, <3>2
      <4>2. NextBootAgrees'
        BY <2>6, <4>1 DEF NextBootAgrees, Keeps
      <4> QED  BY <2>2, <4>2 DEF SavedFound
    <3> QED  BY <2>7, <3>1, <3>2
  <2> QED  BY <2>8, <2>9 DEF StorageInv
<1>5. CASE SaveWiFiOnly
  <2>1. PICK wifi \in WifiInputs, base \in WiFiOnlyBases(blob) :
          blob' \in {blob, [version |-> StorageVersion,
                            settings |-> [base EXCEPT
                                            !.wifi = [SyncSelectedLegacyFields(wifi) EXCEPT
                                                        !.profile = OrPrimary(@)]]]}
    BY <1>5 DEF SaveWiFiOnly
  <2>2. PICK w : w = SyncSelectedLegacyFields(wifi)
    OBVIOUS
  <2>3. w \in WifiSettings
    BY <2>1, <2>2, StorageAssumption, Synced
  <2>4. blob' \in {NoBlob} \cup Blobs
    BY <1>1, <2>1, <2>2, <2>3, WiFiOnlyBlob
  <2> QED  BY <1>2, <1>5, <2>4 DEF SaveWiFiOnly
<1>6. CASE Erase
  <2>1. blob' \in {NoBlob} \cup Blobs
    BY <1>1, <1>6 DEF Erase
  <2> QED  BY <1>2, <1>6, <2>1 DEF Erase
<1>7. CASE RestartStorage
  <2>1. blob' \in {NoBlob} \cup Blobs
    BY <1>1, <1>7 DEF RestartStorage
  <2> QED  BY <1>2, <1>7, <2>1 DEF RestartStorage
<1>8. CASE UNCHANGED storageVars
  BY <1>8 DEF storageVars, StorageInv, StorageTypeOK, SavedFound, NextBootAgrees
<1> QED  BY <1>3, <1>4, <1>5, <1>6, <1>7, <1>8 DEF StorageNext

(* The invariant implies what the run checks.                                *)
LEMMA StorageInvFaithful == StorageInv => StorageFaithful
<1> SUFFICES ASSUME StorageInv PROVE StorageFaithful
  OBVIOUS
<1>1. blob \in {NoBlob} \cup Blobs
  BY DEF StorageInv, StorageTypeOK, Blobs
<1>2. UpgradeIsFaithful
  <2> SUFFICES ASSUME Readable(blob) PROVE UpgradeIsFaithful
    BY DEF UpgradeIsFaithful
  <2>1. blob \in Blobs
    BY <1>1 DEF Readable
  <2>2. PICK l : l = LoadedFrom(blob)
    OBVIOUS
  <2>3. \A e \in Found(blob) : SameSettings(LoadedFrom(SavedOver(e, l)), l)
    BY <2>1, <2>2, UpgradeOf
  <2> QED  BY <2>2, <2>3 DEF UpgradeIsFaithful, SameSettings
<1>3. NextBootAgrees
  BY DEF StorageInv, SavedFound, NextBootAgrees
<1> QED  BY <1>2, <1>3 DEF StorageFaithful

(* The invariant holds in every state of every behaviour.                    *)
LEMMA StorageInvariant == StorageSpec => []StorageInv
BY StorageInitially, StorageStep, PTL DEF StorageSpec

(* The blob is missing or a whole one of a known version, and what the        *)
(* device runs with is whole settings.                                        *)
THEOREM StorageTypeCorrect == StorageSpec => []StorageTypeOK
<1>1. StorageInv => StorageTypeOK
  BY DEF StorageInv
<1> QED  BY <1>1, StorageInvariant, PTL

(* Whatever an earlier firmware left, whatever is brought and saved, and      *)
(* whether or not a save can read what it merges with, an upgrade of the      *)
(* layout takes away no setting that can be used, and a boot after a save     *)
(* that succeeded finds all that the device ran with.                         *)
THEOREM StorageIsFaithful == StorageSpec => []StorageFaithful
BY StorageInvariant, StorageInvFaithful, PTL
=============================================================================
