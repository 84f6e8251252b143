-------------------------- MODULE MqttService_proofs --------------------------
(***************************************************************************)
(* Theorems of MqttService: for any number of broker profiles and any      *)
(* threshold, the service, its client, the gate's bit and the statistics   *)
(* agree.                                                                  *)
(***************************************************************************)
EXTENDS MqttService, WellFoundedInduction, TLAPS

(* Where handle() is says what the state is; a live state has a client. *)
MqttPhases ==
  /\ mpc \in {"connect", "started"} => mqttState = "BackoffWaiting"
  /\ mpc = "online" => mqttState = "Connecting" /\ client = "running"
  /\ mpc = "started" => client = "stopped" /\ clientProfile = activeProfile /\ clientInitialized
  /\ mqttState \in Live => clientInitialized

(* Once handle() has taken the flag nobody sets it but a running client. *)
FlagTaken ==
  mpc \in {"gate", "run", "connect", "started"} /\ mqttState \notin Live => ~ observed

MqttInv ==
  /\ MqttTypeOK
  /\ ClientFollowsService
  /\ ConnectedMeansRunning
  /\ BitOnlyOnline
  /\ OfflineAccounting
  /\ MqttPhases
  /\ FlagTaken

-----------------------------------------------------------------------------
(* The fallback profile is one of the profiles. *)
LEMMA MinIsMember ==
  ASSUME NEW S, S \subseteq Nat, S # {}
  PROVE  Min(S) \in S
<1> DEFINE Less == {pair \in Nat \X Nat : pair[1] < pair[2]}
<1>1. IsWellFoundedOn(Less, Nat)
  BY NatLessThanWellFounded DEF OpToRel
<1>2. PICK x \in S : \A y \in S : ~ (<<y, x>> \in Less)
  <2> HIDE DEF Less
  <2> QED  BY <1>1, WFMin
<1>3. \A y \in S : x =< y
  <2> TAKE y \in S
  <2>1. x \in Nat /\ y \in Nat
    OBVIOUS
  <2>2. ~ (y < x)
    BY <1>2, <2>1
  <2> QED  BY <2>1, <2>2
<1> QED  BY <1>3 DEF Min

LEMMA TargetIsProfile ==
  ASSUME MqttTypeOK
  PROVE  Target \in Profiles
<1>1. CASE settings.valid \ {settings.selected} = {}
  BY <1>1 DEF MqttTypeOK, Target, Fallback
<1>2. CASE settings.valid \ {settings.selected} # {}
  <2> DEFINE others == settings.valid \ {settings.selected}
  <2>1. others \subseteq Profiles /\ others \subseteq Nat
    BY MqttAssumption DEF MqttTypeOK, Profiles
  <2>2. Min(others) \in others
    BY <1>2, <2>1, MinIsMember
  <2>3. Fallback \in Profiles
    BY <1>2, <2>1, <2>2 DEF Fallback
  <2> QED  BY <2>3 DEF MqttTypeOK, Target
<1> QED  BY <1>1, <1>2

LEMMA AttemptIsBounded ==
  ASSUME MqttTypeOK
  PROVE  NextAttempt \in 0..FallbackThreshold
  BY MqttAssumption DEF MqttTypeOK, NextAttempt

(* Counting a disconnection keeps the difference in its range. *)
LEMMA DisconnectionCounts ==
  ASSUME MqttInv, mpc # "restart", MarkDisconnected
  PROVE  offline' \in BOOLEAN /\ balance' \in -1..1
<1>1. balance \in {0, 1}
  <2>1. CASE clientInitialized /\ ~ offline
    BY <2>1 DEF MqttInv, OfflineAccounting
  <2>2. CASE ~ (clientInitialized /\ ~ offline)
    BY <2>2 DEF MqttInv, OfflineAccounting
  <2> QED  BY <2>1, <2>2
<1>2. balance' = balance \/ balance' = balance - 1
  BY DEF MarkDisconnected
<1> QED  BY <1>1, <1>2 DEF MarkDisconnected

LEMMA MqttStarts == MqttInit => MqttInv
<1> SUFFICES ASSUME MqttInit PROVE MqttInv
  OBVIOUS
<1>1. settings \in [known : BOOLEAN, selected : Profiles, hosts : SUBSET Profiles,
                    valid : SUBSET Profiles]
  BY DEF MqttInit, Configurations
<1>2. 0 \in 0..FallbackThreshold /\ 0 \in -1..1
  BY MqttAssumption
<1> QED
  BY <1>1, <1>2
  DEF MqttInit, MqttInv, MqttTypeOK, ClientFollowsService, ConnectedMeansRunning, BitOnlyOnline,
      OfflineAccounting, MqttPhases, FlagTaken, Live

-----------------------------------------------------------------------------
(* Steps of handle() up to the choice by state. *)
LEMMA ReadingStep ==
  ASSUME MqttInv, ReadGate \/ ObserveDisconnect \/ GateOpen
  PROVE  MqttInv'
<1> USE DEF MqttInv, MqttTypeOK, ClientFollowsService, ConnectedMeansRunning, BitOnlyOnline,
            OfflineAccounting, MqttPhases, FlagTaken, Live, driver
<1>1. CASE ReadGate
  BY <1>1 DEF ReadGate, service
<1>2. CASE ObserveDisconnect
  <2>1. CASE observed /\ mqttState \in Live
    <3>1. offline' \in BOOLEAN /\ balance' \in -1..1
      BY <1>2, <2>1, AttemptIsBounded, DisconnectionCounts DEF ObserveDisconnect
    <3>2. MqttTypeOK'
      BY <1>2, <2>1, AttemptIsBounded, <3>1 DEF ObserveDisconnect
    <3>3. /\ ClientFollowsService' /\ ConnectedMeansRunning' /\ BitOnlyOnline'
          /\ OfflineAccounting' /\ MqttPhases' /\ FlagTaken'
      BY <1>2, <2>1, AttemptIsBounded DEF ObserveDisconnect, MarkDisconnected
    <3> QED  BY <3>2, <3>3 DEF MqttInv
  <2>2. CASE ~ (observed /\ mqttState \in Live)
    <3>2. MqttTypeOK'
      BY <1>2, <2>2 DEF ObserveDisconnect
    <3>3. /\ ClientFollowsService' /\ ConnectedMeansRunning' /\ BitOnlyOnline'
          /\ OfflineAccounting' /\ MqttPhases' /\ FlagTaken'
      BY <1>2, <2>2 DEF ObserveDisconnect
    <3> QED  BY <3>2, <3>3 DEF MqttInv
  <2> QED  BY <2>1, <2>2
<1>3. CASE GateOpen
  BY <1>3 DEF GateOpen
<1> QED  BY <1>1, <1>2, <1>3

(* Steps that stop the client. *)
LEMMA StoppingStep ==
  ASSUME MqttInv, ScheduleRetry \/ GateClosed \/ Stop
  PROVE  MqttInv'
<1> USE DEF MqttInv, MqttTypeOK, ClientFollowsService, ConnectedMeansRunning, BitOnlyOnline,
            OfflineAccounting, MqttPhases, FlagTaken, Live, driver, StopClient
<1>1. CASE ScheduleRetry
  BY <1>1 DEF ScheduleRetry
<1>2. CASE GateClosed
  <2>1. CASE mqttState \in Live
    <3>1. offline' \in BOOLEAN /\ balance' \in -1..1
      BY <1>2, <2>1, DisconnectionCounts DEF GateClosed
    <3>2. MqttTypeOK'
      BY <1>2, <2>1, <3>1 DEF GateClosed
    <3>3. /\ ClientFollowsService' /\ ConnectedMeansRunning' /\ BitOnlyOnline'
          /\ OfflineAccounting' /\ MqttPhases' /\ FlagTaken'
      BY <1>2, <2>1 DEF GateClosed, MarkDisconnected
    <3> QED  BY <3>2, <3>3 DEF MqttInv
  <2>2. CASE mqttState \notin Live
    BY <1>2, <2>2 DEF GateClosed
  <2> QED  BY <2>1, <2>2
<1>3. CASE Stop
  <2>1. offline' \in BOOLEAN /\ balance' \in -1..1
    BY <1>3, DisconnectionCounts DEF Stop
  <2>2. MqttTypeOK'
    BY <1>3, <2>1 DEF Stop
  <2>3. /\ ClientFollowsService' /\ ConnectedMeansRunning' /\ BitOnlyOnline'
        /\ OfflineAccounting' /\ MqttPhases' /\ FlagTaken'
    BY <1>3 DEF Stop, MarkDisconnected
  <2> QED  BY <2>2, <2>3 DEF MqttInv
<1> QED  BY <1>1, <1>2, <1>3

(* What handle() does in each state. *)
LEMMA RunningStep ==
  ASSUME MqttInv, RunConnecting \/ RunBackoff \/ RunOnline \/ GoOnline
  PROVE  MqttInv'
<1> USE DEF MqttInv, MqttTypeOK, ClientFollowsService, ConnectedMeansRunning, BitOnlyOnline,
            OfflineAccounting, MqttPhases, FlagTaken, Live, driver, Run, Proceeds, Fails
<1>1. CASE RunConnecting
  BY <1>1, AttemptIsBounded DEF RunConnecting, MarkDisconnected
<1>2. CASE RunBackoff
  BY <1>2 DEF RunBackoff
<1>3. CASE RunOnline
  <2>1. offline' \in BOOLEAN /\ balance' \in -1..1
    BY <1>3, AttemptIsBounded, DisconnectionCounts DEF RunOnline
  <2>2. MqttTypeOK'
    BY <1>3, AttemptIsBounded, <2>1 DEF RunOnline
  <2>3. /\ ClientFollowsService' /\ ConnectedMeansRunning' /\ BitOnlyOnline'
        /\ OfflineAccounting' /\ MqttPhases' /\ FlagTaken'
    BY <1>3, AttemptIsBounded DEF RunOnline, MarkDisconnected
  <2> QED  BY <2>2, <2>3 DEF MqttInv
<1>4. CASE GoOnline
  <2>1. clientInitialized /\ offline /\ balance = 0
    BY <1>4 DEF GoOnline
  <2>2. MqttTypeOK'
    <3>1. balance' = 1 /\ offline' = FALSE
      BY <1>4, <2>1 DEF GoOnline, MarkConnected
    <3>2. attempt' \in 0..FallbackThreshold /\ balance' \in -1..1
      BY <1>4, <3>1, MqttAssumption DEF GoOnline
    <3> QED  BY <1>4, <3>1, <3>2 DEF GoOnline
  <2>3. /\ ClientFollowsService' /\ ConnectedMeansRunning' /\ BitOnlyOnline'
        /\ OfflineAccounting' /\ MqttPhases' /\ FlagTaken'
    BY <1>4, MqttAssumption DEF GoOnline, MarkConnected
  <2> QED  BY <2>2, <2>3 DEF MqttInv
<1> QED  BY <1>1, <1>2, <1>3, <1>4

(* Steps of startConnect: the client does not run while they last. *)
LEMMA ConnectingStep ==
  ASSUME MqttInv, ConnectImpossible \/ \E started \in BOOLEAN : StartClient(started)
  PROVE  MqttInv'
<1> USE DEF MqttInv, MqttTypeOK, ClientFollowsService, ConnectedMeansRunning, BitOnlyOnline,
            OfflineAccounting, MqttPhases, FlagTaken, Live, driver
<1>1. CASE ConnectImpossible
  BY <1>1, TargetIsProfile DEF ConnectImpossible
<1>2. CASE \E started \in BOOLEAN : StartClient(started)
  <2>1. PICK started \in BOOLEAN : StartClient(started)
    BY <1>2
  <2>2. CASE network /\ started
    BY <2>1, <2>2 DEF StartClient
  <2>3. CASE ~ (network /\ started)
    BY <2>1, <2>3 DEF StartClient
  <2> QED  BY <2>2, <2>3
<1> QED  BY <1>1, <1>2

LEMMA BeginningStep ==
  ASSUME MqttInv, NEW created \in BOOLEAN, FirstConnect(created) \/ ConnectAgain(created)
  PROVE  MqttInv'
<1> USE DEF MqttInv, MqttTypeOK, ClientFollowsService, ConnectedMeansRunning, BitOnlyOnline,
            OfflineAccounting, MqttPhases, FlagTaken, Live, Begins, BeginClient
<1>1. Target \in Profiles
  BY TargetIsProfile
<1>2. CASE FirstConnect(created)
  <2>1. CASE Reusable \/ created
    <3>1. clientInitialized' = TRUE /\ attempt' = 0
      BY <1>2, <2>1 DEF FirstConnect
    <3>2. MqttTypeOK'
      <4>1. attempt' \in 0..FallbackThreshold /\ balance' \in -1..1
        BY <1>2, <3>1, MqttAssumption DEF FirstConnect
      <4>2. clientConnected' \in BOOLEAN
        BY <1>2 DEF FirstConnect
      <4> QED  BY <1>1, <1>2, <2>1, <3>1, <4>1, <4>2 DEF FirstConnect
    <3>3. /\ ClientFollowsService' /\ ConnectedMeansRunning' /\ BitOnlyOnline'
          /\ OfflineAccounting' /\ MqttPhases' /\ FlagTaken'
      BY <1>1, <1>2, <2>1, MqttAssumption DEF FirstConnect, Reusable
    <3> QED  BY <3>2, <3>3 DEF MqttInv
  <2>2. CASE ~ (Reusable \/ created)
    <3>1. clientInitialized' = FALSE /\ attempt' = 1
      BY <1>2, <2>2 DEF FirstConnect
    <3>2. MqttTypeOK'
      <4>1. attempt' \in 0..FallbackThreshold /\ balance' \in -1..1
        BY <1>2, <3>1, MqttAssumption DEF FirstConnect
      <4>2. clientConnected' \in BOOLEAN
        BY <1>2 DEF FirstConnect
      <4> QED  BY <1>1, <1>2, <2>2, <3>1, <4>1, <4>2 DEF FirstConnect
    <3>3. /\ ClientFollowsService' /\ ConnectedMeansRunning' /\ BitOnlyOnline'
          /\ OfflineAccounting' /\ MqttPhases' /\ FlagTaken'
      BY <1>1, <1>2, <2>2, MqttAssumption DEF FirstConnect
    <3> QED  BY <3>2, <3>3 DEF MqttInv
  <2> QED  BY <2>1, <2>2
<1>3. CASE ConnectAgain(created)
  <2>1. CASE Reusable \/ created
    BY <1>1, <1>3, <2>1 DEF ConnectAgain, Reusable
  <2>2. CASE ~ (Reusable \/ created)
    BY <1>1, <1>3, <2>2, AttemptIsBounded DEF ConnectAgain, MarkDisconnected
  <2> QED  BY <2>1, <2>2
<1> QED  BY <1>2, <1>3

(* Steps of the library, the network, the settings and time. *)
LEMMA ElsewhereStep ==
  ASSUME MqttInv,
         ClientConnects \/ ClientDisconnects \/ NetworkChanges \/ SettingsCleared \/ Timer
  PROVE  MqttInv'
<1> USE DEF MqttInv, MqttTypeOK, ClientFollowsService, ConnectedMeansRunning, BitOnlyOnline,
            OfflineAccounting, MqttPhases, FlagTaken, Live, Elsewhere
<1>1. CASE ClientConnects
  BY <1>1 DEF ClientConnects
<1>2. CASE ClientDisconnects
  <2>2. MqttTypeOK'
    BY <1>2 DEF ClientDisconnects
  <2>3. /\ ClientFollowsService' /\ ConnectedMeansRunning' /\ BitOnlyOnline'
        /\ OfflineAccounting' /\ MqttPhases' /\ FlagTaken'
    BY <1>2 DEF ClientDisconnects
  <2> QED  BY <2>2, <2>3 DEF MqttInv
<1>3. CASE NetworkChanges
  BY <1>3 DEF NetworkChanges
<1>4. CASE SettingsCleared
  <2>1. settings' \in [known : BOOLEAN, selected : Profiles, hosts : SUBSET Profiles,
                       valid : SUBSET Profiles]
    BY <1>4, Zenon DEF SettingsCleared
  <2>2. MqttTypeOK'
    <3>1. UNCHANGED <<network, mpc, bit, canConnect, mqttState, attempt, offline, balance, clientInitialized,
                      activeProfile, client, clientProfile, due, clientConnected, observed>>
      BY <1>4 DEF SettingsCleared
    <3> QED  BY <2>1, <3>1
  <2>3. /\ ClientFollowsService' /\ ConnectedMeansRunning' /\ BitOnlyOnline'
        /\ OfflineAccounting' /\ MqttPhases' /\ FlagTaken'
    BY <1>4 DEF SettingsCleared
  <2> QED  BY <2>2, <2>3 DEF MqttInv
<1>5. CASE Timer
  BY <1>5 DEF Timer
<1> QED  BY <1>1, <1>2, <1>3, <1>4, <1>5

LEMMA MqttStep == MqttInv /\ [MqttNext]_mqttVars => MqttInv'
<1> SUFFICES ASSUME MqttInv, [MqttNext]_mqttVars PROVE MqttInv'
  OBVIOUS
<1>1. CASE HandleMqtt
  <2>1. ASSUME NEW created \in BOOLEAN, FirstConnect(created) \/ ConnectAgain(created)
        PROVE  MqttInv'
    BY <2>1, BeginningStep
  <2> QED
    BY <1>1, <2>1, ReadingStep, StoppingStep, RunningStep, ConnectingStep DEF HandleMqtt
<1>2. CASE UNCHANGED mqttVars
  BY <1>2
  DEF mqttVars, service, driver, MqttInv, MqttTypeOK, ClientFollowsService, ConnectedMeansRunning,
      BitOnlyOnline, OfflineAccounting, MqttPhases, FlagTaken, Live
<1> QED  BY <1>1, <1>2, StoppingStep, ElsewhereStep DEF MqttNext

-----------------------------------------------------------------------------
(* The inductive invariant holds in every state of handle() and of the *)
(* callbacks between its steps.                                        *)
THEOREM MqttInvariance == MqttSpec => []MqttInv
BY MqttStarts, MqttStep, PTL DEF MqttSpec

(* The variables of the service, the client and the gate keep their types. *)
THEOREM MqttTypeCorrect == MqttSpec => []MqttTypeOK
BY MqttInvariance, PTL DEF MqttInv

(* The client runs only while handle() is connecting or online, and for    *)
(* the profile startConnect chose; online there is one that runs.          *)
THEOREM ServiceAndClientAgree == MqttSpec => []ClientFollowsService
BY MqttInvariance, PTL DEF MqttInv

(* _connected is never left set by a client that was stopped or destroyed. *)
THEOREM NoStaleConnection == MqttSpec => []ConnectedMeansRunning
BY MqttInvariance, PTL DEF MqttInv

(* startConnect never starts a client under the disconnection of another. *)
THEOREM NoStaleDisconnection == MqttSpec => []StartsUndisturbed
<1>1. MqttInv => StartsUndisturbed
  BY DEF MqttInv, StartsUndisturbed, MqttPhases, FlagTaken, Live
<1> QED  BY <1>1, MqttInvariance, PTL

(* The gate's MQTT_CONNECTED bit never outlives the online state. *)
THEOREM BitIsTrue == MqttSpec => []BitOnlyOnline
BY MqttInvariance, PTL DEF MqttInv

(* The flag, the disconnection and the bit of an ended connection never    *)
(* pass for those of the next one.                                         *)
THEOREM NothingOutlivesItsConnection == MqttSpec => []NothingStale
BY NoStaleConnection, NoStaleDisconnection, BitIsTrue, PTL DEF NothingStale

(* markConnected and markDisconnected alternate on every path. *)
THEOREM ConnectionsAreCounted == MqttSpec => []OfflineAccounting
BY MqttInvariance, PTL DEF MqttInv
=============================================================================
