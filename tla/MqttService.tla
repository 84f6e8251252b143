----------------------------- MODULE MqttService -----------------------------
(***************************************************************************)
(* The MQTT connection of one boot: MqttService, the state machine run by  *)
(* the transport task, over EspIdfMqttClient, whose callbacks run in the   *)
(* task of the MQTT library, under the network bits of ConnectivityGate,   *)
(* which WiFi events set and clear.                                        *)
(*                                                                         *)
(* handle() is split where another task's write can be seen: `mpc' is where*)
(* it is.  Of a broker profile only its place (primary 1, secondary 2,     *)
(* tertiary 3), whether it has a host and whether it is valid are kept.  A *)
(* delay is over or not.  The offline queue and the topics change nothing  *)
(* of the connection and are left out.  The transport task runs only with  *)
(* settings loaded from NVS and the settings gate never goes back, so      *)
(* _settingsReady is always true here.                                     *)
(***************************************************************************)
EXTENDS Integers, FiniteSetsExt

CONSTANTS
  LastProfile,       \* the number of profiles: 3 in the code
  FallbackThreshold  \* BrokerFallbackAttemptThreshold, 3: attempts are counted up to it

ASSUME MqttAssumption ==
  /\ LastProfile \in Nat \ {0}
  /\ FallbackThreshold \in Nat \ {0}

VARIABLES
  network,      \* the gate's WIFI_CONNECTED and IP_READY bits
  bit,          \* the gate's MQTT_CONNECTED bit
  settings,     \* what copyCurrent returns
  mpc,          \* the transport task in handle()
  canConnect,   \* its copy of the gate
  mqttState,    \* _state
  attempt,      \* _attempt
  due,          \* now >= _nextActionAtMs
  offline,      \* _offlineSinceMs # 0
  balance,      \* reconnectsTotal - disconnectsTotal
  clientInitialized,  \* _clientInitialized
  activeProfile,  \* _activeProfileName
  client,       \* the library's client: "absent", "stopped" or "running"
  clientProfile,    \* the profile the client was created for
  clientConnected,  \* _connected of EspIdfMqttClient
  observed      \* _clientDisconnectObserved

service == <<mqttState, attempt, due, offline, balance, clientInitialized, activeProfile>>
driver  == <<client, clientProfile, clientConnected>>
mqttVars == <<network, bit, settings, mpc, canConnect, service, driver, observed>>

Profiles  == 1..LastProfile
Primary   == 1
NoProfile == 0
Live      == {"Connecting", "Online"}

(* `selected' is the profile the settings name when it is valid, else the  *)
(* primary; a valid profile has a host.                                    *)
Configurations ==
  {s \in [known : {TRUE}, selected : Profiles, hosts : SUBSET Profiles,
          valid : SUBSET Profiles] :
     s.valid \subseteq s.hosts /\ s.selected \in s.valid \cup {Primary}}

(* The profile a connection is tried with: after enough failures, the      *)
(* first valid one that is not the selected one.                           *)
Fallback ==
  LET others == settings.valid \ {settings.selected}
  IN  IF others = {} THEN settings.selected ELSE Min(others)

Target == IF attempt >= FallbackThreshold THEN Fallback ELSE settings.selected

NextAttempt == IF attempt < FallbackThreshold THEN attempt + 1 ELSE attempt

-----------------------------------------------------------------------------
MqttInit ==
  /\ network = FALSE
  /\ bit = FALSE
  /\ settings \in Configurations
  /\ mpc = "handle"
  /\ canConnect = FALSE
  /\ mqttState = "Idle"
  /\ attempt = 0
  /\ due = TRUE
  /\ offline = FALSE
  /\ balance = 0
  /\ clientInitialized = FALSE
  /\ activeProfile = NoProfile
  /\ client = "absent"
  /\ clientProfile = NoProfile
  /\ clientConnected = FALSE
  /\ observed = FALSE

(* markDisconnected *)
MarkDisconnected ==
  /\ offline' = TRUE
  /\ balance' = IF offline THEN balance ELSE balance - 1

(* markConnected *)
MarkConnected ==
  /\ offline' = FALSE
  /\ balance' = IF offline THEN balance + 1 ELSE balance

(* A slip in EspIdfMqttClient::stop: _connected is left to the callback. *)
StopClientOnly ==
  /\ client' = IF client = "running" THEN "stopped" ELSE client
  /\ observed' \in {observed, observed \/ client = "running"}
  /\ UNCHANGED <<clientProfile, clientConnected>>

(* EspIdfMqttClient::stop waits for the end of the library's task, which   *)
(* may still report a disconnection before it ends.                        *)
StopClient ==
  /\ client' = IF client = "running" THEN "stopped" ELSE client
  /\ clientConnected' = FALSE
  /\ observed' \in {observed, observed \/ client = "running"}
  /\ UNCHANGED clientProfile

-----------------------------------------------------------------------------
(* handle() reads the gate first, ... *)
ReadGate ==
  /\ mpc = "handle"
  /\ canConnect' = network
  /\ mpc' = "observe"
  /\ UNCHANGED <<network, bit, settings, service, driver, observed>>

(* ... then takes the flag the disconnection callback sets.  The first     *)
(* half of scheduleRetry, which counts the attempt, belongs here.          *)
ObserveDisconnect ==
  /\ mpc = "observe"
  /\ observed' = FALSE
  /\ IF observed /\ mqttState \in Live
       THEN MarkDisconnected /\ attempt' = NextAttempt /\ mpc' = "retry"
       ELSE UNCHANGED <<offline, balance, attempt>> /\ mpc' = "gate"
  /\ UNCHANGED <<network, bit, settings, canConnect, mqttState, due, clientInitialized,
                 activeProfile, driver>>

(* A slip in scheduleRetry: the client is not stopped. *)
ScheduleRetryOnly ==
  /\ mpc = "retry"
  /\ bit' = FALSE
  /\ mqttState' = "BackoffWaiting"
  /\ due' = FALSE
  /\ mpc' = "handle"
  /\ UNCHANGED <<network, settings, canConnect, attempt, offline, balance,
                 clientInitialized, activeProfile, driver, observed>>

(* The second half of scheduleRetry: _nextActionAtMs is in the future. *)
ScheduleRetry ==
  /\ mpc = "retry"
  /\ StopClient
  /\ bit' = FALSE
  /\ mqttState' = "BackoffWaiting"
  /\ due' = FALSE
  /\ mpc' = "handle"
  /\ UNCHANGED <<network, settings, canConnect, attempt, offline, balance,
                 clientInitialized, activeProfile>>

(* The network is there: an idle service will connect at once. *)
GateOpen ==
  /\ mpc = "gate"
  /\ canConnect
  /\ mqttState' = IF mqttState = "Idle" THEN "BackoffWaiting" ELSE mqttState
  /\ due' = (due \/ mqttState = "Idle")
  /\ mpc' = "run"
  /\ UNCHANGED <<network, bit, settings, canConnect, attempt, offline, balance,
                 clientInitialized, activeProfile, driver, observed>>

(* A slip in handle(): the closed gate leaves the statistics. *)
GateClosedUncounted ==
  /\ mpc = "gate"
  /\ ~ canConnect
  /\ IF mqttState \in Live THEN StopClient ELSE UNCHANGED <<driver, observed>>
  /\ bit' = FALSE
  /\ mqttState' = "Idle"
  /\ due' = TRUE
  /\ mpc' = "handle"
  /\ UNCHANGED <<network, settings, canConnect, attempt, offline, balance,
                 clientInitialized, activeProfile>>

(* It is not: a live client is stopped. *)
GateClosed ==
  /\ mpc = "gate"
  /\ ~ canConnect
  /\ IF mqttState \in Live
       THEN MarkDisconnected /\ StopClient
       ELSE UNCHANGED <<offline, balance, driver, observed>>
  /\ bit' = FALSE
  /\ mqttState' = "Idle"
  /\ due' = TRUE
  /\ mpc' = "handle"
  /\ UNCHANGED <<network, settings, canConnect, attempt, clientInitialized, activeProfile>>

-----------------------------------------------------------------------------
Run == mpc = "run" /\ UNCHANGED <<network, bit, settings, canConnect, mqttState, due,
                                 clientInitialized, activeProfile, driver, observed>>

Fails == MarkDisconnected /\ attempt' = NextAttempt /\ mpc' = "retry"
Proceeds(label) == mpc' = label /\ UNCHANGED <<attempt, offline, balance>>

(* A slip in handle(): no timeout, since the library reports failures. *)
RunConnectingPatiently ==
  /\ Run
  /\ mqttState = "Connecting"
  /\ Proceeds(IF clientConnected THEN "online" ELSE "handle")

(* Connecting: connected, given up after 15 s, or neither yet. *)
RunConnecting ==
  /\ Run
  /\ mqttState = "Connecting"
  /\ \/ clientConnected /\ Proceeds("online")
     \/ ~ clientConnected /\ due /\ Fails
     \/ ~ clientConnected /\ ~ due /\ Proceeds("handle")

RunBackoff ==
  /\ Run
  /\ mqttState = "BackoffWaiting"
  /\ Proceeds(IF due THEN "connect" ELSE "handle")

RunOnline ==
  /\ Run
  /\ mqttState = "Online"
  /\ IF clientConnected THEN Proceeds("handle") ELSE Fails

(* The connection is noted; it may be gone again by now. *)
GoOnline ==
  /\ mpc = "online"
  /\ MarkConnected
  /\ mqttState' = "Online"
  /\ attempt' = 0
  /\ bit' = TRUE
  /\ mpc' = "handle"
  /\ UNCHANGED <<network, settings, canConnect, due, clientInitialized, activeProfile,
                 driver, observed>>

-----------------------------------------------------------------------------
(* startConnect: no settings, or no host, and the service goes idle; ... *)
ConnectImpossible ==
  /\ mpc = "connect"
  /\ ~ settings.known \/ Target \notin settings.hosts
  /\ activeProfile' = IF settings.known THEN Target ELSE activeProfile
  /\ mqttState' = "Idle"
  /\ due' = TRUE
  /\ mpc' = "handle"
  /\ UNCHANGED <<network, bit, settings, canConnect, attempt, offline, balance,
                 clientInitialized, driver, observed>>

(* EspIdfMqttClient::begin: a client of the same configuration is kept,    *)
(* another is destroyed first; `created' is whether a new one could be.    *)
Reusable == client # "absent" /\ clientProfile = Target

BeginClient(created) ==
  /\ client' = IF Reusable THEN client ELSE IF created THEN "stopped" ELSE "absent"
  /\ clientProfile' = IF Reusable \/ created THEN Target ELSE clientProfile
  /\ clientConnected' = (clientConnected /\ Reusable)

Begins(created) ==
  /\ mpc = "connect"
  /\ settings.known
  /\ Target \in settings.hosts
  /\ activeProfile' = Target
  /\ BeginClient(created)
  /\ mpc' = IF Reusable \/ created THEN "started" ELSE "retry"
  /\ UNCHANGED <<network, settings, canConnect>>

(* ... the first time, MqttService::begin, which starts everything over    *)
(* until the client could be created once; ...                             *)
FirstConnect(created) ==
  /\ Begins(created)
  /\ ~ clientInitialized
  /\ clientInitialized' = (Reusable \/ created)
  /\ attempt' = IF clientInitialized' THEN 0 ELSE 1
  /\ mqttState' = "BackoffWaiting"
  /\ due' = TRUE
  /\ offline' = TRUE
  /\ balance' = 0
  /\ bit' = FALSE
  /\ observed' = FALSE

(* ... later, only the client's begin; ... *)
ConnectAgain(created) ==
  /\ Begins(created)
  /\ clientInitialized
  /\ IF Reusable \/ created
       THEN UNCHANGED <<attempt, offline, balance>>
       ELSE MarkDisconnected /\ attempt' = NextAttempt
  /\ UNCHANGED <<bit, mqttState, due, clientInitialized, observed>>

(* ... then the network is looked at once more and the client is started.  *)
(* EspIdfMqttClient::start does not say whether the library could: the     *)
(* service waits in Connecting for the client all the same.                *)
StartClient(started) ==
  /\ mpc = "started"
  /\ mqttState' = IF network THEN "Connecting" ELSE "BackoffWaiting"
  /\ client' = IF network /\ started THEN "running" ELSE client
  /\ due' = FALSE
  /\ mpc' = "handle"
  /\ UNCHANGED <<network, bit, settings, canConnect, attempt, offline, balance,
                 clientInitialized, activeProfile, clientProfile, clientConnected, observed>>

(* stop(): the settings changed; the device restarts right after it. *)
Stop ==
  /\ mpc = "handle"
  /\ client' = IF client = "running" THEN "stopped" ELSE client
  /\ clientConnected' = FALSE
  /\ observed' \in {FALSE, client = "running"}
  /\ bit' = FALSE
  /\ MarkDisconnected
  /\ mqttState' = "Idle"
  /\ due' = TRUE
  /\ mpc' = "restart"
  /\ UNCHANGED <<network, settings, canConnect, attempt, clientInitialized, activeProfile,
                 clientProfile>>

-----------------------------------------------------------------------------
Elsewhere == UNCHANGED <<mpc, canConnect, mqttState, attempt, offline, balance,
                         clientInitialized, activeProfile, client, clientProfile>>

(* The library's task: MQTT_EVENT_CONNECTED, and MQTT_EVENT_DISCONNECTED,  *)
(* which a failed attempt reports too.                                     *)
ClientConnects ==
  /\ client = "running"
  /\ ~ clientConnected
  /\ clientConnected' = TRUE
  /\ Elsewhere
  /\ UNCHANGED <<network, bit, settings, due, observed>>

ClientDisconnects ==
  /\ client = "running"
  /\ clientConnected' = FALSE
  /\ observed' = TRUE
  /\ Elsewhere
  /\ UNCHANGED <<network, bit, settings, due>>

(* WiFi: whatever takes the network away clears the MQTT bit with it. *)
NetworkChanges ==
  /\ network' = ~ network
  /\ bit' = (bit /\ network')
  /\ Elsewhere
  /\ UNCHANGED <<settings, due, clientConnected, observed>>

(* A factory reset clears the settings; the device restarts 2 s later. *)
SettingsCleared ==
  /\ settings.known
  /\ settings' = [settings EXCEPT !.known = FALSE]
  /\ Elsewhere
  /\ UNCHANGED <<network, bit, due, clientConnected, observed>>

Timer ==
  /\ ~ due
  /\ due' = TRUE
  /\ Elsewhere
  /\ UNCHANGED <<network, bit, settings, clientConnected, observed>>

-----------------------------------------------------------------------------
HandleMqtt ==
  \/ ReadGate \/ ObserveDisconnect \/ ScheduleRetry
  \/ GateOpen \/ GateClosed
  \/ RunConnecting \/ RunBackoff \/ RunOnline \/ GoOnline
  \/ ConnectImpossible
  \/ \E started \in BOOLEAN : StartClient(started)
  \/ \E created \in BOOLEAN : FirstConnect(created) \/ ConnectAgain(created)

MqttNext ==
  \/ HandleMqtt
  \/ Stop
  \/ ClientConnects
  \/ ClientDisconnects
  \/ NetworkChanges
  \/ SettingsCleared
  \/ Timer

(* The transport task runs, a delay ends, and memory for a client is found *)
(* again and again.  Nothing makes a broker answer.                        *)
MqttFairness ==
  /\ WF_mqttVars(HandleMqtt)
  /\ WF_mqttVars(Timer)
  /\ SF_mqttVars(FirstConnect(TRUE))
  /\ SF_mqttVars(ConnectAgain(TRUE))

MqttSpec == MqttInit /\ [][MqttNext]_mqttVars /\ MqttFairness

-----------------------------------------------------------------------------
(* Type invariant of the service, its client and the gate. *)
MqttTypeOK ==
  /\ network \in BOOLEAN
  /\ bit \in BOOLEAN
  /\ settings \in [known : BOOLEAN, selected : Profiles, hosts : SUBSET Profiles,
                   valid : SUBSET Profiles]
  /\ mpc \in {"handle", "observe", "retry", "gate", "run", "online", "connect",
              "started", "restart"}
  /\ canConnect \in BOOLEAN
  /\ mqttState \in {"Idle", "BackoffWaiting", "Connecting", "Online"}
  /\ attempt \in 0..FallbackThreshold
  /\ due \in BOOLEAN
  /\ offline \in BOOLEAN
  /\ balance \in -1..1
  /\ clientInitialized \in BOOLEAN
  /\ activeProfile \in Profiles \cup {NoProfile}
  /\ client \in {"absent", "stopped", "running"}
  /\ clientProfile \in Profiles \cup {NoProfile}
  /\ clientConnected \in BOOLEAN
  /\ observed \in BOOLEAN

(* The library's client, which reconnects by itself, runs only while the   *)
(* service is connecting or online, and for the profile the service says   *)
(* is active: none is left running for a former profile or behind a closed *)
(* gate.  The service is online only with a client that runs; it may wait  *)
(* in Connecting for one that does not, since start() hides the failure.   *)
ClientFollowsService ==
  /\ client = "running" => mqttState \in Live /\ clientProfile = activeProfile
  /\ mqttState = "Online" => client = "running"

(* A connection, once seen, is of the client that runs now: no stopped or  *)
(* destroyed client leaves _connected set, which would send publish() past *)
(* the queue.                                                              *)
ConnectedMeansRunning == clientConnected => client = "running"

(* A client never starts with the disconnection of its predecessor still   *)
(* to be observed, which would stop the new connection.                    *)
StartsUndisturbed == mpc = "started" => ~ observed

(* The MQTT_CONNECTED bit never outlives the online state. *)
BitOnlyOnline == bit => mqttState = "Online"

(* What a connection leaves behind when it ends never passes for another   *)
(* connection's: _connected, the disconnection still to be observed and    *)
(* the gate's bit, each set or read by another task than clears it.        *)
NothingStale == ConnectedMeansRunning /\ StartsUndisturbed /\ BitOnlyOnline

(* Connections and disconnections are counted in turn over any history of  *)
(* timeouts, lost connections, closed gates and failed begins, and the     *)
(* offline duration runs exactly while the service is not online.          *)
OfflineAccounting ==
  mpc # "restart" =>
    /\ balance = IF clientInitialized /\ ~ offline THEN 1 ELSE 0
    /\ clientInitialized => (offline <=> mqttState # "Online" \/ mpc = "retry")

(* Nothing the device can see is in the way of a connection. *)
Ready ==
  /\ network
  /\ settings.known
  /\ settings.selected \in settings.hosts
  /\ mpc # "restart"

(* With the network and the settings there to stay, the device gets        *)
(* connected again and again, or stays so, or keeps starting its client    *)
(* for the fallback broker: no order of callbacks, timeouts and failures   *)
(* leaves the service waiting for nothing.                                 *)
MqttKeepsTrying ==
  <>[]Ready => []<>clientConnected \/ []<>(mpc = "started" /\ activeProfile = Fallback)
=============================================================================
