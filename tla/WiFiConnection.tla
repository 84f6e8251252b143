--------------------------- MODULE WiFiConnection ---------------------------
(***************************************************************************)
(* WiFiManager: the loop of handle(), which connects, waits for an address,*)
(* backs off and roams, and the events of the WiFi library, delivered in   *)
(* order by a task of their own.  Both write the flags, the timer and the  *)
(* bits of the connectivity gate, without a lock.                          *)
(*                                                                         *)
(* isConnected() is _gotIp here: WiFi.status() changes with the same event.*)
(* The library does not reconnect by itself (autoReconnect is off).  Times *)
(* and signal strengths are over, or strong enough, or not.                *)
(***************************************************************************)
EXTENDS Naturals, Sequences

CONSTANTS
  Credentials,  \* configured networks, 0 the preferred one; at least one,
                \* or the device had opened provisioning
  MaxEvents     \* undelivered events: the bound of the model

ASSUME WiFiAssumption ==
  /\ Credentials \in 1..3
  /\ MaxEvents \in Nat \ {0}

VARIABLES
  wifiState,    \* _state
  timer,        \* _nextActionAtMs: running or over
  credential,   \* _credentialAttemptIndex, modulo the networks
  extended,     \* _dhcpWaitExtensions
  associated,   \* _associated
  gotIp,        \* _gotIp
  prepared,     \* _usePreparedTargetOnce
  bits,         \* the gate's bits this module writes
  hpc,          \* handle(): where it is
  epc,          \* onWiFiEvent(): the event whose bits are still to be written
  target,       \* the network of the last WiFi.begin
  link,         \* the library's link
  events        \* events not delivered yet

gate    == <<bits>>
manager == <<wifiState, timer, credential, extended, associated, gotIp, prepared>>
library == <<link, events>>
wifiVars == <<manager, gate, hpc, epc, target, library>>

Networks == 0..(Credentials - 1)
AnyOther == Credentials  \* a roaming target

NetworkBits == {"WIFI_CONNECTED", "IP_READY"}
AllBits     == NetworkBits \cup {"MQTT_CONNECTED", "APP_NETWORK_BUSY"}
Kinds       == {"connected", "gotIp", "gotIpNoDns", "disconnected"}

(* begin() and the startConnect() it makes before handle() runs. *)
WifiInit ==
  /\ wifiState = "Connecting"
  /\ timer = "running"
  /\ credential = 0
  /\ extended = FALSE
  /\ associated = FALSE
  /\ gotIp = FALSE
  /\ prepared = FALSE
  /\ bits = {}
  /\ hpc = "select"
  /\ epc = "idle"
  /\ target = 0
  /\ link = "down"
  /\ events = <<>>

-----------------------------------------------------------------------------
(* The library. *)
Reports(to, kind) ==
  /\ Len(events) < MaxEvents
  /\ link' = to
  /\ events' = Append(events, kind)
  /\ UNCHANGED <<manager, gate, hpc, epc, target>>

Associates == link = "joining" /\ Reports("associated", "connected")
GetsAddress(kind) == link = "associated" /\ Reports("addressed", kind)
Loses == link # "down" /\ Reports("down", "disconnected")

(* WiFi.disconnect; the manager waits where the bound of the model is met. *)
Disconnect ==
  /\ Len(events) <= MaxEvents
  /\ link' = "down"
  /\ events' = IF link = "down" THEN events ELSE Append(events, "disconnected")

-----------------------------------------------------------------------------
(* onWiFiEvent: the flags, ... *)
Event(kind) ==
  /\ epc = "idle"
  /\ events # <<>>
  /\ Head(events) = kind
  /\ events' = Tail(events)
  /\ epc' = kind
  /\ UNCHANGED <<wifiState, credential, extended, prepared, gate, hpc, target, link>>

OnConnected ==
  /\ Event("connected")
  /\ associated' = TRUE
  /\ gotIp' = FALSE
  /\ timer' = "running"

OnGotIp ==
  /\ \E kind \in {"gotIp", "gotIpNoDns"} : Event(kind) /\ gotIp' = (kind = "gotIp")
  /\ associated' = TRUE
  /\ UNCHANGED timer

OnDisconnected ==
  /\ Event("disconnected")
  /\ associated' = FALSE
  /\ gotIp' = FALSE
  /\ UNCHANGED timer

(* ... and then the bits. *)
AfterEvent ==
  CASE epc = "gotIp"        -> bits \cup NetworkBits
    [] epc = "disconnected" -> {}
    [] OTHER -> (bits \cup {"WIFI_CONNECTED"}) \ {"IP_READY", "MQTT_CONNECTED"}

WriteBits ==
  /\ epc # "idle"
  /\ bits' = AfterEvent
  /\ epc' = "idle"
  /\ UNCHANGED <<manager, hpc, target, library>>

-----------------------------------------------------------------------------
(* handle() *)
Step(from, to) == hpc = from /\ hpc' = to
Quiet == UNCHANGED <<epc, target, prepared>>

(* Connecting: there is an address, the state first and then the bits, ... *)
Connected ==
  /\ Step("idle", "announce")
  /\ wifiState = "Connecting"
  /\ gotIp
  /\ wifiState' = "Connected"
  /\ credential' = 0
  /\ Quiet
  /\ UNCHANGED <<timer, extended, associated, gotIp, gate, library>>

Announce ==
  /\ Step("announce", "idle")
  /\ bits' = bits \cup NetworkBits
  /\ Quiet
  /\ UNCHANGED <<manager, library>>

(* ... or the wait for it was over, and is extended once, ... *)
Late == wifiState = "Connecting" /\ ~ gotIp /\ timer = "over"

(* A slip in handle(): the wait for an address is extended every time. *)
ExtendDhcpAlways ==
  /\ Step("idle", "idle")
  /\ Late
  /\ associated
  /\ timer' = "running"
  /\ Quiet
  /\ UNCHANGED <<wifiState, credential, extended, associated, gotIp, gate, library>>

ExtendDhcp ==
  /\ Step("idle", "idle")
  /\ Late
  /\ associated
  /\ ~ extended
  /\ extended' = TRUE
  /\ timer' = "running"
  /\ Quiet
  /\ UNCHANGED <<wifiState, credential, associated, gotIp, gate, library>>

(* ... and then given up. *)
DhcpTimeout ==
  /\ Step("idle", "retry")
  /\ Late
  /\ associated
  /\ extended
  /\ bits' = {}
  /\ Disconnect
  /\ Quiet
  /\ UNCHANGED <<wifiState, timer, credential, extended, associated, gotIp>>

(* A slip in scheduleRetry: the index does not move. *)
ScheduleWifiRetrySame ==
  /\ timer' = "running"
  /\ wifiState' = "BackoffWaiting"
  /\ Quiet
  /\ UNCHANGED <<credential, extended, associated, gotIp, library>>

ScheduleWifiRetry ==
  /\ credential' = (credential + 1) % Credentials
  /\ timer' = "running"
  /\ wifiState' = "BackoffWaiting"
  /\ Quiet
  /\ UNCHANGED <<extended, associated, gotIp, library>>

RetryAfterDhcp == Step("retry", "idle") /\ ScheduleWifiRetry /\ UNCHANGED gate

ConnectTimeout ==
  /\ Step("idle", "idle")
  /\ Late
  /\ ~ associated
  /\ ScheduleWifiRetry
  /\ UNCHANGED gate

(* A slip in handle(): the gate is asked instead of isConnected(). *)
NoticeLossFromGate ==
  /\ Step("idle", "lost")
  /\ wifiState = "Connected"
  /\ "IP_READY" \notin bits
  /\ Quiet
  /\ UNCHANGED <<wifiState, timer, credential, extended, associated, gotIp, gate, library>>

(* Connected: the connection was lost ... *)
NoticeLoss ==
  /\ Step("idle", "lost")
  /\ wifiState = "Connected"
  /\ ~ gotIp
  /\ Quiet
  /\ UNCHANGED <<wifiState, timer, credential, extended, associated, gotIp, gate, library>>

(* A slip in handle(): the library is left to bring the connection back. *)
WaitAfterLoss ==
  /\ Step("lost", "roam")
  /\ bits' = {}
  /\ Quiet
  /\ UNCHANGED <<wifiState, timer, credential, extended, associated, gotIp, library>>

RetryAfterLoss == Step("lost", "roam") /\ bits' = {} /\ ScheduleWifiRetry

(* ... or not, and in both cases it is time to look for a stronger access  *)
(* point, unless an application uses the network or no link has a strength.*)
LookAround ==
  /\ \/ Step("roam", "evaluate")
     \/ Step("idle", "evaluate") /\ wifiState = "Connected" /\ gotIp
  /\ link \in {"associated", "addressed"}
  /\ "APP_NETWORK_BUSY" \notin bits
  /\ UNCHANGED <<manager, gate, epc, target, library>>

NoRoaming ==
  /\ \/ Step("roam", "idle")
     \/ Step("evaluate", "idle")
  /\ UNCHANGED <<manager, gate, epc, target, library>>

Switch ==
  /\ Step("evaluate", "switch")
  /\ prepared' = TRUE
  /\ Disconnect
  /\ UNCHANGED <<wifiState, timer, credential, extended, associated, gotIp, gate, epc, target>>

(* startConnect: flags, bits, state and the old link, ... *)
StartConnect ==
  /\ associated' = FALSE
  /\ gotIp' = FALSE
  /\ extended' = FALSE
  /\ bits' = {}
  /\ wifiState' = "Connecting"
  /\ timer' = "running"
  /\ Disconnect
  /\ Quiet
  /\ UNCHANGED credential

Reconnect ==
  /\ Step("idle", "select")
  /\ wifiState = "BackoffWaiting"
  /\ timer = "over"
  /\ StartConnect

Roam == Step("switch", "select") /\ StartConnect

(* ... then a scan of seconds, a target and WiFi.begin. *)
BeginConnection ==
  /\ Step("select", "idle")
  /\ prepared' = FALSE
  /\ target' = IF prepared THEN AnyOther ELSE credential
  /\ timer' = "running"
  /\ link' = "joining"
  /\ UNCHANGED <<wifiState, credential, extended, associated, gotIp, gate, epc, events>>

-----------------------------------------------------------------------------
(* Time passes; the MQTT service and the requests of other tasks set and   *)
(* clear their bits, having looked at the network earlier.                 *)
TimeIsUp ==
  /\ timer = "running"
  /\ timer' = "over"
  /\ UNCHANGED <<wifiState, credential, extended, associated, gotIp, prepared, gate, hpc, epc,
                 target, library>>

OthersSet(bit) ==
  /\ bit \in {"MQTT_CONNECTED", "APP_NETWORK_BUSY"} \ bits
  /\ bits' = bits \cup {bit}
  /\ UNCHANGED <<manager, hpc, epc, target, library>>

OthersClear(bit) ==
  /\ bit \in {"MQTT_CONNECTED", "APP_NETWORK_BUSY"} \cap bits
  /\ bits' = bits \ {bit}
  /\ UNCHANGED <<manager, hpc, epc, target, library>>

OnWiFiEvent == OnConnected \/ OnGotIp \/ OnDisconnected \/ WriteBits

HandleWifi ==
  \/ Connected \/ Announce \/ ExtendDhcp \/ DhcpTimeout \/ RetryAfterDhcp
  \/ ConnectTimeout \/ NoticeLoss \/ RetryAfterLoss \/ LookAround \/ NoRoaming
  \/ Switch \/ Reconnect \/ Roam \/ BeginConnection

Library ==
  \/ Associates
  \/ \E kind \in {"gotIp", "gotIpNoDns"} : GetsAddress(kind)
  \/ Loses

Others == \E bit \in AllBits : OthersSet(bit) \/ OthersClear(bit)

WifiNext == OnWiFiEvent \/ HandleWifi \/ Library \/ TimeIsUp \/ Others

(* Both tasks run and time passes. *)
WifiFairness ==
  /\ WF_wifiVars(OnWiFiEvent)
  /\ WF_wifiVars(HandleWifi)
  /\ WF_wifiVars(TimeIsUp)

WifiSpec == WifiInit /\ [][WifiNext]_wifiVars /\ WifiFairness

-----------------------------------------------------------------------------
(* Type invariant of the manager, the gate and the library. *)
WifiTypeOK ==
  /\ wifiState \in {"Connecting", "Connected", "BackoffWaiting"}
  /\ timer \in {"running", "over"}
  /\ credential \in Networks
  /\ extended \in BOOLEAN
  /\ associated \in BOOLEAN
  /\ gotIp \in BOOLEAN
  /\ prepared \in BOOLEAN
  /\ bits \in SUBSET AllBits
  /\ hpc \in {"idle", "announce", "retry", "lost", "roam", "evaluate", "switch", "select"}
  /\ epc \in Kinds \cup {"idle"}
  /\ target \in Networks \cup {AnyOther}
  /\ link \in {"down", "joining", "associated", "addressed"}
  /\ events \in Seq(Kinds)
  /\ Len(events) <= MaxEvents + 1

(* A connection the manager has settled in is announced: the gate would    *)
(* otherwise keep MQTT, the settings and the registration waiting, for     *)
(* handle() announces it once only.                                        *)
SettledIsAnnounced ==
  wifiState = "Connected" /\ gotIp /\ hpc = "idle" /\ epc = "idle" => "IP_READY" \in bits

(* The network is not said to be ready for good without an address: a bit  *)
(* that handle() or an event sets after the address was lost, having read  *)
(* the flags before, is taken back.                                        *)
LateBitIsTakenBack == []<>("IP_READY" \in bits => gotIp)

(* The manager gets an address for good or tries again for ever, whatever  *)
(* order events, timeouts and roaming come in.                             *)
WifiKeepsTrying == ([]<>(hpc = "select")) \/ (<>[](link = "addressed"))
=============================================================================
