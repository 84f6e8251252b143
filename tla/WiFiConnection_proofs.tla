------------------------ MODULE WiFiConnection_proofs ------------------------
(***************************************************************************)
(* Theorems of WiFiConnection: whatever the number of networks and of      *)
(* undelivered events, a connection that handle() has settled in is        *)
(* announced in the gate.                                                  *)
(***************************************************************************)
EXTENDS WiFiConnection, TLAPS

(* Of the events only an address leaves _gotIp set while its bits are due. *)
EventsAgree == epc \notin {"idle", "gotIp"} => ~ gotIp

(* The bit is missing only before handle() or the event task writes it, or *)
(* when handle() is about to leave the state.                              *)
AnnouncedOrDue ==
  wifiState = "Connected" /\ gotIp /\ epc = "idle" /\ hpc \notin {"announce", "lost"}
    => "IP_READY" \in bits

WifiInv == WifiTypeOK /\ EventsAgree /\ AnnouncedOrDue

LEMMA WifiStarts == WifiInit => WifiInv
<1> SUFFICES ASSUME WifiInit PROVE WifiInv
  OBVIOUS
<1>1. 0 \in Networks
  BY WiFiAssumption DEF Networks
<1>2. events \in Seq(Kinds) /\ Len(events) <= MaxEvents + 1
  BY WiFiAssumption DEF WifiInit
<1> QED
  BY <1>1, <1>2 DEF WifiInit, WifiInv, WifiTypeOK, EventsAgree, AnnouncedOrDue

(* The library appends one event where the queue has room. *)
LEMMA LibraryStep ==
  ASSUME WifiInv, Library
  PROVE  WifiInv'
<1>1. PICK to \in {"down", "associated", "addressed"}, kind \in Kinds : Reports(to, kind)
  BY DEF Library, Associates, GetsAddress, Loses, Kinds
<1>2. events' \in Seq(Kinds) /\ Len(events') = Len(events) + 1
  BY <1>1 DEF Reports, WifiInv, WifiTypeOK
<1> QED
  BY <1>1, <1>2, WiFiAssumption
  DEF Reports, manager, gate, WifiInv, WifiTypeOK, EventsAgree, AnnouncedOrDue

(* WiFi.disconnect appends at most one event. *)
LEMMA Disconnects ==
  ASSUME WifiTypeOK, Disconnect
  PROVE  /\ link' = "down"
         /\ events' \in Seq(Kinds)
         /\ Len(events') <= MaxEvents + 1
<1>1. CASE link = "down"
  BY <1>1 DEF Disconnect, WifiTypeOK
<1>2. CASE link # "down"
  <2>1. "disconnected" \in Kinds
    BY DEF Kinds
  <2>2. events' = Append(events, "disconnected")
    BY <1>2 DEF Disconnect
  <2>3. events' \in Seq(Kinds) /\ Len(events') = Len(events) + 1
    BY <2>1, <2>2 DEF WifiTypeOK
  <2> QED  BY <2>3, WiFiAssumption DEF Disconnect, WifiTypeOK
<1> QED  BY <1>1, <1>2

(* An event is taken from the queue. *)
LEMMA Delivers ==
  ASSUME WifiTypeOK, NEW kind \in Kinds, Event(kind)
  PROVE  /\ events' \in Seq(Kinds)
         /\ Len(events') <= MaxEvents + 1
<1>1. events' \in Seq(Kinds) /\ Len(events') = Len(events) - 1
  BY DEF Event, WifiTypeOK
<1> QED  BY <1>1, WiFiAssumption DEF WifiTypeOK

LEMMA EventStep ==
  ASSUME WifiInv, OnWiFiEvent
  PROVE  WifiInv'
<1> USE DEF WifiInv, WifiTypeOK, EventsAgree, AnnouncedOrDue, gate
<1>1. CASE OnConnected
  BY <1>1, Delivers DEF OnConnected, Event, Kinds
<1>2. CASE OnGotIp
  <2>1. PICK kind \in {"gotIp", "gotIpNoDns"} : Event(kind) /\ gotIp' = (kind = "gotIp")
    BY <1>2 DEF OnGotIp
  <2>2. kind \in Kinds
    BY DEF Kinds
  <2>3. events' \in Seq(Kinds) /\ Len(events') <= MaxEvents + 1
    BY <2>1, <2>2, Delivers
  <2>4. CASE kind = "gotIp"
    <3>1. gotIp' = TRUE
      BY <2>1, <2>4
    <3> QED  BY <1>2, <2>1, <2>2, <2>3, <2>4, <3>1 DEF OnGotIp, Event
  <2>5. CASE kind = "gotIpNoDns"
    <3>1. gotIp' = FALSE
      BY <2>1, <2>5
    <3> QED  BY <1>2, <2>1, <2>2, <2>3, <2>5, <3>1 DEF OnGotIp, Event
  <2> QED  BY <2>1, <2>4, <2>5
<1>3. CASE OnDisconnected
  <2>1. "disconnected" \in Kinds
    BY DEF Kinds
  <2>2. events' \in Seq(Kinds) /\ Len(events') <= MaxEvents + 1
    BY <1>3, <2>1, Delivers DEF OnDisconnected
  <2> QED  BY <1>3, <2>1, <2>2 DEF OnDisconnected, Event
<1>4. CASE WriteBits
  <2>1. bits' \in SUBSET AllBits
    BY <1>4 DEF WriteBits, AfterEvent, AllBits, NetworkBits, Kinds
  <2>2. CASE epc = "gotIp"
    BY <1>4, <2>1, <2>2 DEF WriteBits, AfterEvent, NetworkBits, manager, library
  <2>3. CASE epc # "gotIp"
    BY <1>4, <2>1, <2>3 DEF WriteBits, manager, library
  <2> QED  BY <2>2, <2>3
<1> QED  BY <1>1, <1>2, <1>3, <1>4 DEF OnWiFiEvent

(* scheduleRetry keeps the index among the networks. *)
LEMMA NextCredential ==
  ASSUME NEW c \in Networks
  PROVE  (c + 1) % Credentials \in Networks
  BY WiFiAssumption DEF Networks

LEMMA HandleStep ==
  ASSUME WifiInv, HandleWifi
  PROVE  WifiInv'
<1> USE DEF WifiInv, WifiTypeOK, EventsAgree, AnnouncedOrDue, gate, Step, Quiet
<1>1. CASE Connected
  BY <1>1, WiFiAssumption DEF Connected, library, Networks
<1>2. CASE Announce
  BY <1>2 DEF Announce, manager, library, NetworkBits, AllBits
<1>3. CASE ExtendDhcp
  BY <1>3 DEF ExtendDhcp, Late, library
<1>4. CASE DhcpTimeout
  BY <1>4, Disconnects DEF DhcpTimeout, Late
<1>5. CASE RetryAfterDhcp
  BY <1>5, NextCredential DEF RetryAfterDhcp, ScheduleWifiRetry, library
<1>6. CASE ConnectTimeout
  BY <1>6, NextCredential DEF ConnectTimeout, ScheduleWifiRetry, library
<1>7. CASE NoticeLoss
  BY <1>7 DEF NoticeLoss, library
<1>8. CASE RetryAfterLoss
  BY <1>8, NextCredential DEF RetryAfterLoss, ScheduleWifiRetry, library
<1>9. CASE LookAround
  BY <1>9 DEF LookAround, manager, library
<1>10. CASE NoRoaming
  BY <1>10 DEF NoRoaming, manager, library
<1>11. CASE Switch
  BY <1>11, Disconnects DEF Switch
<1>12. CASE Reconnect
  BY <1>12, Disconnects DEF Reconnect, StartConnect
<1>13. CASE Roam
  BY <1>13, Disconnects DEF Roam, StartConnect
<1>14. CASE BeginConnection
  BY <1>14 DEF BeginConnection
<1> QED
  BY <1>1, <1>2, <1>3, <1>4, <1>5, <1>6, <1>7, <1>8, <1>9, <1>10, <1>11, <1>12, <1>13, <1>14
  DEF HandleWifi

LEMMA WifiStep == WifiInv /\ [WifiNext]_wifiVars => WifiInv'
<1> SUFFICES ASSUME WifiInv, [WifiNext]_wifiVars PROVE WifiInv'
  OBVIOUS
<1>1. CASE OnWiFiEvent
  BY <1>1, EventStep
<1>2. CASE HandleWifi
  BY <1>2, HandleStep
<1>3. CASE Library
  BY <1>3, LibraryStep
<1>4. CASE TimeIsUp
  BY <1>4 DEF TimeIsUp, WifiInv, WifiTypeOK, EventsAgree, AnnouncedOrDue, gate, library
<1>5. CASE Others
  BY <1>5
  DEF Others, OthersSet, OthersClear, WifiInv, WifiTypeOK, EventsAgree, AnnouncedOrDue, manager, library,
      AllBits
<1>6. CASE UNCHANGED wifiVars
  BY <1>6 DEF wifiVars, WifiInv, WifiTypeOK, EventsAgree, AnnouncedOrDue, manager, gate, library
<1> QED  BY <1>1, <1>2, <1>3, <1>4, <1>5, <1>6 DEF WifiNext

(* The inductive invariant holds in every state of handle() and of the *)
(* WiFi events.                                                        *)
THEOREM WifiInvariance == WifiSpec => []WifiInv
BY WifiStarts, WifiStep, PTL DEF WifiSpec

(* The variables of WiFiManager keep their types, the credential index     *)
(* among the networks.                                                     *)
THEOREM WifiTypeCorrect == WifiSpec => []WifiTypeOK
BY WifiInvariance, PTL DEF WifiInv

(* A connection handle() has settled in is announced in the gate, which    *)
(* MQTT, the settings and the registration wait for.                       *)
THEOREM SettledConnectionIsAnnounced == WifiSpec => []SettledIsAnnounced
<1>1. WifiInv => SettledIsAnnounced
  BY DEF WifiInv, AnnouncedOrDue, SettledIsAnnounced
<1> QED  BY <1>1, WifiInvariance, PTL
=============================================================================
