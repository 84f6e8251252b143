----------------------------- MODULE Provisioning -----------------------------
(* Configuration mode: the provisioning task runs ProvisioningManager and    *)
(* the portal; the Bluetooth task runs the callbacks of the BLE channel,     *)
(* which receives a configuration in pieces; what is received is saved and   *)
(* the device restarts into it. The list of networks in range is left out.   *)
EXTENDS Naturals, Sequences

CONSTANTS
  Announced,      \* length of a configuration, in DATA writes
  MaxConnections, \* bound on BLE connections and on transfers begun
  MaxPowerCycles

ASSUME ProvisioningAssumption ==
  Announced \in Nat \ {0}
    /\ MaxConnections \in Nat /\ MaxPowerCycles \in Nat

VARIABLES
  built,        \* channels of the build
  mode,         \* "off", "config" (inConfigMode_) or "runtime"
  active,       \* channels with _active
  provisioned,  \* _isProvisioned
  restartDue,   \* _restartPending
  flash,        \* the configuration in NVS; "none" when there is none
  told,         \* what the user was told of the configuration sent
  failedSave,   \* completeProvisioning failed in this boot
  ble,          \* connected, and the transfer: connections and BEGINs so far
  transferred,  \* s_rx_in_progress, s_rx_expected_len, s_rx_buffer
  powerCycles

bleVars == <<ble, transferred>>
managerVars == <<active, provisioned, restartDue, flash, told, failedSave>>
provisioningVars == <<built, mode, managerVars, bleVars, powerCycles>>

NoTransfer == [inProgress |-> FALSE, expected |-> 0, buffer |-> <<>>]
Unconnected(transfer) == [connected |-> FALSE, transfer |-> transfer]

ProvisioningInit ==
  /\ built \in (SUBSET {"ble", "portal"}) \ {{}}
  /\ mode = "off" /\ active = {}
  /\ provisioned = FALSE /\ restartDue = FALSE
  /\ flash = "none" /\ told = "nothing" /\ failedSave = FALSE
  /\ ble = Unconnected(0) /\ transferred = NoTransfer
  /\ powerCycles = MaxPowerCycles

-----------------------------------------------------------------------------
(* ProvisioningManager and ProvisioningController *)

\* The Bluetooth stack comes up or not; nothing starts the portal instead.
BleChannelBegin == active' \in {{}, {"ble"}}

\* Only the channels of the highest priority are started.
StartHighestPriorityChannels ==
  IF "ble" \in built THEN BleChannelBegin ELSE active' = {"portal"}

ProvisioningBegin ==
  /\ mode = "off" /\ flash = "none"
  /\ mode' = "config"
  /\ StartHighestPriorityChannels
  /\ UNCHANGED <<built, provisioned, restartDue, flash, told, failedSave, bleVars, powerCycles>>

\* The bootstrap takes the other path when it finds a configuration.
RuntimeBegin ==
  /\ mode = "off" /\ flash # "none"
  /\ mode' = "runtime"
  /\ UNCHANGED <<built, managerVars, bleVars, powerCycles>>

StopAllChannels == active' = {}

CompleteProvisioning(config) ==
  \E saved \in BOOLEAN :
    /\ flash' = IF saved THEN config ELSE flash
    /\ restartDue' = saved
    /\ failedSave' = ~saved

\* handleNewConfig, and the channel's own status after it, which does not know
\* whether the save succeeded.
NewConfig(config) ==
  /\ told' = "applied"
  /\ IF provisioned THEN UNCHANGED <<active, provisioned, restartDue, flash, failedSave>>
     ELSE /\ provisioned' = TRUE
          /\ StopAllChannels
          /\ CompleteProvisioning(config)

Rejected == told' = "failed" /\ UNCHANGED <<active, provisioned, restartDue, flash, failedSave>>

Rebooted ==
  /\ mode' = "off" /\ active' = {}
  /\ provisioned' = FALSE /\ restartDue' = FALSE /\ failedSave' = FALSE
  /\ told' = "nothing"
  /\ ble' = Unconnected(ble.transfer) /\ transferred' = NoTransfer
  /\ UNCHANGED <<built, flash>>

\* handle(): the restart is due before the early return of a device that is
\* provisioned already.
RestartUnlessProvisioned ==
  /\ mode = "config" /\ restartDue /\ ~provisioned
  /\ Rebooted
  /\ UNCHANGED powerCycles
RestartWhenDue ==
  /\ mode = "config" /\ restartDue
  /\ Rebooted
  /\ UNCHANGED powerCycles

PowerLost ==
  /\ powerCycles > 0
  /\ powerCycles' = powerCycles - 1
  /\ Rebooted

\* POST /save of the portal, in the provisioning task. The page says "saved"
\* before anything is.
PortalSave ==
  /\ mode = "config" /\ "portal" \in active /\ ~provisioned
  /\ \/ NewConfig("portal") \/ Rejected
  /\ UNCHANGED <<built, mode, bleVars, powerCycles>>

-----------------------------------------------------------------------------
(* The BLE channel: callbacks of the Bluetooth task. After stop() they all   *)
(* return at once, though the connection stays.                              *)

Listening == mode = "config" /\ "ble" \in active

BleConnect ==
  /\ Listening /\ ~ble.connected /\ ble.transfer < MaxConnections
  /\ ble' = [connected |-> TRUE, transfer |-> ble.transfer + 1]
  /\ UNCHANGED <<built, mode, managerVars, transferred, powerCycles>>

\* Advertising goes on from here.
DisconnectKeepsTransfer ==
  /\ Listening /\ ble.connected
  /\ ble' = Unconnected(ble.transfer)
  /\ UNCHANGED <<built, mode, managerVars, transferred, powerCycles>>
BleDisconnect ==
  /\ Listening /\ ble.connected
  /\ ble' = Unconnected(ble.transfer)
  /\ transferred' = NoTransfer
  /\ UNCHANGED <<built, mode, managerVars, powerCycles>>

\* onConfigWrite of "BEGIN|n"; a length that is no number is 0: not checked.
BleBegin ==
  /\ Listening /\ ble.connected /\ ble.transfer < MaxConnections
  /\ ble' = [ble EXCEPT !.transfer = @ + 1]
  /\ \E n \in {0, Announced} :
       transferred' = [inProgress |-> TRUE, expected |-> n, buffer |-> <<>>]
  /\ told' = "receiving"
  /\ UNCHANGED <<built, mode, active, provisioned, restartDue, flash, failedSave, powerCycles>>

\* "DATA|i|chunk"; the number i is not looked at. A chunk is known by the
\* transfer it belongs to.
BleData ==
  /\ Listening /\ ble.connected /\ Len(transferred.buffer) <= Announced
  /\ LET grown == Append(transferred.buffer, ble.transfer) IN
       CASE ~transferred.inProgress -> UNCHANGED transferred /\ told' = "failed"
         [] transferred.inProgress /\ transferred.expected > 0 /\ Len(grown) > transferred.expected ->
              transferred' = NoTransfer /\ told' = "failed"
         [] OTHER -> transferred' = [transferred EXCEPT !.buffer = grown] /\ told' = "receiving"
  /\ UNCHANGED <<built, mode, active, provisioned, restartDue, flash, failedSave, ble, powerCycles>>

\* What is received is a configuration, or parses to one without a network.
BleEnd ==
  /\ Listening /\ ble.connected
  /\ IF ~transferred.inProgress THEN Rejected /\ UNCHANGED transferred
     ELSE /\ transferred' = NoTransfer
          /\ IF transferred.expected > 0 /\ Len(transferred.buffer) # transferred.expected THEN Rejected
             ELSE NewConfig("chunked") \/ Rejected
  /\ UNCHANGED <<built, mode, ble, powerCycles>>

\* A configuration in one write, or a write that is no configuration.
BleDirect ==
  /\ Listening /\ ble.connected
  /\ NewConfig("direct") \/ Rejected
  /\ UNCHANGED <<built, mode, bleVars, powerCycles>>

ProvisioningNext ==
  \/ ProvisioningBegin \/ RuntimeBegin \/ RestartWhenDue \/ PowerLost \/ PortalSave
  \/ BleConnect \/ BleDisconnect
  \/ BleBegin \/ BleData \/ BleEnd \/ BleDirect

\* The bootstrap runs, and the provisioning task keeps calling handle().
ProvisioningFairness ==
  /\ WF_provisioningVars(ProvisioningBegin) /\ WF_provisioningVars(RuntimeBegin)
  /\ WF_provisioningVars(RestartWhenDue)

ProvisioningSpec ==
  ProvisioningInit /\ [][ProvisioningNext]_provisioningVars /\ ProvisioningFairness

-----------------------------------------------------------------------------
(* Properties *)

ProvisioningTypeOK ==
  /\ mode \in {"off", "config", "runtime"}
  /\ active \subseteq built /\ built \in (SUBSET {"ble", "portal"}) \ {{}}
  /\ provisioned \in BOOLEAN /\ restartDue \in BOOLEAN /\ failedSave \in BOOLEAN
  /\ flash \in {"none", "portal", "direct", "chunked"}
  /\ told \in {"nothing", "receiving", "applied", "failed"}
  /\ ble \in [connected : BOOLEAN, transfer : 0..MaxConnections]
  /\ transferred.inProgress \in BOOLEAN /\ transferred.expected \in {0, Announced}
  /\ Len(transferred.buffer) <= Announced + 1
  /\ powerCycles \in 0..MaxPowerCycles

\* The chunks in the buffer are those of the transfer that the connected
\* client began: a transfer that a lost connection or a second BEGIN cut never
\* lends its chunks, the name of a network, say, to the next one.
OneTransfer ==
  \A i \in DOMAIN transferred.buffer : ble.connected /\ transferred.buffer[i] = ble.transfer

\* A device with a configuration saved, for good since nothing here erases it,
\* runs with it again and again, however often it loses power before.
SavedConfigBoots == <>[](flash # "none") => []<>(mode = "runtime")

\* "A failed save ... leaves a further attempt possible" (BCS-026): a channel
\* still takes a configuration and the manager still saves one.
FurtherAttemptPossible ==
  failedSave => (active # {} /\ ~provisioned)
=============================================================================
