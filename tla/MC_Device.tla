------------------------------ MODULE MC_Device ------------------------------
(* The components that share no state with one another, in one instance for  *)
(* TLC: `focus` says whose steps a behaviour takes, the others rest, so the  *)
(* state space is the sum of theirs and not the product.                     *)
EXTENDS OfflineQueue, CapabilityRegistry, GarageControl, Routing, SettingsStorage,
        FirmwareUpdate, Provisioning, SettingsFetch, CurrentSensor, PowerMeter,
        SerialFrame, ResetButton, MqttService, WiFiConnection

CONSTANTS mainTask, transportTask, m1, m2, m3

VARIABLE focus

queueVars == vars
Focuses == {"queue", "registry", "garage", "routing", "storage", "firmware",
            "provisioning", "fetch", "current", "meter", "frame", "button",
            "mqtt", "wifi"}
deviceVars == <<focus, queueVars, registryVars, garageVars, routingVars, storageVars,
                firmwareVars, provisioningVars, fetchVars, currentVars, meterVars,
                frameVars, buttonVars, mqttVars, wifiVars>>

-----------------------------------------------------------------------------
(* Values of the constants *)

\* A capability and an analogue adapter are larger than the other objects.
MCLayout == [b \in Blocks |-> IF b \in {"capability", "analog"} THEN [size |-> 3, align |-> 2]
                              ELSE [size |-> 1, align |-> 1]]

\* Half a message, and lines for the lamp, for a name unknown here and for
\* the system, with and without the longer forms that do not fit the buffers.
Lamp == <<"capability_name", "lamp">>
Other == <<"capability_name", "other">>
Id == <<"device_id", "any">>
On == <<"value", "on">>
Reboot == <<"value", "REBOOT">>
Update == <<"value", "UPDATE_FIRMWARE">>
SystemType == <<"type", "SYSTEM">>
Pad == <<"padding", "">>
MCLines == {<<Id>>, <<Lamp, Id, On>>, <<Other, Id, On>>, <<Id, Lamp, Reboot>>, <<Other, Id, Update>>,
            <<SystemType, Id, Lamp, On>>, <<Lamp, Id, On, Pad, Pad>>,
            <<Lamp, Id, On, Pad, Pad, Pad>>, <<Lamp, Pad, Pad, Pad, Pad, Pad, Lamp, Id, Reboot>>}

MCTexts == {"", "x", "y", "z", "c", "half", "own", "default", "none", "ota",
            "primary", "secondary"}

\* Networks as the portal, a server and an older firmware give them.
OneNetwork == [DefaultWifi EXCEPT !.legacy = "x"]
HalfNetwork == [DefaultWifi EXCEPT !.legacy = "half"]
SecondNetwork == [DefaultWifi EXCEPT !.secondary = "y"]
TwoNetworks == [legacy |-> "y", primary |-> "x", secondary |-> "y", tertiary |-> "",
                profile |-> "secondary"]
Broker(host, login) == [host |-> host, login |-> login]
FullSettings == [config |-> FALSE, registered |-> TRUE, interval |-> 30,
                 primary |-> Broker("x", "x"), secondary |-> Broker("y", "y"),
                 tertiary |-> Broker("z", "z"), topics |-> "own",
                 profile |-> "secondary", firmware |-> "x", update |-> "none",
                 wifi |-> TwoNetworks, api |-> "x"]
FirstSettings == [Zeroed EXCEPT !.config = TRUE, !.wifi.legacy = "x",
                                !.primary = Broker("x", "x"), !.secondary = Broker("", "x"),
                                !.topics = "own"]
MCOldBlobs == [version : 3..7,
               settings : {FullSettings, FirstSettings, [Zeroed EXCEPT !.wifi.legacy = "x"]}]
MCAnswers == {[Defaults EXCEPT !.primary = Broker("y", l), !.secondary = Broker(g, l), !.api = g,
                               !.wifi = w, !.firmware = "y"] :
                l, g \in {"", "y"}, w \in {DefaultWifi, TwoNetworks}}
             \cup {[Defaults EXCEPT !.registered = TRUE, !.config = TRUE]}
MCWifiInputs == {OneNetwork, HalfNetwork, SecondNetwork}

-----------------------------------------------------------------------------
(* The sum *)

\* Where a component has several initial states, it rests in one of them.
DeviceInit ==
  /\ focus \in Focuses
  /\ Init /\ RegistryInit /\ RoutingInit /\ FetchInit /\ FrameInit /\ ButtonInit /\ WifiInit
  /\ GarageInit /\ (focus = "garage" \/ sensors = {})
  /\ StorageInit /\ (focus = "storage" \/ blob = NoBlob)
  /\ FirmwareInit /\ (focus = "firmware" \/ (method = "none" /\ ~verify))
  /\ ProvisioningInit /\ (focus = "provisioning" \/ built = {"ble"})
  /\ CurrentInit /\ (focus = "current" \/ ~monitored)
  /\ MeterInit /\ (focus = "meter" \/ sensor.kind = "composite")
  /\ MqttInit /\ (focus = "mqtt" \/ settings.hosts = {})

Rest(f) ==
  /\ focus = f /\ UNCHANGED focus
  /\ f # "queue" => UNCHANGED queueVars
  /\ f # "registry" => UNCHANGED registryVars
  /\ f # "garage" => UNCHANGED garageVars
  /\ f # "routing" => UNCHANGED routingVars
  /\ f # "storage" => UNCHANGED storageVars
  /\ f # "firmware" => UNCHANGED firmwareVars
  /\ f # "provisioning" => UNCHANGED provisioningVars
  /\ f # "fetch" => UNCHANGED fetchVars
  /\ f # "current" => UNCHANGED currentVars
  /\ f # "meter" => UNCHANGED meterVars
  /\ f # "frame" => UNCHANGED frameVars
  /\ f # "button" => UNCHANGED buttonVars
  /\ f # "mqtt" => UNCHANGED mqttVars
  /\ f # "wifi" => UNCHANGED wifiVars

DeviceNext ==
  \/ Rest("queue") /\ Next
  \/ Rest("registry") /\ RegistryNext
  \/ Rest("garage") /\ GarageNext
  \/ Rest("routing") /\ RoutingNext
  \/ Rest("storage") /\ StorageNext
  \/ Rest("firmware") /\ FirmwareNext
  \/ Rest("provisioning") /\ ProvisioningNext
  \/ Rest("fetch") /\ FetchNext
  \/ Rest("current") /\ CurrentNext
  \/ Rest("meter") /\ MeterNext
  \/ Rest("frame") /\ FrameNext
  \/ Rest("button") /\ ButtonNext
  \/ Rest("mqtt") /\ MqttNext
  \/ Rest("wifi") /\ WifiNext

\* The fairness of each component, for the behaviours that are about it. A
\* behaviour takes the steps of one component only, so one condition over an
\* action of each says what a condition for every component would; FirstConnect
\* and ConnectAgain are never enabled in one behaviour after the first succeeded.
Turn(f) == focus = f /\ UNCHANGED focus

Granted ==
  \/ Turn("queue") /\ DrainSends(TRUE)
  \/ Turn("garage") /\ HandleSensorState(sensors)
  \/ Turn("mqtt") /\ (FirstConnect(TRUE) \/ ConnectAgain(TRUE))
Loop ==
  \/ Turn("queue") /\ Drain
  \/ Turn("garage") /\ Handle
  \/ Turn("firmware") /\ OtaHandle
  \/ Turn("provisioning") /\ ProvisioningBegin
  \/ Turn("mqtt") /\ HandleMqtt
  \/ Turn("wifi") /\ HandleWifi
SecondTask ==
  \/ Turn("queue") /\ Enqueue(mainTask)
  \/ Turn("garage") /\ Execute
  \/ Turn("firmware") /\ CheckAndUpdate
  \/ Turn("provisioning") /\ RuntimeBegin
  \/ Turn("wifi") /\ OnWiFiEvent
ThirdTask ==
  \/ Turn("queue") /\ Enqueue(transportTask)
  \/ Turn("firmware") /\ GatesOpen
  \/ Turn("provisioning") /\ RestartWhenDue
  \/ Turn("mqtt") /\ Timer
  \/ Turn("wifi") /\ TimeIsUp

\* The variables of the component whose turn it is.
turnVars ==
  CASE focus = "queue" -> queueVars
    [] focus = "garage" -> garageVars
    [] focus = "firmware" -> firmwareVars
    [] focus = "provisioning" -> provisioningVars
    [] focus = "mqtt" -> mqttVars
    [] OTHER -> wifiVars

DeviceFairness ==
  /\ SF_turnVars(Granted)
  /\ WF_turnVars(Loop) /\ WF_turnVars(SecondTask) /\ WF_turnVars(ThirdTask)

DeviceSpec == DeviceInit /\ [][DeviceNext]_deviceVars /\ DeviceFairness

-----------------------------------------------------------------------------
(* Properties of the parts that are said together *)

\* Every component keeps its variables in their types and its counters, arrays
\* and buffers inside their limits.
TypesOK ==
  /\ RegistryTypeOK /\ GarageTypeOK /\ RoutingTypeOK /\ StorageTypeOK
  /\ FirmwareTypeOK /\ ProvisioningTypeOK /\ FetchTypeOK /\ CurrentTypeOK
  /\ MeterTypeOK /\ FrameTypeOK /\ ButtonTypeOK /\ MqttTypeOK /\ WifiTypeOK

\* What the electrical sensors show is measured: amperes rest on a valid zero
\* and a good supply, energy on time in which there were readings.
PowerSound == CurrentSound /\ GapsAddNoEnergy

\* A device that stays without a WiFi connection tries every configured network
\* again and again, where its WiFi manager does not rest.
TriesEveryNetwork ==
  \A n \in Networks :
    <>[](focus = "wifi" /\ wifiState # "Connected") => []<>(hpc = "idle" /\ target = n)
=============================================================================
