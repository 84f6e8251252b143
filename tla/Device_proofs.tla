---------------------------- MODULE Device_proofs ----------------------------
(* The device: its components share no state, so each of its steps is one of  *)
(* a component or leaves it alone, and what is proved of the components holds  *)
(* of the device: every safety property of MC_Device, for all constants.      *)
EXTENDS MC_Device, Capabilities_proofs, Delivery_proofs, Messages_proofs,
        MqttService_proofs, WiFiConnection_proofs

(* A component that rests keeps its variables; the one whose turn it is takes *)
(* a step of its own.                                                         *)
LEMMA DeviceStep ==
  ASSUME [DeviceNext]_deviceVars
  PROVE  /\ [Next]_vars /\ [RegistryNext]_registryVars /\ [GarageNext]_garageVars
         /\ [RoutingNext]_routingVars /\ [StorageNext]_storageVars
         /\ [FirmwareNext]_firmwareVars /\ [ProvisioningNext]_provisioningVars
         /\ [FetchNext]_fetchVars /\ [CurrentNext]_currentVars /\ [MeterNext]_meterVars
         /\ [FrameNext]_frameVars /\ [ButtonNext]_buttonVars
         /\ [MqttNext]_mqttVars /\ [WifiNext]_wifiVars
<1> USE DEF Rest, Turn
<1>1. CASE Rest("queue") /\ Next
  BY <1>1 DEF queueVars
<1>2. CASE Rest("registry") /\ RegistryNext
  BY <1>2 DEF queueVars
<1>3. CASE Rest("garage") /\ GarageNext
  BY <1>3 DEF queueVars
<1>4. CASE Rest("routing") /\ RoutingNext
  BY <1>4 DEF queueVars
<1>5. CASE Rest("storage") /\ StorageNext
  BY <1>5 DEF queueVars
<1>6. CASE Rest("firmware") /\ FirmwareNext
  BY <1>6 DEF queueVars
<1>7. CASE Rest("provisioning") /\ ProvisioningNext
  BY <1>7 DEF queueVars
<1>8. CASE Rest("fetch") /\ FetchNext
  BY <1>8 DEF queueVars
<1>9. CASE Rest("current") /\ CurrentNext
  BY <1>9 DEF queueVars
<1>10. CASE Rest("meter") /\ MeterNext
  BY <1>10 DEF queueVars
<1>11. CASE Rest("frame") /\ FrameNext
  BY <1>11 DEF queueVars
<1>12. CASE Rest("button") /\ ButtonNext
  BY <1>12 DEF queueVars
<1>13. CASE Rest("mqtt") /\ MqttNext
  BY <1>13 DEF queueVars
<1>14. CASE Rest("wifi") /\ WifiNext
  BY <1>14 DEF queueVars
<1>15. CASE UNCHANGED deviceVars
  BY <1>15 DEF deviceVars, queueVars
<1> QED  BY <1>1, <1>2, <1>3, <1>4, <1>5, <1>6, <1>7, <1>8, <1>9, <1>10, <1>11, <1>12, <1>13,
            <1>14, <1>15 DEF DeviceNext

(* The device starts with its components in states they start in. *)
LEMMA DeviceStarts ==
  DeviceInit =>
    /\ Init /\ RegistryInit /\ GarageInit /\ RoutingInit /\ StorageInit /\ FirmwareInit
    /\ ProvisioningInit /\ FetchInit /\ CurrentInit /\ MeterInit /\ FrameInit /\ ButtonInit
    /\ MqttInit /\ WifiInit
BY DEF DeviceInit

(* A behaviour of the device is one of each component, liveness aside. *)
LEMMA DeviceProjects ==
  DeviceSpec =>
    /\ Init /\ [][Next]_vars
    /\ RegistrySpec /\ RoutingSpec /\ StorageSpec /\ FetchSpec /\ CurrentSpec /\ MeterSpec
    /\ FrameSpec /\ ButtonSpec
    /\ GarageInit /\ [][GarageNext]_garageVars
    /\ FirmwareInit /\ [][FirmwareNext]_firmwareVars
    /\ ProvisioningInit /\ [][ProvisioningNext]_provisioningVars
    /\ MqttInit /\ [][MqttNext]_mqttVars
    /\ WifiInit /\ [][WifiNext]_wifiVars
BY DeviceStep, DeviceStarts, PTL
   DEF DeviceSpec, RegistrySpec, RoutingSpec, StorageSpec, FetchSpec, CurrentSpec, MeterSpec,
       FrameSpec, ButtonSpec

(* Every component of the device keeps its variables in their types, its      *)
(* counters, arrays and buffers within their limits.                          *)
THEOREM DeviceTypes == DeviceSpec => []TypesOK
<1>1. DeviceSpec => []GarageTypeOK
  BY DeviceProjects, GarageStarts, GarageStep, PTL
<1>2. DeviceSpec => []FirmwareTypeOK
  BY DeviceProjects, FirmwareStarts, FirmwareStep, PTL
<1>3. DeviceSpec => []ProvisioningTypeOK
  <2>1. PInv => ProvisioningTypeOK
    BY DEF PInv
  <2> QED  BY <2>1, DeviceProjects, ProvisioningStarts, ProvisioningStep, PTL
<1>4. /\ RegistryTypeOK /\ GarageTypeOK /\ RoutingTypeOK /\ StorageTypeOK
      /\ FirmwareTypeOK /\ ProvisioningTypeOK /\ FetchTypeOK /\ CurrentTypeOK
      /\ MeterTypeOK /\ FrameTypeOK /\ ButtonTypeOK /\ MqttTypeOK /\ WifiTypeOK
      => TypesOK
  BY DEF TypesOK
<1>5. DeviceSpec => []MqttTypeOK
  <2>1. MqttInv => MqttTypeOK
    BY DEF MqttInv
  <2> QED  BY <2>1, DeviceProjects, MqttStarts, MqttStep, PTL
<1>6. DeviceSpec => []WifiTypeOK
  <2>1. WifiInv => WifiTypeOK
    BY DEF WifiInv
  <2> QED  BY <2>1, DeviceProjects, WifiStarts, WifiStep, PTL
<1> QED  BY <1>1, <1>2, <1>3, <1>4, <1>5, <1>6, DeviceProjects, RegistryTypes, RoutingTypeCorrect,
            StorageTypeCorrect, FetchTypes, CurrentTypes, MeterTypes, FrameTypeCorrect,
            ButtonTypes, PTL

(* What the electrical sensors of the device show is measured: amperes rest   *)
(* on a clean zero and a good supply, energy on time with readings.           *)
THEOREM DevicePowerSound == DeviceSpec => []PowerSound
<1>1. CurrentSound /\ GapsAddNoEnergy => PowerSound
  BY DEF PowerSound
<1> QED  BY <1>1, DeviceProjects, CalibrationIsSound, GapsAreNotCounted, PTL

(* The other invariants of the device, and the two action properties: each is *)
(* the theorem of the component that it is about.                             *)
THEOREM DeviceIsSafe ==
  DeviceSpec =>
    /\ [](/\ TypeOK /\ NoUnderflow /\ RegistrySound /\ StorageFaithful /\ OneTransfer
          /\ FetchSound /\ FrameDecodes /\ ClientFollowsService /\ NothingStale
          /\ OfflineAccounting /\ SettledIsAnnounced)
    /\ NeverSpliced /\ RestartsVerified
<1>1. DeviceSpec => [](TypeOK /\ NoUnderflow)
  <2>1. IInv => TypeOK /\ NoUnderflow
    BY DEF IInv
  <2> QED  BY <2>1, DeviceProjects, Initially, NextStep, PTL
<1>2. DeviceSpec => []OneTransfer
  <2>1. PInv => OneTransfer
    BY DEF PInv
  <2> QED  BY <2>1, DeviceProjects, ProvisioningStarts, ProvisioningStep, PTL
<1>3. DeviceSpec => RestartsVerified
  BY DeviceProjects, FirmwareStarts, FirmwareStep, RestartIsVerified, PTL DEF RestartsVerified
<1>4. DeviceSpec => [](ClientFollowsService /\ NothingStale /\ OfflineAccounting)
  <2>1. MqttInv => ClientFollowsService /\ OfflineAccounting
    BY DEF MqttInv
  <2>2. MqttInv => NothingStale
    BY DEF MqttInv, NothingStale, StartsUndisturbed, MqttPhases, FlagTaken, Live
  <2> QED  BY <2>1, <2>2, DeviceProjects, MqttStarts, MqttStep, PTL
<1>5. DeviceSpec => []SettledIsAnnounced
  <2>1. WifiInv => SettledIsAnnounced
    BY DEF WifiInv, AnnouncedOrDue, SettledIsAnnounced
  <2> QED  BY <2>1, DeviceProjects, WifiStarts, WifiStep, PTL
<1> QED  BY <1>1, <1>2, <1>3, <1>4, <1>5, DeviceProjects, AddsAreSound, StorageIsFaithful, FetchIsSound,
            FramesDecode, LinesAreNeverSpliced, PTL
=============================================================================
