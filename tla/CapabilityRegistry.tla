------------------------- MODULE CapabilityRegistry -------------------------
(* The registration of capabilities before setup(): CapabilitiesBuilder      *)
(* places every capability and adapter in a static arena, keeps them in      *)
(* bounded arrays and resolves the identity each of them is known by.        *)
(* An add runs to its end in the main task, so it is one step; its early     *)
(* returns leave behind whatever it had taken by then.                       *)
EXTENDS Naturals, Sequences, FiniteSets

CONSTANTS
  MaxCaps,      \* kMaxCapabilities
  MaxAdapters,  \* kMaxAdapters
  ArenaBytes,   \* kCapabilityArenaBytes, in the unit of Layout
  Layout,       \* size and alignment of what is placed in the arena
  CapNames,     \* configured names of legal length
  Pins          \* analog pins that have an ADC and are not reserved

Blocks == {"output", "input", "analog", "composite", "capability", "interpreter"}

ASSUME RegistryAssumption ==
  /\ MaxCaps \in Nat \ {0} /\ MaxAdapters \in Nat /\ ArenaBytes \in Nat
  /\ Layout \in [Blocks -> [size : Nat \ {0}, align : Nat \ {0}]]

\* A configured name that is too long, and one that was left out.
TooLong == "too_long"
Omitted == "omitted"
ConfiguredNames == CapNames \cup {TooLong}
Names == CapNames \cup {TooLong, Omitted, "light", "fan", "water_level_percent",
                        "water_level_liters", "glp", "glp_meter", "glp_weight", "color"}

VARIABLES
  registry,     \* the builder's arrays, arena and bookkeeping
  setupStarted  \* SmartSysApp::setupStarted_

registryVars == <<registry, setupStarted>>

EmptyRegistry ==
  [open |-> TRUE, caps |-> <<>>, adapters |-> <<>>, offset |-> 0,
   pins |-> {}, ids |-> {}]

\* The builders refuse once setup() has begun.
CanRegisterCapability == ~setupStarted

RegistryInit == registry = EmptyRegistry /\ setupStarted = FALSE

-----------------------------------------------------------------------------
(* The arena *)

AlignUp(value, alignment) == ((value + alignment - 1) \div alignment) * alignment

\* Where the next block of this kind goes, and the offset after it.
Block(r, b) ==
  [at |-> AlignUp(r.offset, Layout[b].align), size |-> Layout[b].size]
Fits(r, b) == Block(r, b).at + Layout[b].size <= ArenaBytes
Allocate(r, b) == [r EXCEPT !.offset = Block(r, b).at + Layout[b].size]

-----------------------------------------------------------------------------
(* Identities *)

InUse(r, name) == \E i \in DOMAIN r.caps : r.caps[i].name = name

\* The name left out is generated from the device and the type.
Definitive(name, type) == IF name = Omitted THEN type ELSE name

ResolvableByLength(r, name) ==
  r.open /\ Len(r.caps) < MaxCaps /\ name # TooLong
Resolvable(r, name) ==
  /\ r.open
  /\ Len(r.caps) < MaxCaps
  /\ name # TooLong
  /\ name \notin r.ids

-----------------------------------------------------------------------------
(* Adapters and capabilities; each operator gives the registry back as the   *)
(* code leaves it, whether it succeeds or not.                               *)

RegisterAdapter(r, block) == [r EXCEPT !.adapters = Append(@, block)]
RegisterCapability(r, block, name) ==
  [r EXCEPT !.caps = Append(@, [name |-> name, at |-> block.at, size |-> block.size])]

CanTakeOneMore(r, b) == Len(r.adapters) <= MaxAdapters /\ Fits(r, b)
CanTake(r, b) == Len(r.adapters) < MaxAdapters /\ Fits(r, b)

\* createOutputAdapter and createInputAdapter.
CreateAdapter(r, b) ==
  IF CanTake(r, b) THEN RegisterAdapter(Allocate(r, b), Block(r, b)) ELSE r

CreateCapability(r, name) ==
  IF Fits(r, "capability") /\ Resolvable(r, name)
  THEN RegisterCapability(Allocate(r, "capability"), Block(r, "capability"), name)
  ELSE r

\* The adapters of a capability that needs several are created in order, and
\* the first that cannot be created ends the registration.
AdaptersAfter(r, wanted) ==
  LET after[i \in 0..Len(wanted)] ==
        IF i = 0 THEN r ELSE CreateAdapter(after[i - 1], wanted[i])
  IN  after
AdaptersOf(r, wanted) ==
  LET after == AdaptersAfter(r, wanted)
      failed == {i \in 1..Len(wanted) : ~CanTake(after[i - 1], wanted[i])}
  IN  IF failed = {} THEN [complete |-> TRUE, r |-> after[Len(wanted)]]
      ELSE [complete |-> FALSE,
            r |-> after[(CHOOSE i \in failed : \A j \in failed : i <= j) - 1]]

\* A capability that keeps its adapters when it cannot be placed itself.
CreateOn(r, wanted, name) ==
  IF ~Resolvable(r, name) THEN r
  ELSE LET a == AdaptersOf(r, wanted)
       IN  IF a.complete THEN CreateCapability(a.r, name) ELSE a.r

\* A capability and the one adapter it owns, both or neither: what was placed
\* is given back when the capability finds no room.
CreateBothKeepsSlot(r, b, name) ==
  IF ~(CanTake(r, b) /\ Resolvable(r, name)) THEN r
  ELSE LET placed == Allocate(r, b)
           held == RegisterAdapter(placed, Block(r, b))
       IN  IF Fits(placed, "capability") THEN CreateCapability(held, name)
           ELSE [held EXCEPT !.offset = r.offset]
CreateBoth(r, b, name) ==
  IF ~(CanTake(r, b) /\ Resolvable(r, name)) THEN r
  ELSE LET placed == Allocate(r, b)
       IN  IF Fits(placed, "capability")
           THEN CreateCapability(RegisterAdapter(placed, Block(r, b)), name)
           ELSE [placed EXCEPT !.offset = r.offset]

OnOutput(name)        == registry' = CreateOn(registry, <<"output">>, name)
OnInput(name)         == registry' = CreateOn(registry, <<"input">>, name)
OnNothing(name)       == registry' = CreateCapability(registry, name)
Resolved(name)        == registry' = CreateOn(registry, <<>>, name)
-----------------------------------------------------------------------------
(* One operation per kind of capability *)

AddLight(name)      == OnOutput(Definitive(name, "light"))
AddSwitch(name)     == OnOutput(name)
AddSwitchPlug(name) == OnOutput(name)
AddLED(name)        == OnOutput(name)
AddAlarm(name)      == OnOutput(name)

\* The interpreter comes after the capability; without room for it the valve
\* keeps the commands of a switch.
AddValve(name) ==
  LET r == CreateOn(registry, <<"output">>, name)
  IN  registry' = IF Len(r.caps) > Len(registry.caps) /\ Fits(r, "interpreter")
                  THEN Allocate(r, "interpreter") ELSE r

AddFan(name) ==
  LET definitive == Definitive(name, "fan")
  IN  registry' = IF InUse(registry, definitive) THEN registry
                  ELSE CreateBoth(registry, "output", definitive)

AddPushButton(name)   == OnInput(name)
AddTouchButton(name)  == OnInput(name)
AddDoorSensor(name)   == OnInput(name)
AddPirSensor(name)    == OnInput(name)
AddClapSensor(name)   == OnInput(name)
AddWaterFlowHallSensor(name) == OnInput(name)

AddTemperatureSensor(name) == Resolved(name)
AddHumiditySensor(name)    == Resolved(name)
AddDistance(name)          == Resolved(name)
AddLuminosity(name)        == Resolved(name)

\* These never take a configured name.
AddWaterLevelPercent      == OnNothing("water_level_percent")
AddWaterLevelLiters       == OnNothing("water_level_liters")
AddGlpSensor              == OnNothing("glp")
AddGlpMeterPercent        == OnNothing("glp_meter")
AddGlpMeterKg             == OnNothing("glp_weight")
AddOperationalColorSensor == OnNothing("color")

\* sensors: which of the two endpoint sensors are configured.
AddGarageControl(name, sensors) ==
  registry' = CreateOn(registry, [i \in 1..(4 + sensors) |->
                                   IF i <= 4 THEN "output" ELSE "input"], name)

\* The monitor pin of the supply is optional: pins holds one or two.
AnalogPinsFree(r, pins) ==
  pins \cap r.pins = {} /\ Cardinality(r.pins) + Cardinality(pins) <= 2 * MaxCaps

AddCurrentSensor(name, pins) ==
  registry' =
    IF AnalogPinsFree(registry, pins) /\ ~InUse(registry, name)
    THEN LET r == CreateBoth(registry, "analog", name)
         IN  IF r = registry THEN r
             ELSE [r EXCEPT !.pins = @ \cup pins, !.ids = @ \cup {name}]
    ELSE registry

AddVoltageSensor(name, pin) ==
  registry' =
    IF AnalogPinsFree(registry, {pin}) /\ ~InUse(registry, name)
    THEN LET r == CreateBoth(registry, "analog", name)
         IN  IF r = registry THEN r ELSE [r EXCEPT !.pins = @ \cup {pin}]
    ELSE registry

\* A sensor the application owns.
AddExternalCurrentSensor(name) ==
  registry' = IF InUse(registry, name) THEN registry ELSE CreateCapability(registry, name)
AddExternalVoltageSensor(name) ==
  registry' = IF InUse(registry, name) THEN registry ELSE CreateCapability(registry, name)
AddExternalPowerEnergy(name) ==
  registry' = IF InUse(registry, name) THEN registry ELSE CreateCapability(registry, name)

AddPowerEnergy(name) ==
  registry' = IF InUse(registry, name) THEN registry
              ELSE CreateBoth(registry, "composite", name)

-----------------------------------------------------------------------------
(* The application *)

\* The adds of SmartSysApp are refused once setup() began.
AddCapability ==
  /\ CanRegisterCapability
  /\ UNCHANGED setupStarted
  /\ \/ \E name \in CapNames \cup {TooLong, Omitted} :
          \/ AddLight(name)
          \/ AddFan(name)
     \/ \E name \in ConfiguredNames :
          \/ AddSwitch(name) \/ AddSwitchPlug(name) \/ AddLED(name)
          \/ AddAlarm(name) \/ AddValve(name)
          \/ AddPushButton(name) \/ AddTouchButton(name) \/ AddDoorSensor(name)
          \/ AddPirSensor(name) \/ AddClapSensor(name)
          \/ AddWaterFlowHallSensor(name) \/ AddTemperatureSensor(name)
          \/ AddHumiditySensor(name) \/ AddDistance(name) \/ AddLuminosity(name)
          \/ \E sensors \in 0..2 : AddGarageControl(name, sensors)
     \/ AddWaterLevelPercent \/ AddWaterLevelLiters \/ AddGlpSensor
     \/ AddGlpMeterPercent \/ AddGlpMeterKg \/ AddOperationalColorSensor

AddMeasuring ==
  /\ CanRegisterCapability
  /\ UNCHANGED setupStarted
  /\ \E name \in ConfiguredNames :
       \/ \E pins \in SUBSET Pins :
            Cardinality(pins) \in 1..2 /\ AddCurrentSensor(name, pins)
       \/ \E pin \in Pins : AddVoltageSensor(name, pin)
       \/ AddExternalCurrentSensor(name)
       \/ AddExternalVoltageSensor(name)
       \/ AddPowerEnergy(name)
       \/ AddExternalPowerEnergy(name)

StartSetup ==
  /\ ~setupStarted
  /\ setupStarted' = TRUE
  /\ registry' = [registry EXCEPT !.open = FALSE]

RegistryNext == AddCapability \/ AddMeasuring \/ StartSetup

RegistrySpec == RegistryInit /\ [][RegistryNext]_registryVars

-----------------------------------------------------------------------------
(* Properties *)

CapBlocks == {registry.caps[i] : i \in DOMAIN registry.caps}
Within(block, r) == block.at + block.size <= r.offset
Apart(b1, b2) == b1.at + b1.size <= b2.at \/ b2.at + b2.size <= b1.at

RegistryTypeOK ==
  /\ registry \in [open : BOOLEAN,
                   caps : Seq([name : Names, at : Nat, size : Nat]),
                   adapters : Seq([at : Nat, size : Nat]),
                   offset : 0..ArenaBytes,
                   pins : SUBSET Pins,
                   ids : SUBSET CapNames]
  /\ Len(registry.caps) <= MaxCaps
  /\ Len(registry.adapters) <= MaxAdapters
  /\ setupStarted \in BOOLEAN

\* No two objects the registry still refers to share bytes of the arena, and
\* none reaches past the offset where the next one is placed: the rollbacks of
\* failed adds (lines 359-393) give back exactly what the add took.
ObjectsApart ==
  LET caps == registry.caps  adapters == registry.adapters IN
  /\ \A i \in DOMAIN caps : Within(caps[i], registry)
  /\ \A i \in DOMAIN adapters : Within(adapters[i], registry)
  /\ \A i, j \in DOMAIN caps : i # j => Apart(caps[i], caps[j])
  /\ \A i, j \in DOMAIN adapters : i # j => Apart(adapters[i], adapters[j])
  /\ \A i \in DOMAIN caps, j \in DOMAIN adapters : Apart(caps[i], adapters[j])

\* The id of a current sensor names one capability, whatever is added before
\* or after it: addCurrentSensor looks at the capabilities already there,
\* resolveIdentity refuses the id to every later one.
CurrentIdsUnique ==
  \A id \in registry.ids :
    Cardinality({i \in DOMAIN registry.caps : registry.caps[i].name = id}) = 1

\* What the adds of CapabilitiesBuilder leave, the failed ones too: objects
\* apart from each other and current sensors with an id of their own.
RegistrySound == ObjectsApart /\ CurrentIdsUnique
=============================================================================
