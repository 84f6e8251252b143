------------------------------ MODULE PowerMeter ------------------------------
(* PowerEnergyCapability over a power sensor: the composite of a voltage and *)
(* a current sensor, or a channel of the INA3221. Power is a small number,   *)
(* energy twice the sum of (power + power before) / 2 over time.             *)
EXTENDS Naturals

CONSTANTS
  MaxLevel, \* the largest power
  MaxTime,  \* bound on the clock
  MaxGap    \* longest time between two turns of the main loop

ASSUME PowerMeterAssumption ==
  MaxLevel \in Nat /\ MaxTime \in Nat /\ MaxGap \in Nat \ {0}

VARIABLES
  sensor,     \* "composite" or "ina3221", and whether its setup succeeded
  reading,    \* powerMeasurement() of the sensor
  meter,      \* _measurement of the capability
  baseline,   \* _hasIntegrationBaseline, _integrationBaselineMs, _previousPowerW
  now,
  meterShown, \* what was published last
  sound       \* time spent between two sound evaluations, the last evaluation,
              \* and whether it was sound

meterVars == <<sensor, reading, meter, baseline, now, meterShown, sound>>

Absent == MaxLevel + 1
NoReading(status) == [power |-> Absent, status |-> status]
NoBaseline == [has |-> FALSE, at |-> 0, previous |-> 0]

\* INA3221Device::setup is tried once: a device that fails then stays out.
PowerSensors ==
  [kind : {"composite"}, ready : {TRUE}] \cup [kind : {"ina3221"}, ready : BOOLEAN]

MeterInit ==
  /\ sensor \in PowerSensors
  /\ reading = NoReading("NOT_READY")
  /\ meter = [power |-> Absent, status |-> "NOT_READY", energy |-> 0]
  /\ baseline = NoBaseline
  /\ now = 0 /\ meterShown = "nothing"
  /\ sound = [time |-> 0, last |-> 0, was |-> FALSE]

-----------------------------------------------------------------------------
(* The sensors *)

Voltages == {"VALID", "NOT_READY", "BELOW_MINIMUM", "ADC_SATURATION"}
Currents ==
  [amps : BOOLEAN,
   status : {"NOT_READY", "CALIBRATING", "ZERO_CALIBRATION_FAILED", "ESTIMATED", "VALID",
             "OUT_OF_CALIBRATED_RANGE", "OVERCURRENT_OR_SATURATION"},
   supply : {"UNKNOWN", "IN_RANGE", "SUPPLY_OUT_OF_RANGE", "NOT_MONITORED"}]

\* CompositePowerSensor::classify.
PowerStatus(voltage, c) ==
  CASE \/ voltage \in {"BELOW_MINIMUM", "ADC_SATURATION"}
       \/ c.status \in {"ZERO_CALIBRATION_FAILED", "OUT_OF_CALIBRATED_RANGE",
                        "OVERCURRENT_OR_SATURATION"}
       \/ c.supply = "SUPPLY_OUT_OF_RANGE"        -> "INPUT_INVALID"
    [] OTHER ->
  CASE \/ voltage = "NOT_READY" \/ c.status \in {"NOT_READY", "CALIBRATING"}
       \/ c.supply = "UNKNOWN"                    -> "NOT_READY"
    [] OTHER ->
  CASE ~c.amps                                    -> "INPUT_INVALID"
    [] c.amps /\ (c.status = "ESTIMATED" \/ c.supply = "NOT_MONITORED") -> "ESTIMATED"
    [] OTHER                                      -> "VALID"

\* The readings a sensor may give on its next evaluation.
CompositeReadings ==
  LET Statuses == {PowerStatus(v, c) : v \in Voltages, c \in Currents} IN
    [power : 0..MaxLevel, status : Statuses \cap {"VALID", "ESTIMATED"}]
      \cup {NoReading(s) : s \in Statuses \ {"VALID", "ESTIMATED"}}

\* INA3221PowerSensor::handle: voltage and current lie in the limits or not.
Ina3221Readings ==
  [power : 0..MaxLevel, status : {"ESTIMATED"}] \cup {NoReading("INPUT_INVALID")}

SensorReads ==
  \/ UNCHANGED reading
  \/ sensor.kind = "composite" /\ reading' \in CompositeReadings
  \/ sensor.kind = "ina3221" /\ sensor.ready /\ reading' \in Ina3221Readings

-----------------------------------------------------------------------------
(* PowerEnergyCapability *)

InvalidatedLate(status) ==
  /\ meter' = [meter EXCEPT !.power = Absent, !.status = status]
  /\ UNCHANGED baseline
Invalidate(status) ==
  /\ meter' = [meter EXCEPT !.power = Absent, !.status = status]
  /\ baseline' = NoBaseline

\* The trapezoid between the evaluation before and this one.
Integrate(t, p) ==
  /\ meter' = [power |-> p.power, status |-> p.status,
               energy |-> IF baseline.has
                          THEN meter.energy + (baseline.previous + p.power) * (t - baseline.at)
                          ELSE meter.energy]
  /\ baseline' = [has |-> TRUE, at |-> t, previous |-> p.power]

\* classify, for readings whose status and value agree.
Usable(p) == p.status \in {"VALID", "ESTIMATED"}

PublishMeter == meterShown' = <<meter'.power, meter'.status, meter'.energy>>

EvaluateEnergy(t, p) ==
  /\ IF Usable(p) THEN Integrate(t, p) ELSE Invalidate(p.status)
  /\ PublishMeter
  /\ sound' = [time |-> IF sound.was /\ Usable(p) THEN sound.time + (t - sound.last)
                        ELSE sound.time,
               last |-> t, was |-> Usable(p)]

\* handle(): the sensor first, then an evaluation when one is due.
MeterHandle ==
  /\ \E gap \in 1..MaxGap : now + gap <= MaxTime /\ now' = now + gap
  /\ SensorReads
  /\ \/ EvaluateEnergy(now', reading')
     \/ meterShown # "nothing" /\ UNCHANGED <<meter, baseline, meterShown, sound>>
  /\ UNCHANGED sensor

ResetEnergy ==
  /\ meter' = [meter EXCEPT !.energy = 0]
  /\ baseline' = NoBaseline
  /\ sound' = [sound EXCEPT !.time = 0, !.was = FALSE]
  /\ UNCHANGED <<sensor, reading, now, meterShown>>

MeterNext == MeterHandle \/ ResetEnergy

MeterSpec == MeterInit /\ [][MeterNext]_meterVars

-----------------------------------------------------------------------------
(* Properties *)

MeterTypeOK ==
  /\ sensor.kind \in {"composite", "ina3221"} /\ sensor.ready \in BOOLEAN
  /\ reading.power \in 0..Absent /\ meter.power \in 0..Absent
  /\ meter.energy \in 0..(2 * MaxLevel * MaxTime)
  /\ baseline.has \in BOOLEAN /\ baseline.at \in 0..MaxTime
  /\ now \in 0..MaxTime

\* Energy is counted only over time that two successive evaluations with a
\* power to show enclose: a stretch in which the sensor was not ready, or its
\* readings were out of range, adds nothing when the readings come back.
GapsAddNoEnergy == meter.energy <= 2 * MaxLevel * sound.time
=============================================================================
