----------------------------- MODULE CurrentSensor -----------------------------
(* ACS712C30ACurrentSensor behind its capability: each turn of the main loop *)
(* takes at most one ADC sample, of the supply or of the signal, and the     *)
(* zero is calibrated at start-up and again on request. Which intervals have *)
(* elapsed and what a sample reads are free; amperes are "some" or "none".   *)
EXTENDS Naturals

CONSTANTS
  ZeroSamples,   \* zeroCalibrationSamples
  ReadingSamples \* samplesPerReading

ASSUME CurrentSensorAssumption ==
  ZeroSamples \in Nat \ {0} /\ ReadingSamples \in Nat \ {0}

VARIABLES
  monitored,      \* the configuration names a pin for the supply
  phase,
  recalRequested, \* _recalibrationRequested
  initialCal,     \* _calibrationIsInitial
  measured,       \* _measurement
  before,         \* _measurementBeforeCalibration
  zero,           \* _calibratedZeroMv, as the origins of its samples; {}: none
  samples,        \* the accumulator
  shown           \* what the capability published last

currentVars == <<monitored, phase, recalRequested, initialCal, measured, before,
                 zero, samples, shown>>

Supplies == {"UNKNOWN", "IN_RANGE", "SUPPLY_OUT_OF_RANGE", "NOT_MONITORED"}
Measurements ==
  [amps : {"none", "some", "nothing"}, supply : Supplies,
   status : {"NOT_READY", "CALIBRATING", "ZERO_CALIBRATION_FAILED", "ESTIMATED", "VALID",
             "OUT_OF_CALIBRATED_RANGE", "OVERCURRENT_OR_SATURATION"}]

NoSamples == [from |-> {}, count |-> 0, saturated |-> FALSE]
NotReady(supply) == [amps |-> "none", status |-> "NOT_READY", supply |-> supply]
NothingShown == [amps |-> "nothing", status |-> "NOT_READY", supply |-> "UNKNOWN"]

CurrentInit ==
  /\ monitored \in BOOLEAN
  /\ phase = "WARMUP" /\ recalRequested = FALSE /\ initialCal = TRUE
  /\ measured = NotReady(IF monitored THEN "UNKNOWN" ELSE "NOT_MONITORED")
  /\ before = measured
  /\ zero = {} /\ samples = NoSamples
  /\ shown = NothingShown

-----------------------------------------------------------------------------
(* Supply *)

SupplyAllows(supply) == supply \in {"IN_RANGE", "NOT_MONITORED"}

\* sampleSupply: the measurement after a sample of the supply.
SampledSupply ==
  IF monitored
  THEN {[measured EXCEPT !.supply = "IN_RANGE"],
        [measured EXCEPT !.supply = "SUPPLY_OUT_OF_RANGE", !.amps = "none"]}
  ELSE {}

\* abortCalibrationForSupply, with m the measurement at that point. The one
\* before the calibration comes back, without its amperes.
RestoredWhole(m) == [before EXCEPT !.supply = m.supply]
Restored(m) ==
  [before EXCEPT !.supply = m.supply, !.amps = IF SupplyAllows(m.supply) THEN @ ELSE "none"]

Abort(m) ==
  /\ samples' = NoSamples
  /\ IF initialCal THEN phase' = "WARMUP" /\ measured' = NotReady(m.supply)
     ELSE /\ measured' = Restored(m)
          /\ phase' = IF before.status = "ZERO_CALIBRATION_FAILED" THEN "ZERO_FAILED"
                      ELSE "MEASURING"
  /\ UNCHANGED <<recalRequested, initialCal, before, zero>>

\* A sample of the supply changes nothing else, in the phases that only watch.
WatchSupply ==
  /\ measured' \in SampledSupply
  /\ UNCHANGED <<phase, recalRequested, initialCal, before, zero, samples>>

\* In the phases of a calibration a bad supply stops it.
CheckSupply ==
  \E m \in SampledSupply :
    IF SupplyAllows(m.supply)
    THEN /\ measured' = m
         /\ UNCHANGED <<phase, recalRequested, initialCal, before, zero, samples>>
    ELSE Abort(m)

-----------------------------------------------------------------------------
(* Calibration *)

BeginKeepsSamples(initial) ==
  /\ initialCal' = initial
  /\ measured' = [measured EXCEPT !.amps = "none", !.status = "CALIBRATING"]
  /\ phase' = "CALIBRATING"
  /\ UNCHANGED samples
BeginCalibration(initial) ==
  /\ initialCal' = initial
  /\ measured' = [measured EXCEPT !.amps = "none", !.status = "CALIBRATING"]
  /\ phase' = "CALIBRATING"
  /\ samples' = NoSamples

\* A sample is known by the phase and by the supply it was taken under.
Grown(saturated) ==
  [from |-> samples.from \cup {<<phase, measured.supply>>}, count |-> samples.count + 1,
   saturated |-> samples.saturated \/ saturated]

\* completeCalibration: a zero too far from the nominal one fails, too.
CompleteCalibration(grown) ==
  /\ samples' = NoSamples
  /\ \/ /\ ~grown.saturated
        /\ zero' = grown.from
        /\ measured' = [measured EXCEPT !.status = "ESTIMATED", !.amps = "some"]
        /\ phase' = "MEASURING"
     \/ /\ zero' = {}
        /\ measured' = [measured EXCEPT !.status = "ZERO_CALIBRATION_FAILED", !.amps = "none"]
        /\ phase' = "ZERO_FAILED"

Calibrate ==
  \E saturated \in BOOLEAN :
    LET grown == Grown(saturated) IN
      /\ IF grown.count >= ZeroSamples THEN CompleteCalibration(grown)
         ELSE samples' = grown /\ UNCHANGED <<zero, measured, phase>>
      /\ UNCHANGED <<recalRequested, initialCal, before>>

-----------------------------------------------------------------------------
(* Measurement *)

\* qualifyCurrent: where the filtered value lies is free.
Qualified(grown) ==
  IF grown.saturated \/ zero = {}
  THEN {[measured EXCEPT !.amps = "none", !.status = "OVERCURRENT_OR_SATURATION"]}
  ELSE {[measured EXCEPT !.amps = "none", !.status = s] :
          s \in {"OVERCURRENT_OR_SATURATION", "OUT_OF_CALIBRATED_RANGE"}}
       \cup {[measured EXCEPT !.amps = IF SupplyAllows(measured.supply) THEN "some" ELSE "none", !.status = s] :
          s \in {"ESTIMATED", "VALID"}}

Measure ==
  \E saturated \in BOOLEAN :
    LET grown == Grown(saturated) IN
      /\ IF grown.count >= ReadingSamples
         THEN samples' = NoSamples /\ measured' \in Qualified(grown)
         ELSE samples' = grown /\ UNCHANGED measured
      /\ UNCHANGED <<phase, recalRequested, initialCal, before, zero>>

-----------------------------------------------------------------------------
(* ACS712C30ACurrentSensor::handle, then the capability's publishIfChanged *)

Calibrating == phase \in {"CALIBRATING", "RECALIBRATION_SETTLE"}

\* The request waits for a supply that is known; then it is used up, whatever
\* becomes of it.
TakeRequest ==
  /\ recalRequested /\ ~Calibrating
  /\ IF measured.supply = "UNKNOWN" THEN WatchSupply
     ELSE /\ recalRequested' = FALSE
          /\ IF SupplyAllows(measured.supply)
             THEN /\ before' = measured /\ initialCal' = FALSE
                  /\ measured' = [measured EXCEPT !.amps = "none", !.status = "CALIBRATING"]
                  /\ phase' = "RECALIBRATION_SETTLE"
             ELSE UNCHANGED <<before, initialCal, measured, phase>>
          /\ UNCHANGED <<zero, samples>>

Warmup ==
  /\ phase = "WARMUP" /\ ~recalRequested
  /\ \/ WatchSupply
     \/ /\ SupplyAllows(measured.supply)
        /\ BeginCalibration(TRUE)
        /\ UNCHANGED <<recalRequested, before, zero>>

Settle ==
  /\ phase = "RECALIBRATION_SETTLE"
  /\ \/ CheckSupply
     \/ BeginCalibration(FALSE) /\ UNCHANGED <<recalRequested, before, zero>>

SensorHandle ==
  \/ TakeRequest \/ Warmup \/ Settle
  \/ phase = "CALIBRATING" /\ (CheckSupply \/ Calibrate)
  \/ phase = "ZERO_FAILED" /\ ~recalRequested /\ WatchSupply
  \/ phase = "MEASURING" /\ ~recalRequested /\ (WatchSupply \/ Measure)
  \/ UNCHANGED <<phase, recalRequested, initialCal, measured, before, zero, samples>>

\* formatCurrentValue leaves the value blank unless everything backs it.
Formatted(m) ==
  [m EXCEPT !.amps =
     IF SupplyAllows(m.supply) /\ m.status \in {"ESTIMATED", "VALID"} THEN @ ELSE "none"]

PublishCurrent == shown' = Formatted(measured')

CurrentHandle ==
  /\ SensorHandle
  /\ \/ PublishCurrent
     \/ shown # NothingShown /\ UNCHANGED shown
  /\ UNCHANGED monitored

\* requestZeroCalibration, of another task or of the sketch.
RequestZeroCalibration ==
  /\ ~Calibrating /\ ~(phase = "WARMUP" /\ zero = {})
  /\ recalRequested' = TRUE
  /\ UNCHANGED <<monitored, phase, initialCal, measured, before, zero, samples, shown>>

CurrentNext == CurrentHandle \/ RequestZeroCalibration

CurrentSpec == CurrentInit /\ [][CurrentNext]_currentVars

-----------------------------------------------------------------------------
(* Properties *)

CurrentTypeOK ==
  /\ monitored \in BOOLEAN /\ recalRequested \in BOOLEAN /\ initialCal \in BOOLEAN
  /\ phase \in {"WARMUP", "RECALIBRATION_SETTLE", "CALIBRATING", "MEASURING", "ZERO_FAILED"}
  /\ {measured, before, shown} \subseteq Measurements
  /\ zero \subseteq {"CALIBRATING", "MEASURING"} \X Supplies
  /\ samples.count \in 0..(IF ZeroSamples > ReadingSamples THEN ZeroSamples ELSE ReadingSamples)

\* Every sample in the zero was taken in a calibration while the supply
\* allowed one: none is left over from a reading that the calibration cut
\* short, or from a calibration that was stopped.
ZeroIsClean ==
  zero \subseteq {"CALIBRATING"} \X {"IN_RANGE", "NOT_MONITORED"}

\* Amperes are given only while a zero is valid, outside calibrations, and
\* while the supply is not known to be bad: the measurement that comes back
\* when a calibration is stopped is not an old one under a bad supply.
AmpsAreBacked ==
  measured.amps = "some" =>
    zero # {} /\ phase = "MEASURING" /\ SupplyAllows(measured.supply)

CurrentSound == ZeroIsClean /\ AmpsAreBacked
=============================================================================
