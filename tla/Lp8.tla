-------------------------------- MODULE Lp8 ---------------------------------
(***************************************************************************)
(* The CO2 sensor: twr_lp8.c with its driver twr_module_co2.c.  A          *)
(* measurement charges the capacitor, turns the sensor on, waits for its   *)
(* ready signal, sends a command, and reads the result; each transfer may  *)
(* fail, each answer may be late or wrong, and the sensor may report       *)
(* errors.  An error turns the sensor off and begins from the start.       *)
(*                                                                         *)
(* Time is abstracted: the task runs some time after it was planned, and   *)
(* its waits for the sensor, which timeouts bound, are no steps.           *)
(***************************************************************************)
EXTENDS Integers

CONSTANTS
    MaxRequests,    \* bound: calibrations that the application asks for
    MaxFaults       \* bound: failed transfers, errors, and results with an error status

VARIABLES
    state, planned,
    pins,           \* what the port expander drives: nothing, the charging or the sensor
    valid, first_measurement_done,
    calibration,    \* the kind of the next calibration
    calibrate,      \* _tick_calibration has passed
    calibration_run,
    command,        \* the command in tx_buffer
    event,          \* the event that the event handler is told of
    measuring,      \* history: a measurement was accepted, and nothing told since
    midway,         \* history: a calibration was asked for after the command was chosen
    requests, faults

lp8Vars == <<state, planned, pins, valid, first_measurement_done, calibration,
             calibrate, calibration_run, command, event, measuring, midway, requests, faults>>

Calibrations == {"ABC", "background"}

\* twr_lp8_init; the application makes it measure.
Init ==
    /\ state = "INITIALIZE" /\ planned = TRUE
    /\ pins = "off" /\ valid = FALSE /\ first_measurement_done = FALSE
    /\ calibration = "ABC" /\ calibrate = FALSE /\ calibration_run = FALSE
    /\ command = "none" /\ event = "none" /\ measuring = FALSE /\ midway = FALSE
    /\ requests = 0 /\ faults = 0

-----------------------------------------------------------------------------
(***************************************************************************)
(* Calls, by the application, its event handler and the interval task.     *)
(***************************************************************************)
\* twr_lp8_measure
Accepted ==
    IF state = "READY" THEN state' = "PRECHARGE" /\ planned' = TRUE /\ measuring' = TRUE
    ELSE /\ planned' = (planned \/ state = "INITIALIZE")
         /\ UNCHANGED <<state, measuring>>

Measure ==
    /\ Accepted
    /\ UNCHANGED <<pins, valid, first_measurement_done, calibration, calibrate,
                   calibration_run, command, event, midway, requests, faults>>

\* twr_lp8_calibration
Calibration(kind) ==
    /\ requests < MaxRequests
    /\ requests' = requests + 1
    /\ calibration' = kind /\ calibrate' = TRUE /\ midway' = TRUE
    /\ Accepted
    /\ UNCHANGED <<pins, valid, first_measurement_done, calibration_run, command,
                   event, faults>>

\* Eight days after a calibration.
CalibrationTick ==
    /\ ~ calibrate /\ state = "READY"
    /\ calibrate' = TRUE
    /\ UNCHANGED <<state, planned, pins, valid, first_measurement_done, calibration,
                   calibration_run, command, event, measuring, midway, requests, faults>>

-----------------------------------------------------------------------------
(***************************************************************************)
(* _twr_lp8_task_measure                                                   *)
(***************************************************************************)
In(s) == event = "none" /\ planned /\ state = s

\* The chosen calibration, and what has been asked for, stay as they are.
Kept == UNCHANGED <<calibration, calibrate, calibration_run, midway, requests>>

To(s, plan) == state' = s /\ planned' = plan

Succeeds(s, p) ==
    /\ To(s, TRUE)
    /\ pins' = p
    /\ Kept /\ UNCHANGED <<valid, first_measurement_done, command, event, measuring, faults>>

\* Mutant: an error that has been told leaves the task unplanned.
MutFails ==
    /\ faults < MaxFaults
    /\ faults' = faults + 1
    /\ To("ERROR", FALSE)
    /\ pins' \in {pins, "off"}
    /\ valid' = FALSE /\ first_measurement_done' = FALSE
    /\ UNCHANGED <<event, measuring>>

\* _twr_lp8_error and the state of an error, up to the event handler.  The
\* writes of the port that turn everything off may fail, and leave it, too.
Fails ==
    /\ faults < MaxFaults
    /\ faults' = faults + 1
    /\ To("ERROR", FALSE)
    /\ pins' \in {pins, "off"}
    /\ valid' = FALSE /\ first_measurement_done' = FALSE
    /\ event' = "ERROR" /\ measuring' = FALSE

Error == Fails /\ Kept /\ UNCHANGED command

Initialize == (In("INITIALIZE") \/ In("PRECHARGE")) /\ (Succeeds("CHARGE", "charging") \/ Error)

\* Either of two writes of the port may fail.
Charge == In("CHARGE") /\ (Succeeds("BOOT", "sensor") \/ Error)

Ready ==
    /\ In("READY")
    /\ To(state, FALSE)
    /\ Kept /\ UNCHANGED <<pins, valid, first_measurement_done, command, event, measuring, faults>>

\* A first measurement leaves calibration_run as it is.
Chosen ==
    IF ~ first_measurement_done THEN command' = "initial" /\ UNCHANGED calibration_run
    ELSE /\ calibration_run' = calibrate
         /\ command' = IF calibrate THEN calibration ELSE "sequential"

Boot ==
    /\ In("BOOT")
    /\ Chosen
    /\ midway' = FALSE
    /\ \/ /\ To("BOOT_READ", TRUE)
          /\ UNCHANGED <<pins, valid, first_measurement_done, event, measuring, faults>>
       \/ Fails
    /\ UNCHANGED <<calibration, calibrate, requests>>

\* The signal was not read, or it was late.
BootFails == In("BOOT") /\ Error

BootRead == In("BOOT_READ") /\ (Succeeds("MEASURE", pins) \/ Error)
ReadyAgain == In("MEASURE") /\ (Succeeds("MEASURE_READ", pins) \/ Error)

\* The device is off before the answer is looked at.
ReadFails ==
    /\ In("MEASURE_READ")
    /\ \/ Error
       \/ /\ faults < MaxFaults
          /\ To("ERROR", FALSE)
          /\ faults' = faults + 1
          /\ pins' = "off"
          /\ valid' = FALSE /\ first_measurement_done' = FALSE
          /\ event' = "ERROR" /\ measuring' = FALSE
          /\ Kept /\ UNCHANGED command

\* A calibration that needs another run, which begins with no charge.
RunsAgain ==
    /\ In("MEASURE_READ")
    /\ calibration_run /\ calibration # "ABC"
    /\ faults < MaxFaults
    /\ faults' = faults + 1
    /\ To("CHARGE", TRUE)
    /\ pins' = "off"
    /\ Kept /\ UNCHANGED <<valid, first_measurement_done, command, event, measuring>>

\* The concentration is valid in its range.  In a calibration run, an error
\* status that is not another run's is no error.
Measured ==
    /\ In("MEASURE_READ")
    /\ To("READY", FALSE)
    /\ pins' = "off"
    /\ calibration' = IF calibration_run THEN "ABC" ELSE calibration
    /\ calibrate' = (calibrate /\ ~ calibration_run)
    /\ first_measurement_done' = TRUE
    /\ valid' \in BOOLEAN
    /\ event' = "UPDATE" /\ measuring' = FALSE
    /\ UNCHANGED <<calibration_run, command, midway, requests, faults>>

\* The event handler, which may have made calls, returns.
HandlerReturns ==
    /\ event # "none"
    /\ event' = "none"
    /\ IF event = "ERROR" THEN state' = "INITIALIZE" /\ planned' = TRUE
       ELSE UNCHANGED <<state, planned>>
    /\ Kept
    /\ UNCHANGED <<pins, valid, first_measurement_done, command, measuring, faults>>

Works ==
    \/ Initialize \/ Charge \/ Ready \/ Boot \/ BootFails \/ BootRead \/ ReadyAgain
    \/ ReadFails \/ RunsAgain \/ Measured \/ HandlerReturns

Lp8Next ==
    \/ Measure \/ CalibrationTick \/ \E kind \in Calibrations : Calibration(kind)
    \/ Works

\* The scheduler runs the task when it is planned, and the handler returns.
Lp8Fairness == WF_lp8Vars(Works)

Lp8Spec == Init /\ [][Lp8Next]_lp8Vars /\ Lp8Fairness

-----------------------------------------------------------------------------
TypeOK ==
    /\ state \in {"ERROR", "INITIALIZE", "READY", "PRECHARGE", "CHARGE", "BOOT", "BOOT_READ",
                  "MEASURE", "MEASURE_READ"}
    /\ pins \in {"off", "charging", "sensor"}
    /\ {planned, valid, first_measurement_done, calibrate, calibration_run, measuring,
        midway} \subseteq BOOLEAN
    /\ calibration \in Calibrations
    /\ command \in {"none", "initial", "sequential"} \cup Calibrations
    /\ event \in {"none", "ERROR", "UPDATE"}
    /\ requests \in 0 .. MaxRequests /\ faults \in 0 .. MaxFaults

\* Between measurements neither the sensor nor its charging draws current,
\* whatever went wrong before; and what is read there was measured since.
SensorRests ==
    /\ state = "READY" => pins = "off"
    /\ valid => first_measurement_done

\* A calibration is taken for done when its command was sent, however calls and
\* errors fall.  Two cases are left out in which the code takes it for done
\* all the same: one that was asked for after the command was chosen, and a
\* first measurement, after an error in the run that should have done it.
CalibrationSent ==
    [][calibrate /\ ~ calibrate' => command \in {calibration, "initial"} \/ midway]_lp8Vars

\* An accepted measurement ends with an update or an error.
MeasureAnswered == measuring ~> ~ measuring

\* Measurements and calibrations are answered, and the sensor left without power.
RequestsServed == []SensorRests /\ CalibrationSent /\ MeasureAnswered

=============================================================================
