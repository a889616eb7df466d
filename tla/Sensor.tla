------------------------------- MODULE Sensor -------------------------------
(***************************************************************************)
(* The drivers of I2C sensors that share the two tasks of twr_tmp112.c:    *)
(* one asks for a measurement at an interval, the other goes through the   *)
(* states of a measurement, with a pause after each command.  They differ  *)
(* in what a measurement consists of: one conversion, or two of which the  *)
(* second is begun as soon as the first is read.                           *)
(*                                                                         *)
(* Every transfer on the bus may fail, and the event handler may ask for   *)
(* the next measurement.  A pause, and the interval, come to their end     *)
(* some time.                                                              *)
(***************************************************************************)
EXTENDS Naturals, Sequences

VARIABLES
    driver,         \* the driver: the conversions of a measurement with what they give
    state, part,    \* _state: MEASURE and READ are those of a part of the measurement
    measurement_active,
    valid,          \* the quantities whose _valid is set
    measure_plan,   \* the measure task is planned: not at all, when
                    \* _tick_ready comes, or at the end of the conversion
    interval_plan,  \* the interval task is planned
    handling,       \* the event that the event handler is told of
    conversion,     \* the sensor's conversion: none, running, or over
    fresh           \* history: the quantities read since the measurement was accepted

sensorVars == <<driver, state, part, measurement_active, valid, measure_plan, interval_plan,
                handling, conversion, fresh>>

Tmp112 == [parts |-> <<{"temperature"}>>, reset_checked |-> TRUE]
Hts221 == [parts |-> <<{"humidity"}>>, reset_checked |-> TRUE]
Opt3001 == [parts |-> <<{"illuminance"}>>, reset_checked |-> TRUE]
Sht30 == [parts |-> <<{"humidity", "temperature"}>>, reset_checked |-> TRUE]
Hdc2080 == [parts |-> <<{"humidity", "temperature"}>>, reset_checked |-> TRUE]
Sht20 == [parts |-> <<{"humidity"}, {"temperature"}>>, reset_checked |-> TRUE]
Mpl3115a2 == [parts |-> <<{"altitude"}, {"pressure"}>>, reset_checked |-> FALSE]

Drivers == {Tmp112, Hts221, Opt3001, Sht30, Hdc2080, Sht20, Mpl3115a2}
Quantities == UNION {driver.parts[k] : k \in DOMAIN driver.parts}

\* twr_..._init
Init ==
    /\ driver \in Drivers
    /\ state = "INITIALIZE" /\ part = 1
    /\ measurement_active = FALSE /\ valid = {} /\ fresh = {}
    /\ measure_plan = "ready" /\ interval_plan = FALSE
    /\ handling = "none"
    /\ conversion = "none"

\* twr_..._measure
Accepted ==
    IF measurement_active THEN UNCHANGED <<measurement_active, measure_plan, fresh>>
    ELSE /\ measurement_active' = TRUE /\ fresh' = {}
         /\ measure_plan' = "ready"

Measure ==
    /\ Accepted
    /\ UNCHANGED <<driver, state, part, valid, interval_plan, handling, conversion>>

\* twr_..._set_update_interval: never, or an interval, which begins with a
\* measurement.
SetUpdateInterval ==
    /\ \/ interval_plan' = FALSE /\ UNCHANGED <<measurement_active, measure_plan, fresh>>
       \/ interval_plan' = TRUE /\ Accepted
    /\ UNCHANGED <<driver, state, part, valid, handling, conversion>>

\* _twr_..._task_interval
IntervalTask ==
    /\ handling = "none" /\ interval_plan
    /\ Measure

-----------------------------------------------------------------------------
(***************************************************************************)
(* _twr_..._task_measure, up to the event handler if it is called.         *)
(***************************************************************************)
Runs(s) == handling = "none" /\ measure_plan # "none" /\ state = s

\* The state of an error.
Fail ==
    /\ state' = "ERROR" /\ part' = 1 /\ valid' = {}
    /\ measurement_active' = FALSE
    /\ handling' = "error" /\ measure_plan' = "none"
    /\ UNCHANGED <<driver, interval_plan, fresh>>

\* The sensor is reset; the barometer's driver does not look whether it was.
Initialize ==
    /\ Runs("INITIALIZE")
    /\ \/ driver.reset_checked /\ Fail /\ UNCHANGED conversion
       \/ /\ state' = "MEASURE" /\ part' = 1
          /\ conversion' = "none"
          /\ measure_plan' = IF measurement_active THEN "ready" ELSE "none"
          /\ UNCHANGED <<driver, measurement_active, valid, interval_plan, handling, fresh>>

\* The conversion of a part begins.
Begins(k) ==
    /\ state' = "READ" /\ part' = k
    /\ conversion' = "running"
    /\ measure_plan' = "converted"
    /\ UNCHANGED <<driver, measurement_active, interval_plan, handling>>

StartConversion ==
    /\ Runs("MEASURE")
    /\ \/ Fail /\ UNCHANGED conversion
       \/ Begins(part) /\ UNCHANGED <<valid, fresh>>

\* The pauses are longer than the conversions.
ConversionEnds ==
    /\ conversion = "running"
    /\ conversion' = "over"
    /\ UNCHANGED <<driver, state, part, measurement_active, valid, measure_plan, interval_plan,
                   handling, fresh>>

Paused == measure_plan = "converted" => conversion # "running"

\* Mutant: a measurement of two parts ends with the first of them.
MutLastPart == TRUE

LastPart == part = Len(driver.parts)

\* A conversion that is not over answers with an error, or its status tells.
Read ==
    /\ Runs("READ") /\ Paused
    /\ \/ Fail /\ UNCHANGED conversion
       \/ /\ conversion = "over"
          /\ valid' = valid \cup driver.parts[part]
          /\ fresh' = fresh \cup driver.parts[part]
          /\ \/ /\ LastPart
                /\ state' = "UPDATE" /\ part' = 1
                /\ conversion' = "none"
                /\ measurement_active' = FALSE
                /\ handling' = "update" /\ measure_plan' = "none"
                /\ UNCHANGED <<driver, interval_plan>>
             \/ ~ LastPart /\ Begins(part + 1)

\* The event handler has returned.
HandlerReturns ==
    /\ handling # "none"
    /\ state' = IF handling = "error" THEN "INITIALIZE" ELSE "MEASURE"
    /\ handling' = "none"
    /\ UNCHANGED <<driver, part, measurement_active, valid, measure_plan, interval_plan,
                   conversion, fresh>>

Works == Initialize \/ StartConversion \/ ConversionEnds \/ Read \/ HandlerReturns

SensorNext == Measure \/ SetUpdateInterval \/ IntervalTask \/ Works

\* The scheduler runs the task when a pause is over, conversions end, and
\* event handlers return.
SensorFairness == WF_sensorVars(Works)

SensorSpec == Init /\ [][SensorNext]_sensorVars /\ SensorFairness

-----------------------------------------------------------------------------
TypeOK ==
    /\ driver \in Drivers /\ part \in DOMAIN driver.parts
    /\ state \in {"ERROR", "INITIALIZE", "MEASURE", "READ", "UPDATE"}
    /\ measurement_active \in BOOLEAN
    /\ valid \subseteq Quantities /\ fresh \subseteq Quantities
    /\ measure_plan \in {"none", "ready", "converted"} /\ interval_plan \in BOOLEAN
    /\ handling \in {"none", "error", "update"}
    /\ conversion \in {"none", "running", "over"}
    /\ handling = "none" => state \notin {"ERROR", "UPDATE"}

\* Whoever asks for a measurement meanwhile, the result is not read before
\* the conversion has had its time.
NotReadEarly == state = "READ" /\ handling = "none" => measure_plan = "converted"

\* An update comes with every quantity of the sensor, each of them read since
\* the measurement was asked for, and none from before an error or a request.
UpdateIsFresh ==
    [][handling = "none" /\ handling' = "update" => valid' = Quantities /\ fresh' = Quantities]_sensorVars

\* An accepted request is answered with an update or an error, whether the
\* bus fails, the interval task asks again, or the event handler does; and
\* while it is not, another one is refused.
MeasurementAnswered == measurement_active ~> handling # "none"

\* Who asks for a measurement is answered, with values of this measurement.
MeasurementsServed == []NotReadEarly /\ UpdateIsFresh /\ MeasurementAnswered

=============================================================================
