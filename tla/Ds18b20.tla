------------------------------- MODULE Ds18b20 ------------------------------
(***************************************************************************)
(* The thermometers on a 1-Wire bus (twr_ds18b20.c): one driver powers the *)
(* bus, searches it, starts all conversions at once, reads the sensors one *)
(* after the other and tells the application of each of them.  If asked to *)
(* it takes the power away between measurements (the application asks for  *)
(* that when it initializes the driver, or never).                         *)
(*                                                                         *)
(* Powering up and down may fail, sensors come and go, and an event        *)
(* handler may ask for a measurement or for another search (at most        *)
(* MaxRescans searches are asked for: one after the other without end      *)
(* would keep the driver from measuring).                                  *)
(***************************************************************************)
EXTENDS Naturals

CONSTANTS sensor_count, MaxRescans

VARIABLES
    state, measurement_active,
    measure_plan, interval_plan,    \* what is planned: now, and at the end of a pause
    sensor_found,
    valid,                          \* the sensors whose _temperature_valid is set
    power, power_dynamic,
    bus,                            \* the bus is powered
    telling,                        \* the sensor whose event is handled, 0 for all of
                                    \* them, or none
    down_failed,                    \* history: powering down the bus has failed
    rescans

ds18b20Vars == <<state, measurement_active, measure_plan, interval_plan, sensor_found, valid,
                 power, power_dynamic, bus, telling, down_failed, rescans>>

Nobody == sensor_count + 1

\* twr_ds18b20_init
Init ==
    /\ state = "PREINITIALIZE" /\ measurement_active = FALSE
    /\ measure_plan = "now" /\ interval_plan = FALSE
    /\ sensor_found = 0 /\ valid = {}
    /\ power = FALSE /\ power_dynamic \in BOOLEAN /\ bus = FALSE
    /\ telling = Nobody /\ down_failed = FALSE /\ rescans = 0

\* twr_ds18b20_measure
Accepted ==
    /\ measurement_active' = TRUE
    /\ measure_plan' = IF measurement_active THEN measure_plan ELSE "now"

Measure ==
    /\ Accepted
    /\ UNCHANGED <<state, interval_plan, sensor_found, valid, power, power_dynamic, bus, telling,
                   down_failed, rescans>>

\* twr_ds18b20_set_update_interval
SetUpdateInterval ==
    /\ \/ interval_plan' = FALSE /\ UNCHANGED <<measurement_active, measure_plan>>
       \/ interval_plan' = TRUE /\ Accepted
    /\ UNCHANGED <<state, sensor_found, valid, power, power_dynamic, bus, telling, down_failed,
                   rescans>>

\* _twr_ds18b20_task_interval
IntervalTask == telling = Nobody /\ interval_plan /\ Measure

\* twr_ds18b20_rescan
Rescan ==
    /\ rescans < MaxRescans
    /\ sensor_found' = 0 /\ valid' = {}
    /\ measurement_active' = TRUE
    /\ state' = "PREINITIALIZE" /\ measure_plan' = "now"
    /\ rescans' = rescans + 1
    /\ UNCHANGED <<interval_plan, power, power_dynamic, bus, telling, down_failed>>

-----------------------------------------------------------------------------
\* _twr_ds18b20_power_up, if it succeeds
PowerUp ==
    /\ power' = TRUE /\ bus' = (power => bus)
    /\ UNCHANGED down_failed

\* _twr_ds18b20_power_down: the flag is cleared first.
PowerDown(ok) ==
    /\ power' = FALSE
    /\ \/ power /\ ok /\ bus' = FALSE /\ UNCHANGED down_failed
       \/ power /\ ~ ok /\ bus' \in {bus, FALSE} /\ down_failed' = TRUE
       \/ ~ power /\ ok /\ UNCHANGED <<bus, down_failed>>

Runs(s) == telling = Nobody /\ measure_plan # "none" /\ state = s

Go(next, plan) ==
    /\ state' = next /\ measure_plan' = plan
    /\ UNCHANGED <<measurement_active, interval_plan, power_dynamic, telling, rescans>>

\* The state of an error, but for the power.
Failed ==
    /\ state' = "ERROR" /\ measure_plan' = "none"
    /\ valid' = {} /\ measurement_active' = FALSE
    /\ telling' = 0
    /\ UNCHANGED <<interval_plan, power_dynamic, rescans>>

\* An error of something else: whether powering down succeeds is not looked at.
FailedOn == Failed /\ \E ok \in BOOLEAN : PowerDown(ok)

\* The flag was set, and is cleared when the error powers down, which fails
\* or not.
FailedToPowerUp ==
    /\ ~ power /\ UNCHANGED power
    /\ \/ bus' = FALSE /\ UNCHANGED down_failed
       \/ bus' \in BOOLEAN /\ down_failed' = TRUE
    /\ Failed

\* The flag is cleared, so that the error does not try again.
FailedToPowerDown == power /\ PowerDown(FALSE) /\ Failed

Preinitialize ==
    /\ Runs("PREINITIALIZE")
    /\ UNCHANGED sensor_found
    /\ \/ FailedToPowerUp
       \/ PowerUp /\ Go("INITIALIZE", "paused") /\ UNCHANGED valid

Found == sensor_found' \in IF bus THEN 0 .. sensor_count ELSE {0}

\* The power is taken away if no measurement needs it.
Initialize ==
    /\ Runs("INITIALIZE")
    /\ Found
    /\ \/ FailedOn
       \/ sensor_found' > 0 /\ ~ measurement_active /\ power_dynamic /\ FailedToPowerDown
       \/ /\ sensor_found' > 0 /\ valid' = {}
          /\ IF ~ measurement_active /\ power_dynamic THEN PowerDown(TRUE)
             ELSE UNCHANGED <<power, bus, down_failed>>
          /\ Go("READY", IF measurement_active THEN "now" ELSE "none")

Ready ==
    /\ Runs("READY")
    /\ UNCHANGED sensor_found
    /\ \/ FailedToPowerUp
       \/ PowerUp /\ Go("MEASURE", "paused") /\ UNCHANGED valid

\* The bus has been used, and the sensors V have answered.
Finished(V) ==
    /\ UNCHANGED sensor_found
    /\ \/ power_dynamic /\ FailedToPowerDown
       \/ /\ IF power_dynamic THEN PowerDown(TRUE) ELSE UNCHANGED <<power, bus, down_failed>>
          /\ Go("RESULTS", "now") /\ valid' = V

\* No sensor answers, or the conversions begin.
StartConversion ==
    /\ Runs("MEASURE")
    /\ \/ Finished({})
       \/ bus /\ Go("READ", "paused") /\ UNCHANGED <<sensor_found, valid, power, bus, down_failed>>

Read ==
    /\ Runs("READ")
    /\ \E V \in SUBSET (1 .. sensor_found) : (bus \/ V = {}) /\ Finished(V)

\* The first event handler is called.
Results ==
    /\ Runs("RESULTS")
    /\ state' = "READY" /\ measure_plan' = "none"
    /\ measurement_active' = FALSE
    /\ telling' = IF sensor_found > 0 THEN 1 ELSE Nobody
    /\ UNCHANGED <<interval_plan, sensor_found, valid, power, power_dynamic, bus, down_failed,
                   rescans>>

\* An event handler has returned.
HandlerReturns ==
    /\ telling # Nobody
    /\ telling' = IF telling > 0 /\ telling < sensor_found THEN telling + 1 ELSE Nobody
    /\ state' = IF telling > 0 THEN state
                ELSE IF sensor_found > 0 THEN "READY" ELSE "PREINITIALIZE"
    /\ UNCHANGED <<measurement_active, measure_plan, interval_plan, sensor_found, valid, power,
                   power_dynamic, bus, down_failed, rescans>>

Works == Preinitialize \/ Initialize \/ Ready \/ StartConversion \/ Read \/ Results \/ HandlerReturns

Ds18b20Next == Measure \/ SetUpdateInterval \/ IntervalTask \/ Rescan \/ Works

\* The scheduler runs the task when it is due, and event handlers return.
Ds18b20Spec == Init /\ [][Ds18b20Next]_ds18b20Vars /\ WF_ds18b20Vars(Works)

-----------------------------------------------------------------------------
TypeOK ==
    /\ state \in {"ERROR", "PREINITIALIZE", "INITIALIZE", "READY", "MEASURE", "READ", "RESULTS"}
    /\ {measurement_active, interval_plan, power, power_dynamic, bus, down_failed} \subseteq BOOLEAN
    /\ measure_plan \in {"none", "now", "paused"}
    /\ sensor_found \in 0 .. sensor_count /\ valid \subseteq 1 .. sensor_found
    /\ telling \in 0 .. Nobody /\ rescans \in 0 .. MaxRescans

\* The bus has power whenever it is searched, told to convert or read,
\* whatever was asked for or went wrong before.
PoweredWhenUsed == state \in {"INITIALIZE", "MEASURE", "READ"} => power /\ bus

\* Between measurements that take the power away the bus has none, unless
\* taking it away has failed.
BusRests ==
    power_dynamic /\ measure_plan = "none" /\ telling = Nobody => ~ power /\ (bus => down_failed)

\* Whoever asks for a measurement or for a search, in an event handler too,
\* hears of it.
EachAnswered == measurement_active ~> telling # Nobody

\* Requests are answered from a bus that has power as long as it is used.
RequestsServed == [](PoweredWhenUsed /\ BusRests) /\ EachAnswered

=============================================================================
