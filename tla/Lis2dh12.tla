------------------------------ MODULE Lis2dh12 ------------------------------
(***************************************************************************)
(* The accelerometer (twr_lis2dh12.c).  It measures as the sensors of      *)
(* module Sensor do, and watches for motion by itself: while an alarm is   *)
(* set it stays powered, and its interrupt, which may come at any time,    *)
(* asks for a measurement whose result tells of the alarm.  The scale is   *)
(* written to the chip when the driver initializes it.                     *)
(*                                                                         *)
(* Every transfer on the bus may fail.  The scheduler clears the plan when *)
(* it runs the task; a plan that the interrupt or an event handler makes   *)
(* while the task runs stays, also if the task ends with an error, which   *)
(* takes back the measurement and not the plan.  If Careful, the           *)
(* application sets the scale outside of event handlers and while no alarm *)
(* is set.                                                                 *)
(***************************************************************************)
EXTENDS Naturals

CONSTANT Careful

VARIABLES
    state, measurement_active,
    measure_plan, interval_plan,    \* what is planned: now, and at the end of a pause
    handling,                       \* the task runs, or the event that it tells the handler of
    alarm_active, irq_flag,
    scale,
    exti,                           \* the interrupt's handler is registered
    chip,                           \* its scale, whether it converts, whether it watches
    alarm_set,                      \* history: twr_lis2dh12_set_alarm last set one, with success
    unasked                         \* history: an error left a plan behind, and no measurement
                                    \* has been asked for since

accelVars == <<state, measurement_active, measure_plan, interval_plan, handling, alarm_active,
               irq_flag, scale, exti, chip, alarm_set, unasked>>

Scales == {2, 4}

\* twr_lis2dh12_init; what the chip was set to before is unknown.
Init ==
    /\ state = "INITIALIZE" /\ measurement_active = FALSE
    /\ measure_plan = "now" /\ interval_plan = FALSE
    /\ handling = "none"
    /\ alarm_active = FALSE /\ irq_flag = FALSE /\ exti = FALSE
    /\ scale = 2
    /\ chip \in [scale : Scales, powered : BOOLEAN, watching : {FALSE}]
    /\ alarm_set = FALSE /\ unasked = FALSE

\* The main program is in the application, or in an event handler.
Calls == handling # "task"

\* twr_lis2dh12_measure
Accepted ==
    /\ measurement_active' = TRUE /\ unasked' = FALSE
    /\ measure_plan' = IF measurement_active THEN measure_plan ELSE "now"

Measure ==
    /\ Calls /\ Accepted
    /\ UNCHANGED <<state, interval_plan, handling, alarm_active, irq_flag, scale, exti,
                   chip, alarm_set>>

\* twr_lis2dh12_set_update_interval
SetUpdateInterval ==
    /\ Calls
    /\ \/ interval_plan' = FALSE /\ UNCHANGED <<measurement_active, measure_plan, unasked>>
       \/ interval_plan' = TRUE /\ Accepted
    /\ UNCHANGED <<state, handling, alarm_active, irq_flag, scale, exti, chip, alarm_set>>

\* _twr_lis2dh12_task_interval
IntervalTask == handling = "none" /\ interval_plan /\ Measure

\* Mutant: the chip is not initialized with the new scale.
MutSetScale(s) ==
    /\ Calls /\ (Careful => handling = "none" /\ ~ alarm_active)
    /\ scale' = s
    /\ measure_plan' = "now"
    /\ UNCHANGED <<state, measurement_active, interval_plan, handling, alarm_active, irq_flag,
                   exti, chip, alarm_set, unasked>>

\* twr_lis2dh12_set_scale, and twr_lis2dh12_set_resolution
SetScale(s) ==
    /\ Calls /\ (Careful => handling = "none" /\ ~ alarm_active)
    /\ scale' = s
    /\ state' = "INITIALIZE" /\ measure_plan' = "now"
    /\ UNCHANGED <<measurement_active, interval_plan, handling, alarm_active, irq_flag, exti,
                   chip, alarm_set, unasked>>

\* twr_lis2dh12_set_alarm: it returns at the first transfer that fails, the
\* first of which stops the chip's watching.
SetAlarm(on) ==
    /\ Calls
    /\ alarm_active' = on
    /\ \/ /\ \/ UNCHANGED chip
             \/ on /\ chip' = [chip EXCEPT !.watching = FALSE]
          /\ alarm_set' = FALSE
          /\ UNCHANGED <<measurement_active, measure_plan, exti, unasked>>
       \/ /\ chip' = [chip EXCEPT !.watching = on]
          /\ exti' = on /\ alarm_set' = on
          /\ Accepted
    /\ UNCHANGED <<state, interval_plan, handling, irq_flag, scale>>

\* The chip has seen motion: _twr_lis2dh12_interrupt.
Interrupt ==
    /\ exti /\ chip.powered /\ chip.watching
    /\ irq_flag' = TRUE
    /\ Accepted
    /\ UNCHANGED <<state, interval_plan, handling, alarm_active, scale, exti, chip, alarm_set>>

-----------------------------------------------------------------------------
(***************************************************************************)
(* _twr_lis2dh12_task_measure, up to the event handler if it is called.    *)
(***************************************************************************)
TaskStarts ==
    /\ handling = "none" /\ measure_plan # "none"
    /\ handling' = "task" /\ measure_plan' = "none"
    /\ UNCHANGED <<state, measurement_active, interval_plan, alarm_active, irq_flag, scale, exti,
                   chip, alarm_set, unasked>>

Runs(s) == handling = "task" /\ state = s

Fail ==
    /\ state' = "ERROR" /\ handling' = "error"
    /\ measurement_active' = FALSE
    /\ unasked' = (measure_plan # "none")
    /\ UNCHANGED <<measure_plan, interval_plan, alarm_active, irq_flag, scale, exti, alarm_set>>

Initialize ==
    /\ Runs("INITIALIZE")
    /\ \/ Fail /\ chip' \in {chip, [chip EXCEPT !.scale = scale]}
       \/ /\ state' = "MEASURE" /\ handling' = "none"
          /\ chip' = [chip EXCEPT !.scale = scale, !.powered = FALSE]
          /\ measure_plan' = IF measurement_active THEN "paused" ELSE measure_plan
          /\ UNCHANGED <<measurement_active, interval_plan, alarm_active, irq_flag, scale, exti,
                         alarm_set, unasked>>

StartConversion ==
    /\ Runs("MEASURE")
    /\ \/ Fail /\ UNCHANGED chip
       \/ /\ state' = "READ" /\ handling' = "none"
          /\ chip' = [chip EXCEPT !.powered = TRUE]
          /\ measure_plan' = "paused"
          /\ UNCHANGED <<measurement_active, interval_plan, alarm_active, irq_flag, scale, exti,
                         alarm_set, unasked>>

\* "Power down only when no alarm is set"
StaysOn == alarm_active

Read ==
    /\ Runs("READ")
    /\ \/ Fail /\ UNCHANGED chip
       \/ /\ state' = "UPDATE" /\ handling' = "update"
          /\ chip' = [chip EXCEPT !.powered = StaysOn /\ @]
          /\ measurement_active' = FALSE
          /\ UNCHANGED <<measure_plan, interval_plan, alarm_active, irq_flag, scale, exti,
                         alarm_set, unasked>>

\* The event handler has returned.  The state is set whatever it was set to
\* meanwhile.
Returns(next) ==
    /\ state' = next /\ handling' = "none"
    /\ UNCHANGED <<measurement_active, measure_plan, interval_plan, alarm_active, irq_flag, scale,
                   exti, chip, alarm_set, unasked>>

ErrorReturns == handling = "error" /\ Returns("INITIALIZE")

AlarmReturns == handling = "alarm" /\ Returns("MEASURE")

\* The event handler has set the scale, and so the state, before the transfer
\* that failed: the task goes on from there.
Reinitialize ==
    /\ state = "INITIALIZE" /\ handling' = "task"
    /\ UNCHANGED <<state, measurement_active, measure_plan, interval_plan, alarm_active, irq_flag,
                   scale, exti, alarm_set, unasked>>

\* Under an alarm the chip is asked first what it has seen.
UpdateReturns ==
    /\ handling = "update"
    /\ \/ ~ (alarm_active /\ irq_flag) /\ Returns("MEASURE")
       \/ /\ alarm_active /\ irq_flag
          /\ irq_flag' = FALSE /\ handling' = "alarm"
          /\ UNCHANGED <<state, measurement_active, measure_plan, interval_plan, alarm_active,
                         scale, exti, chip, alarm_set, unasked>>
       \/ /\ alarm_active /\ UNCHANGED chip
          /\ IF state = "UPDATE" THEN Fail ELSE Reinitialize

Works ==
    \/ TaskStarts \/ Initialize \/ StartConversion \/ Read
    \/ ErrorReturns \/ AlarmReturns \/ UpdateReturns

AccelNext ==
    \/ Measure \/ SetUpdateInterval \/ IntervalTask \/ Interrupt
    \/ \E s \in Scales : SetScale(s)
    \/ \E on \in BOOLEAN : SetAlarm(on)
    \/ Works

\* The scheduler runs the task when it is due, and event handlers return.
AccelSpec == Init /\ [][AccelNext]_accelVars /\ WF_accelVars(Works)

-----------------------------------------------------------------------------
TypeOK ==
    /\ state \in {"ERROR", "INITIALIZE", "MEASURE", "READ", "UPDATE"}
    /\ measure_plan \in {"none", "now", "paused"}
    /\ handling \in {"none", "task", "error", "update", "alarm"}
    /\ {measurement_active, interval_plan, alarm_active, irq_flag, exti, alarm_set, unasked}
          \subseteq BOOLEAN
    /\ scale \in Scales
    /\ chip \in [scale : Scales, powered : BOOLEAN, watching : BOOLEAN]

\* What an update is computed with, the scale, is what the chip measured with,
\* whenever between two measurements or in one of them it was set.
ScaleUsed == [][handling = "task" /\ handling' = "update" => chip.scale = scale]_accelVars

\* A chip that is left alone after a measurement still watches for the alarm
\* that was set, with one exception: where a plan outlived an error, the task
\* initializes the chip, which switches it off, and with no measurement asked
\* for it is left so until one is.
AlarmWatches ==
    alarm_set /\ ~ unasked /\ state = "MEASURE" /\ handling = "none" /\ measure_plan = "none" =>
        chip.powered /\ chip.watching

\* Motion that was seen is told of, or an error is, unless the alarm is taken
\* back: the interrupt may come in a measurement, between the test of its flag
\* and the end of the task, or while an error is handled.
AlarmTold == irq_flag /\ measurement_active ~> handling \in {"alarm", "error"} \/ ~ alarm_active

\* Measurements and the alarm get along on the one chip.
AlarmKept == []AlarmWatches /\ ScaleUsed /\ AlarmTold

=============================================================================
