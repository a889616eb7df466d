----------------------------- MODULE MCDevices -----------------------------
(***************************************************************************)
(* Small instances of components that have no part of their state in       *)
(* common: the ring buffer, the message queue, the converter, the buttons, *)
(* the drivers of sensors, a LED and a strip of them.  A behaviour is one  *)
(* of one of them, chosen at the beginning; the others stay as they are.   *)
(***************************************************************************)
EXTENDS Fifo, MessageQueue

CONSTANTS
    COUNT, NullResults, Listeners,                              \* Adc
    ScanInterval, DebounceTime, ClickTimeout, HoldTime,         \* Buttons
    WIDTH, BlinkCounts, MaxPeriods,                             \* Led
    strip_count, WHEEL, HALF, LENGTH, MaxCalls                  \* LedStrip

ASSUME AdcAssumption ==
    /\ COUNT \in Nat /\ COUNT >= 2
    /\ NullResults \subseteq BOOLEAN /\ Listeners \subseteq 0 .. COUNT - 2
ASSUME ButtonsAssumption ==
    /\ {ScanInterval, DebounceTime, ClickTimeout, HoldTime} \subseteq Nat \ {0}
    /\ ClickTimeout <= HoldTime
ASSUME LedAssumption == WIDTH % 8 = 0 /\ BlinkCounts \subseteq 1 .. MaxPeriods
ASSUME StripAssumption ==
    /\ {WHEEL, HALF, LENGTH} \subseteq Nat \ {0} /\ strip_count \in Nat /\ strip_count >= 3
    /\ MaxCalls \in Nat

VARIABLES
    device,
    channel_in_progress, state, pending, value, handler, vdda, adc, planned, starting, sleep,
    reporting, unread, asked,
    pins, buttons, events, presses,
    driver, sensor_state, part, measurement_active, valid, measure_plan, interval_plan,
    handling, conversion, fresh,
    measuring, echo_valid, notify, echo_interval, echo_pll, capture, flags, line, long, edges,
    echo_told,
    pattern, selector, count, pulse_active, lit, led_planned, led_asked, pulsed, blinks,
    strip, phase, sent, pll, effect, led, round, shown, frame, drawn, seen, disturbed, done, calls

A == INSTANCE Adc
B == INSTANCE Buttons
S == INSTANCE Sensor WITH state <- sensor_state
E == INSTANCE HcSr04
LED == INSTANCE Led WITH planned <- led_planned, asked <- led_asked
STRIP == INSTANCE LedStrip WITH count <- strip_count

adcAll == <<channel_in_progress, state, pending, value, handler, vdda, adc, planned, starting,
            sleep, reporting, unread, asked>>
buttonAll == <<pins, buttons, events, presses>>
sensorAll == <<driver, sensor_state, part, measurement_active, valid, measure_plan,
               interval_plan, handling, conversion, fresh>>
echoAll == <<measuring, echo_valid, notify, echo_interval, echo_pll, capture, flags, line, long,
             edges, echo_told>>
ledAll == <<pattern, selector, count, pulse_active, lit, led_planned, led_asked, pulsed, blinks>>
stripAll == <<strip, phase, sent, pll, effect, led, round, shown, frame, drawn, seen, disturbed,
              done, calls>>
all == <<device, vars, adcAll, queueVars, buttonAll, sensorAll, echoAll, ledAll, stripAll>>

MCInit ==
    /\ device \in {"fifo", "adc", "queue", "buttons", "sensor", "echo", "led", "strip"}
    /\ Init /\ (device # "fifo" => irq_end = "reads" /\ \A c \in Cells : buffer[c] = 0)
    /\ A!Init /\ QueueInit /\ B!Init /\ E!EchoInit /\ LED!Init /\ STRIP!StripInit
    /\ S!Init /\ (device # "sensor" => driver = S!Tmp112)

\* Only the device d moves.
Only(d) ==
    /\ device = d /\ UNCHANGED device
    /\ IF d = "fifo" THEN TRUE ELSE UNCHANGED vars
    /\ IF d = "adc" THEN TRUE ELSE UNCHANGED adcAll
    /\ IF d = "queue" THEN TRUE ELSE UNCHANGED queueVars
    /\ IF d = "buttons" THEN TRUE ELSE UNCHANGED buttonAll
    /\ IF d = "sensor" THEN TRUE ELSE UNCHANGED sensorAll
    /\ IF d = "echo" THEN TRUE ELSE UNCHANGED echoAll
    /\ IF d = "led" THEN TRUE ELSE UNCHANGED ledAll
    /\ IF d = "strip" THEN TRUE ELSE UNCHANGED stripAll

MCNext ==
    \/ Only("fifo") /\ Next
    \/ Only("adc") /\ A!Next
    \/ Only("queue") /\ QueueNext
    \/ Only("buttons") /\ B!ButtonsNext
    \/ Only("sensor") /\ S!SensorNext
    \/ Only("echo") /\ E!EchoNext
    \/ Only("led") /\ LED!LedNext
    \/ Only("strip") /\ STRIP!StripNext

(***************************************************************************)
(* Time passes, and the scheduler runs the buttons' tasks when they are    *)
(* due (Scheduler!DueTaskServed), and those of the others, whose pauses    *)
(* and transfers end.                                                      *)
(***************************************************************************)
MCSpec ==
    /\ MCInit /\ [][MCNext]_all
    /\ A!Fairness
    /\ WF_all(Only("buttons") /\ B!Tick)
    /\ \A b \in B!Button : WF_all(Only("buttons") /\ B!Task(b))
    /\ WF_all(Only("sensor") /\ S!Works)
    /\ WF_all(Only("echo") /\ E!EchoWorks)
    /\ WF_all(Only("strip") /\ STRIP!Works)

TypesOK == /\ TypeOK /\ A!TypeOK /\ QueueTypeOK /\ B!TypeOK /\ S!TypeOK /\ E!EchoTypeOK
           /\ LED!TypeOK /\ STRIP!StripTypeOK
ConverterShared == A!ConverterShared
Debounced == B!Debounced
PressesTold == B!PressesTold
\* What the application asks for is shown, by a LED and by a strip of them.
ShowsWhatWasAsked == []LED!ShowsWhatWasAsked /\ STRIP!StripServed
\* Who asks a sensor for a measurement is answered, with values of it.
MeasurementsServed == S!MeasurementsServed /\ E!EchoServed

=============================================================================
