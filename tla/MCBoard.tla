------------------------------ MODULE MCBoard -------------------------------
(***************************************************************************)
(* Small instances of what a board has beside its radio, for TLC: the SPI  *)
(* with the clocks and the display, a pulse counter, the CO2 sensor, the   *)
(* dates of the clock, a stream of samples, a relay, a rotary encoder, the *)
(* accelerometer, the search of a 1-Wire bus and the thermometers on one;  *)
(* and the messages that its application sends by radio.  They share       *)
(* nothing: a behaviour is one of one of them, chosen at the beginning;    *)
(* the others stay as they are.                                            *)
(***************************************************************************)
EXTENDS SpiBus, PulseCounter, Relay, OneWire

CONSTANTS
    MaxRequests, MaxFaults,                                 \* Lp8
    LastYear,                                               \* Rtc
    Samples, number_of_samples, min_number_of_samples, MaxFeeds,  \* DataStream
    MaxEdges,                                               \* Encoder
    Careful,                                                \* Lis2dh12
    sensor_count, MaxRescans,                               \* Ds18b20
    MAX_BUFFER_SIZE, ID_SIZE                                \* RadioMessages

ASSUME PulseAssumption == MaxPulses \in Nat /\ COUNTS \in Nat /\ COUNTS > MaxPulses
ASSUME BoundsOfOthers ==
    /\ {MaxRequests, MaxFaults, MaxEdges, MaxRescans} \subseteq Nat
    /\ LastYear \in 0 .. 99 /\ sensor_count \in Nat \ {0}
ASSUME MessagesAssumption == ID_SIZE \in Nat \ {0} /\ MAX_BUFFER_SIZE \in ID_SIZE + 24 .. 255
ASSUME StreamAssumption ==
    /\ Samples \subseteq Int /\ MaxFeeds \in Nat
    /\ number_of_samples \in Nat \ {0} /\ min_number_of_samples \in 1 .. number_of_samples

VARIABLES
    device,
    state, measure_planned, pins, valid, first_measurement_done, calibration, calibrate,
    calibration_run, command, event, measuring, midway, requests, faults,
    year, month, day, days, yday,
    feed, feed_head, counter,
    phase, lines, contacts, waiting, samples, increment, increment_shadow, taking, task_planned,
    edges_seen, position, told, missed,
    accel_state, accel_active, accel_plan, accel_interval, handling, alarm_active, irq_flag, scale,
    exti, chip, alarm_set, unasked,
    thermo_state, thermo_active, thermo_plan, thermo_interval, sensor_found, thermo_valid, power,
    power_dynamic, bus, telling, down_failed, rescans,
    message, wire, message_told

CO2 == INSTANCE Lp8 WITH planned <- measure_planned
RTC == INSTANCE Rtc
DS == INSTANCE DataStream
ENC == INSTANCE Encoder WITH edges <- edges_seen
ACCEL == INSTANCE Lis2dh12 WITH
    state <- accel_state, measurement_active <- accel_active, measure_plan <- accel_plan,
    interval_plan <- accel_interval
THERMO == INSTANCE Ds18b20 WITH
    state <- thermo_state, measurement_active <- thermo_active, measure_plan <- thermo_plan,
    interval_plan <- thermo_interval, valid <- thermo_valid
MSG == INSTANCE RadioMessages WITH told <- message_told

co2All == <<state, measure_planned, pins, valid, first_measurement_done, calibration, calibrate,
            calibration_run, command, event, measuring, midway, requests, faults>>
rtcAll == <<year, month, day, days, yday>>
streamAll == <<feed, feed_head, counter>>
encoderAll == <<phase, lines, contacts, waiting, samples, increment, increment_shadow, taking,
                task_planned, edges_seen, position, told, missed>>
accelAll == <<accel_state, accel_active, accel_plan, accel_interval, handling, alarm_active,
              irq_flag, scale, exti, chip, alarm_set, unasked>>
oneWireAll == <<devices, family_code, last_rom_no, last_discrepancy, last_device_flag,
                device_list, searching, unplugged>>
thermoAll == <<thermo_state, thermo_active, thermo_plan, thermo_interval, sensor_found,
               thermo_valid, power, power_dynamic, bus, telling, down_failed, rescans>>
messagesAll == <<message, wire, message_told>>
all == <<device, spiVars, pulseVars, co2All, rtcAll, streamAll, relayVars, encoderAll,
         accelAll, oneWireAll, thermoAll, messagesAll>>

\* The initial states of what is not chosen are narrowed to one.  The family
\* 1 is met between the two others.
MCInit ==
    /\ device \in {"spi", "counter", "co2", "clock", "stream", "relay", "encoder", "accel",
                  "search", "thermo", "messages"}
    /\ SpiInit /\ PulseInit /\ CO2!Init /\ RTC!Init /\ DS!StreamInit
    /\ RelayInit /\ (device # "relay" => relay.contact = "F" /\ relay.outputs)
    /\ ENC!Init /\ (device # "encoder" => contacts = [l \in ENC!Line |-> 0])
    /\ ACCEL!Init /\ (device # "accel" => chip.scale = 2 /\ ~ chip.powered)
    /\ SearchInit /\ IF device = "search" THEN family_code \in {0, 1}
                  ELSE devices = {} /\ family_code = 0
    /\ THERMO!Init /\ (device # "thermo" => ~ power_dynamic)
    /\ MSG!Init /\ (device # "messages" => message = MSG!Shortest)

\* Only the part d of the board moves.
Only(d) ==
    /\ device = d /\ UNCHANGED device
    /\ IF d = "spi" THEN TRUE ELSE UNCHANGED spiVars
    /\ IF d = "counter" THEN TRUE ELSE UNCHANGED pulseVars
    /\ IF d = "co2" THEN TRUE ELSE UNCHANGED co2All
    /\ IF d = "clock" THEN TRUE ELSE UNCHANGED rtcAll
    /\ IF d = "stream" THEN TRUE ELSE UNCHANGED streamAll
    /\ IF d = "relay" THEN TRUE ELSE UNCHANGED relayVars
    /\ IF d = "encoder" THEN TRUE ELSE UNCHANGED encoderAll
    /\ IF d = "accel" THEN TRUE ELSE UNCHANGED accelAll
    /\ IF d = "search" THEN TRUE ELSE UNCHANGED oneWireAll
    /\ IF d = "thermo" THEN TRUE ELSE UNCHANGED thermoAll
    /\ IF d = "messages" THEN TRUE ELSE UNCHANGED messagesAll

MCNext ==
    \/ Only("spi") /\ SpiNext
    \/ Only("counter") /\ PulseNext
    \/ Only("co2") /\ CO2!Lp8Next
    \/ Only("clock") /\ RTC!NextDay
    \/ Only("stream") /\ DS!StreamNext
    \/ Only("relay") /\ RelayNext
    \/ Only("encoder") /\ ENC!EncoderNext
    \/ Only("accel") /\ ACCEL!AccelNext
    \/ Only("search") /\ SearchStep
    \/ Only("thermo") /\ THERMO!Ds18b20Next
    \/ Only("messages") /\ MSG!MessageNext

\* Nothing fair is enabled in the SPI's initial state; the tasks of the
\* others are due in theirs.
MCSpec ==
    /\ MCInit /\ [][MCNext]_all
    /\ SpiFairness
    /\ WF_all(Only("co2") /\ CO2!Works)
    /\ WF_all(Only("encoder") /\ ENC!Works)
    /\ WF_all(Only("accel") /\ ACCEL!Works)
    /\ WF_all(Only("thermo") /\ THERMO!Works)

TypesOK ==
    /\ SpiTypeOK /\ PulseTypeOK /\ CO2!TypeOK /\ RTC!TypeOK /\ DS!StreamTypeOK
    /\ RelayTypeOK /\ ENC!TypeOK /\ ACCEL!TypeOK /\ SearchTypeOK /\ THERMO!TypeOK
    /\ MSG!TypeOK
\* What is converted by one code and read back by another stays what it was:
\* dates, and the values in the radio's messages.
ConversionsAgree == RTC!DatesAgree /\ MSG!MessagesUnderstood
StreamIsWindow == DS!StreamIsWindow
StepsReachApplication == ENC!StepsReachApplication
AlarmKept == ACCEL!AlarmKept
\* The CO2 sensor and the thermometers answer each request, from a sensor or a
\* bus that has power for exactly as long as it is used.
RequestsServed == CO2!RequestsServed /\ THERMO!RequestsServed

MCSamples == {-3, 0, 1, 4}

=============================================================================
