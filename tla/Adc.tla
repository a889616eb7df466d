-------------------------------- MODULE Adc --------------------------------
(***************************************************************************)
(* twr_adc.c: measurements of several channels share one converter.  A     *)
(* measurement takes two conversions, of the internal reference and then   *)
(* of the channel, each ended by an interrupt, and a task that reports it  *)
(* and starts the next one.  The values themselves are left out: a         *)
(* register, a result or VDDA is the channel it was converted from, and a  *)
(* channel's result is kept here until the task has told of it.            *)
(*                                                                         *)
(* The main program runs the application's calls, the task and the event   *)
(* handlers one after another; the converter and its interrupt handler     *)
(* come between any two of them.  twr_adc_async_measure enables the        *)
(* interrupt before it starts the conversion; the handler can come between *)
(* the two only if the converter was not at rest, after a twr_adc_get_     *)
(* value that did not read DR: EOC is set still, and the next conversion   *)
(* is an overrun, whose value may be discarded.                            *)
(***************************************************************************)
EXTENDS Integers

CONSTANTS
    COUNT,          \* TWR_ADC_CHANNEL_COUNT; the last channel is the reference
    NullResults,    \* subset of BOOLEAN: whether get_value may be called without a result
    Listeners       \* the channels that the application sets event handlers of

Channels == 0 .. COUNT - 1
REFERENCE == COUNT - 1
Inputs == Channels \ {REFERENCE}
NONE == -1

VARIABLES
    channel_in_progress, state,
    pending,        \* per channel: asked for meanwhile
    value,          \* a new result: the channel it is kept for, and what it is
    handler,        \* the channels that have an event handler
    vdda,           \* what real_vdda_voltage was computed from
    adc,            \* the registers: EOCIE, EOC, CHSELR, the running
                    \* conversion and DR
    planned,        \* the task is planned
    starting,       \* async_measure is about to set ADSTART
    sleep,          \* the driver's share of the sleep semaphore
    reporting,      \* the channel whose event handler runs
    unread,         \* the latest get_value left its result in DR
    asked           \* history, per channel: the measurement that was asked
                    \* for is to "begin", has "begun", was "joined" while it
                    \* repeated an earlier one, or there is "none"

vars == <<channel_in_progress, state, pending, value, handler, vdda, adc, planned, starting,
          sleep, reporting, unread, asked>>

NoResult == [of |-> NONE, is |-> NONE]

Init ==
    /\ channel_in_progress = NONE /\ state = "begin"
    /\ pending = [c \in Channels |-> FALSE]
    /\ value = NoResult
    /\ handler = {}
    /\ vdda = REFERENCE
    /\ adc = [eocie |-> FALSE, eoc |-> FALSE, chselr |-> REFERENCE, running |-> NONE,
              dr |-> REFERENCE]
    /\ planned = FALSE /\ starting = FALSE /\ sleep = 0 /\ reporting = NONE
    /\ unread = FALSE
    /\ asked = [c \in Channels |-> "none"]

Idle == channel_in_progress = NONE

\* Setting CHSELR and then ADSTART; neither has an effect during a conversion.
Start(a, c) == IF a.running = NONE THEN [a EXCEPT !.chselr = c, !.running = c] ELSE a

\* Reading DR clears EOC.
ReadDR == [adc EXCEPT !.eoc = FALSE]

\* No conversion runs and none has left its end behind.
AtRest == adc.running = NONE /\ ~ adc.eoc

\* What a conversion of c leaves in DR, if the one before may not be read.
Left(c) == IF unread THEN {c, adc.dr} ELSE {c}

-----------------------------------------------------------------------------
(***************************************************************************)
(* The calls.                                                              *)
(***************************************************************************)
\* twr_adc_async_measure with the converter released and at rest.
Measure(c, lock) ==
    /\ channel_in_progress' = c
    /\ state' = "reference"
    /\ adc' = Start([adc EXCEPT !.eocie = TRUE], REFERENCE)
    /\ sleep' = lock + 1

\* The same with the converter released and not at rest, until ADSTART.
Enable(c) ==
    /\ channel_in_progress' = c
    /\ state' = "reference"
    /\ adc' = [adc EXCEPT !.eocie = TRUE,
                          !.chselr = IF adc.running = NONE THEN REFERENCE ELSE @]
    /\ starting' = TRUE

\* Sets ADSTART, of the channel that is selected by then.
AdStart ==
    /\ starting /\ starting' = FALSE
    /\ adc' = Start(adc, adc.chselr)
    /\ sleep' = sleep + 1
    /\ UNCHANGED <<channel_in_progress, state, pending, value, handler, vdda, planned, reporting,
                   unread, asked>>

\* twr_adc_async_measure.  A channel asked for while it is itself being
\* measured is pending like any other; its client gets the result underway.
AsyncMeasure(c) ==
    /\ pending' = [pending EXCEPT ![c] = ~ Idle]
    /\ \/ Idle /\ AtRest /\ Measure(c, sleep) /\ UNCHANGED starting
       \/ Idle /\ ~ AtRest /\ Enable(c) /\ UNCHANGED sleep
       \/ ~ Idle /\ UNCHANGED <<channel_in_progress, state, adc, starting, sleep>>
    /\ asked' = [asked EXCEPT ![c] = IF c # channel_in_progress THEN "begin"
                                     ELSE IF @ = "none" THEN "joined" ELSE @]
    /\ UNCHANGED <<value, handler, vdda, planned, reporting, unread>>

\* twr_adc_get_value waits for its conversion, or for the one that runs, and
\* reads DR if the caller wants the result.  It clears the flags that are set
\* when it is called, so that its own conversion is no overrun.
GetValue(c, null) ==
    /\ Idle
    /\ adc' = [Start(adc, c) EXCEPT !.eocie = FALSE, !.running = NONE, !.eoc = null,
                                    !.dr = IF adc.running = NONE THEN c ELSE adc.running]
    /\ unread' = null
    /\ UNCHANGED <<channel_in_progress, state, pending, value, handler, vdda, planned, starting,
                   sleep, reporting, asked>>

\* twr_adc_calibration: ADEN is off between conversions (auto-off mode).
Calibration ==
    /\ Idle /\ adc.running = NONE
    /\ \E left \in Left(REFERENCE) :
         /\ adc' = [adc EXCEPT !.chselr = REFERENCE, !.dr = left, !.eoc = FALSE]
         /\ vdda' = left
    /\ UNCHANGED <<channel_in_progress, state, pending, value, handler, planned, starting, sleep,
                   reporting, unread, asked>>

\* twr_adc_set_event_handler, with a handler or with NULL.
SetEventHandler(c) ==
    /\ channel_in_progress # c
    /\ handler' \in {handler \union {c}, handler \ {c}}
    /\ UNCHANGED <<channel_in_progress, state, pending, value, vdda, adc, planned, starting,
                   sleep, reporting, unread, asked>>

\* The main program makes one call after the other.
Call ==
    /\ ~ starting
    /\ \/ \E c \in Inputs : AsyncMeasure(c) \/ \E null \in NullResults : GetValue(c, null)
       \/ \E c \in Listeners : SetEventHandler(c)
       \/ Calibration

-----------------------------------------------------------------------------
(***************************************************************************)
(* The converter, and ADC1_COMP_IRQHandler in its two states.              *)
(***************************************************************************)
ConversionEnds ==
    /\ adc.running # NONE
    /\ \E left \in Left(adc.running) :
         adc' = [adc EXCEPT !.running = NONE, !.dr = left, !.eoc = TRUE]
    /\ UNCHANGED <<channel_in_progress, state, pending, value, handler, vdda, planned, starting,
                   sleep, reporting, unread, asked>>

\* The reference has been converted: VDDA is known, the channel is next.
ReferenceIrq ==
    /\ adc.eocie /\ adc.eoc /\ state = "reference"
    /\ vdda' = adc.dr
    /\ adc' = Start(ReadDR, channel_in_progress)
    /\ state' = "input"
    /\ asked' = [asked EXCEPT ![channel_in_progress] =
                               IF @ = "begin" /\ adc.running = NONE THEN "begun" ELSE @]
    /\ UNCHANGED <<channel_in_progress, pending, value, handler, planned, starting, sleep,
                   reporting, unread>>

\* The channel has been converted: its result is kept and the task planned.
InputIrq ==
    /\ adc.eocie /\ adc.eoc /\ state = "input"
    /\ value' = [of |-> channel_in_progress, is |-> adc.dr]
    /\ adc' = [ReadDR EXCEPT !.eocie = FALSE]
    /\ planned' = TRUE
    /\ UNCHANGED <<channel_in_progress, state, pending, handler, vdda, starting, sleep, reporting,
                   unread, asked>>

-----------------------------------------------------------------------------
(***************************************************************************)
(* _twr_adc_task                                                           *)
(***************************************************************************)
\* How far c is from start in the order of _twr_adc_get_pending.  The channel
\* itself, at distance 0, is not looked at.
\* Mutant: the search begins at the first channel each time.
MutDistance(start, c) == IF c = start THEN 0 ELSE c + 1
Distance(start, c) == (c - start) % COUNT

Candidates(start) == {c \in Channels : pending[c] /\ Distance(start, c) > 0}

\* _twr_adc_get_pending
NextPending(start) ==
    CHOOSE c \in Candidates(start) :
        \A other \in Candidates(start) : Distance(start, c) <= Distance(start, other)

\* The task releases the converter, starts the next measurement, and then
\* calls the event handler, if there is one.
Task ==
    /\ planned /\ ~ starting /\ reporting = NONE
    /\ planned' = FALSE
    /\ IF Candidates(channel_in_progress) # {}
       THEN LET next == NextPending(channel_in_progress) IN
            /\ Measure(next, sleep - 1)
            /\ pending' = [pending EXCEPT ![next] = FALSE]
       ELSE /\ channel_in_progress' = NONE /\ sleep' = sleep - 1
            /\ UNCHANGED <<state, adc, pending>>
    /\ reporting' = IF channel_in_progress \in handler THEN channel_in_progress ELSE NONE
    /\ asked' = [asked EXCEPT ![channel_in_progress] = "none"]
    /\ value' = NoResult
    /\ UNCHANGED <<handler, vdda, starting, unread>>

\* The event handler ends; the calls it makes are Call steps.
HandlerReturns ==
    /\ reporting # NONE /\ ~ starting
    /\ reporting' = NONE
    /\ UNCHANGED <<channel_in_progress, state, pending, value, handler, vdda, adc, planned,
                   starting, sleep, unread, asked>>

-----------------------------------------------------------------------------
(***************************************************************************)
(* Conversions end, an enabled interrupt is served, the scheduler runs a   *)
(* planned task (Scheduler!DueTaskServed), calls and event handlers end: of *)
(* these steps one is taken as long as one can be.                         *)
(***************************************************************************)
Works == AdStart \/ ConversionEnds \/ ReferenceIrq \/ InputIrq \/ Task \/ HandlerReturns

Next == Call \/ Works
Fairness == WF_vars(Works)

Spec == Init /\ [][Next]_vars /\ Fairness

-----------------------------------------------------------------------------
TypeOK ==
    /\ channel_in_progress \in Inputs \union {NONE}
    /\ state \in {"begin", "reference", "input"}
    /\ pending \in [Channels -> BOOLEAN]
    /\ value \in [of : Channels \union {NONE}, is : Channels \union {NONE}]
    /\ handler \subseteq Inputs
    /\ vdda \in Channels
    /\ adc \in [eocie : BOOLEAN, eoc : BOOLEAN, chselr : Channels,
                running : Channels \union {NONE}, dr : Channels]
    /\ {planned, starting, unread} \subseteq BOOLEAN /\ sleep \in {0, 1}
    /\ reporting \in Inputs \union {NONE}
    /\ asked \in [Channels -> {"none", "begin", "begun", "joined"}]

\* From the request to the task, and only then, the device is kept awake and
\* the converter is busy for channel_in_progress: a measurement is never left
\* half done with nothing left to finish it, nor is one finished twice.  After
\* a get_value that left its result in DR, until the next one that does not,
\* the converter may be busy with more than the measurement.
ConverterOwned ==
    /\ sleep = IF Idle \/ starting THEN 0 ELSE 1
    /\ Idle => ~ planned /\ ~ starting
    /\ adc.eocie <=> ~ Idle /\ ~ planned
    /\ ~ Idle /\ ~ starting /\ ~ planned => adc.running # NONE \/ adc.eoc
    /\ ~ unread => /\ ~ starting
                   /\ Idle \/ planned => AtRest
                   /\ ~ Idle /\ ~ planned => (adc.running # NONE) # adc.eoc

\* Although every user sets up the same registers: VDDA is computed from a
\* conversion of the internal reference, and a channel's result is one of
\* that channel; unless a result was left in DR.
RightInput ==
    [][~ unread =>
         /\ vdda' # vdda \/ (state = "reference" /\ state' = "input") => vdda' = REFERENCE
         /\ ~ planned /\ planned' =>
              value' = [of |-> channel_in_progress, is |-> channel_in_progress]]_vars

\* A client that asked for a channel while it was not being measured is told
\* of a conversion that began after it asked; unless a result was left in DR.
FreshAnswer ==
    [][\A c \in Inputs :
         ~ unread /\ asked[c] # "none" /\ asked'[c] = "none" => asked[c] # "begin"]_vars

\* Every channel that is asked for is measured and reported, also when the
\* event handlers of the others ask again each time, and when the channel is
\* asked for while it is being measured.
Answered == \A c \in Inputs : asked[c] # "none" ~> asked[c] = "none"

\* The one converter serves each channel with a conversion of its own input.
ConverterShared == []ConverterOwned /\ RightInput /\ FreshAnswer /\ Answered

=============================================================================
