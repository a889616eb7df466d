---------------------------- MODULE DeviceProofs ----------------------------
(***************************************************************************)
(* Drivers between a call and its answer.  The converter and the           *)
(* ultrasonic sensor hold what others use; the search of a 1-Wire bus      *)
(* finds everybody, and its thermometers have power when they are used;    *)
(* the other sensors tell of this measurement, the accelerometer watches   *)
(* for its alarm, the CO2 sensor rests and is calibrated; the encoder      *)
(* counts each step; the LED and the buttons show and tell what was asked; *)
(* and the dates of the clock count the days.                              *)
(***************************************************************************)
EXTENDS Adc, HcSr04, OneWire, WellFoundedInduction, FunctionTheorems, FiniteSetTheorems, TLAPS

-----------------------------------------------------------------------------
(***************************************************************************)
(* The one converter is shared correctly by any number of channels.  Who   *)
(* measures without waiting for an interrupt and leaves the result in DR   *)
(* spoils it, until the next such call takes its result: the end of the    *)
(* conversion left behind is taken for that of the next.                   *)
(***************************************************************************)
\* TypeOK, but for the event handlers.
Typed ==
    /\ channel_in_progress \in Inputs \union {NONE}
    /\ state \in {"begin", "reference", "input"}
    /\ pending \in [Channels -> BOOLEAN] /\ \A c \in Channels : pending[c] => c \in Inputs
    /\ value \in [of : Channels \union {NONE}, is : Channels \union {NONE}]
    /\ vdda \in Channels
    /\ adc \in [eocie : BOOLEAN, eoc : BOOLEAN, chselr : Channels,
                running : Channels \union {NONE}, dr : Channels]
    /\ planned \in BOOLEAN /\ starting \in BOOLEAN /\ unread \in BOOLEAN /\ sleep \in {0, 1}
    /\ asked \in [Channels -> {"none", "begin", "begun", "joined"}]

\* The channel that the state asks for: what is converted is one of it.
Selected == IF state = "reference" THEN REFERENCE ELSE channel_in_progress

\* While a measurement waits for an interrupt, the conversion that runs, or
\* the one that has ended, is of the channel selected.
Converted ==
    ~ unread /\ ~ Idle /\ ~ planned =>
        /\ state # "begin"
        /\ adc.running # NONE => adc.running = Selected
        /\ adc.eoc => adc.dr = Selected

\* Once the channel itself is converted, the measurement has begun.
Begun == ~ unread /\ (planned \/ (~ Idle /\ state = "input")) => asked[channel_in_progress] # "begin"

IInv == Typed /\ ConverterOwned /\ Converted /\ Begun

-----------------------------------------------------------------------------
LEMMA LeastNatural ==
    ASSUME NEW T \in SUBSET Nat, T # {}
    PROVE  \E x \in T : \A y \in T : x <= y
<1> DEFINE R == OpToRel(<, Nat)
<1>1. IsWellFoundedOn(R, Nat)
    BY NatLessThanWellFounded
<1>2. PICK x \in T : \A y \in T : ~ (<<y, x>> \in R)
    <2> HIDE DEF R
    <2> QED
        BY <1>1, WFMin
<1>3. \A y \in T : ~ (y < x)
    BY <1>2 DEF OpToRel
<1> QED
    BY <1>3

LEMMA DistanceBounds ==
    ASSUME COUNT \in Nat, COUNT >= 2, NEW start \in Channels, NEW c \in Channels
    PROVE  Distance(start, c) \in Nat
<1>1. c - start \in Int
    BY DEF Channels
<1> QED
    BY <1>1 DEF Distance

\* The search finds one of the channels that wait, if there is any.
LEMMA NextIsCandidate ==
    ASSUME COUNT \in Nat, COUNT >= 2, NEW start \in Channels, Candidates(start) # {}
    PROVE  NextPending(start) \in Candidates(start)
<1> DEFINE D == {Distance(start, c) : c \in Candidates(start)}
<1>1. D \in SUBSET Nat /\ D # {}
    <2>1. \A c \in Candidates(start) : Distance(start, c) \in Nat
        BY DistanceBounds DEF Candidates
    <2> QED
        BY <2>1
<1>2. PICK d \in D : \A e \in D : d <= e
    <2> HIDE DEF D
    <2> QED
        BY <1>1, LeastNatural
<1>3. PICK c \in Candidates(start) : d = Distance(start, c)
    BY <1>2
<1>4. \A other \in Candidates(start) : Distance(start, c) <= Distance(start, other)
    BY <1>2, <1>3
<1> QED
    BY <1>3, <1>4 DEF NextPending

-----------------------------------------------------------------------------
LEMMA InitHolds ==
    ASSUME COUNT \in Nat, COUNT >= 2
    PROVE  Init => IInv
<1>1. REFERENCE \in Channels /\ NONE \notin Channels
    BY DEF Channels, REFERENCE, NONE
<1> SUFFICES ASSUME Init PROVE IInv
    OBVIOUS
<1>2. pending \in [Channels -> BOOLEAN] /\ value \in [of : Channels \union {NONE}, is : Channels \union {NONE}]
    BY DEF Init, NoResult
<1>3. asked \in [Channels -> {"none", "begin", "begun", "joined"}]
    BY DEF Init
<1>4. adc \in [eocie : BOOLEAN, eoc : BOOLEAN, chselr : Channels,
               running : Channels \union {NONE}, dr : Channels]
    BY <1>1 DEF Init
<1>5. Typed
    BY <1>1, <1>2, <1>3, <1>4 DEF Init, Typed
<1>6. ConverterOwned /\ Converted /\ Begun
    BY <1>1 DEF Init, ConverterOwned, AtRest, Converted, Begun, Idle
<1> QED
    BY <1>5, <1>6 DEF IInv

\* A step that leaves the measurements alone.
LEMMA NothingHappens ==
    ASSUME IInv,
           UNCHANGED <<channel_in_progress, state, pending, value, vdda, adc, planned, starting,
                       sleep, unread, asked>>
    PROVE  IInv'
BY DEF IInv, Typed, ConverterOwned, AtRest, Converted, Begun, Idle, Selected

\* What setting ADSTART does to the registers.
LEMMA StartRuns ==
    ASSUME COUNT \in Nat, COUNT >= 2, NEW c \in Channels,
           NEW a \in [eocie : BOOLEAN, eoc : BOOLEAN, chselr : Channels,
                      running : Channels \union {NONE}, dr : Channels]
    PROVE  /\ Start(a, c) \in [eocie : BOOLEAN, eoc : BOOLEAN, chselr : Channels,
                               running : Channels \union {NONE}, dr : Channels]
           /\ Start(a, c).eocie = a.eocie /\ Start(a, c).eoc = a.eoc /\ Start(a, c).dr = a.dr
           /\ Start(a, c).running = IF a.running = NONE THEN c ELSE a.running
           /\ Start(a, c).running # NONE
<1>1. NONE \notin Channels
    BY DEF Channels, NONE
<1> QED
    BY <1>1 DEF Start

\* A measurement begins with the reference.
LEMMA MeasureBegins ==
    ASSUME COUNT \in Nat, COUNT >= 2, Typed, NEW c \in Inputs, NEW lock, Measure(c, lock)
    PROVE  /\ channel_in_progress' = c /\ state' = "reference" /\ sleep' = lock + 1
           /\ adc' \in [eocie : BOOLEAN, eoc : BOOLEAN, chselr : Channels,
                        running : Channels \union {NONE}, dr : Channels]
           /\ adc'.eocie = TRUE /\ adc'.eoc = adc.eoc /\ adc'.running # NONE
           /\ adc.running = NONE => adc'.running = REFERENCE
<1>1. REFERENCE \in Channels
    BY DEF Channels, REFERENCE
<1> DEFINE a == [adc EXCEPT !.eocie = TRUE]
<1>2. a \in [eocie : BOOLEAN, eoc : BOOLEAN, chselr : Channels,
             running : Channels \union {NONE}, dr : Channels]
      /\ a.eocie = TRUE /\ a.eoc = adc.eoc /\ a.running = adc.running
    BY DEF Typed
<1>3. adc' = Start(a, REFERENCE)
    BY DEF Measure
<1> HIDE DEF a
<1> QED
    BY <1>1, <1>2, <1>3, StartRuns DEF Measure

LEMMA AsyncMeasurePreserves ==
    ASSUME COUNT \in Nat, COUNT >= 2, IInv, ~ starting, NEW c \in Inputs, AsyncMeasure(c)
    PROVE  IInv'
<1>1. c \in Channels /\ c # NONE /\ REFERENCE \in Channels /\ REFERENCE # NONE
    BY DEF Inputs, Channels, NONE, REFERENCE
<1>2. pending' \in [Channels -> BOOLEAN] /\ \A d \in Channels : pending'[d] => d \in Inputs
    BY <1>1 DEF AsyncMeasure, IInv, Typed, Idle
<1>3. asked' \in [Channels -> {"none", "begin", "begun", "joined"}]
    BY <1>1 DEF AsyncMeasure, IInv, Typed
<1>4. UNCHANGED <<value, vdda, planned, unread>>
    BY DEF AsyncMeasure
<1>5. CASE Idle /\ AtRest
    <2>1. Measure(c, sleep) /\ ~ planned /\ sleep = 0 /\ UNCHANGED starting
        BY <1>5 DEF AsyncMeasure, IInv, ConverterOwned
    <2>2. /\ channel_in_progress' = c /\ state' = "reference" /\ sleep' = 1
          /\ adc' \in [eocie : BOOLEAN, eoc : BOOLEAN, chselr : Channels,
                       running : Channels \union {NONE}, dr : Channels]
          /\ adc'.eocie = TRUE /\ adc'.eoc = FALSE /\ adc'.running = REFERENCE
        <3>1. Typed /\ adc.running = NONE /\ adc.eoc = FALSE
            BY <1>5 DEF IInv, Typed, AtRest
        <3>2. sleep + 1 = 1
            BY <2>1
        <3> QED
            BY <2>1, <3>1, <3>2, MeasureBegins
    <2>3. Typed'
        BY <1>2, <1>3, <1>4, <2>1, <2>2 DEF IInv, Typed
    <2>4. (ConverterOwned /\ Converted /\ Begun)'
        BY <1>1, <1>4, <2>1, <2>2 DEF ConverterOwned, AtRest, Converted, Begun, Idle, Selected
    <2> QED
        BY <2>3, <2>4 DEF IInv
<1>6. CASE Idle /\ ~ AtRest
    <2>1. Enable(c) /\ unread /\ ~ planned /\ sleep = 0 /\ UNCHANGED sleep
        BY <1>6 DEF AsyncMeasure, IInv, Typed, ConverterOwned
    <2>2. adc' \in [eocie : BOOLEAN, eoc : BOOLEAN, chselr : Channels,
                    running : Channels \union {NONE}, dr : Channels] /\ adc'.eocie = TRUE
        BY <1>1, <2>1 DEF Enable, IInv, Typed
    <2>3. Typed'
        BY <1>2, <1>3, <1>4, <2>1, <2>2 DEF Enable, IInv, Typed
    <2>4. (ConverterOwned /\ Converted /\ Begun)'
        BY <1>1, <1>4, <2>1, <2>2 DEF Enable, ConverterOwned, Converted, Begun, Idle
    <2> QED
        BY <2>3, <2>4 DEF IInv
<1>7. CASE ~ Idle
    <2>1. UNCHANGED <<channel_in_progress, state, adc, starting, sleep>>
        BY <1>7 DEF AsyncMeasure
    <2>2. Typed'
        BY <1>2, <1>3, <1>4, <2>1 DEF IInv, Typed
    <2>3. asked[channel_in_progress] # "begin" => asked'[channel_in_progress] # "begin"
        BY <1>1, <1>7 DEF AsyncMeasure, IInv, Typed
    <2> QED
        BY <1>4, <2>1, <2>2, <2>3
           DEF IInv, ConverterOwned, AtRest, Converted, Begun, Idle, Selected
<1> QED
    BY <1>5, <1>6, <1>7

\* The conversion that the call prepared is started.
LEMMA AdStartPreserves ==
    ASSUME COUNT \in Nat, COUNT >= 2, IInv, AdStart
    PROVE  IInv'
<1>1. starting /\ unread /\ ~ Idle /\ sleep = 0 /\ adc' = Start(adc, adc.chselr)
    BY DEF AdStart, IInv, Typed, ConverterOwned
<1>2. /\ adc' \in [eocie : BOOLEAN, eoc : BOOLEAN, chselr : Channels,
                   running : Channels \union {NONE}, dr : Channels]
      /\ adc'.eocie = adc.eocie /\ adc'.running # NONE
    BY <1>1, StartRuns DEF IInv, Typed
<1>3. /\ starting' = FALSE /\ sleep' = 1
      /\ UNCHANGED <<channel_in_progress, state, pending, value, vdda, planned, unread, asked>>
    BY <1>1 DEF AdStart
<1>4. Typed'
    BY <1>2, <1>3 DEF IInv, Typed
<1>5. ConverterOwned'
    BY <1>1, <1>2, <1>3 DEF IInv, ConverterOwned, Idle
<1>6. (Converted /\ Begun)'
    BY <1>1, <1>3 DEF Converted, Begun
<1> QED
    BY <1>4, <1>5, <1>6 DEF IInv

\* The calls that use the converter without an interrupt, when it is idle.
LEMMA BlockingPreserves ==
    ASSUME COUNT \in Nat, COUNT >= 2, NullResults \subseteq BOOLEAN, IInv,
           Calibration \/ \E c \in Inputs, null \in NullResults : GetValue(c, null)
    PROVE  IInv'
<1>1. REFERENCE \in Channels
    BY DEF Channels, REFERENCE
<1>2. Idle /\ ~ planned /\ ~ starting /\ sleep = 0
    BY DEF Calibration, GetValue, IInv, ConverterOwned
<1>3. CASE Calibration
    <2>1. PICK left \in Left(REFERENCE) :
              adc' = [adc EXCEPT !.chselr = REFERENCE, !.dr = left, !.eoc = FALSE] /\ vdda' = left
        BY <1>3 DEF Calibration
    <2>2. left \in Channels
        BY <1>1, <2>1 DEF Left, IInv, Typed
    <2>3. /\ adc' \in [eocie : BOOLEAN, eoc : BOOLEAN, chselr : Channels,
                       running : Channels \union {NONE}, dr : Channels]
          /\ adc'.eocie = adc.eocie /\ adc'.eoc = FALSE /\ adc'.running = NONE
        BY <1>1, <1>3, <2>1, <2>2 DEF Calibration, IInv, Typed
    <2> QED
        BY <1>2, <1>3, <2>1, <2>2, <2>3
           DEF Calibration, IInv, Typed, ConverterOwned, AtRest, Converted, Begun, Idle
<1>4. ASSUME NEW c \in Inputs, NEW null \in BOOLEAN, GetValue(c, null)
      PROVE  IInv'
    <2>1. c \in Channels
        BY DEF Inputs
    <2> DEFINE a == Start(adc, c)
    <2>2. a \in [eocie : BOOLEAN, eoc : BOOLEAN, chselr : Channels,
                 running : Channels \union {NONE}, dr : Channels]
        BY <2>1, StartRuns DEF IInv, Typed
    <2>3. adc' = [a EXCEPT !.eocie = FALSE, !.running = NONE, !.eoc = null,
                           !.dr = IF adc.running = NONE THEN c ELSE adc.running]
        BY <1>4 DEF GetValue
    <2> HIDE DEF a
    <2>4. (IF adc.running = NONE THEN c ELSE adc.running) \in Channels
        BY <2>1 DEF IInv, Typed
    <2>5. /\ adc' \in [eocie : BOOLEAN, eoc : BOOLEAN, chselr : Channels,
                       running : Channels \union {NONE}, dr : Channels]
          /\ adc'.eocie = FALSE /\ adc'.eoc = null /\ adc'.running = NONE
        BY <2>2, <2>3, <2>4
    <2>6. unread' = null
          /\ UNCHANGED <<channel_in_progress, state, pending, value, vdda, planned, starting,
                         sleep, asked>>
        BY <1>4 DEF GetValue
    <2>7. Typed'
        BY <2>5, <2>6 DEF IInv, Typed
    <2>8. (ConverterOwned /\ Converted /\ Begun)'
        BY <1>2, <2>5, <2>6 DEF ConverterOwned, AtRest, Converted, Begun, Idle
    <2> QED
        BY <2>7, <2>8 DEF IInv
<1> QED
    BY <1>3, <1>4

-----------------------------------------------------------------------------
LEMMA ConversionEndPreserves ==
    ASSUME COUNT \in Nat, COUNT >= 2, IInv, ConversionEnds
    PROVE  IInv'
<1>1. PICK left \in Left(adc.running) :
          adc' = [adc EXCEPT !.running = NONE, !.dr = left, !.eoc = TRUE]
    BY DEF ConversionEnds
<1>2. adc.running \in Channels /\ left \in Channels
    BY <1>1 DEF ConversionEnds, Left, IInv, Typed
<1>3. /\ adc' \in [eocie : BOOLEAN, eoc : BOOLEAN, chselr : Channels,
                   running : Channels \union {NONE}, dr : Channels]
      /\ adc'.eocie = adc.eocie /\ adc'.eoc = TRUE /\ adc'.running = NONE /\ adc'.dr = left
    BY <1>1, <1>2 DEF IInv, Typed
<1>4. UNCHANGED <<channel_in_progress, state, pending, value, vdda, planned, starting, sleep, unread,
                  asked>> /\ adc.running # NONE
    BY DEF ConversionEnds
<1>5. ~ unread => ~ Idle /\ ~ planned /\ left = adc.running
    BY <1>1, <1>4 DEF Left, IInv, ConverterOwned, AtRest
<1>6. Typed'
    BY <1>3, <1>4 DEF IInv, Typed
<1>7. ConverterOwned'
    BY <1>3, <1>4, <1>5 DEF IInv, ConverterOwned, AtRest, Idle
<1>8. (Converted /\ Begun)'
    BY <1>3, <1>4, <1>5 DEF IInv, Converted, Begun, Idle, Selected
<1> QED
    BY <1>6, <1>7, <1>8 DEF IInv

LEMMA ReferenceIrqPreserves ==
    ASSUME COUNT \in Nat, COUNT >= 2, IInv, ReferenceIrq
    PROVE  IInv' /\ (~ unread => vdda' = REFERENCE)
<1>1. ~ Idle /\ ~ planned /\ channel_in_progress \in Channels /\ channel_in_progress # NONE
    BY DEF ReferenceIrq, IInv, Typed, ConverterOwned, Inputs, Idle
<1>2. ReadDR \in [eocie : BOOLEAN, eoc : BOOLEAN, chselr : Channels,
                  running : Channels \union {NONE}, dr : Channels]
      /\ ReadDR.eocie = adc.eocie /\ ReadDR.eoc = FALSE /\ ReadDR.running = adc.running
    BY DEF ReadDR, IInv, Typed
<1>3. /\ adc' \in [eocie : BOOLEAN, eoc : BOOLEAN, chselr : Channels,
                   running : Channels \union {NONE}, dr : Channels]
      /\ adc'.eocie = adc.eocie /\ adc'.eoc = FALSE /\ adc'.running # NONE
      /\ adc'.running = IF adc.running = NONE THEN channel_in_progress ELSE adc.running
    <2>1. adc' = Start(ReadDR, channel_in_progress)
        BY DEF ReferenceIrq
    <2> QED
        BY <1>1, <1>2, <2>1, StartRuns
<1>4. /\ vdda' = adc.dr /\ state' = "input" /\ state = "reference"
      /\ UNCHANGED <<channel_in_progress, pending, value, planned, starting, sleep, unread>>
    BY DEF ReferenceIrq
<1>5. ~ unread => ~ starting /\ adc.running = NONE /\ adc.dr = REFERENCE
    BY <1>1 DEF ReferenceIrq, IInv, Typed, ConverterOwned, Converted, Selected
<1>6. /\ asked' \in [Channels -> {"none", "begin", "begun", "joined"}]
      /\ ~ unread => asked'[channel_in_progress] # "begin"
    BY <1>1, <1>5 DEF ReferenceIrq, IInv, Typed
<1>7. Typed'
    BY <1>3, <1>4, <1>6 DEF IInv, Typed
<1>8. ConverterOwned'
    BY <1>1, <1>3, <1>4 DEF IInv, Typed, ConverterOwned, AtRest, Idle
<1>9. (Converted /\ Begun)'
    BY <1>1, <1>3, <1>4, <1>5, <1>6 DEF Converted, Begun, Idle, Selected
<1> QED
    BY <1>4, <1>5, <1>7, <1>8, <1>9 DEF IInv

LEMMA InputIrqPreserves ==
    ASSUME COUNT \in Nat, COUNT >= 2, IInv, InputIrq
    PROVE  IInv' /\ (~ unread => value' = [of |-> channel_in_progress, is |-> channel_in_progress])
<1>1. ~ Idle /\ ~ planned /\ channel_in_progress \in Channels
    BY DEF InputIrq, IInv, Typed, ConverterOwned, Inputs, Idle
<1>2. /\ adc' \in [eocie : BOOLEAN, eoc : BOOLEAN, chselr : Channels,
                   running : Channels \union {NONE}, dr : Channels]
      /\ adc'.eocie = FALSE /\ adc'.eoc = FALSE /\ adc'.running = adc.running
    BY DEF InputIrq, ReadDR, IInv, Typed
<1>3. /\ value' = [of |-> channel_in_progress, is |-> adc.dr] /\ planned' = TRUE /\ state = "input"
      /\ UNCHANGED <<channel_in_progress, state, pending, vdda, starting, sleep, unread, asked>>
    BY DEF InputIrq
<1>4. ~ unread => ~ starting /\ adc.running = NONE /\ adc.dr = channel_in_progress
    BY <1>1 DEF InputIrq, IInv, Typed, ConverterOwned, Converted, Selected
<1>5. Typed'
    BY <1>1, <1>2, <1>3 DEF IInv, Typed
<1>6. (ConverterOwned /\ Converted /\ Begun)'
    BY <1>1, <1>2, <1>3, <1>4 DEF IInv, ConverterOwned, AtRest, Converted, Begun, Idle
<1> QED
    BY <1>3, <1>4, <1>5, <1>6 DEF IInv

LEMMA TaskPreserves ==
    ASSUME COUNT \in Nat, COUNT >= 2, IInv, Task
    PROVE  IInv'
<1>1. planned /\ ~ Idle /\ ~ starting /\ sleep = 1 /\ channel_in_progress \in Inputs
    BY DEF Task, IInv, Typed, ConverterOwned, Idle
<1>2. channel_in_progress \in Channels /\ ~ adc.eocie
    BY <1>1 DEF Inputs, IInv, ConverterOwned
<1>3. /\ planned' = FALSE /\ asked' = [asked EXCEPT ![channel_in_progress] = "none"]
      /\ value' = NoResult /\ UNCHANGED <<vdda, starting, unread>>
    BY DEF Task
<1>4. asked' \in [Channels -> {"none", "begin", "begun", "joined"}]
      /\ value' \in [of : Channels \union {NONE}, is : Channels \union {NONE}]
    BY <1>2, <1>3 DEF NoResult, IInv, Typed
<1>5. ~ unread => adc.running = NONE /\ adc.eoc = FALSE
    BY <1>1 DEF IInv, Typed, ConverterOwned, AtRest
<1>6. CASE Candidates(channel_in_progress) # {}
    <2> DEFINE next == NextPending(channel_in_progress)
    <2>1. next \in Candidates(channel_in_progress)
        BY <1>2, <1>6, NextIsCandidate
    <2>2. next \in Inputs /\ next \in Channels
        BY <2>1 DEF Candidates, IInv, Typed
    <2>3. Measure(next, sleep - 1) /\ pending' = [pending EXCEPT ![next] = FALSE]
        BY <1>6 DEF Task
    <2> HIDE DEF next
    <2>4. /\ channel_in_progress' = next /\ state' = "reference" /\ sleep' = 1
          /\ adc' \in [eocie : BOOLEAN, eoc : BOOLEAN, chselr : Channels,
                       running : Channels \union {NONE}, dr : Channels]
          /\ adc'.eocie = TRUE /\ adc'.eoc = adc.eoc /\ adc'.running # NONE
          /\ adc.running = NONE => adc'.running = REFERENCE
        <3>1. Typed /\ sleep - 1 + 1 = 1
            BY <1>1 DEF IInv
        <3> QED
            BY <2>2, <2>3, <3>1, MeasureBegins
    <2>5. REFERENCE \in Channels /\ REFERENCE # NONE /\ next # NONE
        BY <2>2 DEF Channels, REFERENCE, NONE
    <2>6. Typed'
        BY <1>3, <1>4, <2>2, <2>3, <2>4 DEF IInv, Typed
    <2>7. (ConverterOwned /\ Converted /\ Begun)'
        BY <1>1, <1>3, <1>5, <2>4, <2>5 DEF ConverterOwned, AtRest, Converted, Begun, Idle, Selected
    <2> QED
        BY <2>6, <2>7 DEF IInv
<1>7. CASE Candidates(channel_in_progress) = {}
    <2>1. channel_in_progress' = NONE /\ sleep' = 0 /\ UNCHANGED <<state, adc, pending>>
        BY <1>1, <1>7 DEF Task
    <2>2. Typed'
        BY <1>3, <1>4, <2>1 DEF IInv, Typed
    <2>3. (ConverterOwned /\ Converted /\ Begun)'
        BY <1>1, <1>2, <1>3, <1>5, <2>1 DEF ConverterOwned, AtRest, Converted, Begun, Idle
    <2> QED
        BY <2>2, <2>3 DEF IInv
<1> QED
    BY <1>6, <1>7

LEMMA NextPreserves ==
    ASSUME COUNT \in Nat, COUNT >= 2, NullResults \subseteq BOOLEAN, IInv, [Next]_vars
    PROVE  IInv'
<1>1. ASSUME NEW c \in Inputs, ~ starting, AsyncMeasure(c) PROVE IInv'
    BY <1>1, AsyncMeasurePreserves
<1>2. CASE Calibration \/ \E c \in Inputs, null \in NullResults : GetValue(c, null)
    BY <1>2, BlockingPreserves
<1>3. CASE (\E c \in Listeners : SetEventHandler(c)) \/ HandlerReturns \/ UNCHANGED vars
    BY <1>3, NothingHappens DEF SetEventHandler, HandlerReturns, vars
<1>4. CASE AdStart \/ ConversionEnds
    BY <1>4, AdStartPreserves, ConversionEndPreserves
<1>5. CASE ReferenceIrq \/ InputIrq
    BY <1>5, ReferenceIrqPreserves, InputIrqPreserves
<1>6. CASE Task
    BY <1>6, TaskPreserves
<1> QED
    BY <1>1, <1>2, <1>3, <1>4, <1>5, <1>6 DEF Next, Call, Works

\* Only the task tells a channel's client, of a conversion begun since.
LEMMA TaskAnswersBegun ==
    ASSUME COUNT \in Nat, COUNT >= 2, IInv, Next, NEW c \in Inputs, ~ unread,
           asked[c] # "none", asked'[c] = "none"
    PROVE  asked[c] # "begin"
<1>1. c \in Channels
    BY DEF Inputs
<1>2. CASE Task
    <2>1. c = channel_in_progress
        BY <1>1, <1>2 DEF Task, IInv, Typed
    <2> QED
        BY <1>1, <1>2, <2>1 DEF Task, IInv, Typed, Begun
<1>3. CASE ReferenceIrq
    BY <1>1, <1>3 DEF ReferenceIrq, IInv, Typed
<1>4. CASE Call
    BY <1>1, <1>4 DEF Call, AsyncMeasure, GetValue, Calibration, SetEventHandler, IInv, Typed
<1>5. CASE AdStart \/ ConversionEnds \/ InputIrq \/ HandlerReturns
    BY <1>5 DEF AdStart, ConversionEnds, InputIrq, HandlerReturns
<1> QED
    BY <1>2, <1>3, <1>4, <1>5 DEF Next, Works

\* VDDA and the results are kept of what was to be converted for them.
LEMMA KeptIsRight ==
    ASSUME COUNT \in Nat, COUNT >= 2, IInv, Next, ~ unread
    PROVE  /\ vdda' # vdda \/ (state = "reference" /\ state' = "input") => vdda' = REFERENCE
           /\ ~ planned /\ planned' =>
                value' = [of |-> channel_in_progress, is |-> channel_in_progress]
<1>1. CASE ReferenceIrq
    BY <1>1, ReferenceIrqPreserves DEF ReferenceIrq
<1>2. CASE InputIrq
    BY <1>2, InputIrqPreserves DEF InputIrq
<1>3. CASE Calibration
    BY <1>3 DEF Calibration, Left
<1>4. CASE Task
    BY <1>4 DEF Task, Measure
<1>5. CASE AdStart \/ ConversionEnds \/ HandlerReturns
    <2>1. UNCHANGED <<vdda, state, planned>>
        BY <1>5 DEF AdStart, ConversionEnds, HandlerReturns
    <2> QED
        BY <2>1
<1>6. ASSUME NEW c, AsyncMeasure(c) \/ SetEventHandler(c) \/ \E null \in NullResults : GetValue(c, null)
      PROVE  UNCHANGED <<vdda, planned>> /\ (state' = "input" => state = "input")
    BY <1>6 DEF AsyncMeasure, Measure, Enable, SetEventHandler, GetValue
<1> QED
    BY <1>1, <1>2, <1>3, <1>4, <1>5, <1>6 DEF Next, Call, Works

-----------------------------------------------------------------------------
\* For any number of channels and whatever they ask for in which order: the
\* device is awake and the converter taken for exactly as long as there is a
\* measurement; and, unless the latest get_value left its result in DR, VDDA
\* and the results are of their own inputs, and a client that asked for a
\* channel while it was not being measured is told of a conversion that began
\* after it asked.
THEOREM SharedSafely ==
    ASSUME COUNT \in Nat, COUNT >= 2, NullResults \subseteq BOOLEAN
    PROVE  Spec => []ConverterOwned /\ RightInput /\ FreshAnswer
<1>1. Init => IInv
    BY InitHolds
<1>2. IInv /\ [Next]_vars => IInv'
    BY NextPreserves
<1>3. IInv => ConverterOwned
    BY DEF IInv
<1>4. IInv /\ [Next]_vars
        => [~ unread =>
              /\ vdda' # vdda \/ (state = "reference" /\ state' = "input") => vdda' = REFERENCE
              /\ ~ planned /\ planned' =>
                   value' = [of |-> channel_in_progress, is |-> channel_in_progress]]_vars
    BY KeptIsRight
<1>5. IInv /\ [Next]_vars
        => [\A c \in Inputs :
              ~ unread /\ asked[c] # "none" /\ asked'[c] = "none" => asked[c] # "begin"]_vars
    BY TaskAnswersBegun
<1> QED
    BY <1>1, <1>2, <1>3, <1>4, <1>5, PTL DEF Spec, RightInput, FreshAnswer

-----------------------------------------------------------------------------
(***************************************************************************)
(* A measurement of the ultrasonic sensor holds what it needs for as long  *)
(* as it lasts, and tells of an echo of its own only, however the edges,   *)
(* the timeout, the interrupt and the calls follow on one another.         *)
(***************************************************************************)
\* EchoTypeOK, but for the flags of the task and what the handler was told.
EchoTyped ==
    /\ measuring \in BOOLEAN
    /\ line \in {0, 1} /\ edges \in Seq({0, 1}) /\ Len(edges) <= 3

\* The edges taken by the timer are those since the measurement was accepted:
\* from the third one on they have left an overcapture flag, and of two that
\* begin with a falling one the distance is too long for an echo.
Followed ==
    capture =>
        /\ Len(edges) = 0 => "rising" \notin flags /\ "falling" \notin flags
        /\ Len(edges) = 1 =>
              /\ edges[1] = line
              /\ IF line = 1 THEN "rising" \in flags /\ "falling" \notin flags
                 ELSE "falling" \in flags /\ "rising" \notin flags
        /\ Len(edges) = 2 =>
              /\ edges[2] = line /\ "rising" \in flags /\ "falling" \in flags
              /\ IF line = 1 THEN edges[1] = 0 /\ long ELSE edges[1] = 1
        /\ Len(edges) = 3 => "rising twice" \in flags \/ "falling twice" \in flags

\* What makes an echo the measurement's own.
Own == Len(edges) >= 2 /\ edges[1] = 1 /\ edges[2] = 0

ValidIsOwn == measuring /\ echo_valid => Own

EchoInv == EchoTyped /\ HeldWhileMeasuring /\ Followed /\ ValidIsOwn

-----------------------------------------------------------------------------
LEMMA EchoInitHolds == EchoInit => EchoInv
<1>1. SUFFICES ASSUME EchoInit PROVE EchoInv
  OBVIOUS
<1>2. edges \in Seq({0, 1}) /\ Len(edges) = 0
  BY <1>1 DEF EchoInit
<1>3. EchoTyped
  <2>1. measuring \in BOOLEAN /\ line \in {0, 1}
    BY <1>1 DEF EchoInit
  <2>2. Len(edges) <= 3
    BY <1>2
  <2> QED
    BY <1>2, <2>1, <2>2 DEF EchoTyped
<1>4. HeldWhileMeasuring
  BY <1>1 DEF EchoInit, HeldWhileMeasuring
<1>5. ~ capture /\ ~ measuring
  BY <1>1 DEF EchoInit
<1> QED
  BY <1>3, <1>4, <1>5 DEF EchoInv, Followed, ValidIsOwn

\* A measurement that is accepted begins anew; another changes nothing.
LEMMA AcceptedPreserves ==
  ASSUME EchoInv, Accepted, UNCHANGED <<line, long>>
  PROVE  EchoInv'
<1>1. CASE measuring
  BY <1>1 DEF Accepted, EchoInv, EchoTyped, HeldWhileMeasuring, Followed, ValidIsOwn, Own
<1>2. CASE ~ measuring
  <2>1. measuring' = TRUE /\ echo_valid' = FALSE /\ flags' = {} /\ edges' = <<>>
    BY <1>2 DEF Accepted
  <2>2. edges' \in Seq({0, 1}) /\ Len(edges') = 0
    BY <2>1
  <2>3. EchoTyped'
    BY <2>1, <2>2 DEF EchoInv, EchoTyped
  <2>4. HeldWhileMeasuring'
    BY <1>2 DEF Accepted, EchoInv, HeldWhileMeasuring
  <2>5. Followed'
    BY <2>1, <2>2 DEF Followed
  <2>6. ValidIsOwn'
    BY <2>1 DEF ValidIsOwn
  <2> QED
    BY <2>3, <2>4, <2>5, <2>6 DEF EchoInv
<1> QED
  BY <1>1, <1>2

LEMMA CallPreserves ==
  ASSUME EchoInv, EchoMeasure \/ SetUpdateInterval \/ IntervalTask
  PROVE  EchoInv'
<1>1. CASE EchoMeasure \/ IntervalTask
  BY <1>1, AcceptedPreserves DEF EchoMeasure, IntervalTask, EchoInv, EchoTyped
<1>2. CASE SetUpdateInterval
  <2>1. CASE echo_interval' = TRUE /\ Accepted
    BY <1>2, <2>1, AcceptedPreserves DEF SetUpdateInterval
  <2>2. CASE UNCHANGED <<measuring, echo_valid, notify, echo_pll, capture, flags, edges, echo_told>>
    BY <1>2, <2>2 DEF SetUpdateInterval, EchoInv, EchoTyped, HeldWhileMeasuring, Followed, ValidIsOwn, Own
  <2> QED
    BY <1>2, <2>1, <2>2 DEF SetUpdateInterval
<1> QED
  BY <1>1, <1>2

-----------------------------------------------------------------------------
LEMMA LengthCases ==
  ASSUME NEW s \in Seq({0, 1}), Len(s) <= 3
  PROVE  Len(s) = 0 \/ Len(s) = 1 \/ Len(s) = 2 \/ Len(s) = 3
<1> PICK n \in Nat : n = Len(s)
  OBVIOUS
<1> QED
  OBVIOUS

LEMMA LengthIsOne ==
  ASSUME NEW s
  PROVE  /\ Len(s) = 1 => Len(s) # 0 /\ Len(s) # 2 /\ Len(s) # 3 /\ Len(s) <= 3
         /\ Len(s) = 2 => Len(s) # 0 /\ Len(s) # 1 /\ Len(s) # 3 /\ Len(s) <= 3
         /\ Len(s) = 3 => Len(s) # 0 /\ Len(s) # 1 /\ Len(s) # 2 /\ Len(s) <= 3
<1>1. Len(s) = 1 => Len(s) # 0 /\ Len(s) # 2 /\ Len(s) # 3 /\ Len(s) <= 3
  OBVIOUS
<1>2. Len(s) = 2 => Len(s) # 0 /\ Len(s) # 1 /\ Len(s) # 3 /\ Len(s) <= 3
  OBVIOUS
<1>3. Len(s) = 3 => Len(s) # 0 /\ Len(s) # 1 /\ Len(s) # 2 /\ Len(s) <= 3
  OBVIOUS
<1> QED
  BY <1>1, <1>2, <1>3

LEMMA AppendIs ==
  ASSUME NEW s \in Seq({0, 1}), NEW x \in {0, 1}
  PROVE  /\ Append(s, x) \in Seq({0, 1}) /\ Len(Append(s, x)) = Len(s) + 1
         /\ Append(s, x)[Len(s) + 1] = x
         /\ \A k \in 1 .. Len(s) : Append(s, x)[k] = s[k]
OBVIOUS

\* An edge is one more, unless three are kept already.
LEMMA EdgeAppended ==
  ASSUME EchoInv, Edge
  PROVE  /\ line' = 1 - line /\ line' \in {0, 1} /\ edges' \in Seq({0, 1})
         /\ Len(edges) = 0 => Len(edges') = 1 /\ edges'[1] = line'
         /\ Len(edges) = 1 => Len(edges') = 2 /\ edges'[1] = edges[1] /\ edges'[2] = line'
         /\ Len(edges) = 2 => Len(edges') = 3 /\ edges'[1] = edges[1] /\ edges'[2] = edges[2]
         /\ Len(edges) = 3 => edges' = edges
<1>1. line \in {0, 1} /\ edges \in Seq({0, 1}) /\ Len(edges) <= 3
  BY DEF EchoInv, EchoTyped
<1>2. line' = 1 - line
  BY DEF Edge
<1>3. line' \in {0, 1}
  BY <1>1, <1>2
<1>4. edges' = IF Len(edges) < 3 THEN Append(edges, line') ELSE edges
  BY DEF Edge
<1>5. edges' \in Seq({0, 1})
  BY <1>1, <1>3, <1>4
<1>6. ASSUME Len(edges) < 3
      PROVE  /\ Len(edges') = Len(edges) + 1 /\ edges'[Len(edges) + 1] = line'
             /\ \A k \in 1 .. Len(edges) : edges'[k] = edges[k]
  <2>1. edges' = Append(edges, line')
    BY <1>4, <1>6
  <2> QED
    BY <1>1, <1>3, <2>1, AppendIs
<1>7. Len(edges) = 0 => Len(edges') = 1 /\ edges'[1] = line'
  BY <1>6
<1>8. Len(edges) = 1 => Len(edges') = 2 /\ edges'[1] = edges[1] /\ edges'[2] = line'
  BY <1>6
<1>9. Len(edges) = 2 => Len(edges') = 3 /\ edges'[1] = edges[1] /\ edges'[2] = edges[2]
  BY <1>6
<1>10. Len(edges) = 3 => edges' = edges
  BY <1>4
<1> QED
  BY <1>2, <1>3, <1>5, <1>7, <1>8, <1>9, <1>10

LEMMA EdgeFollowed ==
  ASSUME EchoInv, Edge
  PROVE  Followed'
<1>1. SUFFICES ASSUME capture PROVE Followed'
  BY DEF Edge, Followed
<1>2. line \in {0, 1}
  BY DEF EchoInv, EchoTyped
<1>3. CASE line = 0
  <2>1. flags' = Captured("rising", "rising twice") /\ long' = ("falling" \in flags)
    BY <1>1, <1>3 DEF Edge
  <2>2. /\ "rising" \in flags' /\ ("falling" \in flags' <=> "falling" \in flags)
        /\ "rising" \in flags => "rising twice" \in flags'
        /\ "rising twice" \in flags => "rising twice" \in flags'
        /\ "falling twice" \in flags => "falling twice" \in flags'
        /\ long' <=> "falling" \in flags
    BY <2>1 DEF Captured
  <2>3. line' = 1
    BY <1>3, EdgeAppended
  <2>4. CASE Len(edges) = 0
    <3>1. "falling" \notin flags'
      BY <1>1, <2>2, <2>4 DEF EchoInv, Followed
    <3>2. Len(edges') = 1 /\ edges'[1] = line'
      BY <2>4, EdgeAppended
    <3> QED
      BY <2>2, <2>3, <3>1, <3>2, LengthIsOne DEF Followed
  <2>5. CASE Len(edges) = 1
    <3>1. edges[1] = 0 /\ "falling" \in flags'
      BY <1>1, <1>3, <2>2, <2>5 DEF EchoInv, Followed
    <3>2. Len(edges') = 2 /\ edges'[1] = edges[1] /\ edges'[2] = line'
      BY <2>5, EdgeAppended
    <3> QED
      BY <2>2, <2>3, <3>1, <3>2, LengthIsOne DEF Followed
  <2>6. CASE Len(edges) = 2
    <3>1. "rising twice" \in flags'
      BY <1>1, <2>2, <2>6 DEF EchoInv, Followed
    <3>2. Len(edges') = 3
      BY <2>6, EdgeAppended
    <3> QED
      BY <3>1, <3>2, LengthIsOne DEF Followed
  <2>7. CASE Len(edges) = 3
    <3>1. "rising twice" \in flags' \/ "falling twice" \in flags'
      BY <1>1, <2>2, <2>7 DEF EchoInv, Followed
    <3>2. Len(edges') = 3
      BY <2>7, EdgeAppended
    <3> QED
      BY <3>1, <3>2, LengthIsOne DEF Followed
  <2>8. Len(edges) = 0 \/ Len(edges) = 1 \/ Len(edges) = 2 \/ Len(edges) = 3
    BY LengthCases DEF EchoInv, EchoTyped
  <2> QED
    BY <2>4, <2>5, <2>6, <2>7, <2>8
<1>4. CASE line = 1
  <2>1. flags' = Captured("falling", "falling twice") /\ long' = long
    <3>1. line # 0
      BY <1>4
    <3> QED
      BY <1>1, <3>1 DEF Edge
  <2>2. /\ "falling" \in flags' /\ ("rising" \in flags' <=> "rising" \in flags)
        /\ "falling" \in flags => "falling twice" \in flags'
        /\ "rising twice" \in flags => "rising twice" \in flags'
        /\ "falling twice" \in flags => "falling twice" \in flags'
    BY <2>1 DEF Captured
  <2>3. line' = 0
    BY <1>4, EdgeAppended
  <2>4. CASE Len(edges) = 0
    <3>1. "rising" \notin flags'
      BY <1>1, <2>2, <2>4 DEF EchoInv, Followed
    <3>2. Len(edges') = 1 /\ edges'[1] = line'
      BY <2>4, EdgeAppended
    <3> QED
      BY <2>2, <2>3, <3>1, <3>2, LengthIsOne DEF Followed
  <2>5. CASE Len(edges) = 1
    <3>1. edges[1] = 1 /\ "rising" \in flags'
      BY <1>1, <1>4, <2>2, <2>5 DEF EchoInv, Followed
    <3>2. Len(edges') = 2 /\ edges'[1] = edges[1] /\ edges'[2] = line'
      BY <2>5, EdgeAppended
    <3> QED
      BY <2>2, <2>3, <3>1, <3>2, LengthIsOne DEF Followed
  <2>6. CASE Len(edges) = 2
    <3>1. "falling twice" \in flags'
      BY <1>1, <2>2, <2>6 DEF EchoInv, Followed
    <3>2. Len(edges') = 3
      BY <2>6, EdgeAppended
    <3> QED
      BY <3>1, <3>2, LengthIsOne DEF Followed
  <2>7. CASE Len(edges) = 3
    <3>1. "rising twice" \in flags' \/ "falling twice" \in flags'
      BY <1>1, <2>2, <2>7 DEF EchoInv, Followed
    <3>2. Len(edges') = 3
      BY <2>7, EdgeAppended
    <3> QED
      BY <3>1, <3>2, LengthIsOne DEF Followed
  <2>8. Len(edges) = 0 \/ Len(edges) = 1 \/ Len(edges) = 2 \/ Len(edges) = 3
    BY LengthCases DEF EchoInv, EchoTyped
  <2> QED
    BY <2>4, <2>5, <2>6, <2>7, <2>8
<1> QED
  BY <1>2, <1>3, <1>4

LEMMA EdgePreserves ==
  ASSUME EchoInv, Edge
  PROVE  EchoInv'
<1>1. EchoTyped'
  <2>1. measuring' = measuring
    BY DEF Edge
  <2>2. Len(edges') = 1 \/ Len(edges') = 2 \/ Len(edges') = 3
    BY EdgeAppended, LengthCases DEF EchoInv, EchoTyped
  <2>3. Len(edges') <= 3
    BY <2>2, LengthIsOne
  <2> QED
    BY <2>1, <2>3, EdgeAppended DEF EchoInv, EchoTyped
<1>2. HeldWhileMeasuring'
  BY DEF Edge, EchoInv, HeldWhileMeasuring
<1>3. ValidIsOwn'
  <2>1. Own => Own'
    BY EdgeAppended, LengthCases DEF Own, EchoInv, EchoTyped
  <2>2. UNCHANGED <<measuring, echo_valid>>
    BY DEF Edge
  <2> QED
    BY <2>1, <2>2 DEF EchoInv, ValidIsOwn
<1> QED
  BY <1>1, <1>2, <1>3, EdgeFollowed DEF EchoInv

-----------------------------------------------------------------------------
\* The interrupt takes the two edges for an echo only if they are one.
LEMMA TimerIrqPreserves ==
  ASSUME EchoInv, TimerIrq
  PROVE  EchoInv'
<1>1. EchoTyped' /\ Followed'
  BY DEF TimerIrq, EchoInv, EchoTyped, Followed
<1>2. HeldWhileMeasuring'
  BY DEF TimerIrq, EchoInv, HeldWhileMeasuring
<1>3. ValidIsOwn'
  <2>1. CASE flags = {"rising", "falling"} /\ ~ long
    <3>1. capture /\ UNCHANGED edges
      BY DEF TimerIrq
    <3>2. Len(edges) \in {0, 1, 2, 3} /\ line \in {0, 1}
      BY LengthCases DEF EchoInv, EchoTyped
    <3>3. Len(edges) # 0 /\ Len(edges) # 3
      BY <2>1, <3>1 DEF EchoInv, Followed
    <3>4. Len(edges) # 1
      BY <2>1, <3>1 DEF EchoInv, Followed
    <3>5. Own
      BY <2>1, <3>1, <3>2, <3>3, <3>4 DEF EchoInv, Followed, Own
    <3> QED
      BY <3>1, <3>5 DEF ValidIsOwn, Own
  <2>2. CASE ~ (flags = {"rising", "falling"} /\ ~ long)
    BY <2>2 DEF TimerIrq, EchoInv, ValidIsOwn, Own
  <2> QED
    BY <2>1, <2>2
<1> QED
  BY <1>1, <1>2, <1>3 DEF EchoInv

LEMMA EchoNextPreserves == EchoInv /\ [EchoNext]_echoVars => EchoInv'
<1>1. SUFFICES ASSUME EchoInv, [EchoNext]_echoVars PROVE EchoInv'
  OBVIOUS
<1>2. CASE EchoMeasure \/ SetUpdateInterval \/ IntervalTask
  BY <1>1, <1>2, CallPreserves
<1>3. CASE Edge
  BY <1>1, <1>3, EdgePreserves
<1>4. CASE Lasts
  BY <1>1, <1>4 DEF Lasts, EchoInv, EchoTyped, HeldWhileMeasuring, Followed, ValidIsOwn, Own
<1>5. CASE Timeout
  <2>1. Followed'
    BY <1>1, <1>5 DEF Timeout, EchoInv, Followed
  <2> QED
    BY <1>1, <1>5, <2>1 DEF Timeout, EchoInv, EchoTyped, HeldWhileMeasuring, ValidIsOwn, Own
<1>6. CASE TimerIrq
  BY <1>1, <1>6, TimerIrqPreserves
<1>7. CASE NotifyTask
  <2>1. EchoTyped' /\ Followed' /\ ValidIsOwn'
    BY <1>1, <1>7 DEF NotifyTask, EchoInv, EchoTyped, Followed, ValidIsOwn
  <2>2. HeldWhileMeasuring'
    BY <1>1, <1>7 DEF NotifyTask, EchoInv, HeldWhileMeasuring
  <2> QED
    BY <2>1, <2>2 DEF EchoInv
<1>8. CASE UNCHANGED echoVars
  BY <1>1, <1>8 DEF echoVars, EchoInv, EchoTyped, HeldWhileMeasuring, Followed, ValidIsOwn, Own
<1> QED
  BY <1>1, <1>2, <1>3, <1>4, <1>5, <1>6, <1>7, <1>8 DEF EchoNext, EchoWorks

\* However the edges, the timeout, the interrupt and the calls come: the PLL
\* and the task that tells are held for exactly as long as a measurement
\* lasts, and an update is told of an echo that rose and fell within it.
THEOREM EchoesAreOwn == EchoSpec => []HeldWhileMeasuring /\ EchoIsOwn
<1>1. EchoInit => EchoInv
  BY EchoInitHolds
<1>2. EchoInv /\ [EchoNext]_echoVars => EchoInv'
  BY EchoNextPreserves
<1>3. EchoInv => HeldWhileMeasuring
  BY DEF EchoInv
<1>4. EchoInv /\ [EchoNext]_echoVars
        => [echo_told # "update" /\ echo_told' = "update" =>
              Len(edges) >= 2 /\ edges[1] = 1 /\ edges[2] = 0]_echoVars
  <2>1. SUFFICES ASSUME EchoInv, EchoNext, echo_told # "update", echo_told' = "update" PROVE Own
    BY DEF Own
  <2>2. NotifyTask
    BY <2>1 DEF EchoNext, EchoWorks, EchoMeasure, SetUpdateInterval, IntervalTask, Accepted, Edge, Lasts,
                Timeout, TimerIrq
  <2>3. measuring /\ echo_valid
    BY <2>1, <2>2 DEF NotifyTask, EchoInv, HeldWhileMeasuring
  <2> QED
    BY <2>1, <2>3 DEF EchoInv, ValidIsOwn
<1> QED
  BY <1>1, <1>2, <1>3, <1>4, PTL DEF EchoSpec, EchoIsOwn

-----------------------------------------------------------------------------
(***************************************************************************)
(* The search of a 1-Wire bus finds what is there, for numbers of any      *)
(* width and any number of devices.  A pass is followed bit by bit: what   *)
(* it has picked is the way of at least one device, and at every device    *)
(* that left it the direction decided.  So the next pass meets the next    *)
(* device in the order of the numbers, as long as one is left that shares  *)
(* the way to the bit at which it is to turn.                              *)
(***************************************************************************)
Vectors == [1 .. Bits -> Bit]

\* The first k bits are the same.
Agree(c, d, k) == \A j \in 1 .. k : c[j] = d[j]

\* Two numbers have a first bit in which they differ.
LEMMA FirstSplit ==
    ASSUME NEW c \in Vectors, NEW d \in Vectors, c # d
    PROVE  \E k \in 1 .. Bits : Agree(c, d, k - 1) /\ c[k] # d[k]
<1> DEFINE T == {k \in 1 .. Bits : c[k] # d[k]}
<1>1. T # {}
  <2> SUFFICES ASSUME T = {} PROVE FALSE
    OBVIOUS
  <2>1. c = [k \in 1 .. Bits |-> c[k]] /\ d = [k \in 1 .. Bits |-> d[k]]
    BY DEF Vectors
  <2>2. \A k \in 1 .. Bits : c[k] = d[k]
    OBVIOUS
  <2> QED BY <2>1, <2>2
<1>2. T \in SUBSET Nat
  BY SearchAssumption
<1>3. PICK k \in T : \A m \in T : k <= m
  BY <1>1, <1>2, LeastNatural
<1>4. ASSUME NEW j \in 1 .. k - 1 PROVE c[j] = d[j]
  <2>1. k \in 1 .. Bits /\ j \in 1 .. Bits /\ ~ k <= j
    BY <1>3, SearchAssumption
  <2> QED BY <1>3, <2>1
<1> QED BY <1>3, <1>4 DEF Agree

\* The order of the numbers is a strict one, and total.
LEMMA InOrder ==
    ASSUME NEW c \in Vectors, NEW d \in Vectors, c # d
    PROVE  Precedes(c, d) \/ Precedes(d, c)
<1>1. PICK k \in 1 .. Bits : Agree(c, d, k - 1) /\ c[k] # d[k]
  BY FirstSplit
<1>2. c[k] \in 0 .. 1 /\ d[k] \in 0 .. 1
  BY DEF Vectors, Bit
<1>3. c[k] < d[k] \/ d[k] < c[k]
  BY <1>1, <1>2
<1> QED BY <1>1, <1>3 DEF Precedes, Agree

LEMMA NotItself ==
    ASSUME NEW c \in Vectors
    PROVE  ~ Precedes(c, c)
<1>1. \A k \in 1 .. Bits : c[k] \in Int
  BY DEF Vectors, Bit
<1> QED BY <1>1 DEF Precedes

LEMMA Onwards ==
    ASSUME NEW c \in Vectors, NEW d \in Vectors, NEW e \in Vectors,
           Precedes(c, d), Precedes(d, e)
    PROVE  Precedes(c, e)
<1>1. PICK k \in 1 .. Bits : c[k] < d[k] /\ \A j \in 1 .. k - 1 : c[j] = d[j]
  BY DEF Precedes
<1>2. PICK m \in 1 .. Bits : d[m] < e[m] /\ \A j \in 1 .. m - 1 : d[j] = e[j]
  BY DEF Precedes
<1>3. \A j \in 1 .. Bits : c[j] \in Int /\ d[j] \in Int /\ e[j] \in Int
  BY DEF Vectors, Bit
<1>4. CASE k <= m
  <2>1. c[k] < e[k]
    BY <1>1, <1>2, <1>3, <1>4
  <2>2. \A j \in 1 .. k - 1 : c[j] = e[j]
    BY <1>1, <1>2, <1>4
  <2> QED BY <2>1, <2>2 DEF Precedes
<1>5. CASE ~ k <= m
  <2>1. c[m] < e[m]
    BY <1>1, <1>2, <1>3, <1>5
  <2>2. \A j \in 1 .. m - 1 : c[j] = e[j]
    BY <1>1, <1>2, <1>5
  <2> QED BY <2>1, <2>2 DEF Precedes
<1> QED BY <1>4, <1>5

\* At its k-th bit, r goes for 0, and there is a device that goes for 1.
Turns(r, k, D) == r[k] = 0 /\ \E d \in D : Agree(d, r, k - 1) /\ d[k] = 1

\* The last such bit of the first k.
LastTurn(z, r, k, D) ==
    /\ z \in 0 .. k
    /\ z # 0 => Turns(r, z, D)
    /\ \A j \in z + 1 .. k : ~ Turns(r, j, D)

\* Where a device left the way of r, the direction decided.
Chosen(r, k) ==
    \A d \in devices : Agree(d, r, k - 1) /\ d[k] # r[k] => r[k] = Direction(k, last_rom_no)

\* What is true of a pass after its first k bits.
Follows(q, k) ==
    /\ q.rom \in Vectors
    /\ \A j \in k + 1 .. Bits : q.rom[j] = last_rom_no[j]
    /\ q.addressed = {d \in devices : Agree(d, q.rom, k)}
    /\ q.addressed # {}
    /\ LastTurn(q.last_zero, q.rom, k, devices)
    /\ \A j \in 1 .. k : Chosen(q.rom, j)

\* A bit more.
LEMMA AskedFollows ==
    ASSUME devices \subseteq Vectors, last_rom_no \in Vectors, last_discrepancy \in 0 .. Bits,
           NEW q, NEW k \in 1 .. Bits, Follows(q, k - 1)
    PROVE  Follows(Asked(q, k), k)
<1> DEFINE A == q.addressed
           r == q.rom
           z == q.last_zero
           answers == {d[k] : d \in A}
           b == IF answers = Bit THEN Direction(k, r) ELSE CHOOSE a \in answers : TRUE
           s == [r EXCEPT ![k] = b]
           y == IF answers = Bit /\ b = 0 THEN k ELSE z
<1>1. /\ Asked(q, k).addressed = {d \in A : d[k] = b}
      /\ Asked(q, k).rom = s /\ Asked(q, k).last_zero = y
  BY DEF Asked, LastZero
<1>2. /\ r \in Vectors /\ A # {} /\ A = {d \in devices : Agree(d, r, k - 1)}
      /\ LastTurn(z, r, k - 1, devices) /\ (\A j \in 1 .. k - 1 : Chosen(r, j))
      /\ \A j \in k .. Bits : r[j] = last_rom_no[j]
  <2>1. (k - 1) + 1 = k
    OBVIOUS
  <2> QED BY <2>1 DEF Follows
<1>0. Bits \in Nat /\ k \in Nat /\ k >= 1 /\ k <= Bits
  BY SearchAssumption
<1>3. answers \subseteq Bit /\ answers # {}
  <2>1. \A d \in devices : d[k] \in Bit
    BY DEF Vectors
  <2>2. A \subseteq devices
    BY <1>2
  <2> QED BY <1>2, <2>1, <2>2
<1>4. Direction(k, r) \in Bit /\ Direction(k, r) = Direction(k, last_rom_no)
  <2>1. r[k] \in Bit /\ r[k] = last_rom_no[k]
    BY <1>2 DEF Vectors
  <2> QED BY <2>1 DEF Direction, Bit
<1>5. b \in answers
  <2>1. CASE answers = Bit
    BY <1>4, <2>1
  <2>2. CASE answers # Bit
    BY <1>3, <2>2
  <2> QED BY <2>1, <2>2
<1>6. b \in Bit
  BY <1>3, <1>5
<1>7. answers # Bit => answers = {b}
  <2> HIDE DEF b, answers
  <2>1. Bit = {0, 1}
    BY DEF Bit
  <2> QED BY <1>3, <1>5, <2>1
<1>8. b # Direction(k, last_rom_no) => answers = {b}
  BY <1>4, <1>7
<1>9. \A d \in A : d[k] \in answers
  OBVIOUS
<1>10. PICK e \in A : e[k] = b
  <2> HIDE DEF b
  <2> QED BY <1>5
<1> HIDE DEF b, answers
<1>11. /\ s \in Vectors /\ s[k] = b
       /\ \A j \in 1 .. Bits : j # k => s[j] = r[j]
  BY <1>2, <1>6 DEF Vectors
<1> HIDE DEF s
<1>12. ASSUME NEW d, NEW j \in 0 .. k - 1
       PROVE  Agree(d, s, j) <=> Agree(d, r, j)
  <2>1. \A i \in 1 .. j : i \in 1 .. Bits /\ i # k
    BY <1>0
  <2>2. \A i \in 1 .. j : s[i] = r[i]
    BY <1>11, <2>1
  <2> QED BY <2>2 DEF Agree
<1>13. ASSUME NEW d PROVE Agree(d, s, k) <=> Agree(d, r, k - 1) /\ d[k] = b
  <2>1. 1 .. k = (1 .. k - 1) \cup {k}
    BY <1>0
  <2>2. Agree(d, s, k) <=> Agree(d, s, k - 1) /\ d[k] = s[k]
    BY <2>1 DEF Agree
  <2>3. k - 1 \in 0 .. k - 1
    BY <1>0
  <2> QED BY <1>11, <1>12, <2>2, <2>3
<1>14. {d \in A : d[k] = b} = {d \in devices : Agree(d, s, k)}
  BY <1>2, <1>13
<1>15. {d \in A : d[k] = b} # {}
  BY <1>10
<1>16. \A j \in 1 .. k - 1 : Turns(s, j, devices) <=> Turns(r, j, devices)
  <2> TAKE j \in 1 .. k - 1
  <2>1. j - 1 \in 0 .. k - 1 /\ s[j] = r[j]
    BY <1>0, <1>11
  <2> QED BY <1>12, <2>1 DEF Turns
<1>17. Turns(s, k, devices) <=> answers = Bit /\ b = 0
  <2>1. Turns(s, k, devices) <=> b = 0 /\ \E d \in A : d[k] = 1
    <3>1. k - 1 \in 0 .. k - 1
      BY <1>0
    <3>2. \A d : Agree(d, s, k - 1) <=> Agree(d, r, k - 1)
      BY <1>12, <3>1
    <3> QED BY <1>2, <1>11, <3>2 DEF Turns
  <2>2. (\E d \in A : d[k] = 1) <=> 1 \in answers
    BY DEF answers
  <2>3. b = 0 => (1 \in answers <=> answers = Bit)
    <3>1. Bit = {0, 1}
      BY DEF Bit
    <3> QED BY <1>3, <1>5, <3>1
  <2> QED BY <2>1, <2>2, <2>3
<1>18. LastTurn(y, s, k, devices)
  <2>1. CASE answers = Bit /\ b = 0
    <3>1. y = k
      BY <2>1
    <3> QED BY <1>17, <2>1, <3>1 DEF LastTurn
  <2>2. CASE ~ (answers = Bit /\ b = 0)
    <3>1. y = z
      BY <2>2
    <3>2. z \in 0 .. k - 1 /\ (z # 0 => Turns(r, z, devices))
          /\ \A j \in z + 1 .. k - 1 : ~ Turns(r, j, devices)
      BY <1>2 DEF LastTurn
    <3> HIDE DEF y, z
    <3>3. z # 0 => Turns(s, z, devices)
      BY <1>16, <3>2
    <3>4. ASSUME NEW j \in z + 1 .. k PROVE ~ Turns(s, j, devices)
      <4>1. CASE j = k
        BY <1>17, <2>2, <4>1
      <4>2. CASE j # k
        <5>1. j \in 1 .. k - 1 /\ j \in z + 1 .. k - 1
          BY <3>2, <4>2
        <5> QED BY <1>16, <3>2, <5>1
      <4> QED BY <4>1, <4>2
    <3> QED BY <3>1, <3>2, <3>3, <3>4 DEF LastTurn
  <2> QED BY <2>1, <2>2
<1>19. \A j \in 1 .. k : Chosen(s, j)
  <2> TAKE j \in 1 .. k
  <2> SUFFICES ASSUME NEW d \in devices, Agree(d, s, j - 1), d[j] # s[j]
               PROVE  s[j] = Direction(j, last_rom_no)
    BY DEF Chosen
  <2>1. j - 1 \in 0 .. k - 1
    BY <1>0
  <2>2. Agree(d, r, j - 1)
    BY <1>12, <2>1
  <2>3. CASE j = k
    <3>1. d \in A
      BY <1>2, <2>2, <2>3
    <3>2. d[k] \in answers /\ d[k] # b
      BY <1>9, <1>11, <2>3, <3>1
    <3> QED BY <1>8, <1>11, <2>3, <3>2
  <2>4. CASE j # k
    <3>1. j \in 1 .. k - 1 /\ s[j] = r[j]
      BY <1>0, <1>11, <2>4
    <3> QED BY <1>2, <2>2, <3>1 DEF Chosen
  <2> QED BY <2>3, <2>4
<1>20. \A j \in k + 1 .. Bits : s[j] = last_rom_no[j]
  BY <1>2, <1>11
<1> HIDE DEF y
<1> QED BY <1>1, <1>11, <1>14, <1>15, <1>18, <1>19, <1>20 DEF Follows

\* The bits are asked one after the other.
LEMMA PassedUnfolds ==
    /\ Passed[0] = [addressed |-> devices, rom |-> last_rom_no, last_zero |-> 0]
    /\ \A k \in 1 .. Bits : Passed[k] = Asked(Passed[k - 1], k)
<1> DEFINE First == [addressed |-> devices, rom |-> last_rom_no, last_zero |-> 0]
           Step(f, n) == IF n = 0 THEN First ELSE Asked(f[n - 1], n)
           Good(m) == \E f : f = [n \in 0 .. m |-> Step(f, n)]
           Bad == {m \in Nat : ~ Good(m)}
<1>1. Good(0)
  <2> DEFINE f == [n \in 0 .. 0 |-> First]
  <2>1. f = [n \in 0 .. 0 |-> Step(f, n)]
    OBVIOUS
  <2> QED BY <2>1
<1>2. ASSUME NEW m \in Nat, m # 0, Good(m - 1) PROVE Good(m)
  <2>1. PICK f : f = [n \in 0 .. m - 1 |-> Step(f, n)]
    BY <1>2
  <2> DEFINE g == [n \in 0 .. m |-> IF n = m THEN Asked(f[m - 1], m) ELSE f[n]]
  <2>2. \A n \in 0 .. m : g[n] = Step(g, n)
    <3> TAKE n \in 0 .. m
    <3>1. CASE n = m
      <4>1. g[m - 1] = f[m - 1]
        BY <1>2
      <4> QED BY <1>2, <3>1, <4>1
    <3>2. CASE n # m /\ n # 0
      <4>1. n \in 0 .. m - 1 /\ n - 1 \in 0 .. m - 1
        BY <3>2
      <4>2. g[n] = f[n] /\ g[n - 1] = f[n - 1]
        BY <4>1
      <4>3. f[n] = Asked(f[n - 1], n)
        BY <2>1, <3>2, <4>1
      <4> QED BY <3>2, <4>2, <4>3
    <3>3. CASE n = 0 /\ n # m
      <4>1. f[n] = First
        BY <2>1, <1>2, <3>3
      <4> QED BY <3>3, <4>1
    <3> QED BY <3>1, <3>2, <3>3
  <2>3. g = [n \in 0 .. m |-> Step(g, n)]
    <3> DEFINE h == [n \in 0 .. m |-> Step(g, n)]
    <3>1. \A n \in 0 .. m : g[n] = h[n]
      BY <2>2
    <3> QED BY <3>1
  <2> QED BY <2>3
<1>3. Good(Bits)
  <2> SUFFICES ASSUME ~ Good(Bits) PROVE FALSE
    OBVIOUS
  <2>1. Bits \in Bad
    BY SearchAssumption
  <2> HIDE DEF Good
  <2>2. PICK m \in Bad : \A n \in Bad : m <= n
    BY <2>1, LeastNatural
  <2>3. m # 0
    BY <1>1, <2>2
  <2>4. m - 1 \in Nat /\ ~ m <= m - 1
    BY <2>2, <2>3
  <2>5. Good(m - 1)
    BY <2>2, <2>4
  <2> QED BY <1>2, <2>2, <2>3, <2>5
<1>4. Passed = [k \in 0 .. Bits |-> Step(Passed, k)]
  <2>1. Passed = CHOOSE f : f = [k \in 0 .. Bits |-> Step(f, k)]
    BY DEF Passed
  <2> QED BY <1>3, <2>1
<1>5. Passed[0] = First
  <2>1. 0 \in 0 .. Bits
    BY SearchAssumption
  <2> QED BY <1>4, <2>1
<1>6. ASSUME NEW k \in 1 .. Bits PROVE Passed[k] = Asked(Passed[k - 1], k)
  <2>1. k \in 0 .. Bits /\ k # 0
    BY SearchAssumption
  <2> QED BY <1>4, <2>1
<1> QED BY <1>5, <1>6

\* A pass finds a device, remembers its last turn, and takes the direction
\* at every bit where there is a choice.
LEMMA PassFinds ==
    ASSUME devices \subseteq Vectors, devices # {}, last_rom_no \in Vectors,
           last_discrepancy \in 0 .. Bits
    PROVE  /\ Pass.rom \in devices
           /\ LastTurn(Pass.last_zero, Pass.rom, Bits, devices)
           /\ \A k \in 1 .. Bits : Chosen(Pass.rom, k)
<1> DEFINE Bad == {k \in 0 .. Bits : ~ Follows(Passed[k], k)}
<1>0. Bits \in Nat
  BY SearchAssumption
<1>1. Follows(Passed[0], 0)
  <2> DEFINE q == Passed[0]
  <2>1. q.addressed = devices /\ q.rom = last_rom_no /\ q.last_zero = 0
    BY PassedUnfolds
  <2> HIDE DEF q
  <2>2. LastTurn(q.last_zero, q.rom, 0, devices)
    BY <2>1 DEF LastTurn
  <2>3. {d \in devices : Agree(d, q.rom, 0)} = devices
    BY DEF Agree
  <2>4. Follows(q, 0)
    BY <2>1, <2>2, <2>3 DEF Follows
  <2> QED BY <2>4 DEF q
<1>2. ASSUME NEW k \in 1 .. Bits, Follows(Passed[k - 1], k - 1)
      PROVE  Follows(Passed[k], k)
  BY <1>2, AskedFollows, PassedUnfolds
<1>3. Follows(Passed[Bits], Bits)
  <2> SUFFICES ASSUME ~ Follows(Passed[Bits], Bits) PROVE FALSE
    OBVIOUS
  <2>1. Bits \in Bad /\ Bad \in SUBSET Nat
    BY <1>0
  <2>2. PICK k \in Bad : \A n \in Bad : k <= n
    BY <2>1, LeastNatural
  <2>3. k \in 1 .. Bits
    BY <1>0, <1>1, <2>2
  <2>4. k - 1 \in 0 .. Bits /\ ~ k <= k - 1
    BY <1>0, <2>3
  <2>5. Follows(Passed[k - 1], k - 1)
    BY <2>2, <2>4
  <2> QED BY <1>2, <2>2, <2>3, <2>5
<1> DEFINE q == Pass
<1>4. /\ q.rom \in Vectors /\ q.addressed = {d \in devices : Agree(d, q.rom, Bits)}
      /\ q.addressed # {} /\ LastTurn(q.last_zero, q.rom, Bits, devices)
      /\ \A j \in 1 .. Bits : Chosen(q.rom, j)
  BY <1>3 DEF Follows, Pass
<1> HIDE DEF q
<1>5. PICK d \in devices : Agree(d, q.rom, Bits)
  BY <1>4
<1>6. d = q.rom
  <2>1. d \in Vectors /\ q.rom \in Vectors
    BY <1>4
  <2> DEFINE c == q.rom
  <2>2. d = [k \in 1 .. Bits |-> d[k]] /\ c = [k \in 1 .. Bits |-> c[k]]
    BY <2>1 DEF Vectors
  <2>3. \A k \in 1 .. Bits : d[k] = c[k]
    BY <1>5 DEF Agree
  <2> QED BY <2>2, <2>3
<1> QED BY <1>4, <1>5, <1>6 DEF q

-----------------------------------------------------------------------------
\* The devices up to one, in their order.
UpTo(d, D) == {c \in D : c = d \/ Precedes(c, d)}

\* The devices of the family.
Family == {d \in devices : InFamily(d, family_code)}

\* A device that is left to the passes to come: it is where one of them
\* turns, or will turn.
Ahead(d) ==
    \E k \in 1 .. last_discrepancy :
        Agree(d, last_rom_no, k - 1) /\ d[k] = 1 /\ last_rom_no[k] = 0

\* Before the first pass; after one, on a bus that nobody touches, the last
\* number is that of a device and the last discrepancy its last turn.
PassDone ==
    /\ device_list = <<>> =>
           ~ last_device_flag /\ SearchStart(family_code) /\ (searching \/ devices = {})
    /\ device_list # <<>> => last_device_flag = (last_discrepancy = 0)
    /\ device_list # <<>> /\ unplugged = {} =>
           last_rom_no \in devices /\ LastTurn(last_discrepancy, last_rom_no, Bits, devices)

\* No more than one device is gone, and there is another on the way to the
\* last turn.
WayKept ==
    Cardinality(unplugged) <= 1 /\ device_list # <<>> /\ last_discrepancy # 0 =>
        \E d \in devices : Agree(d, last_rom_no, last_discrepancy - 1)

\* What a search of everything has not found is ahead.
NoneMissed ==
    family_code = 0 /\ Cardinality(unplugged) <= 1 =>
        \A d \in devices :
            d \in Range(device_list) \/ (searching /\ (device_list = <<>> \/ Ahead(d)))

\* A search of everything has found the first devices.
FoundInOrder ==
    family_code = 0 /\ unplugged = {} =>
        /\ \A i \in DOMAIN device_list : Rank(device_list[i], devices) = i
        /\ device_list # <<>> => Rank(last_rom_no, devices) = Len(device_list)
        /\ ~ searching => Len(device_list) = Cardinality(devices)

\* The search for a family has found the first devices of the family, or
\* had found all of them.
FamilyInOrder ==
    family_code # 0 /\ unplugged = {} =>
        /\ Len(device_list) \in 1 .. Cardinality(Family) =>
               /\ last_rom_no \in Family
               /\ {device_list[i] : i \in 1 .. Len(device_list)} = UpTo(last_rom_no, Family)
               /\ Cardinality(UpTo(last_rom_no, Family)) = Len(device_list)
        /\ Len(device_list) >= Cardinality(Family) =>
               {device_list[i] : i \in 1 .. Cardinality(Family)} = Family
        /\ ~ searching => Len(device_list) >= Cardinality(Family)

\* Who was unplugged is not on the bus.
Gone == devices \cap unplugged = {}

SearchInv ==
    /\ SearchTypeOK /\ device_list \in Seq(Numbers) /\ Gone /\ PassDone
    /\ WayKept /\ NoneMissed /\ FoundInOrder /\ FamilyInOrder

-----------------------------------------------------------------------------
\* What a pass finds, and remembers.
PassOf(r, z) ==
    /\ r \in devices
    /\ LastTurn(z, r, Bits, devices)
    /\ \A k \in 1 .. Bits : Chosen(r, k)

\* A device that leaves the way of another is before it or after it.
LEMMA SplitOrders ==
    ASSUME NEW c \in Vectors, NEW d \in Vectors, NEW k \in 1 .. Bits,
           Agree(c, d, k - 1), c[k] = 0, d[k] = 1
    PROVE  Precedes(c, d)
BY DEF Precedes, Agree

LEMMA BitsOf ==
    ASSUME NEW c \in Vectors, NEW k \in 1 .. Bits
    PROVE  c[k] \in {0, 1}
BY DEF Vectors, Bit

\* Nothing is before itself, or both before and after another.
LEMMA OneWay ==
    ASSUME NEW c \in Vectors, NEW d \in Vectors, Precedes(c, d)
    PROVE  ~ Precedes(d, c)
BY NotItself, Onwards

\* Where the way is shared up to a bit, it is up to any bit before it.
LEMMA AgreeBelow ==
    ASSUME NEW c, NEW d, NEW k \in Nat, NEW j \in 0 .. k, Agree(c, d, k)
    PROVE  Agree(c, d, j)
BY DEF Agree

LEMMA AgreeThrough ==
    ASSUME NEW c, NEW d, NEW e, NEW k, Agree(c, d, k), Agree(d, e, k)
    PROVE  Agree(c, e, k)
BY DEF Agree

LEMMA AgreeBack ==
    ASSUME NEW c, NEW d, NEW k, Agree(c, d, k)
    PROVE  Agree(d, c, k)
BY DEF Agree

LEMMA AgreeMore ==
    ASSUME NEW c, NEW d, NEW k \in Nat, k >= 1
    PROVE  Agree(c, d, k) <=> Agree(c, d, k - 1) /\ c[k] = d[k]
<1>1. 1 .. k = (1 .. k - 1) \cup {k}
  OBVIOUS
<1> QED BY <1>1 DEF Agree

\* Where another left the way of the pass, the direction decided.
LEMMA ChosenAt ==
    ASSUME NEW r, NEW z, PassOf(r, z), NEW d \in devices, NEW k \in 1 .. Bits,
           Agree(d, r, k - 1), d[k] # r[k]
    PROVE  r[k] = Direction(k, last_rom_no)
BY DEF PassOf, Chosen

\* The devices after a number turn off its way, no later than at its last turn.
LEMMA AfterTurns ==
    ASSUME devices \subseteq Vectors, NEW r \in Vectors, NEW z, LastTurn(z, r, Bits, devices),
           NEW d \in devices, Precedes(r, d)
    PROVE  \E k \in 1 .. z : Agree(d, r, k - 1) /\ d[k] = 1 /\ r[k] = 0
<1>1. PICK k \in 1 .. Bits : r[k] < d[k] /\ \A j \in 1 .. k - 1 : r[j] = d[j]
  BY DEF Precedes
<1>2. r[k] \in {0, 1} /\ d[k] \in {0, 1}
  BY BitsOf
<1>3. Agree(d, r, k - 1) /\ d[k] = 1 /\ r[k] = 0
  BY <1>1, <1>2 DEF Agree
<1>4. Turns(r, k, devices)
  BY <1>3 DEF Turns
<1>5. z \in 0 .. Bits /\ ~ k \in z + 1 .. Bits
  BY <1>4 DEF LastTurn
<1>6. k \in 1 .. z
  BY <1>5, SearchAssumption
<1> QED BY <1>3, <1>6

\* The first pass finds the first device.
LEMMA FirstPass ==
    ASSUME devices \subseteq Vectors, NEW r, NEW z, PassOf(r, z),
           last_discrepancy = 0, NEW d \in devices, d # r
    PROVE  Precedes(r, d)
<1>1. r \in Vectors /\ d \in Vectors
  BY DEF PassOf
<1>2. PICK k \in 1 .. Bits : Agree(d, r, k - 1) /\ d[k] # r[k]
  BY <1>1, FirstSplit
<1>3. r[k] = 0
  <2>1. r[k] = Direction(k, last_rom_no)
    BY <1>2, ChosenAt
  <2>2. k \in Nat /\ k >= 1
    BY SearchAssumption
  <2> QED BY <2>1, <2>2 DEF Direction
<1>4. d[k] = 1
  BY <1>1, <1>2, <1>3, BitsOf
<1>5. Agree(r, d, k - 1)
  BY <1>2, AgreeBack
<1> QED BY <1>1, <1>3, <1>4, <1>5, SplitOrders

\* The next pass shares the way of the last up to the last discrepancy, if
\* there is a device to follow.
LEMMA SharesTheWay ==
    ASSUME devices \subseteq Vectors, last_rom_no \in Vectors,
           NEW r, NEW z, PassOf(r, z), last_discrepancy \in 1 .. Bits,
           NEW p \in devices, Agree(p, last_rom_no, last_discrepancy - 1)
    PROVE  Agree(r, last_rom_no, last_discrepancy - 1)
<1> DEFINE rho == last_rom_no
           l == last_discrepancy
<1>0. Bits \in Nat /\ l \in Nat /\ l >= 1 /\ l <= Bits
  BY SearchAssumption
<1>1. r \in Vectors
  BY DEF PassOf
<1>2. SUFFICES ASSUME r # rho, ~ Agree(r, rho, l - 1) PROVE FALSE
  BY DEF Agree
<1>3. PICK k \in 1 .. Bits : Agree(r, rho, k - 1) /\ r[k] # rho[k]
  BY <1>1, <1>2, FirstSplit
<1>4. k < l
  <2> SUFFICES ASSUME ~ k < l PROVE FALSE
    OBVIOUS
  <2>1. k - 1 \in Nat /\ l - 1 \in 0 .. k - 1
    BY <1>0
  <2> QED BY <1>2, <1>3, <2>1, AgreeBelow
<1>5. Agree(p, rho, k - 1) /\ p[k] = rho[k]
  <2>1. k \in 1 .. l - 1 /\ l - 1 \in Nat /\ k - 1 \in 0 .. l - 1
    BY <1>0, <1>4
  <2> QED BY <2>1, AgreeBelow DEF Agree
<1>6. Agree(p, r, k - 1)
  BY <1>3, <1>5, AgreeBack, AgreeThrough
<1>7. r[k] = Direction(k, rho)
  BY <1>3, <1>5, <1>6, ChosenAt
<1> QED BY <1>3, <1>4, <1>7 DEF Direction

\* On a bus that nobody touches, the next pass finds the next device.
LEMMA NextPass ==
    ASSUME devices \subseteq Vectors, last_rom_no \in devices,
           LastTurn(last_discrepancy, last_rom_no, Bits, devices), last_discrepancy # 0,
           NEW r, NEW z, PassOf(r, z)
    PROVE  /\ Agree(r, last_rom_no, last_discrepancy - 1)
           /\ Precedes(last_rom_no, r)
           /\ \A d \in devices :
                  d = last_rom_no \/ Precedes(d, last_rom_no) \/ d = r \/ Precedes(r, d)
<1> DEFINE rho == last_rom_no
           l == last_discrepancy
<1>0. /\ Bits \in Nat /\ l \in 1 .. Bits /\ l \in Nat /\ l >= 1 /\ l <= Bits
      /\ r \in Vectors /\ rho \in Vectors
  BY SearchAssumption DEF LastTurn, PassOf
<1>1. Agree(r, rho, l - 1)
  <2>1. Agree(rho, rho, l - 1)
    BY DEF Agree
  <2> QED BY <1>0, <2>1, SharesTheWay
<1>2. rho[l] = 0 /\ \E e \in devices : Agree(e, rho, l - 1) /\ e[l] = 1
  BY <1>0 DEF LastTurn, Turns
<1>3. r[l] = 1
  <2> SUFFICES ASSUME r[l] # 1 PROVE FALSE
    OBVIOUS
  <2>1. PICK e \in devices : Agree(e, rho, l - 1) /\ e[l] = 1
    BY <1>2
  <2>2. Agree(e, r, l - 1)
    BY <1>1, <2>1, AgreeBack, AgreeThrough
  <2>3. r[l] = Direction(l, rho)
    BY <1>0, <2>1, <2>2, ChosenAt
  <2> QED BY <1>0, <2>3 DEF Direction
<1>4. Precedes(rho, r)
  BY <1>0, <1>1, <1>2, <1>3, SplitOrders, AgreeBack
<1>5. ASSUME NEW d \in devices, d # rho, d # r
      PROVE  Precedes(d, rho) \/ Precedes(r, d)
  <2>0. d \in Vectors
    OBVIOUS
  <2>1. PICK k \in 1 .. Bits : Agree(d, r, k - 1) /\ d[k] # r[k]
    BY <1>0, <1>5, <2>0, FirstSplit
  <2>2. k \in Nat /\ k >= 1 /\ k - 1 \in Nat
    BY <1>0
  <2>3. r[k] = Direction(k, rho)
    BY <2>1, ChosenAt
  <2>4. d[k] \in {0, 1} /\ r[k] \in {0, 1}
    BY <1>0, <2>0, BitsOf
  <2>5. CASE k < l
    <3>1. r[k] = rho[k]
      BY <2>3, <2>5 DEF Direction
    <3>2. Agree(r, rho, k - 1)
      <4>1. k - 1 \in 0 .. l - 1 /\ l - 1 \in Nat
        BY <1>0, <2>2, <2>5
      <4> QED BY <1>1, <4>1, AgreeBelow
    <3>3. CASE d[k] = 0
      <4>1. rho[k] = 1
        BY <2>1, <2>4, <3>1, <3>3
      <4>2. Agree(d, rho, k - 1)
        BY <2>1, <3>2, AgreeThrough
      <4> QED BY <1>0, <2>0, <3>3, <4>1, <4>2, SplitOrders
    <3>4. CASE d[k] = 1
      <4>1. r[k] = 0
        BY <2>1, <2>4, <3>4
      <4>2. Agree(r, d, k - 1)
        BY <2>1, AgreeBack
      <4> QED BY <1>0, <2>0, <3>4, <4>1, <4>2, SplitOrders
    <3> QED BY <2>4, <3>3, <3>4
  <2>6. CASE k = l
    <3>1. d[l] = 0 /\ Agree(d, r, l - 1)
      BY <1>3, <2>1, <2>4, <2>6
    <3>2. Agree(d, rho, l)
      <4>1. Agree(d, rho, l - 1) /\ d[l] = rho[l]
        BY <1>1, <1>2, <3>1, AgreeThrough
      <4> QED BY <1>0, <4>1, AgreeMore
    <3>3. ~ Precedes(rho, d)
      <4> SUFFICES ASSUME Precedes(rho, d) PROVE FALSE
        OBVIOUS
      <4>1. PICK m \in 1 .. l : Agree(d, rho, m - 1) /\ d[m] = 1 /\ rho[m] = 0
        BY <1>0, AfterTurns
      <4>2. d[m] = rho[m]
        BY <3>2 DEF Agree
      <4> QED BY <4>1, <4>2
    <3> QED BY <1>0, <1>5, <2>0, <3>3, InOrder
  <2>7. CASE k > l
    <3>1. r[k] = 0
      BY <1>0, <2>2, <2>3, <2>7 DEF Direction
    <3>2. d[k] = 1
      BY <2>1, <2>4, <3>1
    <3>3. Agree(r, d, k - 1)
      BY <2>1, AgreeBack
    <3> QED BY <1>0, <2>0, <3>1, <3>2, <3>3, SplitOrders
  <2> QED BY <1>0, <2>2, <2>5, <2>6, <2>7
<1> QED BY <1>1, <1>4, <1>5

\* A device that is ahead is found by the next pass, or still ahead of it,
\* whatever has been unplugged, if there was one to follow.
LEMMA StillAhead ==
    ASSUME devices \subseteq Vectors, last_rom_no \in Vectors, last_discrepancy \in 0 .. Bits,
           NEW r, NEW z, PassOf(r, z),
           NEW p \in devices, Agree(p, last_rom_no, last_discrepancy - 1),
           NEW d \in devices, Ahead(d), d # r
    PROVE  Precedes(r, d)
<1> DEFINE rho == last_rom_no
           l == last_discrepancy
<1>1. PICK k \in 1 .. l : Agree(d, rho, k - 1) /\ d[k] = 1 /\ rho[k] = 0
  BY DEF Ahead
<1>0. /\ Bits \in Nat /\ l \in 1 .. Bits /\ l \in Nat /\ l >= 1 /\ l <= Bits
      /\ k \in Nat /\ k >= 1 /\ k <= l /\ k \in 1 .. Bits /\ k - 1 \in 0 .. l - 1
      /\ l - 1 \in Nat /\ r \in Vectors /\ d \in Vectors
  BY <1>1, SearchAssumption DEF PassOf
<1>2. Agree(r, rho, l - 1)
  BY <1>0, SharesTheWay
<1>3. Agree(r, d, k - 1)
  <2>1. Agree(r, rho, k - 1)
    BY <1>0, <1>2, AgreeBelow
  <2> QED BY <1>1, <2>1, AgreeBack, AgreeThrough
<1>4. CASE k < l
  <2>1. r[k] = 0
    <3>1. k \in 1 .. l - 1
      BY <1>0, <1>4
    <3> QED BY <1>1, <1>2, <3>1 DEF Agree
  <2> QED BY <1>0, <1>1, <1>3, <2>1, SplitOrders
<1>5. CASE k = l
  <2>1. PICK m \in 1 .. Bits : Agree(d, r, m - 1) /\ d[m] # r[m]
    BY <1>0, FirstSplit
  <2>2. r[m] = Direction(m, rho)
    BY <2>1, ChosenAt
  <2>3. m \in Nat /\ m >= 1 /\ d[m] \in {0, 1} /\ r[m] \in {0, 1}
    BY <1>0, BitsOf
  <2>4. ~ m < l
    <3> SUFFICES ASSUME m < l PROVE FALSE
      OBVIOUS
    <3>1. m \in 1 .. l - 1
      BY <1>0, <2>3
    <3>2. d[m] = r[m]
      BY <1>3, <1>5, <3>1 DEF Agree
    <3> QED BY <2>1, <3>2
  <2>5. m # l
    <3> SUFFICES ASSUME m = l PROVE FALSE
      OBVIOUS
    <3>1. r[m] = 1
      BY <1>0, <2>2 DEF Direction
    <3> QED BY <1>1, <1>5, <2>1, <3>1
  <2>6. r[m] = 0 /\ d[m] = 1
    BY <1>0, <2>1, <2>2, <2>3, <2>4, <2>5 DEF Direction
  <2> QED BY <1>0, <2>1, <2>6, SplitOrders, AgreeBack
<1> QED BY <1>0, <1>4, <1>5

-----------------------------------------------------------------------------
\* There are finitely many numbers: each is the set of its bits.
LEMMA VectorsFinite ==
    ASSUME NEW D, D \subseteq Vectors
    PROVE  IsFiniteSet(D)
<1> DEFINE ones(d) == {k \in 1 .. Bits : d[k] = 1}
           f == [d \in Vectors |-> ones(d)]
<1>1. IsFiniteSet(SUBSET (1 .. Bits))
  <2>1. 1 \in Int /\ Bits \in Int
    BY SearchAssumption
  <2>2. IsFiniteSet(1 .. Bits)
    BY <2>1, FS_Interval
  <2> QED BY <2>2, FS_SUBSET
<1>2. ASSUME NEW c \in Vectors, NEW d \in Vectors, ones(c) = ones(d) PROVE c = d
  <2> SUFFICES ASSUME c # d PROVE FALSE
    OBVIOUS
  <2>1. PICK k \in 1 .. Bits : c[k] # d[k]
    BY FirstSplit
  <2>2. c[k] \in {0, 1} /\ d[k] \in {0, 1}
    BY BitsOf
  <2>3. k \in ones(c) <=> k \in ones(d)
    BY <1>2
  <2> QED BY <2>1, <2>2, <2>3
<1>3. f \in Injection(Vectors, SUBSET (1 .. Bits))
  <2>1. f \in [Vectors -> SUBSET (1 .. Bits)]
    OBVIOUS
  <2>2. \A c, d \in Vectors : f[c] = f[d] => c = d
    BY <1>2
  <2> QED BY <2>1, <2>2, Fun_IsInj
<1>4. IsFiniteSet(Vectors)
  BY <1>1, <1>3, FS_Injection
<1> QED BY <1>4, FS_Subset

\* Two numbers with the same bits but for the last are one: it is their parity.
LEMMA ParityDecides ==
    ASSUME NEW c \in Numbers, NEW d \in Numbers, Agree(c, d, Bits - 1)
    PROVE  c = d
<1> DEFINE ones(e) == {k \in 1 .. Bits : e[k] = 1}
<1>0. Bits \in Nat /\ Bits >= 1 /\ Bits \in 1 .. Bits /\ c \in Vectors /\ d \in Vectors
  BY SearchAssumption DEF Numbers, Vectors
<1>1. ASSUME NEW a \in Numbers, NEW b \in Numbers, Agree(a, b, Bits - 1),
             a[Bits] = 0, b[Bits] = 1
      PROVE  FALSE
  <2>1. ones(b) = ones(a) \cup {Bits} /\ Bits \notin ones(a)
    <3>1. \A k \in 1 .. Bits : k # Bits => a[k] = b[k]
      BY <1>0, <1>1 DEF Agree
    <3> QED BY <1>0, <1>1, <3>1
  <2>2. IsFiniteSet(ones(a))
    <3>1. 1 \in Int /\ Bits \in Int
      BY <1>0
    <3>2. IsFiniteSet(1 .. Bits)
      BY <3>1, FS_Interval
    <3> QED BY <3>2, FS_Subset
  <2>3. Cardinality(ones(b)) = Cardinality(ones(a)) + 1 /\ Cardinality(ones(a)) \in Nat
    BY <2>1, <2>2, FS_AddElement, FS_CardinalityType
  <2>4. Cardinality(ones(a)) % 2 = 0 /\ Cardinality(ones(b)) % 2 = 0
    BY DEF Numbers, Parity
  <2> HIDE DEF ones
  <2> QED BY <2>3, <2>4
<1>2. SUFFICES ASSUME c # d PROVE FALSE
  OBVIOUS
<1>3. PICK k \in 1 .. Bits : c[k] # d[k]
  BY <1>0, <1>2, FirstSplit
<1>4. k = Bits
  BY <1>0, <1>3 DEF Agree
<1>5. c[Bits] \in {0, 1} /\ d[Bits] \in {0, 1}
  BY <1>0, BitsOf
<1>6. Agree(d, c, Bits - 1)
  BY AgreeBack
<1> QED BY <1>1, <1>3, <1>4, <1>5, <1>6

\* The rank of the device that no other precedes, of the next one, and of
\* the last.
LEMMA RankFirst ==
    ASSUME NEW D, D \subseteq Vectors, NEW r \in D, \A d \in D : d # r => Precedes(r, d)
    PROVE  Rank(r, D) = 1
<1>1. {c \in D : Precedes(c, r)} = {}
  <2> SUFFICES ASSUME NEW c \in D, Precedes(c, r) PROVE FALSE
    OBVIOUS
  <2>1. c \in Vectors /\ r \in Vectors
    OBVIOUS
  <2> QED BY <2>1, NotItself, OneWay
<1> QED BY <1>1, FS_EmptySet DEF Rank

LEMMA RankNext ==
    ASSUME NEW D, D \subseteq Vectors, NEW p \in D, NEW r \in D, Precedes(p, r),
           \A d \in D : d = p \/ Precedes(d, p) \/ d = r \/ Precedes(r, d)
    PROVE  Rank(r, D) = Rank(p, D) + 1 /\ Rank(p, D) \in Nat
<1> DEFINE P == {c \in D : Precedes(c, p)}
           R == {c \in D : Precedes(c, r)}
<1>1. R = P \cup {p}
  <2>1. ASSUME NEW c \in D, Precedes(c, r) PROVE c = p \/ Precedes(c, p)
    <3>1. c \in Vectors /\ r \in Vectors
      OBVIOUS
    <3>2. c # r /\ ~ Precedes(r, c)
      BY <2>1, <3>1, NotItself, OneWay
    <3> QED BY <3>2
  <2>2. ASSUME NEW c \in D, Precedes(c, p) PROVE Precedes(c, r)
    <3>1. c \in Vectors /\ r \in Vectors /\ p \in Vectors
      OBVIOUS
    <3> QED BY <2>2, <3>1, Onwards
  <2> QED BY <2>1, <2>2
<1>2. p \notin P
  BY NotItself
<1>3. IsFiniteSet(P)
  BY VectorsFinite
<1>4. Cardinality(R) = Cardinality(P) + 1 /\ Cardinality(P) \in Nat
  BY <1>1, <1>2, <1>3, FS_AddElement, FS_CardinalityType
<1> QED BY <1>4 DEF Rank

LEMMA RankLast ==
    ASSUME NEW D, D \subseteq Vectors, NEW p \in D, \A d \in D : ~ Precedes(p, d)
    PROVE  Rank(p, D) = Cardinality(D)
<1> DEFINE P == {c \in D : Precedes(c, p)}
<1>1. D = P \cup {p} /\ p \notin P
  <2>1. ASSUME NEW c \in D, c # p PROVE Precedes(c, p)
    <3>1. c \in Vectors /\ p \in Vectors
      OBVIOUS
    <3> QED BY <2>1, <3>1, InOrder
  <2> QED BY <2>1, NotItself
<1>2. IsFiniteSet(P)
  BY VectorsFinite
<1> QED BY <1>1, <1>2, FS_AddElement DEF Rank

\* The last device found is the last of all, if there is no turn left.
LEMMA NoTurnLeft ==
    ASSUME devices \subseteq Vectors, NEW r \in devices, LastTurn(0, r, Bits, devices),
           NEW d \in devices
    PROVE  ~ Precedes(r, d)
<1>1. SUFFICES ASSUME Precedes(r, d) PROVE FALSE
  OBVIOUS
<1>2. r \in Vectors
  OBVIOUS
<1>3. PICK k \in 1 .. 0 : TRUE
  BY <1>1, <1>2, AfterTurns
<1> QED BY <1>3

\* The first pass of a search for a family finds the first of it: until the
\* last bit it goes where the code says, or zeros, and the parity does the rest.
LEMMA FirstOfFamily ==
    ASSUME devices \subseteq Numbers, family_code # 0, SearchStart(family_code),
           NEW r, NEW z, PassOf(r, z), Family # {}
    PROVE  r \in Family /\ \A d \in Family : d # r => Precedes(r, d)
<1> DEFINE T == Target(family_code)
<1>0. /\ Bits \in Nat /\ FAMILY \in Nat /\ FAMILY >= 1 /\ FAMILY < Bits
      /\ last_rom_no = T /\ last_discrepancy = Bits
      /\ devices \subseteq Vectors /\ r \in Vectors /\ r \in devices
  BY SearchAssumption DEF SearchStart, Numbers, Vectors, PassOf
<1> HIDE DEF T
<1>1. ASSUME NEW d \in devices, NEW k \in 1 .. Bits, Agree(d, r, k - 1), d[k] # r[k], k # Bits
      PROVE  r[k] = T[k]
  <2>1. r[k] = Direction(k, last_rom_no)
    BY <1>1, ChosenAt
  <2> QED BY <1>0, <1>1, <2>1 DEF Direction
<1>2. r \in Family
  <2>1. PICK f \in devices : \A k \in 1 .. FAMILY : f[k] = T[k]
    BY DEF Family, InFamily, T
  <2>2. f \in Vectors
    BY <1>0
  <2> SUFFICES ASSUME NEW j \in 1 .. FAMILY, r[j] # T[j] PROVE FALSE
    BY <1>0 DEF Family, InFamily, T
  <2>3. f # r
    BY <2>1
  <2>4. PICK k \in 1 .. Bits : Agree(f, r, k - 1) /\ f[k] # r[k]
    BY <1>0, <2>2, <2>3, FirstSplit
  <2>5. k <= j
    <3> SUFFICES ASSUME ~ k <= j PROVE FALSE
      OBVIOUS
    <3>1. j \in 1 .. k - 1
      BY <1>0
    <3> QED BY <2>1, <2>4, <3>1 DEF Agree
  <2>6. k \in 1 .. FAMILY /\ k # Bits
    BY <1>0, <2>5
  <2>7. r[k] = T[k]
    BY <1>1, <2>4, <2>6
  <2> QED BY <2>1, <2>4, <2>6, <2>7
<1>3. ASSUME NEW d \in Family, d # r PROVE Precedes(r, d)
  <2>1. d \in devices /\ d \in Vectors /\ \A k \in 1 .. FAMILY : d[k] = r[k]
    BY <1>0, <1>2 DEF Family, InFamily
  <2>2. PICK k \in 1 .. Bits : Agree(d, r, k - 1) /\ d[k] # r[k]
    BY <1>0, <1>3, <2>1, FirstSplit
  <2>3. k \in Nat /\ k > FAMILY
    BY <1>0, <2>1, <2>2
  <2>4. k # Bits
    <3> SUFFICES ASSUME k = Bits PROVE FALSE
      OBVIOUS
    <3>1. d \in Numbers /\ r \in Numbers
      BY <1>0, <2>1
    <3> QED BY <1>3, <2>2, <3>1, ParityDecides
  <2>5. r[k] = 0
    <3>1. r[k] = T[k]
      BY <1>1, <2>1, <2>2, <2>4
    <3> QED BY <2>3, <3>1 DEF T, Target
  <2>6. d[k] = 1
    BY <2>1, <2>2, <2>5, BitsOf
  <2> QED BY <1>0, <2>1, <2>2, <2>5, <2>6, SplitOrders, AgreeBack
<1> QED BY <1>2, <1>3

\* As long as there is another of the family, so is what the next pass finds.
LEMMA NextOfFamily ==
    ASSUME devices \subseteq Vectors, last_rom_no \in Family,
           LastTurn(last_discrepancy, last_rom_no, Bits, devices),
           NEW r, NEW z, PassOf(r, z), NEW f \in Family, Precedes(last_rom_no, f)
    PROVE  r \in Family
<1> DEFINE rho == last_rom_no
           l == last_discrepancy
<1>0. /\ Bits \in Nat /\ FAMILY \in Nat /\ FAMILY < Bits /\ l \in Nat /\ l <= Bits
      /\ rho \in devices /\ rho \in Vectors /\ f \in devices /\ r \in devices
  BY SearchAssumption DEF LastTurn, PassOf, Family
<1>1. \A k \in 1 .. FAMILY : f[k] = rho[k]
  BY DEF Family, InFamily
<1>2. PICK k \in 1 .. l : f[k] = 1 /\ rho[k] = 0
  BY <1>0, AfterTurns
<1>3. ~ k \in 1 .. FAMILY
  BY <1>1, <1>2
<1>4. l # 0 /\ FAMILY <= l - 1
  BY <1>0, <1>2, <1>3
<1>5. Agree(r, rho, l - 1)
  BY <1>4, NextPass, <1>0
<1>6. \A j \in 1 .. FAMILY : r[j] = rho[j]
  BY <1>0, <1>4, <1>5 DEF Agree
<1> QED BY <1>0, <1>6 DEF Family, InFamily

LEMMA PowerPositive ==
    ASSUME NEW k \in Nat
    PROVE  2 ^ k \in Nat /\ 2 ^ k # 0
<1> DEFINE S == 1 .. k
<1>1. IsFiniteSet(S) /\ Cardinality(S) = k
  <2>1. 1 \in Int /\ k \in Int /\ (IF 1 > k THEN 0 ELSE k - 1 + 1) = k
    OBVIOUS
  <2> QED BY <2>1, FS_Interval
<1>2. IsFiniteSet(SUBSET S) /\ Cardinality(SUBSET S) = 2 ^ k
  BY <1>1, FS_SUBSET
<1>3. SUBSET S # {}
  OBVIOUS
<1>4. Cardinality(SUBSET S) \in Nat /\ Cardinality(SUBSET S) # 0
  BY <1>2, <1>3, FS_CardinalityType, FS_EmptySet
<1> QED BY <1>2, <1>4

-----------------------------------------------------------------------------
LEMMA NumbersAreVectors == Numbers \subseteq Vectors
BY DEF Numbers, Vectors

LEMMA SearchStarts == SearchInit => SearchInv
<1> SUFFICES ASSUME SearchInit PROVE SearchInv
  OBVIOUS
<1>1. /\ devices \subseteq Numbers /\ unplugged = {} /\ device_list = <<>> /\ searching = TRUE
      /\ last_device_flag = FALSE /\ SearchStart(family_code)
      /\ family_code \in {0} \cup FamilyCodes
  BY DEF SearchInit
<1>2. /\ Bits \in Nat /\ FAMILY \in Nat
      /\ last_rom_no = Target(family_code)
      /\ last_discrepancy = IF family_code = 0 THEN 0 ELSE Bits
  BY <1>1, SearchAssumption DEF SearchStart
<1>3. Range(device_list) = {} /\ device_list \in Seq(Numbers) /\ Len(device_list) = 0
      /\ DOMAIN device_list = {}
  BY <1>1 DEF Range
<1>4. SearchTypeOK
  <2>1. family_code \in Nat
    BY <1>1 DEF FamilyCodes
  <2>2. \A k \in 1 .. Bits : (family_code \div 2 ^ (k - 1)) % 2 \in Bit
    <3> TAKE k \in 1 .. Bits
    <3>1. k - 1 \in Nat
      BY <1>2
    <3>2. 2 ^ (k - 1) \in Nat /\ 2 ^ (k - 1) # 0
      BY <3>1, PowerPositive
    <3> DEFINE p == 2 ^ (k - 1)
    <3> HIDE DEF p
    <3>3. p \in Nat /\ p > 0
      BY <3>2 DEF p
    <3>4. family_code \div p \in Int
      BY <2>1, <3>3
    <3>5. (family_code \div p) % 2 \in 0 .. 1
      BY <3>4
    <3> QED BY <3>5 DEF Bit, p
  <2>3. last_rom_no \in [1 .. Bits -> Bit]
    BY <1>2, <2>2 DEF Target, Bit
  <2>4. last_discrepancy \in 0 .. Bits
    BY <1>2
  <2> QED BY <1>1, <1>3, <2>3, <2>4 DEF SearchTypeOK
<1>5. Gone /\ PassDone /\ WayKept
  BY <1>1 DEF Gone, PassDone, WayKept
<1>6. NoneMissed
  BY <1>1 DEF NoneMissed
<1>7. FoundInOrder
  BY <1>1, <1>3 DEF FoundInOrder
<1>8. FamilyInOrder
  <2>1. IsFiniteSet(Family)
    BY <1>1, NumbersAreVectors, VectorsFinite DEF Family
  <2>2. Cardinality(Family) \in Nat
    BY <2>1, FS_CardinalityType
  <2>3. 0 >= Cardinality(Family) => Family = {} /\ Cardinality(Family) = 0
    BY <2>1, <2>2, FS_EmptySet
  <2> QED BY <1>1, <1>3, <2>2, <2>3 DEF FamilyInOrder
<1> QED BY <1>3, <1>4, <1>5, <1>6, <1>7, <1>8 DEF SearchInv

\* A pass that finds a device.
LEMMA NextIsAPass ==
    ASSUME SearchInv, SearchNext
    PROVE  /\ PassOf(last_rom_no', last_discrepancy')
           /\ last_device_flag' = (last_discrepancy' = 0)
           /\ device_list' = Append(device_list, last_rom_no')
           /\ searching /\ ~ last_device_flag /\ devices # {}
           /\ UNCHANGED <<devices, family_code, searching, unplugged>>
           /\ last_rom_no' \in Vectors /\ last_discrepancy' \in 0 .. Bits
<1>1. /\ devices \subseteq Vectors /\ last_rom_no \in Vectors /\ last_discrepancy \in 0 .. Bits
      /\ devices # {}
  BY NumbersAreVectors DEF SearchInv, SearchTypeOK, Vectors, SearchNext
<1>2. PassOf(Pass.rom, Pass.last_zero)
  BY <1>1, PassFinds DEF PassOf
<1>3. /\ last_rom_no' = Pass.rom /\ last_discrepancy' = Pass.last_zero
      /\ last_device_flag' = (Pass.last_zero = 0)
      /\ device_list' = Append(device_list, Pass.rom)
      /\ searching /\ ~ last_device_flag
      /\ UNCHANGED <<devices, family_code, searching, unplugged>>
  BY DEF SearchNext
<1>4. PassOf(last_rom_no', last_discrepancy')
  BY <1>2, <1>3
<1>5. last_rom_no' \in Vectors /\ last_discrepancy' \in 0 .. Bits
  BY <1>1, <1>4 DEF PassOf, LastTurn
<1> QED BY <1>1, <1>3, <1>4, <1>5

LEMMA ListGrows ==
    ASSUME NEW s \in Seq(Numbers), NEW r \in Numbers
    PROVE  /\ Append(s, r) \in Seq(Numbers) /\ Append(s, r) # <<>>
           /\ Len(Append(s, r)) = Len(s) + 1 /\ Len(s) \in Nat
           /\ DOMAIN Append(s, r) = 1 .. Len(s) + 1 /\ DOMAIN s = 1 .. Len(s)
           /\ Append(s, r)[Len(s) + 1] = r
           /\ \A i \in 1 .. Len(s) : Append(s, r)[i] = s[i]
           /\ Range(Append(s, r)) = Range(s) \cup {r}
<1> DEFINE t == Append(s, r)
<1>1. /\ t \in Seq(Numbers) /\ t # <<>>
      /\ Len(t) = Len(s) + 1 /\ Len(s) \in Nat
      /\ DOMAIN t = 1 .. Len(s) + 1 /\ DOMAIN s = 1 .. Len(s)
      /\ t[Len(s) + 1] = r
      /\ \A i \in 1 .. Len(s) : t[i] = s[i]
  OBVIOUS
<1> HIDE DEF t
<1>2. 1 .. Len(s) + 1 = (1 .. Len(s)) \cup {Len(s) + 1}
  BY <1>1
<1>3. Range(t) = Range(s) \cup {r}
  BY <1>1, <1>2 DEF Range
<1> QED BY <1>1, <1>3 DEF t

\* The devices on the bus, and a family of them, are finitely many.
LEMMA BusFinite ==
    ASSUME SearchTypeOK
    PROVE  /\ IsFiniteSet(devices) /\ IsFiniteSet(unplugged) /\ IsFiniteSet(Family)
           /\ Cardinality(unplugged) \in Nat /\ Cardinality(Family) \in Nat
<1>1. devices \subseteq Vectors /\ unplugged \subseteq Vectors /\ Family \subseteq Vectors
  BY NumbersAreVectors DEF SearchTypeOK, Family
<1>2. IsFiniteSet(devices) /\ IsFiniteSet(unplugged) /\ IsFiniteSet(Family)
  BY <1>1, VectorsFinite
<1> QED BY <1>2, FS_CardinalityType

LEMMA NextTyped ==
    ASSUME SearchInv, SearchNext
    PROVE  (SearchTypeOK /\ device_list \in Seq(Numbers) /\ Gone /\ PassDone /\ WayKept)'
<1> DEFINE r == last_rom_no'
<1>1. /\ PassOf(r, last_discrepancy') /\ last_device_flag' = (last_discrepancy' = 0)
      /\ device_list' = Append(device_list, r) /\ searching
      /\ UNCHANGED <<devices, family_code, searching, unplugged>>
      /\ r \in Vectors /\ last_discrepancy' \in 0 .. Bits
  BY NextIsAPass
<1>2. r \in devices /\ devices \subseteq Numbers /\ r \in Numbers /\ device_list \in Seq(Numbers)
  BY <1>1 DEF PassOf, SearchInv, SearchTypeOK
<1>3. device_list' \in Seq(Numbers) /\ device_list' # <<>>
      /\ Range(device_list') = Range(device_list) \cup {r}
  BY <1>1, <1>2, ListGrows
<1>4. SearchTypeOK'
  <2>1. Range(device_list') \subseteq devices' \cup unplugged'
    BY <1>1, <1>2, <1>3 DEF SearchInv, SearchTypeOK
  <2>2. last_device_flag' \in BOOLEAN
    BY <1>1
  <2> QED BY <1>1, <2>1, <2>2 DEF SearchInv, SearchTypeOK, Vectors
<1>5. Gone'
  BY <1>1 DEF SearchInv, Gone
<1>6. PassDone'
  <2>1. LastTurn(last_discrepancy', r, Bits, devices)
    BY <1>1 DEF PassOf
  <2>2. LastTurn(last_discrepancy', r, Bits, devices')
    BY <1>1, <2>1
  <2> QED BY <1>1, <1>2, <1>3, <2>2 DEF PassDone
<1>7. WayKept'
  <2>1. r \in devices' /\ Agree(r, r, last_discrepancy' - 1)
    BY <1>1, <1>2 DEF Agree
  <2> QED BY <2>1 DEF WayKept
<1> QED BY <1>3, <1>4, <1>5, <1>6, <1>7

LEMMA NextMissesNone ==
    ASSUME SearchInv, SearchNext
    PROVE  NoneMissed'
<1> DEFINE r == last_rom_no'
           z == last_discrepancy'
<1>1. /\ PassOf(r, z) /\ device_list' = Append(device_list, r) /\ searching
      /\ UNCHANGED <<devices, family_code, searching, unplugged>>
      /\ r \in Vectors /\ z \in 0 .. Bits
  BY NextIsAPass
<1>2. /\ r \in Numbers /\ device_list \in Seq(Numbers) /\ devices \subseteq Vectors
      /\ last_rom_no \in Vectors /\ last_discrepancy \in 0 .. Bits
  BY <1>1, NumbersAreVectors DEF PassOf, SearchInv, SearchTypeOK, Vectors
<1>3. Range(device_list') = Range(device_list) \cup {r}
  BY <1>1, <1>2, ListGrows
<1> SUFFICES ASSUME family_code = 0, Cardinality(unplugged) <= 1, NEW d \in devices,
                    d \notin Range(device_list')
             PROVE  Ahead(d)'
  BY <1>1 DEF NoneMissed
<1>4. d # r /\ d \notin Range(device_list)
  BY <1>3
<1>5. device_list = <<>> \/ Ahead(d)
  BY <1>4 DEF SearchInv, NoneMissed
<1>6. Precedes(r, d)
  <2>1. CASE device_list = <<>>
    <3>1. last_discrepancy = 0
      BY <2>1 DEF SearchInv, PassDone, SearchStart
    <3> QED BY <1>1, <1>2, <1>4, <3>1, FirstPass
  <2>2. CASE device_list # <<>>
    <3>1. Ahead(d) /\ last_discrepancy # 0
      BY <1>5, <2>2 DEF Ahead
    <3>2. PICK p \in devices : Agree(p, last_rom_no, last_discrepancy - 1)
      BY <2>2, <3>1 DEF SearchInv, WayKept
    <3> QED BY <1>1, <1>2, <1>4, <3>1, <3>2, StillAhead
  <2> QED BY <2>1, <2>2
<1>7. LastTurn(z, r, Bits, devices)
  BY <1>1 DEF PassOf
<1>8. \E k \in 1 .. z : Agree(d, r, k - 1) /\ d[k] = 1 /\ r[k] = 0
  BY <1>1, <1>2, <1>6, <1>7, AfterTurns
<1> QED BY <1>8 DEF Ahead

LEMMA NextInOrder ==
    ASSUME SearchInv, SearchNext
    PROVE  FoundInOrder'
<1> DEFINE r == last_rom_no'
           z == last_discrepancy'
           n == Len(device_list)
<1>1. /\ PassOf(r, z) /\ device_list' = Append(device_list, r) /\ searching /\ ~ last_device_flag
      /\ UNCHANGED <<devices, family_code, searching, unplugged>>
      /\ r \in devices
  BY NextIsAPass DEF PassOf
<1>2. /\ r \in Numbers /\ device_list \in Seq(Numbers) /\ devices \subseteq Vectors
  BY <1>1, NumbersAreVectors DEF SearchInv, SearchTypeOK
<1>3. /\ DOMAIN device_list' = 1 .. n + 1 /\ Len(device_list') = n + 1 /\ n \in Nat
      /\ device_list'[n + 1] = r /\ DOMAIN device_list = 1 .. n
      /\ \A i \in 1 .. n : device_list'[i] = device_list[i]
  BY <1>1, <1>2, ListGrows
<1> SUFFICES ASSUME family_code = 0, unplugged = {}
             PROVE  /\ \A i \in 1 .. n + 1 : Rank(device_list'[i], devices) = i
                    /\ Rank(r, devices) = n + 1
  BY <1>1, <1>3 DEF FoundInOrder
<1>4. Rank(r, devices) = n + 1
  <2>1. CASE device_list = <<>>
    <3>1. last_discrepancy = 0 /\ n = 0
      BY <2>1 DEF SearchInv, PassDone, SearchStart
    <3>2. \A d \in devices : d # r => Precedes(r, d)
      BY <1>1, <1>2, <3>1, FirstPass
    <3> QED BY <1>1, <1>2, <3>1, <3>2, RankFirst
  <2>2. CASE device_list # <<>>
    <3>1. /\ last_discrepancy # 0 /\ last_rom_no \in devices
          /\ LastTurn(last_discrepancy, last_rom_no, Bits, devices)
          /\ Rank(last_rom_no, devices) = n
      BY <1>1, <2>2 DEF SearchInv, PassDone, FoundInOrder
    <3>2. /\ Precedes(last_rom_no, r)
          /\ \A d \in devices :
                 d = last_rom_no \/ Precedes(d, last_rom_no) \/ d = r \/ Precedes(r, d)
      BY <1>1, <1>2, <3>1, NextPass
    <3> HIDE DEF r
    <3>3. Rank(r, devices) = Rank(last_rom_no, devices) + 1
      BY <1>1, <1>2, <3>1, <3>2, RankNext
    <3> QED BY <3>1, <3>3
  <2> QED BY <2>1, <2>2
<1>5. ASSUME NEW i \in 1 .. n + 1 PROVE Rank(device_list'[i], devices) = i
  <2>1. CASE i = n + 1
    BY <1>3, <1>4, <2>1
  <2>2. CASE i # n + 1
    <3>1. i \in 1 .. n
      BY <1>3, <2>2
    <3>2. device_list'[i] = device_list[i] /\ i \in DOMAIN device_list
      BY <1>3, <3>1
    <3> QED BY <3>2 DEF SearchInv, FoundInOrder
  <2> QED BY <2>1, <2>2
<1> QED BY <1>4, <1>5

LEMMA NextInFamily ==
    ASSUME SearchInv, SearchNext
    PROVE  FamilyInOrder'
<1> DEFINE r == last_rom_no'
           z == last_discrepancy'
           n == Len(device_list)
           F == Family
           m == Cardinality(F)
           list == device_list'
<1>1. /\ PassOf(r, z) /\ list = Append(device_list, r) /\ searching /\ ~ last_device_flag
      /\ UNCHANGED <<devices, family_code, searching, unplugged>>
      /\ r \in devices
  BY NextIsAPass DEF PassOf
<1>2. /\ r \in Numbers /\ device_list \in Seq(Numbers) /\ devices \subseteq Vectors
      /\ devices \subseteq Numbers /\ F \subseteq Vectors
  BY <1>1, NumbersAreVectors DEF SearchInv, SearchTypeOK, Family
<1>3. /\ Len(list) = n + 1 /\ n \in Nat /\ list[n + 1] = r
      /\ \A i \in 1 .. n : list[i] = device_list[i]
  BY <1>1, <1>2, ListGrows
<1>4. IsFiniteSet(F) /\ m \in Nat
  BY BusFinite DEF SearchInv
<1>5. Family' = F
  BY <1>1 DEF Family
<1> HIDE DEF n, F, m, list, r, z
<1> DEFINE Some == {list[i] : i \in 1 .. n + 1}
<1> SUFFICES ASSUME family_code # 0, unplugged = {}
             PROVE  /\ n + 1 \in 1 .. m =>
                           r \in F /\ Some = UpTo(r, F) /\ Cardinality(UpTo(r, F)) = n + 1
                    /\ n + 1 >= m => {list[i] : i \in 1 .. m} = F
  BY <1>1, <1>3, <1>5 DEF FamilyInOrder, list, r, m
<1>6. Some = {device_list[i] : i \in 1 .. n} \cup {r}
  <2>1. 1 .. n + 1 = (1 .. n) \cup {n + 1}
    BY <1>3
  <2> QED BY <1>3, <2>1
<1>7. ASSUME n = 0, n + 1 \in 1 .. m
      PROVE  r \in F /\ Some = UpTo(r, F) /\ Cardinality(UpTo(r, F)) = n + 1
  <2>1. device_list = <<>>
    BY <1>2, <1>7 DEF n
  <2>2. SearchStart(family_code)
    BY <2>1 DEF SearchInv, PassDone
  <2>3. F # {}
    BY <1>4, <1>7, FS_EmptySet DEF m
  <2>4. r \in F /\ \A d \in F : d # r => Precedes(r, d)
    BY <1>1, <1>2, <2>2, <2>3, FirstOfFamily DEF F
  <2>5. UpTo(r, F) = {r}
    <3>1. ASSUME NEW c \in F, c # r PROVE ~ Precedes(c, r)
      BY <1>2, <2>4, <3>1, OneWay
    <3> QED BY <2>4, <3>1 DEF UpTo
  <2>6. Some = {r}
    BY <1>6, <1>7
  <2>7. Cardinality({r}) = 1
    BY FS_Singleton
  <2>8. n + 1 = 1
    BY <1>7
  <2> QED BY <2>4, <2>5, <2>6, <2>7, <2>8
<1>8. ASSUME n # 0, n + 1 \in 1 .. m
      PROVE  r \in F /\ Some = UpTo(r, F) /\ Cardinality(UpTo(r, F)) = n + 1
  <2> DEFINE rho == last_rom_no
  <2>1. n \in 1 .. m /\ device_list # <<>>
    BY <1>3, <1>4, <1>8 DEF n
  <2>2. /\ rho \in F /\ {device_list[i] : i \in 1 .. n} = UpTo(rho, F)
        /\ Cardinality(UpTo(rho, F)) = n
    BY <2>1 DEF SearchInv, FamilyInOrder, n, m, F
  <2>3. /\ rho \in devices /\ LastTurn(last_discrepancy, rho, Bits, devices)
        /\ last_discrepancy # 0
    BY <1>1, <2>1 DEF SearchInv, PassDone
  <2>4. PICK f \in F : f \notin UpTo(rho, F)
    <3>1. UpTo(rho, F) # F
      BY <1>3, <1>4, <1>8, <2>2 DEF m
    <3> QED BY <3>1 DEF UpTo
  <2>5. Precedes(rho, f)
    BY <1>2, <2>2, <2>4, InOrder DEF UpTo
  <2>6. r \in F
    BY <1>1, <1>2, <2>2, <2>3, <2>5, NextOfFamily DEF F
  <2>7. /\ Precedes(rho, r)
        /\ \A d \in devices : d = rho \/ Precedes(d, rho) \/ d = r \/ Precedes(r, d)
    BY <1>1, <1>2, <2>3, NextPass
  <2>8. UpTo(r, F) = UpTo(rho, F) \cup {r}
    <3>1. ASSUME NEW c \in F, Precedes(c, r) PROVE c = rho \/ Precedes(c, rho)
      <4>1. c \in devices
        BY DEF F, Family
      <4>2. c \in Vectors /\ r \in Vectors
        BY <1>2, <2>6
      <4>3. c # r /\ ~ Precedes(r, c)
        BY <3>1, <4>2, NotItself, OneWay
      <4> QED BY <2>7, <4>1, <4>3
    <3>2. ASSUME NEW c \in F, Precedes(c, rho) PROVE Precedes(c, r)
      <4>1. c \in Vectors /\ r \in Vectors /\ rho \in Vectors
        BY <1>2, <2>2, <2>6
      <4> QED BY <2>7, <3>2, <4>1, Onwards
    <3> QED BY <2>2, <2>6, <2>7, <3>1, <3>2 DEF UpTo
  <2>9. r \notin UpTo(rho, F)
    <3>1. r \in Vectors /\ rho \in Vectors
      BY <1>2, <2>2, <2>6
    <3> QED BY <2>7, <3>1, NotItself, OneWay DEF UpTo
  <2>10. IsFiniteSet(UpTo(rho, F))
    BY <1>4, FS_Subset DEF UpTo
  <2>11. Cardinality(UpTo(r, F)) = n + 1
    BY <2>2, <2>8, <2>9, <2>10, FS_AddElement
  <2> QED BY <1>6, <2>2, <2>6, <2>8, <2>11
<1>9. ASSUME n + 1 >= m PROVE {list[i] : i \in 1 .. m} = F
  <2>1. CASE n >= m
    <3>1. {device_list[i] : i \in 1 .. m} = F
      BY <2>1 DEF SearchInv, FamilyInOrder, n, m, F
    <3>2. \A i \in 1 .. m : list[i] = device_list[i]
      BY <1>3, <1>4, <2>1
    <3> QED BY <3>1, <3>2
  <2>2. CASE ~ n >= m
    <3>1. m = n + 1 /\ n + 1 \in 1 .. m
      BY <1>3, <1>4, <1>9, <2>2
    <3>2. Some = UpTo(r, F) /\ Cardinality(UpTo(r, F)) = m
      BY <1>7, <1>8, <3>1
    <3>3. UpTo(r, F) \in SUBSET F
      BY DEF UpTo
    <3>4. UpTo(r, F) = F
      BY <1>4, <3>2, <3>3, FS_Subset DEF m
    <3> QED BY <3>1, <3>2, <3>4
  <2> QED BY <2>1, <2>2
<1> QED BY <1>7, <1>8, <1>9

LEMMA NoMoreKeeps ==
    ASSUME SearchInv, NoMore
    PROVE  SearchInv'
<1>1. /\ searching /\ (last_device_flag \/ devices = {}) /\ searching' = FALSE
      /\ UNCHANGED <<devices, family_code, last_rom_no, last_discrepancy, last_device_flag,
                     device_list, unplugged>>
  BY DEF NoMore
<1>2. /\ devices \subseteq Vectors /\ IsFiniteSet(Family) /\ Cardinality(Family) \in Nat
      /\ device_list \in Seq(Numbers)
  BY BusFinite, NumbersAreVectors DEF SearchInv, SearchTypeOK
<1>3. SearchTypeOK' /\ (device_list \in Seq(Numbers))' /\ Gone'
  BY <1>1 DEF SearchInv, SearchTypeOK, Gone
<1>4. device_list = <<>> => devices = {}
  BY <1>1 DEF SearchInv, PassDone
<1>5. PassDone'
  <2>1. SearchStart(family_code)' <=> SearchStart(family_code)
    BY <1>1 DEF SearchStart
  <2> QED BY <1>1, <1>4, <2>1 DEF SearchInv, PassDone
<1>6. WayKept'
  BY <1>1 DEF SearchInv, WayKept
<1>7. device_list # <<>> /\ devices # {} => last_discrepancy = 0
  BY <1>1 DEF SearchInv, PassDone
<1>8. NoneMissed'
  <2> SUFFICES ASSUME family_code = 0, Cardinality(unplugged) <= 1, NEW d \in devices
               PROVE  d \in Range(device_list)
    BY <1>1 DEF NoneMissed
  <2>1. device_list # <<>> /\ last_discrepancy = 0
    BY <1>4, <1>7
  <2>2. ~ Ahead(d)
    BY <2>1 DEF Ahead
  <2> QED BY <2>1, <2>2 DEF SearchInv, NoneMissed
<1>9. FoundInOrder'
  <2> SUFFICES ASSUME family_code = 0, unplugged = {}
               PROVE  Len(device_list) = Cardinality(devices)
    BY <1>1 DEF SearchInv, FoundInOrder
  <2>1. CASE device_list = <<>>
    BY <1>4, <2>1, FS_EmptySet
  <2>2. CASE device_list # <<>>
    <3>1. last_rom_no \in devices /\ LastTurn(0, last_rom_no, Bits, devices)
      BY <1>7, <2>2 DEF SearchInv, PassDone
    <3>2. Rank(last_rom_no, devices) = Len(device_list)
      BY <2>2 DEF SearchInv, FoundInOrder
    <3> QED BY <1>2, <3>1, <3>2, NoTurnLeft, RankLast
  <2> QED BY <2>1, <2>2
<1>10. FamilyInOrder'
  <2>1. Family' = Family
    BY <1>1 DEF Family
  <2> SUFFICES ASSUME family_code # 0, unplugged = {}
               PROVE  Len(device_list) >= Cardinality(Family)
    BY <1>1, <2>1 DEF SearchInv, FamilyInOrder
  <2>2. Len(device_list) \in Nat
    BY <1>2
  <2>3. CASE device_list = <<>>
    <3>1. Family = {}
      BY <1>4, <2>3 DEF Family
    <3> QED BY <2>2, <3>1, FS_EmptySet
  <2>4. CASE device_list # <<>>
    <3> SUFFICES ASSUME ~ Len(device_list) >= Cardinality(Family) PROVE FALSE
      OBVIOUS
    <3>1. Len(device_list) \in 1 .. Cardinality(Family)
      BY <1>2, <2>2, <2>4
    <3>2. /\ last_rom_no \in Family
          /\ Cardinality(UpTo(last_rom_no, Family)) = Len(device_list)
      BY <3>1 DEF SearchInv, FamilyInOrder
    <3>3. UpTo(last_rom_no, Family) # Family
      BY <1>2, <2>2, <3>2
    <3>4. PICK f \in Family : f \notin UpTo(last_rom_no, Family)
      BY <3>3 DEF UpTo
    <3>5. f \in devices /\ last_rom_no \in devices
      BY <3>2, <3>4 DEF Family
    <3>6. Precedes(last_rom_no, f)
      BY <1>2, <3>4, <3>5, InOrder DEF UpTo
    <3>7. LastTurn(0, last_rom_no, Bits, devices)
      BY <1>7, <2>4, <3>5 DEF SearchInv, PassDone
    <3> QED BY <1>2, <3>5, <3>6, <3>7, NoTurnLeft
  <2> QED BY <2>3, <2>4
<1> QED BY <1>3, <1>5, <1>6, <1>8, <1>9, <1>10 DEF SearchInv

LEMMA UnplugKeeps ==
    ASSUME SearchInv, NEW x \in devices, Unplug(x)
    PROVE  SearchInv'
<1>1. /\ searching /\ devices' = devices \ {x} /\ unplugged' = unplugged \cup {x}
      /\ UNCHANGED <<family_code, last_rom_no, last_discrepancy, last_device_flag, device_list,
                     searching>>
  BY DEF Unplug
<1>2. /\ x \notin unplugged /\ IsFiniteSet(unplugged) /\ Cardinality(unplugged) \in Nat
  BY BusFinite DEF SearchInv, Gone
<1>3. /\ Cardinality(unplugged') = Cardinality(unplugged) + 1
      /\ Cardinality(unplugged') <= 1 => unplugged = {} /\ Cardinality(unplugged) <= 1
  <2>1. Cardinality(unplugged') = Cardinality(unplugged) + 1
    BY <1>1, <1>2, FS_AddElement
  <2>2. Cardinality(unplugged') <= 1 => Cardinality(unplugged) = 0
    BY <1>2, <2>1
  <2> QED BY <1>2, <2>1, <2>2, FS_EmptySet
<1>4. SearchTypeOK' /\ (device_list \in Seq(Numbers))' /\ Gone'
  BY <1>1, <1>2 DEF SearchInv, SearchTypeOK, Gone
<1>5. unplugged' # {}
  BY <1>1
<1>6. PassDone'
  <2>1. SearchStart(family_code)' <=> SearchStart(family_code)
    BY <1>1 DEF SearchStart
  <2> QED BY <1>1, <1>5, <2>1 DEF SearchInv, PassDone
<1>7. WayKept'
  <2> SUFFICES ASSUME Cardinality(unplugged') <= 1, device_list # <<>>, last_discrepancy # 0
               PROVE  \E d \in devices' : Agree(d, last_rom_no, last_discrepancy - 1)
    BY <1>1 DEF WayKept
  <2>1. last_rom_no \in devices /\ LastTurn(last_discrepancy, last_rom_no, Bits, devices)
    BY <1>3 DEF SearchInv, PassDone
  <2>2. /\ last_rom_no[last_discrepancy] = 0
        /\ \E e \in devices : Agree(e, last_rom_no, last_discrepancy - 1)
                              /\ e[last_discrepancy] = 1
    BY <2>1 DEF LastTurn, Turns
  <2>3. PICK e \in devices : Agree(e, last_rom_no, last_discrepancy - 1)
                             /\ e[last_discrepancy] = 1
    BY <2>2
  <2>4. e # last_rom_no
    BY <2>2, <2>3
  <2>5. Agree(last_rom_no, last_rom_no, last_discrepancy - 1)
    BY DEF Agree
  <2> QED BY <1>1, <2>1, <2>3, <2>4, <2>5
<1>8. NoneMissed'
  <2> SUFFICES ASSUME family_code = 0, Cardinality(unplugged') <= 1, NEW d \in devices'
               PROVE  \/ d \in Range(device_list)
                      \/ searching /\ (device_list = <<>> \/ Ahead(d))
    <3>1. \A d : Ahead(d)' <=> Ahead(d)
      BY <1>1 DEF Ahead
    <3> QED BY <1>1, <3>1 DEF NoneMissed
  <2>1. d \in devices /\ Cardinality(unplugged) <= 1
    BY <1>1, <1>3
  <2> QED BY <2>1 DEF SearchInv, NoneMissed
<1>9. FoundInOrder' /\ FamilyInOrder'
  BY <1>5 DEF FoundInOrder, FamilyInOrder
<1> QED BY <1>4, <1>6, <1>7, <1>8, <1>9 DEF SearchInv

LEMMA SearchKeeps == SearchInv /\ [SearchStep]_searchVars => SearchInv'
<1> SUFFICES ASSUME SearchInv, [SearchStep]_searchVars PROVE SearchInv'
  OBVIOUS
<1>1. CASE SearchNext
  BY <1>1, NextTyped, NextMissesNone, NextInOrder, NextInFamily DEF SearchInv
<1>2. CASE NoMore
  BY <1>2, NoMoreKeeps
<1>3. ASSUME NEW x \in devices, Unplug(x) PROVE SearchInv'
  BY <1>3, UnplugKeeps
<1>4. CASE UNCHANGED searchVars
  <2>1. \A d : Ahead(d)' <=> Ahead(d)
    BY <1>4 DEF searchVars, Ahead
  <2>2. Family' = Family
    BY <1>4 DEF searchVars, Family
  <2>3. SearchStart(family_code)' <=> SearchStart(family_code)
    BY <1>4 DEF searchVars, SearchStart
  <2>4. /\ SearchTypeOK' /\ (device_list \in Seq(Numbers))' /\ Gone' /\ PassDone' /\ WayKept'
    BY <1>4, <2>3 DEF SearchInv, searchVars, SearchTypeOK, Gone, PassDone, WayKept
  <2>5. NoneMissed' /\ FoundInOrder' /\ FamilyInOrder'
    BY <1>4, <2>1, <2>2
    DEF SearchInv, searchVars, NoneMissed, FoundInOrder, FamilyInOrder
  <2> QED BY <2>4, <2>5 DEF SearchInv
<1> QED BY <1>1, <1>2, <1>3, <1>4 DEF SearchStep

\* What is found is of the bus, and the state of the search is what
\* twr_onewire.c keeps.
THEOREM SearchTyped == SearchSpec => []SearchTypeOK
<1>1. SearchInv => SearchTypeOK
  BY DEF SearchInv
<1> QED BY <1>1, SearchStarts, SearchKeeps, PTL DEF SearchSpec

\* A search finds what is there: twr_onewire_search_all on a bus that nobody
\* touches meets all devices in their order, each of them once; one that is
\* unplugged meanwhile hides none of the others; and twr_onewire_search_family
\* begins with all devices of the family.  The numbers may have any width,
\* and there may be any number of devices.
THEOREM TheSearchFinds == SearchSpec => []SearchFinds
<1>1. SearchInv => EachFoundOnce
  BY DEF SearchInv, FoundInOrder, EachFoundOnce
<1>2. SearchInv => OthersFound
  BY DEF SearchInv, NoneMissed, OthersFound
<1>3. SearchInv => FamilyFirst
  <2> SUFFICES ASSUME SearchInv PROVE FamilyFirst
    OBVIOUS
  <2>1. Family = {d \in devices : InFamily(d, family_code)}
    BY DEF Family
  <2> QED BY <2>1 DEF SearchInv, FamilyInOrder, FamilyFirst
<1>4. SearchInv => SearchFinds
  BY <1>1, <1>2, <1>3 DEF SearchFinds
<1> QED BY <1>4, SearchStarts, SearchKeeps, PTL DEF SearchSpec

-----------------------------------------------------------------------------
(***************************************************************************)
(* The drivers of I2C sensors (Sensor): no result is read early, and an    *)
(* update is of this measurement.                                          *)
(***************************************************************************)
VARIABLES
    sensor_driver, sensor_state, sensor_part, sensor_active, sensor_valid, sensor_plan,
    sensor_interval, sensor_handling, sensor_conversion, sensor_fresh

SENSOR == INSTANCE Sensor WITH
    driver <- sensor_driver, state <- sensor_state, part <- sensor_part,
    measurement_active <- sensor_active, valid <- sensor_valid, measure_plan <- sensor_plan,
    interval_plan <- sensor_interval, handling <- sensor_handling,
    conversion <- sensor_conversion, fresh <- sensor_fresh

\* What is planned, once the sensor is reset, is planned for a measurement;
\* a handler is only called in the states it is called in.
SensorPlanned ==
    /\ sensor_plan # "none" /\ sensor_state # "INITIALIZE" => sensor_active
    /\ sensor_handling = "error" => sensor_state = "ERROR"
    /\ sensor_handling = "update" => sensor_state = "UPDATE"
    /\ sensor_state = "ERROR" => sensor_handling = "error"
    /\ sensor_state = "UPDATE" => sensor_handling = "update"

\* What has been read since the measurement was accepted is valid, and the
\* parts before the one that is read have been.
SensorRead ==
    /\ sensor_fresh \subseteq SENSOR!Quantities /\ sensor_valid \subseteq SENSOR!Quantities
    /\ sensor_active => sensor_fresh \subseteq sensor_valid
    /\ sensor_state = "READ" => sensor_active
    /\ sensor_state = "READ" =>
           \A k \in 1 .. sensor_part - 1 : sensor_driver.parts[k] \subseteq sensor_fresh
    /\ sensor_state # "READ" => sensor_part = 1

SensorInv ==
    /\ SENSOR!TypeOK /\ SENSOR!NotReadEarly /\ SensorPlanned /\ SensorRead

LEMMA DriverParts ==
    ASSUME sensor_driver \in SENSOR!Drivers
    PROVE  /\ Len(sensor_driver.parts) \in {1, 2}
           /\ DOMAIN sensor_driver.parts = 1 .. Len(sensor_driver.parts)
<1>1. \A d \in {SENSOR!Tmp112, SENSOR!Hts221, SENSOR!Opt3001, SENSOR!Sht30, SENSOR!Hdc2080} :
          Len(d.parts) = 1 /\ DOMAIN d.parts = {1}
  BY DEF SENSOR!Tmp112, SENSOR!Hts221, SENSOR!Opt3001, SENSOR!Sht30, SENSOR!Hdc2080
<1>2. \A d \in {SENSOR!Sht20, SENSOR!Mpl3115a2} : Len(d.parts) = 2 /\ DOMAIN d.parts = {1, 2}
  BY DEF SENSOR!Sht20, SENSOR!Mpl3115a2
<1>3. 1 .. 1 = {1} /\ 1 .. 2 = {1, 2}
  OBVIOUS
<1> QED BY <1>1, <1>2, <1>3 DEF SENSOR!Drivers

LEMMA SensorStarts == SENSOR!Init => SensorInv
<1> SUFFICES ASSUME SENSOR!Init PROVE SensorInv
  OBVIOUS
<1>1. 1 \in DOMAIN sensor_driver.parts
  BY DriverParts DEF SENSOR!Init
<1>2. SENSOR!TypeOK /\ SENSOR!NotReadEarly /\ SensorPlanned
  BY <1>1 DEF SENSOR!Init, SENSOR!TypeOK, SENSOR!NotReadEarly, SensorPlanned
<1>3. SensorRead
  BY DEF SENSOR!Init, SensorRead
<1> QED BY <1>2, <1>3 DEF SensorInv

LEMMA SensorAccepts ==
    ASSUME SensorInv, SENSOR!Accepted,
           UNCHANGED <<sensor_driver, sensor_state, sensor_part, sensor_valid, sensor_handling,
                       sensor_conversion>>,
           sensor_interval' \in BOOLEAN
    PROVE  SensorInv'
<1>1. CASE sensor_active
  BY <1>1 DEF SENSOR!Accepted, SensorInv, SENSOR!TypeOK, SENSOR!NotReadEarly, SensorPlanned,
              SensorRead, SENSOR!Quantities
<1>2. CASE ~ sensor_active
  BY <1>2 DEF SENSOR!Accepted, SensorInv, SENSOR!TypeOK, SENSOR!NotReadEarly, SensorPlanned,
              SensorRead, SENSOR!Quantities
<1> QED BY <1>1, <1>2

LEMMA SensorFails ==
    ASSUME SensorInv, SENSOR!Fail, UNCHANGED sensor_conversion
    PROVE  SensorInv'
<1>1. 1 \in DOMAIN sensor_driver.parts
  BY DriverParts DEF SensorInv, SENSOR!TypeOK
<1> QED BY <1>1 DEF SENSOR!Fail, SensorInv, SENSOR!TypeOK, SENSOR!NotReadEarly, SensorPlanned,
                    SensorRead, SENSOR!Quantities

\* A part is in the sensor's quantities, and with the parts before it the last
\* one makes them complete.
LEMMA PartsRead ==
    ASSUME SensorInv, sensor_state = "READ"
    PROVE  /\ sensor_driver.parts[sensor_part] \subseteq SENSOR!Quantities
           /\ \A k \in 1 .. sensor_part :
                  sensor_driver.parts[k] \subseteq sensor_fresh \cup sensor_driver.parts[sensor_part]
           /\ SENSOR!LastPart =>
                  SENSOR!Quantities = sensor_fresh \cup sensor_driver.parts[sensor_part]
<1>1. sensor_part \in DOMAIN sensor_driver.parts /\ sensor_part \in Nat
  BY DriverParts DEF SensorInv, SENSOR!TypeOK
<1>2. ASSUME NEW k \in 1 .. sensor_part
      PROVE  sensor_driver.parts[k] \subseteq sensor_fresh \cup sensor_driver.parts[sensor_part]
  BY <1>1, k \in 1 .. sensor_part - 1 \/ k = sensor_part DEF SensorInv, SensorRead
<1>3. sensor_driver.parts[sensor_part] \subseteq SENSOR!Quantities
  BY <1>1 DEF SENSOR!Quantities
<1>4. ASSUME SENSOR!LastPart
      PROVE  SENSOR!Quantities = sensor_fresh \cup sensor_driver.parts[sensor_part]
  <2>1. DOMAIN sensor_driver.parts = 1 .. sensor_part
    BY <1>4, DriverParts DEF SENSOR!LastPart, SensorInv, SENSOR!TypeOK
  <2>2. SENSOR!Quantities \subseteq sensor_fresh \cup sensor_driver.parts[sensor_part]
    BY <1>2, <2>1 DEF SENSOR!Quantities
  <2> QED BY <1>3, <2>2 DEF SensorInv, SensorRead
<1> QED BY <1>2, <1>3, <1>4

LEMMA SensorReads ==
    ASSUME SensorInv, SENSOR!Read
    PROVE  SensorInv'
<1>1. CASE SENSOR!Fail /\ UNCHANGED sensor_conversion
  BY <1>1, SensorFails
<1> DEFINE read == sensor_driver.parts[sensor_part]
<1>2. ASSUME sensor_valid' = sensor_valid \cup read, sensor_fresh' = sensor_fresh \cup read
      PROVE  /\ sensor_fresh' \subseteq SENSOR!Quantities
             /\ sensor_valid' \subseteq SENSOR!Quantities
             /\ sensor_fresh' \subseteq sensor_valid'
  BY <1>2, PartsRead DEF SENSOR!Read, SENSOR!Runs, SensorInv, SensorRead
<1>3. ASSUME sensor_valid' = sensor_valid \cup read, sensor_fresh' = sensor_fresh \cup read,
             sensor_state' = "UPDATE", sensor_part' = 1, sensor_conversion' = "none",
             sensor_active' = FALSE, sensor_handling' = "update", sensor_plan' = "none",
             UNCHANGED <<sensor_driver, sensor_interval>>
      PROVE  SensorInv'
  <2>1. 1 \in DOMAIN sensor_driver.parts
    BY DriverParts DEF SensorInv, SENSOR!TypeOK
  <2>2. SENSOR!Quantities' = SENSOR!Quantities
    BY <1>3 DEF SENSOR!Quantities
  <2>3. (SENSOR!TypeOK /\ SENSOR!NotReadEarly /\ SensorPlanned)'
    BY <1>2, <1>3, <2>1, <2>2
       DEF SensorInv, SENSOR!TypeOK, SENSOR!NotReadEarly, SensorPlanned
  <2>4. SensorRead'
    BY <1>2, <1>3, <2>2 DEF SensorRead
  <2> QED BY <2>3, <2>4 DEF SensorInv
<1>4. ASSUME sensor_valid' = sensor_valid \cup read, sensor_fresh' = sensor_fresh \cup read,
             ~ SENSOR!LastPart, SENSOR!Begins(sensor_part + 1)
      PROVE  SensorInv'
  <2>1. sensor_part + 1 \in DOMAIN sensor_driver.parts /\ sensor_part \in Nat
    BY <1>4, DriverParts DEF SENSOR!LastPart, SensorInv, SENSOR!TypeOK
  <2>2. \A k \in 1 .. (sensor_part + 1) - 1 : sensor_driver.parts[k] \subseteq sensor_fresh'
    BY <1>4, <2>1, PartsRead DEF SENSOR!Read, SENSOR!Runs
  <2>3. sensor_active
    BY DEF SENSOR!Read, SENSOR!Runs, SensorInv, SensorRead
  <2>4. (SENSOR!TypeOK /\ SENSOR!NotReadEarly /\ SensorPlanned)'
    BY <1>2, <1>4, <2>1, <2>3
       DEF SENSOR!Read, SENSOR!Runs, SENSOR!Begins, SensorInv, SENSOR!TypeOK, SENSOR!NotReadEarly,
           SensorPlanned, SENSOR!Quantities
  <2>5. SensorRead'
    BY <1>2, <1>4, <2>2, <2>3 DEF SENSOR!Begins, SensorRead, SENSOR!Quantities
  <2> QED BY <2>4, <2>5 DEF SensorInv
<1> QED BY <1>1, <1>3, <1>4 DEF SENSOR!Read

LEMMA SensorKeeps == SensorInv /\ [SENSOR!SensorNext]_(SENSOR!sensorVars) => SensorInv'
<1> SUFFICES ASSUME SensorInv, [SENSOR!SensorNext]_(SENSOR!sensorVars) PROVE SensorInv'
  OBVIOUS
<1>1. CASE SENSOR!Measure \/ SENSOR!IntervalTask
  BY <1>1, SensorAccepts DEF SENSOR!Measure, SENSOR!IntervalTask, SensorInv, SENSOR!TypeOK
<1>2. CASE SENSOR!SetUpdateInterval
  <2>1. CASE sensor_interval' = TRUE /\ SENSOR!Accepted
    BY <1>2, <2>1, SensorAccepts DEF SENSOR!SetUpdateInterval
  <2>2. CASE sensor_interval' = FALSE /\ UNCHANGED <<sensor_active, sensor_plan, sensor_fresh>>
    BY <1>2, <2>2 DEF SENSOR!SetUpdateInterval, SensorInv, SENSOR!TypeOK, SENSOR!NotReadEarly,
                      SensorPlanned, SensorRead, SENSOR!Quantities
  <2> QED BY <1>2, <2>1, <2>2 DEF SENSOR!SetUpdateInterval
<1>3. CASE SENSOR!Initialize
  <2>1. CASE SENSOR!Fail /\ UNCHANGED sensor_conversion
    BY <2>1, SensorFails
  <2>2. CASE ~ (SENSOR!Fail /\ UNCHANGED sensor_conversion)
    BY <1>3, <2>2, DriverParts
       DEF SENSOR!Initialize, SENSOR!Runs, SensorInv, SENSOR!TypeOK, SENSOR!NotReadEarly,
           SensorPlanned, SensorRead, SENSOR!Quantities
  <2> QED BY <2>1, <2>2
<1>4. CASE SENSOR!StartConversion
  <2>1. CASE SENSOR!Fail /\ UNCHANGED sensor_conversion
    BY <2>1, SensorFails
  <2>2. CASE SENSOR!Begins(sensor_part) /\ UNCHANGED <<sensor_valid, sensor_fresh>>
    <3>1. sensor_part = 1 /\ sensor_active
      BY <1>4 DEF SENSOR!StartConversion, SENSOR!Runs, SensorInv, SensorPlanned, SensorRead
    <3> QED BY <1>4, <2>2, <3>1
            DEF SENSOR!StartConversion, SENSOR!Runs, SENSOR!Begins, SensorInv, SENSOR!TypeOK,
                SENSOR!NotReadEarly, SensorPlanned, SensorRead, SENSOR!Quantities
  <2> QED BY <1>4, <2>1, <2>2 DEF SENSOR!StartConversion
<1>5. CASE SENSOR!ConversionEnds
  BY <1>5 DEF SENSOR!ConversionEnds, SensorInv, SENSOR!TypeOK, SENSOR!NotReadEarly, SensorPlanned,
              SensorRead, SENSOR!Quantities
<1>6. CASE SENSOR!Read
  BY <1>6, SensorReads
<1>7. CASE SENSOR!HandlerReturns
  BY <1>7 DEF SENSOR!HandlerReturns, SensorInv, SENSOR!TypeOK, SENSOR!NotReadEarly, SensorPlanned,
              SensorRead, SENSOR!Quantities
<1>8. CASE UNCHANGED SENSOR!sensorVars
  BY <1>8 DEF SENSOR!sensorVars, SensorInv, SENSOR!TypeOK, SENSOR!NotReadEarly, SensorPlanned,
              SensorRead, SENSOR!Quantities
<1> QED BY <1>1, <1>2, <1>3, <1>4, <1>5, <1>6, <1>7, <1>8 DEF SENSOR!SensorNext, SENSOR!Works

\* Only reading the last part announces an update, and then everything has
\* been read.
LEMMA UpdatesAreFresh ==
    ASSUME SensorInv, [SENSOR!SensorNext]_(SENSOR!sensorVars),
           sensor_handling = "none", sensor_handling' = "update"
    PROVE  sensor_valid' = SENSOR!Quantities /\ sensor_fresh' = SENSOR!Quantities
<1>1. SENSOR!Read /\ sensor_handling' = "update"
  BY DEF SENSOR!SensorNext, SENSOR!Works, SENSOR!Measure, SENSOR!SetUpdateInterval,
         SENSOR!IntervalTask, SENSOR!Initialize, SENSOR!StartConversion, SENSOR!ConversionEnds,
         SENSOR!HandlerReturns, SENSOR!Begins, SENSOR!Fail, SENSOR!sensorVars
<1>2. /\ sensor_state = "READ" /\ SENSOR!LastPart
      /\ sensor_valid' = sensor_valid \cup sensor_driver.parts[sensor_part]
      /\ sensor_fresh' = sensor_fresh \cup sensor_driver.parts[sensor_part]
  BY <1>1 DEF SENSOR!Read, SENSOR!Runs, SENSOR!Begins, SENSOR!Fail
<1> QED BY <1>2, PartsRead DEF SensorInv, SensorRead

\* A sensor's driver has the right types.
THEOREM SensorTyped == SENSOR!SensorSpec => []SENSOR!TypeOK
<1>1. SensorInv => SENSOR!TypeOK
  BY DEF SensorInv
<1> QED BY <1>1, SensorStarts, SensorKeeps, PTL DEF SENSOR!SensorSpec

\* Whoever asks for a measurement meanwhile, and whatever fails, a result is
\* not read before its conversion has had its time, and an update comes with
\* every quantity of the sensor, read since the measurement was asked for.
THEOREM UpdatesAreOfThisMeasurement ==
    SENSOR!SensorSpec => []SENSOR!NotReadEarly /\ SENSOR!UpdateIsFresh
<1>1. SensorInv => SENSOR!NotReadEarly
  BY DEF SensorInv
<1>2. SensorInv /\ [SENSOR!SensorNext]_(SENSOR!sensorVars)
      => [sensor_handling = "none" /\ sensor_handling' = "update"
          => sensor_valid' = SENSOR!Quantities /\ sensor_fresh' = SENSOR!Quantities]_(SENSOR!sensorVars)
  BY UpdatesAreFresh
<1> QED BY <1>1, <1>2, SensorStarts, SensorKeeps, PTL DEF SENSOR!SensorSpec, SENSOR!UpdateIsFresh

-----------------------------------------------------------------------------
(***************************************************************************)
(* The accelerometer (Lis2dh12): measurements and the alarm share a chip.  *)
(***************************************************************************)
CONSTANT Careful

VARIABLES
    accel_state, accel_active, accel_plan, accel_interval, accel_handling, alarm_active, irq_flag,
    scale, exti, chip, alarm_set, unasked

ACCEL == INSTANCE Lis2dh12 WITH
    state <- accel_state, measurement_active <- accel_active, measure_plan <- accel_plan,
    interval_plan <- accel_interval, handling <- accel_handling

\* The task is planned or runs.
AccelDue == accel_plan # "none" \/ accel_handling = "task"

\* Who is accepted is planned for, and the interrupt is set up as it is known
\* to be.
AccelPlanned ==
    /\ accel_active => AccelDue
    /\ alarm_set => alarm_active /\ chip.watching
    /\ alarm_set /\ ~ unasked /\ AccelDue => accel_active
    /\ accel_state \in {"MEASURE", "READ", "UPDATE"} /\ AccelDue => accel_active
    /\ accel_handling = "task" /\ accel_state \in {"MEASURE", "READ"} => accel_plan = "none"
    /\ accel_handling = "task" /\ accel_plan # "none" => accel_active
    /\ accel_handling \in {"update", "alarm"} => accel_state = "UPDATE"
    /\ accel_state = "UPDATE" => accel_handling \in {"update", "alarm"}

\* The chip is as the state of the driver says.
AccelSet ==
    /\ accel_state = "READ" => chip.powered
    /\ alarm_set /\ ~ unasked /\ ~ AccelDue /\ accel_state \in {"MEASURE", "UPDATE"} => chip.powered
    /\ accel_state \in {"MEASURE", "READ", "UPDATE"} => chip.scale = scale

AccelInv == ACCEL!TypeOK /\ AccelPlanned /\ AccelSet

LEMMA AccelAccepts ==
    ASSUME AccelInv, ACCEL!Accepted, accel_interval' \in BOOLEAN, irq_flag' \in BOOLEAN,
           UNCHANGED <<accel_state, accel_handling, alarm_active, scale, exti, chip, alarm_set>>
    PROVE  AccelInv'
BY DEF ACCEL!Accepted, AccelInv, ACCEL!TypeOK, AccelPlanned, AccelSet, AccelDue

LEMMA AlarmIsSet ==
    ASSUME AccelInv, NEW on \in BOOLEAN, ACCEL!SetAlarm(on)
    PROVE  AccelInv'
<1>1. ASSUME chip' \in {chip, [chip EXCEPT !.watching = FALSE]}, alarm_set' = FALSE,
             UNCHANGED <<accel_active, accel_plan, exti, unasked>>
      PROVE  AccelInv'
  BY <1>1 DEF ACCEL!SetAlarm, AccelInv, ACCEL!TypeOK, AccelPlanned, AccelSet, AccelDue
<1>2. ASSUME chip' = [chip EXCEPT !.watching = on], exti' = on, alarm_set' = on, ACCEL!Accepted
      PROVE  AccelInv'
  <2>1. chip' \in [scale : ACCEL!Scales, powered : BOOLEAN, watching : BOOLEAN]
        /\ chip'.scale = chip.scale /\ chip'.powered = chip.powered /\ chip'.watching = on
    BY <1>2 DEF AccelInv, ACCEL!TypeOK
  <2>2. accel_active' = TRUE /\ unasked' = FALSE /\ accel_plan' \in {"now", "paused"}
    BY <1>2 DEF ACCEL!SetAlarm, ACCEL!Calls, ACCEL!Accepted, AccelInv, ACCEL!TypeOK, AccelPlanned,
                AccelDue
  <2>3. accel_handling # "task" /\ alarm_active' = on /\ alarm_set' = on /\ exti' = on
        /\ UNCHANGED <<accel_state, accel_interval, accel_handling, irq_flag, scale>>
    BY <1>2 DEF ACCEL!SetAlarm, ACCEL!Calls
  <2>4. ACCEL!TypeOK'
    BY <2>1, <2>2, <2>3 DEF AccelInv, ACCEL!TypeOK
  <2>5. AccelPlanned'
    BY <2>1, <2>2, <2>3 DEF AccelInv, AccelPlanned, AccelDue
  <2>6. AccelSet'
    BY <2>1, <2>2, <2>3 DEF AccelInv, AccelSet, AccelDue
  <2> QED BY <2>4, <2>5, <2>6 DEF AccelInv
<1> QED BY <1>1, <1>2 DEF ACCEL!SetAlarm

LEMMA AccelFails ==
    ASSUME AccelInv, ACCEL!Fail, chip' \in {chip, [chip EXCEPT !.scale = scale]}
    PROVE  AccelInv'
<1>1. chip' \in [scale : ACCEL!Scales, powered : BOOLEAN, watching : BOOLEAN]
      /\ chip'.watching = chip.watching
  BY DEF AccelInv, ACCEL!TypeOK
<1>2. unasked' \in BOOLEAN /\ (~ unasked' => accel_plan = "none")
  BY DEF ACCEL!Fail
<1> QED BY <1>1, <1>2 DEF ACCEL!Fail, AccelInv, ACCEL!TypeOK, AccelPlanned, AccelSet, AccelDue

LEMMA AccelMeasures ==
    ASSUME AccelInv, ACCEL!Initialize \/ ACCEL!StartConversion \/ ACCEL!Read
    PROVE  AccelInv'
<1>1. CASE ACCEL!Fail /\ chip' \in {chip, [chip EXCEPT !.scale = scale]}
  BY <1>1, AccelFails
<1>2. ASSUME ACCEL!Initialize, ~ (ACCEL!Fail /\ chip' \in {chip, [chip EXCEPT !.scale = scale]})
      PROVE  AccelInv'
  <2>1. chip' = [chip EXCEPT !.scale = scale, !.powered = FALSE]
    BY <1>2 DEF ACCEL!Initialize
  <2>2. chip' \in [scale : ACCEL!Scales, powered : BOOLEAN, watching : BOOLEAN]
        /\ chip'.scale = scale /\ chip'.watching = chip.watching
    BY <2>1 DEF AccelInv, ACCEL!TypeOK
  <2>3. /\ accel_handling = "task" /\ accel_state' = "MEASURE" /\ accel_handling' = "none"
        /\ accel_plan' = IF accel_active THEN "paused" ELSE accel_plan
        /\ UNCHANGED <<accel_active, accel_interval, alarm_active, irq_flag, scale, exti, alarm_set,
                       unasked>>
    BY <1>2 DEF ACCEL!Initialize, ACCEL!Runs
  <2>4. ACCEL!TypeOK'
    BY <2>2, <2>3 DEF AccelInv, ACCEL!TypeOK
  <2>5. AccelPlanned'
    <3>1. IF accel_active THEN accel_plan' = "paused" ELSE accel_plan' = "none"
      BY <2>3 DEF AccelInv, AccelPlanned
    <3> QED BY <2>2, <2>3, <3>1 DEF AccelInv, AccelPlanned, AccelDue
  <2>6. AccelSet'
    BY <2>2, <2>3 DEF AccelInv, AccelPlanned, AccelSet, AccelDue
  <2> QED BY <2>4, <2>5, <2>6 DEF AccelInv
<1>3. ASSUME ACCEL!StartConversion, ~ (ACCEL!Fail /\ UNCHANGED chip)
      PROVE  AccelInv'
  <2>1. chip' = [chip EXCEPT !.powered = TRUE]
    BY <1>3 DEF ACCEL!StartConversion
  <2>2. chip' \in [scale : ACCEL!Scales, powered : BOOLEAN, watching : BOOLEAN]
        /\ chip'.scale = chip.scale /\ chip'.watching = chip.watching /\ chip'.powered
    BY <2>1 DEF AccelInv, ACCEL!TypeOK
  <2>3. /\ accel_handling = "task" /\ accel_state = "MEASURE"
        /\ accel_state' = "READ" /\ accel_handling' = "none" /\ accel_plan' = "paused"
        /\ UNCHANGED <<accel_active, accel_interval, alarm_active, irq_flag, scale, exti, alarm_set,
                       unasked>>
    BY <1>3 DEF ACCEL!StartConversion, ACCEL!Runs
  <2>4. accel_active
    BY <2>3 DEF AccelInv, AccelPlanned, AccelDue
  <2>5. ACCEL!TypeOK'
    BY <2>2, <2>3 DEF AccelInv, ACCEL!TypeOK
  <2>6. AccelPlanned'
    BY <2>2, <2>3, <2>4 DEF AccelInv, AccelPlanned, AccelDue
  <2>7. AccelSet'
    BY <2>2, <2>3 DEF AccelInv, AccelSet, AccelDue
  <2> QED BY <2>5, <2>6, <2>7 DEF AccelInv
<1>4. ASSUME ACCEL!Read, ~ (ACCEL!Fail /\ UNCHANGED chip)
      PROVE  AccelInv'
  <2>1. chip' = [chip EXCEPT !.powered = alarm_active /\ chip.powered]
    BY <1>4 DEF ACCEL!Read, ACCEL!StaysOn
  <2>2. chip' \in [scale : ACCEL!Scales, powered : BOOLEAN, watching : BOOLEAN]
        /\ chip'.scale = chip.scale /\ chip'.watching = chip.watching
    BY <2>1 DEF AccelInv, ACCEL!TypeOK
  <2>3. chip'.powered = (alarm_active /\ chip.powered)
    BY <2>1 DEF AccelInv, ACCEL!TypeOK
  <2>4. alarm_set => chip'.powered
    BY <1>4, <2>3 DEF ACCEL!Read, ACCEL!Runs, AccelInv, AccelPlanned, AccelSet
  <2>5. ACCEL!TypeOK'
    BY <1>4, <2>2 DEF ACCEL!Read, AccelInv, ACCEL!TypeOK
  <2>6. /\ accel_handling = "task" /\ accel_state = "READ" /\ accel_plan = "none"
        /\ accel_state' = "UPDATE" /\ accel_handling' = "update" /\ accel_active' = FALSE
        /\ UNCHANGED <<accel_plan, accel_interval, alarm_active, irq_flag, scale, exti, alarm_set,
                       unasked>>
    BY <1>4 DEF ACCEL!Read, ACCEL!Runs, AccelInv, AccelPlanned
  <2>7. AccelPlanned'
    BY <2>2, <2>6 DEF AccelInv, AccelPlanned, AccelDue
  <2>8. AccelSet'
    BY <2>2, <2>4, <2>6 DEF AccelInv, AccelSet
  <2> QED BY <2>5, <2>7, <2>8 DEF AccelInv
<1> QED BY <1>1, <1>2, <1>3, <1>4 DEF ACCEL!Initialize, ACCEL!StartConversion, ACCEL!Read

LEMMA AccelReturns ==
    ASSUME AccelInv, ACCEL!ErrorReturns \/ ACCEL!AlarmReturns \/ ACCEL!UpdateReturns
    PROVE  AccelInv'
<1>1. CASE ACCEL!Fail /\ UNCHANGED chip
  BY <1>1, AccelFails
<1>2. CASE ACCEL!ErrorReturns
  BY <1>2 DEF ACCEL!ErrorReturns, ACCEL!Returns, AccelInv, ACCEL!TypeOK, AccelPlanned, AccelSet,
              AccelDue
<1>3. ASSUME accel_handling \in {"update", "alarm"}, ACCEL!Returns("MEASURE")
      PROVE  AccelInv'
  BY <1>3 DEF ACCEL!Returns, AccelInv, ACCEL!TypeOK, AccelPlanned, AccelSet, AccelDue
<1>4. ASSUME ACCEL!UpdateReturns, irq_flag' = FALSE, accel_handling' = "alarm",
             UNCHANGED <<accel_state, accel_active, accel_plan, accel_interval, alarm_active,
                         scale, exti, chip, alarm_set, unasked>>
      PROVE  AccelInv'
  BY <1>4 DEF ACCEL!UpdateReturns, AccelInv, ACCEL!TypeOK, AccelPlanned, AccelSet, AccelDue
<1>5. accel_handling \in {"update", "alarm"} => accel_state = "UPDATE"
  BY DEF AccelInv, AccelPlanned
<1> QED BY <1>1, <1>2, <1>3, <1>4, <1>5 DEF ACCEL!AlarmReturns, ACCEL!UpdateReturns

LEMMA AccelKeeps ==
    ASSUME Careful, AccelInv, [ACCEL!AccelNext]_(ACCEL!accelVars)
    PROVE  AccelInv'
<1>1. CASE ACCEL!Measure \/ ACCEL!IntervalTask \/ ACCEL!Interrupt
  BY <1>1, AccelAccepts DEF ACCEL!Measure, ACCEL!IntervalTask, ACCEL!Interrupt, AccelInv, ACCEL!TypeOK
<1>2. CASE ACCEL!SetUpdateInterval
  <2>1. CASE accel_interval' = TRUE /\ ACCEL!Accepted
    BY <1>2, <2>1, AccelAccepts DEF ACCEL!SetUpdateInterval, AccelInv, ACCEL!TypeOK
  <2>2. CASE accel_interval' = FALSE /\ UNCHANGED <<accel_active, accel_plan, unasked>>
    BY <1>2, <2>2 DEF ACCEL!SetUpdateInterval, AccelInv, ACCEL!TypeOK, AccelPlanned, AccelSet, AccelDue
  <2> QED BY <1>2, <2>1, <2>2 DEF ACCEL!SetUpdateInterval
<1>3. CASE \E s \in ACCEL!Scales : ACCEL!SetScale(s)
  BY <1>3 DEF ACCEL!SetScale, AccelInv, ACCEL!TypeOK, AccelPlanned, AccelSet, AccelDue
<1>4. CASE \E on \in BOOLEAN : ACCEL!SetAlarm(on)
  BY <1>4, AlarmIsSet
<1>5. CASE ACCEL!TaskStarts
  BY <1>5 DEF ACCEL!TaskStarts, AccelInv, ACCEL!TypeOK, AccelPlanned, AccelSet, AccelDue
<1>6. CASE ACCEL!Works /\ ~ ACCEL!TaskStarts
  BY <1>6, AccelMeasures, AccelReturns DEF ACCEL!Works
<1>7. CASE UNCHANGED ACCEL!accelVars
  BY <1>7 DEF ACCEL!accelVars, AccelInv, ACCEL!TypeOK, AccelPlanned, AccelSet, AccelDue
<1> QED BY <1>1, <1>2, <1>3, <1>4, <1>5, <1>6, <1>7 DEF ACCEL!AccelNext

LEMMA ScaleIsUsed ==
    ASSUME AccelInv, [ACCEL!AccelNext]_(ACCEL!accelVars),
           accel_handling = "task", accel_handling' = "update"
    PROVE  chip.scale = scale
<1>1. CASE ACCEL!Measure \/ ACCEL!IntervalTask \/ ACCEL!Interrupt \/ ACCEL!SetUpdateInterval
  BY <1>1 DEF ACCEL!Measure, ACCEL!IntervalTask, ACCEL!Interrupt, ACCEL!SetUpdateInterval
<1>2. CASE (\E s \in ACCEL!Scales : ACCEL!SetScale(s)) \/ (\E on \in BOOLEAN : ACCEL!SetAlarm(on))
  BY <1>2 DEF ACCEL!SetScale, ACCEL!SetAlarm
<1>3. CASE ACCEL!Works
  BY <1>3 DEF ACCEL!Works, ACCEL!TaskStarts, ACCEL!Initialize, ACCEL!StartConversion, ACCEL!Read, ACCEL!Runs,
              ACCEL!Fail, ACCEL!Reinitialize, ACCEL!ErrorReturns, ACCEL!AlarmReturns, ACCEL!UpdateReturns,
              AccelInv, AccelSet
<1>4. CASE UNCHANGED ACCEL!accelVars
  BY <1>4 DEF ACCEL!accelVars
<1> QED BY <1>1, <1>2, <1>3, <1>4 DEF ACCEL!AccelNext

\* If the scale is not set in an event handler or under an alarm: a chip left
\* alone still watches for the alarm that was set, though transfers fail and
\* the interrupt comes at any time, unless a plan outlived an error and no
\* measurement was asked for since; and an update is computed with the scale
\* that the chip measured with.
THEOREM AlarmAndScaleKept ==
    ASSUME Careful
    PROVE  ACCEL!AccelSpec => []ACCEL!AlarmWatches /\ ACCEL!ScaleUsed
<1>1. ACCEL!Init => AccelInv
  BY DEF ACCEL!Init, AccelInv, ACCEL!TypeOK, AccelPlanned, AccelSet, AccelDue, ACCEL!Scales
<1>2. AccelInv /\ [ACCEL!AccelNext]_(ACCEL!accelVars) => AccelInv'
  BY AccelKeeps
<1>3. AccelInv => ACCEL!AlarmWatches
  BY DEF AccelInv, AccelPlanned, AccelSet, AccelDue, ACCEL!AlarmWatches
<1>4. AccelInv /\ [ACCEL!AccelNext]_(ACCEL!accelVars)
      => [accel_handling = "task" /\ accel_handling' = "update"
          => chip.scale = scale]_(ACCEL!accelVars)
  BY ScaleIsUsed
<1> QED BY <1>1, <1>2, <1>3, <1>4, PTL DEF ACCEL!AccelSpec, ACCEL!ScaleUsed

-----------------------------------------------------------------------------
(***************************************************************************)
(* The CO2 sensor (Lp8): it rests without power, and a calibration that is *)
(* taken for done was sent.                                                *)
(***************************************************************************)
CONSTANTS MaxRequests, MaxFaults

VARIABLES
    co2_state, co2_planned, pins, co2_valid, first_measurement_done, calibration, calibrate,
    calibration_run, command, co2_event, co2_measuring, midway, requests, co2_faults

CO2 == INSTANCE Lp8 WITH
    state <- co2_state, planned <- co2_planned, valid <- co2_valid, event <- co2_event,
    measuring <- co2_measuring, faults <- co2_faults

\* In the run of a calibration the command that was chosen is the calibration's.
CommandChosen ==
    co2_state \in {"BOOT_READ", "MEASURE", "MEASURE_READ"} /\ calibration_run =>
        command \in {calibration, "initial"} \/ midway

Co2Inv == CO2!SensorRests /\ CommandChosen

LEMMA Co2Calls ==
    ASSUME Co2Inv, CO2!Accepted,
           UNCHANGED <<pins, co2_valid, first_measurement_done, calibration_run, command>>,
           UNCHANGED <<calibration, midway>> \/ midway' = TRUE
    PROVE  Co2Inv'
BY DEF CO2!Accepted, Co2Inv, CO2!SensorRests, CommandChosen

LEMMA Co2Fails == Co2Inv /\ CO2!Fails => Co2Inv'
BY DEF CO2!Fails, CO2!To, Co2Inv, CO2!SensorRests, CommandChosen

LEMMA Co2Succeeds ==
    ASSUME Co2Inv, NEW s, NEW p, CO2!Succeeds(s, p), s # "READY",
           s \in {"BOOT_READ", "MEASURE", "MEASURE_READ"} =>
               co2_state \in {"BOOT_READ", "MEASURE", "MEASURE_READ"}
    PROVE  Co2Inv'
BY DEF CO2!Succeeds, CO2!To, CO2!Kept, Co2Inv, CO2!SensorRests, CommandChosen

LEMMA Co2Boots ==
    ASSUME Co2Inv, CO2!Boot
    PROVE  Co2Inv'
<1>1. CASE CO2!Fails
  BY <1>1, Co2Fails
<1>2. ASSUME CO2!To("BOOT_READ", TRUE), UNCHANGED <<pins, co2_valid, first_measurement_done>>
      PROVE  Co2Inv'
  <2>1. calibration_run' => command' \in {calibration, "initial"}
    BY DEF CO2!Boot, CO2!Chosen
  <2> QED BY <1>2, <2>1 DEF CO2!Boot, CO2!To, Co2Inv, CO2!SensorRests, CommandChosen
<1> QED BY <1>1, <1>2 DEF CO2!Boot

LEMMA Co2Keeps == Co2Inv /\ [CO2!Lp8Next]_(CO2!lp8Vars) => Co2Inv'
<1> SUFFICES ASSUME Co2Inv, [CO2!Lp8Next]_(CO2!lp8Vars) PROVE Co2Inv'
  OBVIOUS
<1>1. CASE CO2!Measure \/ \E kind \in CO2!Calibrations : CO2!Calibration(kind)
  BY <1>1, Co2Calls DEF CO2!Measure, CO2!Calibration
<1>2. CASE CO2!CalibrationTick \/ CO2!Ready
  BY <1>2 DEF CO2!CalibrationTick, CO2!Ready, CO2!In, CO2!To, CO2!Kept, Co2Inv, CO2!SensorRests,
              CommandChosen
<1>3. CASE CO2!Initialize \/ CO2!Charge \/ CO2!BootFails \/ CO2!BootRead \/ CO2!ReadyAgain
  <2>1. CASE CO2!Fails
    BY <2>1, Co2Fails
  <2>2. CASE CO2!Succeeds("CHARGE", "charging") \/ CO2!Succeeds("BOOT", "sensor")
    BY <2>2, Co2Succeeds
  <2>3. CASE co2_state \in {"BOOT_READ", "MEASURE"}
             /\ (CO2!Succeeds("MEASURE", pins) \/ CO2!Succeeds("MEASURE_READ", pins))
    BY <2>3, Co2Succeeds
  <2> QED BY <1>3, <2>1, <2>2, <2>3
          DEF CO2!Initialize, CO2!Charge, CO2!BootFails, CO2!BootRead, CO2!ReadyAgain, CO2!Error,
              CO2!In
<1>4. CASE CO2!Boot
  BY <1>4, Co2Boots
<1>5. CASE CO2!ReadFails
  BY <1>5, Co2Fails DEF CO2!ReadFails, CO2!Error, CO2!To, Co2Inv, CO2!SensorRests, CommandChosen
<1>6. CASE CO2!RunsAgain \/ CO2!Measured
  BY <1>6 DEF CO2!RunsAgain, CO2!Measured, CO2!To, CO2!Kept, Co2Inv, CO2!SensorRests, CommandChosen
<1>7. CASE CO2!HandlerReturns
  BY <1>7 DEF CO2!HandlerReturns, CO2!Kept, Co2Inv, CO2!SensorRests, CommandChosen
<1>8. CASE UNCHANGED CO2!lp8Vars
  BY <1>8 DEF CO2!lp8Vars, Co2Inv, CO2!SensorRests, CommandChosen
<1> QED BY <1>1, <1>2, <1>3, <1>4, <1>5, <1>6, <1>7, <1>8 DEF CO2!Lp8Next, CO2!Works

\* Only the end of a calibration's run takes it for done.
LEMMA OnlyMeasuredCalibrates ==
    ASSUME Co2Inv, [CO2!Lp8Next]_(CO2!lp8Vars), calibrate, ~ calibrate'
    PROVE  command \in {calibration, "initial"} \/ midway
<1>1. CASE CO2!Measured
  BY <1>1 DEF CO2!Measured, CO2!In, Co2Inv, CommandChosen
<1>2. CASE ~ CO2!Measured
  <2>1. CASE CO2!Works
    BY <1>2, <2>1 DEF CO2!Works, CO2!Initialize, CO2!Charge, CO2!Ready, CO2!Boot, CO2!BootFails,
                      CO2!BootRead, CO2!ReadyAgain, CO2!ReadFails, CO2!RunsAgain,
                      CO2!HandlerReturns, CO2!Succeeds, CO2!Error, CO2!Kept
  <2>2. CASE CO2!Measure \/ CO2!CalibrationTick \/ \E kind \in CO2!Calibrations : CO2!Calibration(kind)
    BY <2>2 DEF CO2!Measure, CO2!CalibrationTick, CO2!Calibration
  <2>3. CASE UNCHANGED CO2!lp8Vars
    BY <2>3 DEF CO2!lp8Vars
  <2> QED BY <2>1, <2>2, <2>3 DEF CO2!Lp8Next
<1> QED BY <1>1, <1>2

\* However calls, errors and late answers fall: between measurements neither
\* the sensor nor its charging has power, what is valid was measured since the
\* last error, and a calibration that is taken for done was sent, but in the
\* two cases that the property names.
THEOREM Co2RestsAndCalibrates ==
    CO2!Lp8Spec => []CO2!SensorRests /\ CO2!CalibrationSent
<1>1. CO2!Init => Co2Inv
  BY DEF CO2!Init, Co2Inv, CO2!SensorRests, CommandChosen
<1>2. Co2Inv => CO2!SensorRests
  BY DEF Co2Inv
<1>3. Co2Inv /\ [CO2!Lp8Next]_(CO2!lp8Vars)
      => [calibrate /\ ~ calibrate' => command \in {calibration, "initial"} \/ midway]_(CO2!lp8Vars)
  BY OnlyMeasuredCalibrates
<1> QED BY <1>1, <1>2, <1>3, Co2Keeps, PTL DEF CO2!Lp8Spec, CO2!CalibrationSent

-----------------------------------------------------------------------------
(***************************************************************************)
(* The thermometers on a 1-Wire bus (Ds18b20): the bus has power for       *)
(* exactly as long as it is used.                                          *)
(***************************************************************************)
CONSTANTS sensor_count, MaxRescans

VARIABLES
    thermo_state, thermo_active, thermo_plan, thermo_interval, sensor_found, thermo_valid, power,
    power_dynamic, bus, telling, down_failed, rescans

THERMO == INSTANCE Ds18b20 WITH
    state <- thermo_state, measurement_active <- thermo_active, measure_plan <- thermo_plan,
    interval_plan <- thermo_interval, valid <- thermo_valid

\* The driver's flag is right about the bus but after a failure, and it is
\* cleared before the driver rests, or tells its results.
PowerKnown ==
    /\ power => bus
    /\ ~ power /\ bus => down_failed
    /\ power_dynamic /\ (thermo_plan = "none" \/ thermo_state = "RESULTS") => ~ power

PowerInv ==
    /\ {power, bus, power_dynamic, down_failed} \subseteq BOOLEAN
    /\ THERMO!PoweredWhenUsed /\ PowerKnown

LEMMA ThermoCalls ==
    ASSUME PowerInv, THERMO!Measure \/ THERMO!SetUpdateInterval \/ THERMO!IntervalTask \/ THERMO!Rescan
    PROVE  PowerInv'
<1>1. CASE THERMO!Measure \/ THERMO!IntervalTask
  BY <1>1 DEF THERMO!Measure, THERMO!IntervalTask, THERMO!Accepted, PowerInv, PowerKnown,
              THERMO!PoweredWhenUsed
<1>2. CASE THERMO!SetUpdateInterval
  BY <1>2 DEF THERMO!SetUpdateInterval, THERMO!Accepted, PowerInv, PowerKnown, THERMO!PoweredWhenUsed
<1>3. CASE THERMO!Rescan
  BY <1>3 DEF THERMO!Rescan, PowerInv, PowerKnown, THERMO!PoweredWhenUsed
<1> QED BY <1>1, <1>2, <1>3

\* Powering down leaves the flag cleared, whether it fails or not, and the bus
\* without power, unless it fails.
LEMMA PoweredDown ==
    ASSUME PowerInv, NEW ok \in BOOLEAN, THERMO!PowerDown(ok)
    PROVE  power' = FALSE /\ {bus', down_failed'} \subseteq BOOLEAN /\ (bus' => down_failed')
<1>1. power' = FALSE
  BY DEF THERMO!PowerDown
<1>2. CASE bus' = FALSE /\ UNCHANGED down_failed
  BY <1>1, <1>2 DEF PowerInv
<1>3. CASE bus' \in {bus, FALSE} /\ down_failed' = TRUE
  BY <1>1, <1>3 DEF PowerInv
<1>4. ASSUME ~ power, bus' = bus, down_failed' = down_failed
      PROVE  {bus', down_failed'} \subseteq BOOLEAN /\ (bus' => down_failed')
  BY <1>4 DEF PowerInv, PowerKnown
<1> QED BY <1>1, <1>2, <1>3, <1>4 DEF THERMO!PowerDown

LEMMA ThermoFails ==
    ASSUME PowerInv, THERMO!FailedOn \/ THERMO!FailedToPowerUp \/ THERMO!FailedToPowerDown
    PROVE  PowerInv'
<1>1. THERMO!Failed /\ power' = FALSE /\ {bus', down_failed'} \subseteq BOOLEAN
      /\ (bus' => down_failed')
  <2>1. CASE THERMO!FailedOn
    BY <2>1, PoweredDown DEF THERMO!FailedOn
  <2>2. CASE THERMO!FailedToPowerUp
    BY <2>2 DEF THERMO!FailedToPowerUp, PowerInv
  <2>3. CASE THERMO!FailedToPowerDown
    BY <2>3, PoweredDown DEF THERMO!FailedToPowerDown
  <2> QED BY <2>1, <2>2, <2>3
<1> QED BY <1>1 DEF THERMO!Failed, PowerInv, PowerKnown, THERMO!PoweredWhenUsed

LEMMA ThermoPowersUp ==
    ASSUME PowerInv, NEW next, NEW plan \in {"now", "paused"}, next # "RESULTS",
           THERMO!PowerUp, THERMO!Go(next, plan)
    PROVE  PowerInv'
BY DEF THERMO!PowerUp, THERMO!Go, PowerInv, PowerKnown, THERMO!PoweredWhenUsed

\* A measurement that ends has given the power back.
LEMMA ThermoFinishes ==
    ASSUME PowerInv, NEW V, THERMO!Finished(V)
    PROVE  PowerInv'
<1>1. CASE THERMO!FailedToPowerDown
  BY <1>1, ThermoFails
<1>2. ASSUME power_dynamic, THERMO!PowerDown(TRUE), THERMO!Go("RESULTS", "now")
      PROVE  PowerInv'
  <2>1. power' = FALSE /\ {bus', down_failed'} \subseteq BOOLEAN /\ (bus' => down_failed')
    BY <1>2, PoweredDown
  <2> QED BY <1>2, <2>1 DEF THERMO!Go, PowerInv, PowerKnown, THERMO!PoweredWhenUsed
<1>3. ASSUME ~ power_dynamic, UNCHANGED <<power, bus, down_failed>>, THERMO!Go("RESULTS", "now")
      PROVE  PowerInv'
  BY <1>3 DEF THERMO!Go, PowerInv, PowerKnown, THERMO!PoweredWhenUsed
<1> QED BY <1>1, <1>2, <1>3 DEF THERMO!Finished

LEMMA ThermoInitializes ==
    ASSUME PowerInv, THERMO!Initialize
    PROVE  PowerInv'
<1>1. CASE THERMO!FailedOn \/ THERMO!FailedToPowerDown
  BY <1>1, ThermoFails
<1> DEFINE plan == IF thermo_active THEN "now" ELSE "none"
<1>2. ASSUME ~ thermo_active, power_dynamic, THERMO!PowerDown(TRUE), THERMO!Go("READY", plan)
      PROVE  PowerInv'
  <2>1. power' = FALSE /\ {bus', down_failed'} \subseteq BOOLEAN /\ (bus' => down_failed')
    BY <1>2, PoweredDown
  <2> QED BY <1>2, <2>1 DEF THERMO!Go, PowerInv, PowerKnown, THERMO!PoweredWhenUsed
<1>3. ASSUME ~ (~ thermo_active /\ power_dynamic), UNCHANGED <<power, bus, down_failed>>,
             THERMO!Go("READY", plan)
      PROVE  PowerInv'
  BY <1>3 DEF THERMO!Go, PowerInv, PowerKnown, THERMO!PoweredWhenUsed
<1> QED BY <1>1, <1>2, <1>3 DEF THERMO!Initialize

LEMMA ThermoKeeps == PowerInv /\ [THERMO!Ds18b20Next]_(THERMO!ds18b20Vars) => PowerInv'
<1> SUFFICES ASSUME PowerInv, [THERMO!Ds18b20Next]_(THERMO!ds18b20Vars) PROVE PowerInv'
  OBVIOUS
<1>1. CASE THERMO!Preinitialize
  <2>1. CASE THERMO!FailedToPowerUp
    BY <2>1, ThermoFails
  <2>2. CASE THERMO!PowerUp /\ THERMO!Go("INITIALIZE", "paused")
    BY <2>2, ThermoPowersUp
  <2> QED BY <1>1, <2>1, <2>2 DEF THERMO!Preinitialize
<1>2. CASE THERMO!Initialize
  BY <1>2, ThermoInitializes
<1>3. CASE THERMO!Ready
  <2>1. CASE THERMO!FailedToPowerUp
    BY <2>1, ThermoFails
  <2>2. CASE THERMO!PowerUp /\ THERMO!Go("MEASURE", "paused")
    BY <2>2, ThermoPowersUp
  <2> QED BY <1>3, <2>1, <2>2 DEF THERMO!Ready
<1>4. CASE THERMO!StartConversion
  <2>1. CASE THERMO!Finished({})
    BY <2>1, ThermoFinishes
  <2>2. ASSUME bus, THERMO!Go("READ", "paused"), UNCHANGED <<power, bus, down_failed>>
        PROVE  PowerInv'
    BY <1>4, <2>2 DEF THERMO!StartConversion, THERMO!Runs, THERMO!Go, PowerInv, PowerKnown,
                      THERMO!PoweredWhenUsed
  <2> QED BY <1>4, <2>1, <2>2 DEF THERMO!StartConversion
<1>5. CASE THERMO!Read
  BY <1>5, ThermoFinishes DEF THERMO!Read
<1>6. CASE THERMO!Results
  BY <1>6 DEF THERMO!Results, THERMO!Runs, PowerInv, PowerKnown, THERMO!PoweredWhenUsed
<1>7. CASE THERMO!HandlerReturns
  BY <1>7 DEF THERMO!HandlerReturns, PowerInv, PowerKnown, THERMO!PoweredWhenUsed
<1>8. CASE UNCHANGED THERMO!ds18b20Vars
  BY <1>8 DEF THERMO!ds18b20Vars, PowerInv, PowerKnown, THERMO!PoweredWhenUsed
<1> QED BY <1>1, <1>2, <1>3, <1>4, <1>5, <1>6, <1>7, <1>8, ThermoCalls
        DEF THERMO!Ds18b20Next, THERMO!Works

\* Whatever fails and whatever is asked for meanwhile, the bus has power when
\* it is searched, told to convert or read, and when the driver rests that was
\* told to take it away, it has none, unless taking it away has failed.
THEOREM BusPowered == THERMO!Ds18b20Spec => [](THERMO!PoweredWhenUsed /\ THERMO!BusRests)
<1>1. THERMO!Init => PowerInv
  BY DEF THERMO!Init, PowerInv, PowerKnown, THERMO!PoweredWhenUsed
<1>2. PowerInv => THERMO!PoweredWhenUsed /\ THERMO!BusRests
  BY DEF PowerInv, PowerKnown, THERMO!BusRests
<1> QED BY <1>1, <1>2, ThermoKeeps, PTL DEF THERMO!Ds18b20Spec

-----------------------------------------------------------------------------
(***************************************************************************)
(* The rotary encoder (Encoder): every step is counted, once, and told of. *)
(***************************************************************************)
CONSTANT MaxEdges

VARIABLES
    phase, lines, contacts, waiting, samples, increment, increment_shadow, taking, task_planned,
    contact_edges, position, told, missed

ENC == INSTANCE Encoder WITH edges <- contact_edges

EncoderTypes ==
    /\ phase \in {"absent", "sampled", "initialized"}
    /\ lines \subseteq ENC!Line /\ waiting \subseteq lines
    /\ contacts \in ENC!Contacts /\ samples \in ENC!Contacts \X ENC!Contacts
    /\ {increment, increment_shadow, position, told} \subseteq Int
    /\ {taking, task_planned, missed} \subseteq BOOLEAN

\* The count that the task has taken is the one that it clears.
TakenIsCleared ==
    /\ taking => increment_shadow = increment
    /\ phase = "initialized" => lines = ENC!Line
    /\ phase = "absent" => lines = {} /\ ~ taking /\ increment = 0 /\ told = 0 /\ position = 0

\* The last sample tells what the interrupt that is awaited will count, and
\* with it everything is told or counted.
SampledInStep ==
    ~ missed /\ phase # "absent" =>
        /\ waiting = {} => samples[2] = contacts
        /\ told + increment + ENC!Counts(samples[2], contacts) = position

EncoderInv == EncoderTypes /\ TakenIsCleared /\ SampledInStep

LEMMA CountsTyped ==
    \A old, new : ENC!Counts(old, new) \in Int /\ ENC!Counts(old, old) = 0
BY DEF ENC!Counts

\* An edge's step is the one that its interrupt counts.
LEMMA EdgeCounts ==
    ASSUME EncoderInv, NEW l \in ENC!Line, ENC!Edge(l), phase # "absent"
    PROVE  position' = position + ENC!Counts(contacts, contacts')
<1>1. contacts' = [contacts EXCEPT ![l] = 1 - @] /\ contacts \in [ENC!Line -> 0 .. 1]
  BY DEF ENC!Edge, EncoderInv, EncoderTypes, ENC!Contacts
<1>2. contacts # contacts'
  BY <1>1
<1>3. CASE l = "P4"
  <2>1. contacts["P4"] = 0 \/ contacts'["P4"] = 0
    BY <1>1, <1>3 DEF ENC!Line
  <2> QED BY <1>3, <2>1 DEF ENC!Edge, ENC!Counts, EncoderInv, EncoderTypes
<1>4. CASE l = "P5"
  <2>1. contacts'["P4"] = contacts["P4"] /\ contacts'["P5"] = 1 - contacts["P5"]
        /\ contacts["P5"] \in 0 .. 1
    BY <1>1, <1>4 DEF ENC!Line
  <2> QED BY <1>2, <1>4, <2>1 DEF ENC!Edge, ENC!Counts, EncoderInv, EncoderTypes
<1> QED BY <1>3, <1>4 DEF ENC!Line

LEMMA EncoderEdge ==
    ASSUME EncoderInv, NEW l \in ENC!Line, ENC!Edge(l)
    PROVE  EncoderInv'
<1>1. EncoderTypes'
  <2>1. contacts' \in ENC!Contacts
    BY DEF ENC!Edge, EncoderInv, EncoderTypes, ENC!Contacts
  <2>2. position' \in Int
    BY DEF ENC!Edge, EncoderInv, EncoderTypes
  <2>3. missed' \in BOOLEAN /\ waiting' \subseteq lines
    BY DEF ENC!Edge, EncoderInv, EncoderTypes
  <2> QED BY <2>1, <2>2, <2>3 DEF ENC!Edge, EncoderInv, EncoderTypes
<1>2. TakenIsCleared'
  BY DEF ENC!Edge, EncoderInv, TakenIsCleared
<1>3. ASSUME ~ missed', phase' # "absent"
      PROVE  /\ waiting' # {}
             /\ (told + increment + ENC!Counts(samples[2], contacts) = position)'
  <2>1. ~ missed /\ phase # "absent" /\ waiting = {} /\ UNCHANGED <<told, increment, samples>>
    BY <1>3 DEF ENC!Edge, EncoderInv, EncoderTypes
  <2>2. l \in lines
    BY <1>3, <2>1 DEF ENC!Edge, EncoderInv, EncoderTypes, TakenIsCleared
  <2>3. samples[2] = contacts /\ told + increment + 0 = position
    BY <2>1, CountsTyped DEF EncoderInv, SampledInStep
  <2>4. position' = position + ENC!Counts(contacts, contacts')
    BY <2>1, EdgeCounts
  <2>5. ENC!Counts(contacts, contacts') \in Int /\ told \in Int /\ increment \in Int
    BY CountsTyped DEF EncoderInv, EncoderTypes
  <2> QED BY <2>1, <2>2, <2>3, <2>4, <2>5 DEF ENC!Edge
<1> QED BY <1>1, <1>2, <1>3 DEF EncoderInv, SampledInStep

LEMMA EncoderIrq ==
    ASSUME EncoderInv, NEW l \in ENC!Line, ENC!Irq(l)
    PROVE  EncoderInv'
<1> DEFINE n == ENC!Counts(samples[2], contacts)
<1>1. n \in Int /\ increment' = increment + n /\ task_planned' \in BOOLEAN
  BY CountsTyped DEF ENC!Irq, EncoderInv, EncoderTypes, ENC!Wakes
<1>2. EncoderTypes'
  BY <1>1 DEF ENC!Irq, EncoderInv, EncoderTypes
<1>3. TakenIsCleared'
  BY DEF ENC!Irq, ENC!Masked, EncoderInv, EncoderTypes, TakenIsCleared
<1>4. samples'[2] = contacts /\ contacts' = contacts
  BY DEF ENC!Irq
<1>5. ASSUME ~ missed', phase' # "absent"
      PROVE  (told + increment + ENC!Counts(samples[2], contacts) = position)'
  <2>1. told + increment + n = position /\ {told, increment} \subseteq Int
    BY <1>5 DEF ENC!Irq, EncoderInv, SampledInStep, EncoderTypes
  <2>2. ENC!Counts(samples'[2], contacts') = 0
    BY <1>4, CountsTyped
  <2>3. told' = told /\ position' = position
    BY DEF ENC!Irq
  <2> QED BY <1>1, <2>1, <2>2, <2>3
<1> QED BY <1>2, <1>3, <1>4, <1>5 DEF EncoderInv, SampledInStep

LEMMA EncoderTask ==
    ASSUME EncoderInv, ENC!Take \/ ENC!Tell
    PROVE  EncoderInv'
<1>1. EncoderTypes'
  <2>1. CASE ENC!Take
    BY <2>1 DEF ENC!Take, EncoderInv, EncoderTypes
  <2>2. CASE ENC!Tell
    <3>1. {increment', increment_shadow', position', told'} \subseteq Int
      BY <2>2 DEF ENC!Tell, EncoderInv, EncoderTypes
    <3>2. {taking', task_planned', missed'} \subseteq BOOLEAN
      BY <2>2 DEF ENC!Tell, EncoderInv, EncoderTypes
    <3> QED BY <2>2, <3>1, <3>2 DEF ENC!Tell, EncoderInv, EncoderTypes
  <2> QED BY <2>1, <2>2
<1>2. TakenIsCleared'
  BY DEF ENC!Take, ENC!Tell, EncoderInv, TakenIsCleared
<1>3. told' + increment' = told + increment
  BY DEF ENC!Take, ENC!Tell, EncoderInv, TakenIsCleared, EncoderTypes
<1>4. UNCHANGED <<phase, contacts, waiting, samples, position, missed>>
  BY DEF ENC!Take, ENC!Tell
<1> QED BY <1>1, <1>2, <1>3, <1>4 DEF EncoderInv, SampledInStep, ENC!Counts

LEMMA EncoderBegins ==
    ASSUME EncoderInv, ENC!Absent \/ ENC!Sample \/ ENC!Register
    PROVE  EncoderInv'
<1>1. CASE ENC!Absent \/ ENC!Register
  <2>1. EncoderTypes'
    BY <1>1 DEF ENC!Absent, ENC!Register, EncoderInv, EncoderTypes, ENC!Line
  <2>2. TakenIsCleared'
    BY <1>1 DEF ENC!Absent, ENC!Register, EncoderInv, TakenIsCleared
  <2> QED BY <1>1, <2>1, <2>2 DEF ENC!Absent, ENC!Register, EncoderInv, SampledInStep, ENC!Counts
<1>2. CASE ENC!Sample
  <2>1. EncoderTypes'
    BY <1>2 DEF ENC!Sample, EncoderInv, EncoderTypes
  <2>2. TakenIsCleared'
    BY <1>2 DEF ENC!Sample, EncoderInv, TakenIsCleared
  <2>3. samples'[2] = contacts /\ contacts' = contacts
        /\ told' = 0 /\ increment' = 0 /\ position' = 0
    BY <1>2 DEF ENC!Sample, EncoderInv, TakenIsCleared
  <2>4. ENC!Counts(samples'[2], contacts') = 0
    BY <2>3, CountsTyped
  <2> QED BY <2>1, <2>2, <2>3, <2>4 DEF EncoderInv, SampledInStep
<1> QED BY <1>1, <1>2

\* Wherever the edges' interrupts fall, before the lines are registered, in
\* the task that takes the count, or late: every full step is counted once and
\* in its direction, and what the application was told of and will be told of
\* is what was turned, unless an edge was missed.
THEOREM EveryStepIsCounted == ENC!EncoderSpec => []ENC!StepsCounted
<1>1. ENC!Init => EncoderInv
  <2>1. [l \in ENC!Line |-> 0] \in ENC!Contacts
    BY DEF ENC!Contacts
  <2>2. ENC!Init => EncoderTypes
    <3>1. ENC!Init => samples \in ENC!Contacts \X ENC!Contacts
      BY <2>1 DEF ENC!Init
    <3>2. ENC!Init => {increment, increment_shadow, position, told} \subseteq Int
      BY DEF ENC!Init
    <3> QED BY <3>1, <3>2 DEF ENC!Init, EncoderTypes
  <2> QED BY <2>2 DEF ENC!Init, EncoderInv, TakenIsCleared, SampledInStep
<1>2. EncoderInv /\ [ENC!EncoderNext]_(ENC!encoderVars) => EncoderInv'
  <2> SUFFICES ASSUME EncoderInv, [ENC!EncoderNext]_(ENC!encoderVars) PROVE EncoderInv'
    OBVIOUS
  <2>1. CASE UNCHANGED ENC!encoderVars
    BY <2>1 DEF ENC!encoderVars, EncoderInv, EncoderTypes, TakenIsCleared, SampledInStep, ENC!Counts
  <2> QED BY <2>1, EncoderEdge, EncoderIrq, EncoderTask, EncoderBegins
          DEF ENC!EncoderNext, ENC!Works
<1>3. EncoderInv => ENC!StepsCounted
  <2> SUFFICES ASSUME EncoderInv, ~ missed, waiting = {} PROVE told + increment = position
    BY DEF ENC!StepsCounted
  <2>1. CASE phase = "absent"
    BY <2>1 DEF EncoderInv, TakenIsCleared
  <2>2. CASE phase # "absent"
    <3>1. ENC!Counts(samples[2], contacts) = 0
      BY <2>2, CountsTyped DEF EncoderInv, SampledInStep
    <3> QED BY <2>2, <3>1 DEF EncoderInv, SampledInStep, EncoderTypes
  <2> QED BY <2>1, <2>2
<1> QED BY <1>1, <1>2, <1>3, PTL DEF ENC!EncoderSpec

-----------------------------------------------------------------------------
(***************************************************************************)
(* The LED (Led): it shows what it was last told, and blinks as often as   *)
(* it was told to.                                                         *)
(***************************************************************************)
CONSTANTS WIDTH, BlinkCounts, MaxPeriods

VARIABLES
    pattern, selector, led_count, pulse_active, lit, led_planned, led_asked, pulsed, blinks

LED == INSTANCE Led WITH count <- led_count, planned <- led_planned, asked <- led_asked

\* The patterns have a multiple of 8 slots, 32 in the code.
LedSizes == (\E w \in Nat \ {0} : WIDTH = 8 * w) /\ BlinkCounts \subseteq Nat

LedTypes ==
    /\ led_asked \in {"off", "on", "pattern"}
    /\ {pulse_active, lit, pulsed} \subseteq BOOLEAN
    /\ blinks.times \in Nat
    /\ blinks = [times |-> blinks.times, slots |-> blinks.slots]

\* Only what was asked for by a pattern has slots.
SteadyPattern ==
    /\ led_asked = "off" => pattern = LED!Off
    /\ led_asked = "on" => pattern = LED!All

\* The slot that is next.
NextSlot == IF selector = 0 THEN 1 ELSE selector

\* In the middle of blinking, of which q times and r slots are over.
Midst(q, r, k) ==
    /\ 8 * blinks.times - led_count = 8 * q + r
    /\ NextSlot = 8 * k + r + 1
    /\ blinks.slots = IF r < 4 THEN 4 * q + r ELSE 4 * q + 4

Midway ==
    /\ pattern = LED!Blink /\ led_count \in Nat \ {0} /\ selector \in 0 .. WIDTH
    /\ \E q, k \in Nat, r \in 0 .. 7 : Midst(q, r, k)
    /\ pulse_active => led_count = 8 * blinks.times /\ blinks.slots = 0

Blinked ==
    /\ pattern = LED!Off /\ led_count = 0
    /\ blinks.slots = 4 * blinks.times /\ ~ lit /\ ~ pulse_active

LedInv ==
    /\ LedTypes /\ LED!ShowsMode /\ SteadyPattern
    /\ blinks.times > 0 => Midway \/ Blinked

LEMMA BlinkPattern ==
    ASSUME LedSizes
    PROVE  /\ LED!Blink # LED!Off /\ LED!Blink # LED!All
           /\ WIDTH \in Nat /\ WIDTH >= 8
           /\ \A k \in Nat, r \in 0 .. 7 :
                  8 * k + r + 1 <= WIDTH => (8 * k + r + 1 \in LED!Blink <=> r < 4)
<1>1. PICK w \in Nat \ {0} : WIDTH = 8 * w
  BY DEF LedSizes
<1>2. WIDTH \in Nat /\ WIDTH >= 8
  BY <1>1
<1>3. ASSUME NEW k \in Nat, NEW r \in 0 .. 7, 8 * k + r + 1 <= WIDTH
      PROVE  8 * k + r + 1 \in LED!Blink <=> r < 4
  <2>1. 8 * k + r + 1 \in LED!All
    BY <1>2, <1>3 DEF LED!All
  <2>2. ((8 * k + r + 1) - 1) % 8 = r
    OBVIOUS
  <2> QED BY <2>1, <2>2 DEF LED!Blink
<1>4. 1 \in LED!Blink
  <2>1. 8 * 0 + 0 + 1 \in LED!Blink
    BY <1>2, <1>3
  <2> QED BY <2>1
<1>5. 5 \notin LED!Blink
  <2>1. 8 * 0 + 4 + 1 \notin LED!Blink
    BY <1>2, <1>3
  <2> QED BY <2>1
<1>6. 5 \in LED!All
  BY <1>2 DEF LED!All
<1> QED BY <1>2, <1>3, <1>4, <1>5, <1>6 DEF LED!Off

LEMMA LedCalls ==
    ASSUME LedInv,
           \/ LED!SetModeOff \/ LED!SetModeOn \/ LED!SetModeToggle
           \/ \E p \in {LED!Blink, LED!BlinkFast, LED!Flash} : LED!SetMode(p)
           \/ \E p \in {LED!Off, LED!Flash, LED!All} : LED!SetPattern(p)
           \/ \E n \in 1 .. MaxPeriods : LED!SetCount(n)
    PROVE  LedInv'
<1>1. blinks' = [times |-> 0, slots |-> 0]
  BY DEF LED!SetModeOff, LED!SetModeOn, LED!SetModeToggle, LED!SetMode, LED!SetPattern,
         LED!SetCount, LED!Asked, LED!NoBlinks
<1>2. blinks'.times = 0 /\ blinks'.slots = 0
  BY <1>1
<1>3. SteadyPattern'
  BY DEF LED!SetModeOff, LED!SetModeOn, LED!SetModeToggle, LED!SetMode, LED!SetPattern,
         LED!SetCount, LED!Asked, LED!Steady, SteadyPattern, LED!Off, LED!All
<1>4. led_asked' \in {"off", "on", "pattern"} /\ pulsed' = FALSE /\ pulse_active' = pulse_active
  BY DEF LED!SetModeOff, LED!SetModeOn, LED!SetModeToggle, LED!SetMode, LED!SetPattern,
         LED!SetCount, LED!Asked, LED!Steady
<1>5. lit' \in {lit, TRUE, FALSE}
  BY DEF LED!SetModeOff, LED!SetModeOn, LED!SetModeToggle, LED!SetMode, LED!SetPattern,
         LED!SetCount, LED!Steady
<1>6. ~ pulse_active => (led_asked' = "off" => lit' = FALSE) /\ (led_asked' = "on" => lit' = TRUE)
  BY DEF LED!SetModeOff, LED!SetModeOn, LED!SetModeToggle, LED!SetMode, LED!SetPattern,
         LED!SetCount, LED!Asked, LED!Steady
<1>7. LED!ShowsMode'
  BY <1>4, <1>6 DEF LED!ShowsMode
<1>8. {pulse_active', lit', pulsed'} \subseteq BOOLEAN
  BY <1>4, <1>5 DEF LedInv, LedTypes
<1> QED BY <1>1, <1>2, <1>3, <1>4, <1>7, <1>8 DEF LedInv, LedTypes

LEMMA LedPulses ==
    ASSUME LedInv, LED!Pulse \/ LED!Rest
    PROVE  LedInv'
<1>1. CASE LED!Pulse
  <2>1. blinks' = [times |-> 0, slots |-> 0]
    BY <1>1 DEF LED!Pulse, LED!NoBlinks
  <2>2. blinks'.times = 0 /\ blinks'.slots = 0
    BY <2>1
  <2>3. {pulse_active', lit', pulsed'} \subseteq BOOLEAN
    BY <1>1 DEF LED!Pulse, LedInv, LedTypes
  <2>4. LED!ShowsMode'
    BY <1>1 DEF LED!Pulse, LED!ShowsMode
  <2>5. SteadyPattern' /\ led_asked' = led_asked
    BY <1>1 DEF LED!Pulse, LedInv, SteadyPattern, LED!Off, LED!All
  <2> QED BY <2>1, <2>2, <2>3, <2>4, <2>5 DEF LedInv, LedTypes
<1>2. CASE LED!Rest
  BY <1>2 DEF LED!Rest, LedInv, LedTypes, LED!ShowsMode, SteadyPattern, Midway, Midst, NextSlot,
              Blinked, LED!Off, LED!All, LED!Blink
<1> QED BY <1>1, <1>2

LEMMA LedBlinks ==
    ASSUME LedSizes, LedInv, NEW n \in BlinkCounts, LED!BlinkTimes(n)
    PROVE  LedInv'
<1>1. blinks'.times = n /\ blinks'.slots = 0 /\ blinks' = [times |-> n, slots |-> 0]
  BY DEF LED!BlinkTimes
<1>2. n \in Nat /\ led_count' = n * 8 /\ selector' = 0
  BY DEF LedSizes, LED!BlinkTimes
<1>3. LedTypes' /\ LED!ShowsMode' /\ SteadyPattern'
  BY <1>1, <1>2 DEF LED!BlinkTimes, LedInv, LedTypes, LED!ShowsMode, SteadyPattern
<1>4. ASSUME n > 0 PROVE Midway'
  <2>1. Midst(0, 0, 0)'
    BY <1>1, <1>2 DEF Midst, NextSlot
  <2>2. pattern' = LED!Blink' /\ led_count' \in Nat \ {0} /\ led_count' = 8 * n
    BY <1>2, <1>4 DEF LED!BlinkTimes, LED!Blink, LED!All
  <2> QED BY <1>1, <1>2, <2>1, <2>2, BlinkPattern DEF Midway
<1> QED BY <1>1, <1>3, <1>4 DEF LedInv

LEMMA LedPulseEnds ==
    ASSUME LedSizes, LedInv, LED!PulseEnds
    PROVE  LedInv'
<1>1. LedTypes' /\ LED!ShowsMode' /\ SteadyPattern'
  BY DEF LED!PulseEnds, LedInv, LedTypes, LED!ShowsMode, SteadyPattern, LED!Off, LED!All
<1>2. ASSUME blinks.times > 0 PROVE Midway'
  <2>1. Midway /\ led_count = 8 * blinks.times /\ blinks.slots = 0
    BY <1>2 DEF LED!PulseEnds, LedInv, Midway, Blinked
  <2>2. blinks.times \in Nat /\ UNCHANGED <<blinks, led_count, pattern>> /\ selector' = 0
        /\ ~ pulse_active'
    BY DEF LED!PulseEnds, LedInv, LedTypes
  <2>3. Midst(0, 0, 0)'
    BY <2>1, <2>2 DEF Midst, NextSlot
  <2> QED BY <2>1, <2>2, <2>3, BlinkPattern DEF Midway, LED!Blink, LED!All
<1>3. blinks' = blinks
  BY DEF LED!PulseEnds
<1> QED BY <1>1, <1>2, <1>3 DEF LedInv

\* A slot of the pattern: what it was of the blinking tells what is next.
LEMMA BlinkingGoesOn ==
    ASSUME LedSizes, LedInv, LED!Slot, blinks.times > 0
    PROVE  Midway' \/ Blinked'
<1>1. Midway
  BY DEF LED!Slot, LedInv, Blinked
<1>2. PICK q \in Nat, k \in Nat, r \in 0 .. 7 : Midst(q, r, k)
  BY <1>1 DEF Midway
<1>3. PICK w \in Nat \ {0} : WIDTH = 8 * w
  BY DEF LedSizes
<1> DEFINE s == 8 * k + r + 1
           times == blinks.times
           slots == blinks.slots
<1>4. /\ NextSlot = s /\ 8 * times - led_count = 8 * q + r
      /\ slots = IF r < 4 THEN 4 * q + r ELSE 4 * q + 4
  BY <1>2 DEF Midst
<1>5. times \in Nat /\ times > 0 /\ led_count \in Nat \ {0} /\ s \in 1 .. WIDTH /\ slots \in Nat
      /\ pattern = LED!Blink
  BY <1>1, <1>3, <1>4 DEF Midway, LedInv, LedTypes, NextSlot
<1>6. lit' = (s \in LED!Blink) /\ selector' = (IF s = WIDTH THEN 0 ELSE s + 1)
  BY <1>4, <1>5 DEF LED!Slot, NextSlot
<1>7. lit' <=> r < 4
  <2>1. s <= WIDTH
    BY <1>3, <1>5
  <2>2. s \in LED!Blink <=> r < 4
    BY <2>1, BlinkPattern
  <2> QED BY <1>6, <2>2
<1>8. blinks' = (IF lit' THEN [blinks EXCEPT !.slots = @ + 1] ELSE blinks)
  BY DEF LED!Slot
<1>9. blinks'.times = times /\ blinks'.slots = IF r < 4 THEN slots + 1 ELSE slots
  <2>1. blinks = [times |-> times, slots |-> slots]
    BY DEF LedInv, LedTypes
  <2>2. CASE r < 4
    BY <1>7, <1>8, <2>1, <2>2
  <2>3. CASE ~ (r < 4)
    BY <1>7, <1>8, <2>3
  <2> QED BY <2>2, <2>3
<1>10. led_count' = led_count - 1 /\ pattern' = (IF led_count = 1 THEN LED!Off ELSE pattern)
       /\ ~ pulse_active /\ pulse_active' = pulse_active
  BY <1>5 DEF LED!Slot
<1> HIDE DEF times, slots
<1>11. CASE led_count = 1
  <2>1. r = 7 /\ q = times - 1
    BY <1>4, <1>5, <1>11
  <2>2. blinks'.slots = 4 * blinks'.times
    BY <1>4, <1>5, <1>9, <2>1
  <2> QED BY <1>7, <1>10, <1>11, <2>1, <2>2 DEF Blinked, LED!Off
<1>12. CASE led_count # 1
  <2>1. pattern' = LED!Blink' /\ led_count' \in Nat \ {0} /\ selector' \in 0 .. WIDTH
    BY <1>3, <1>5, <1>6, <1>10, <1>12 DEF LED!Blink, LED!All
  <2>2. CASE r = 7
    <3> DEFINE k2 == IF s = WIDTH THEN 0 ELSE k + 1
    <3>1. NextSlot' = 8 * k2 + 0 + 1
      BY <1>3, <1>5, <1>6, <2>2 DEF NextSlot
    <3>2. 8 * blinks'.times - led_count' = 8 * (q + 1) + 0
      BY <1>4, <1>5, <1>9, <1>10, <2>2
    <3>3. blinks'.slots = 4 * (q + 1) + 0
      BY <1>4, <1>5, <1>9, <2>2
    <3>4. Midst(q + 1, 0, k2)'
      BY <3>1, <3>2, <3>3 DEF Midst
    <3>5. k2 \in Nat /\ q + 1 \in Nat /\ 0 \in 0 .. 7
      OBVIOUS
    <3> HIDE DEF k2
    <3> QED BY <1>10, <2>1, <3>4, <3>5 DEF Midway
  <2>3. CASE r # 7
    <3>1. s # WIDTH
      BY <1>3, <2>3
    <3>2. NextSlot' = 8 * k + (r + 1) + 1
      BY <1>5, <1>6, <3>1 DEF NextSlot
    <3>3. 8 * blinks'.times - led_count' = 8 * q + (r + 1)
      BY <1>4, <1>5, <1>9, <1>10
    <3>4. blinks'.slots = IF r + 1 < 4 THEN 4 * q + (r + 1) ELSE 4 * q + 4
      BY <1>4, <1>5, <1>9
    <3>5. Midst(q, r + 1, k)'
      BY <3>2, <3>3, <3>4 DEF Midst
    <3>6. r + 1 \in 0 .. 7
      BY <2>3
    <3> QED BY <1>10, <2>1, <3>5, <3>6 DEF Midway
  <2> QED BY <2>2, <2>3
<1> QED BY <1>11, <1>12

LEMMA LedSlot ==
    ASSUME LedSizes, LedInv, LED!Slot
    PROVE  LedInv'
<1>1. led_asked = "pattern" /\ UNCHANGED <<led_asked, pulse_active, pulsed>>
  BY DEF LED!Slot, LedInv, LedTypes, SteadyPattern
<1>2. lit' \in BOOLEAN
  BY DEF LED!Slot
<1>3. blinks' = [times |-> blinks'.times, slots |-> blinks'.slots] /\ blinks'.times = blinks.times
  <2>1. blinks' \in {blinks, [blinks EXCEPT !.slots = @ + 1]}
    BY DEF LED!Slot
  <2> QED BY <2>1 DEF LedInv, LedTypes
<1>4. LedTypes' /\ LED!ShowsMode' /\ SteadyPattern'
  BY <1>1, <1>2, <1>3 DEF LedInv, LedTypes, LED!ShowsMode, SteadyPattern
<1> QED BY <1>3, <1>4, BlinkingGoesOn DEF LedInv

\* In whatever order the calls, the slots and the pulses come, and for any
\* pattern width and count: the LED is off and on as it was last told, but
\* for a pulse, and it is lit for four slots for each time it was told to
\* blink, and dark in the end.
THEOREM LedShowsWhatWasAsked ==
    ASSUME LedSizes
    PROVE  LED!LedSpec => []LED!ShowsWhatWasAsked
<1>1. LED!Init => LedInv
  <2> SUFFICES ASSUME LED!Init PROVE LedInv
    OBVIOUS
  <2>1. blinks = [times |-> 0, slots |-> 0]
    BY DEF LED!Init, LED!NoBlinks
  <2>2. blinks.times = 0 /\ blinks.slots = 0
    BY <2>1
  <2>3. LED!ShowsMode /\ SteadyPattern
    BY DEF LED!Init, LED!ShowsMode, SteadyPattern
  <2>4. {pulse_active, lit, pulsed} \subseteq BOOLEAN /\ led_asked = "off"
    BY DEF LED!Init
  <2> QED BY <2>1, <2>2, <2>3, <2>4 DEF LedInv, LedTypes
<1>2. LedInv /\ [LED!LedNext]_(LED!ledVars) => LedInv'
  <2> SUFFICES ASSUME LedInv, [LED!LedNext]_(LED!ledVars) PROVE LedInv'
    OBVIOUS
  <2>1. CASE UNCHANGED LED!ledVars
    BY <2>1 DEF LED!ledVars, LedInv, LedTypes, LED!ShowsMode, SteadyPattern, Midway, Midst,
                NextSlot, Blinked, LED!Off, LED!All, LED!Blink
  <2> QED BY <2>1, LedCalls, LedPulses, LedBlinks, LedPulseEnds, LedSlot
          DEF LED!LedNext, LED!Task
<1>3. LedInv => LED!ShowsWhatWasAsked
  BY BlinkPattern DEF LedInv, Midway, Blinked, LED!ShowsWhatWasAsked, LED!BlinksCounted
<1> QED BY <1>1, <1>2, <1>3, PTL DEF LED!LedSpec

-----------------------------------------------------------------------------
(***************************************************************************)
(* The buttons (Buttons): each press is told of as what it was.            *)
(***************************************************************************)
CONSTANTS ScanInterval, DebounceTime, ClickTimeout, HoldTime

VARIABLES button_pins, buttons, button_events, presses

BTN == INSTANCE Buttons WITH pins <- button_pins, events <- button_events

\* The times as the code has them: 50, 500 and 2000 milliseconds.
ButtonTimes ==
    /\ DebounceTime \in Nat \ {0} /\ {ScanInterval, ClickTimeout, HoldTime} \subseteq Nat
    /\ ClickTimeout <= HoldTime

ButtonRecords ==
    [state : BOOLEAN, hold_signalized : BOOLEAN, debounce : Int, click_timeout : Nat,
     hold_threshold : Nat, plan : Nat]

PressRecords == [held : SUBSET (BTN!Hold \cup {"joined"}), differs : Int, settled : BOOLEAN]

\* A button x and its last press p: a hold is signalized before anything is
\* held, a click's time is over with a hold's, and once settled the samples
\* have differed for as long as the debouncing has run.
PressFits(x, p) ==
    /\ x \in ButtonRecords /\ p \in PressRecords
    /\ ~ x.state \/ ~ x.hold_signalized => p.held = {}
    /\ x.click_timeout <= x.hold_threshold
    /\ p.held \subseteq {"joined"} \/ x.click_timeout = 0
    /\ p.settled => \/ x.debounce = BTN!INFINITY /\ p.differs = BTN!INFINITY
                    \/ x.debounce \in 0 .. DebounceTime /\ p.differs = DebounceTime - x.debounce

ButtonsInv ==
    /\ button_pins \in [BTN!Button -> BOOLEAN]
    /\ buttons \in [BTN!Button -> ButtonRecords] /\ presses \in [BTN!Button -> PressRecords]
    /\ \A b \in BTN!Button : PressFits(buttons[b], presses[b])

LEMMA ButtonsTick ==
    ASSUME ButtonTimes, ButtonsInv, BTN!Tick
    PROVE  ButtonsInv'
<1> SUFFICES ASSUME NEW b \in BTN!Button
             PROVE  PressFits(buttons'[b], presses'[b])
  <2>1. buttons' = [b_1 \in BTN!Button |-> buttons'[b_1]]
        /\ presses' = [b_1 \in BTN!Button |-> presses'[b_1]]
    BY DEF BTN!Tick
  <2>2. \A b_1 \in BTN!Button : buttons'[b_1] \in ButtonRecords /\ presses'[b_1] \in PressRecords
    BY DEF PressFits
  <2> QED BY <2>1, <2>2 DEF ButtonsInv, BTN!Tick
<1> DEFINE x == buttons[b]
           p == presses[b]
<1>1. PressFits(x, p)
  BY DEF ButtonsInv
<1>2. buttons'[b] = [x EXCEPT !.debounce = BTN!Less(@), !.click_timeout = BTN!Less(@),
                              !.hold_threshold = BTN!Less(@), !.plan = BTN!Less(@)]
      /\ presses'[b] = [p EXCEPT !.differs = BTN!Older(@)]
  BY DEF BTN!Tick
<1> HIDE DEF x, p
<1>3. x \in ButtonRecords /\ p \in PressRecords
  BY <1>1 DEF PressFits
<1>4. /\ BTN!Less(x.debounce) \in Int /\ BTN!Less(x.click_timeout) \in Nat
      /\ BTN!Less(x.hold_threshold) \in Nat /\ BTN!Less(x.plan) \in Nat
      /\ BTN!Older(p.differs) \in Int
  BY <1>3 DEF ButtonRecords, PressRecords, BTN!Less, BTN!Older
<1>5. /\ buttons'[b] \in ButtonRecords /\ presses'[b] \in PressRecords
      /\ buttons'[b].state = x.state /\ buttons'[b].hold_signalized = x.hold_signalized
      /\ buttons'[b].debounce = BTN!Less(x.debounce)
      /\ buttons'[b].click_timeout = BTN!Less(x.click_timeout)
      /\ buttons'[b].hold_threshold = BTN!Less(x.hold_threshold)
      /\ presses'[b].held = p.held /\ presses'[b].settled = p.settled
      /\ presses'[b].differs = BTN!Older(p.differs)
  BY <1>2, <1>3, <1>4 DEF ButtonRecords, PressRecords
<1>6. BTN!Less(x.click_timeout) <= BTN!Less(x.hold_threshold)
      /\ (x.click_timeout = 0 => BTN!Less(x.click_timeout) = 0)
  BY <1>1, <1>3 DEF PressFits, BTN!Less, ButtonRecords
<1>7. ASSUME p.settled
      PROVE  \/ BTN!Less(x.debounce) = BTN!INFINITY /\ BTN!Older(p.differs) = BTN!INFINITY
             \/ BTN!Less(x.debounce) \in 0 .. DebounceTime
                /\ BTN!Older(p.differs) = DebounceTime - BTN!Less(x.debounce)
  <2>1. CASE x.debounce = BTN!INFINITY /\ p.differs = BTN!INFINITY
    BY <2>1 DEF BTN!Less, BTN!Older, BTN!INFINITY
  <2>2. CASE x.debounce \in 0 .. DebounceTime /\ p.differs = DebounceTime - x.debounce
    BY <2>2 DEF BTN!Less, BTN!Older, BTN!INFINITY, ButtonTimes
  <2> QED BY <1>1, <1>7, <2>1, <2>2 DEF PressFits
<1> QED BY <1>1, <1>5, <1>6, <1>7 DEF PressFits

LEMMA TwoButtons ==
    ASSUME NEW b \in BTN!Button
    PROVE  BTN!Other(b) \in BTN!Button /\ BTN!Other(b) # b /\ BTN!Button = {b, BTN!Other(b)}
BY DEF BTN!Button, BTN!Other

\* What a scan makes of the button itself.
LEMMA Scanned ==
    ASSUME ButtonTimes, NEW x, NEW p, PressFits(x, p), NEW pin \in BOOLEAN
    PROVE  LET y == BTN!Sampled(x, pin)
               toggles == BTN!Toggles(x, pin)
           IN /\ y \in ButtonRecords
              /\ toggles => y.state = ~ x.state /\ y.state = pin /\ x.debounce = 0
              /\ ~ toggles => y.state = x.state /\ y.hold_signalized = x.hold_signalized
                              /\ y.click_timeout = x.click_timeout
                              /\ y.hold_threshold = x.hold_threshold
              /\ y.click_timeout <= y.hold_threshold
              /\ toggles /\ y.state => ~ y.hold_signalized
              /\ ~ toggles /\ y.state = pin => y.debounce = BTN!INFINITY
              /\ ~ toggles /\ y.state # pin =>
                     y.debounce = IF x.debounce = BTN!INFINITY THEN DebounceTime ELSE x.debounce
<1> DEFINE d == BTN!Debouncing(x, pin)
<1>1. x \in ButtonRecords /\ DebounceTime \in Nat \ {0} /\ ClickTimeout \in Nat /\ HoldTime \in Nat
      /\ ClickTimeout <= HoldTime /\ x.click_timeout <= x.hold_threshold
  BY DEF PressFits, ButtonTimes
<1>2. /\ d \in ButtonRecords
      /\ d.state = x.state /\ d.hold_signalized = x.hold_signalized
      /\ d.click_timeout = x.click_timeout /\ d.hold_threshold = x.hold_threshold
      /\ d.debounce = IF x.state = pin THEN BTN!INFINITY
                      ELSE IF x.debounce = BTN!INFINITY THEN DebounceTime ELSE x.debounce
  BY <1>1 DEF BTN!Debouncing, ButtonRecords, BTN!INFINITY
<1> HIDE DEF d
<1>3. CASE BTN!Toggles(x, pin)
  <2>1. x.state # pin /\ d.debounce = 0 /\ BTN!Sampled(x, pin) = BTN!Toggled(d)
    BY <1>3 DEF BTN!Toggles, BTN!Sampled, d
  <2>2. x.debounce = 0
    BY <1>1, <1>2, <2>1
  <2>3. CASE x.state
    <3>1. BTN!Toggled(d) = [d EXCEPT !.state = FALSE]
      BY <1>2, <2>3 DEF BTN!Toggled
    <3>2. pin = FALSE
      BY <1>1, <2>1, <2>3 DEF ButtonRecords
    <3> QED BY <1>1, <1>2, <1>3, <2>1, <2>2, <2>3, <3>1, <3>2 DEF ButtonRecords
  <2>4. CASE ~ x.state
    <3>1. BTN!Toggled(d) = [d EXCEPT !.state = TRUE, !.hold_signalized = FALSE,
                                     !.click_timeout = ClickTimeout, !.hold_threshold = HoldTime]
      BY <1>2, <2>4 DEF BTN!Toggled
    <3>2. pin = TRUE
      BY <1>1, <2>1, <2>4 DEF ButtonRecords
    <3> QED BY <1>1, <1>2, <1>3, <2>1, <2>2, <2>4, <3>1, <3>2 DEF ButtonRecords
  <2> QED BY <2>3, <2>4
<1>4. CASE ~ BTN!Toggles(x, pin)
  <2>1. BTN!Sampled(x, pin) = d
    BY <1>4 DEF BTN!Sampled, d
  <2> QED BY <1>1, <1>2, <1>4, <2>1
<1> QED BY <1>3, <1>4

\* A step of a button's task, written out: y is the button after its first
\* half, h the event of a hold.
LEMMA TaskDoes ==
    ASSUME ButtonsInv, NEW b \in BTN!Button, BTN!Task(b)
    PROVE  LET x == buttons[b]
               p == presses[b]
               pin == button_pins[b]
               y == BTN!Sampled(x, pin)
               toggles == BTN!Toggles(x, pin)
               hold == BTN!Holds(y)
               fresh == IF toggles THEN {} ELSE p.held
               o == BTN!Other(b)
           IN /\ buttons'[b] = [y EXCEPT !.hold_signalized = y.hold_signalized \/ hold,
                                         !.plan = ScanInterval]
              /\ presses'[b] = [held |-> IF hold THEN fresh \cup {BTN!HoldEvent(b)} ELSE fresh,
                                differs |-> IF toggles \/ y.state = pin THEN BTN!INFINITY
                                            ELSE IF p.differs = BTN!INFINITY THEN 0 ELSE p.differs,
                                settled |-> ~ toggles /\ (p.settled \/ y.state = pin)]
              /\ buttons'[o] = IF hold THEN BTN!OtherHeld(o) ELSE buttons[o]
              /\ presses'[o] = [presses[o] EXCEPT
                     !.held = IF hold /\ buttons[o].state THEN presses[o].held \cup {"joined"}
                              ELSE presses[o].held]
              /\ DOMAIN buttons' = BTN!Button /\ DOMAIN presses' = BTN!Button
              /\ buttons' = [c \in BTN!Button |-> buttons'[c]]
              /\ presses' = [c \in BTN!Button |-> presses'[c]]
<1>1. BTN!Other(b) \in BTN!Button /\ BTN!Other(b) # b
  BY TwoButtons
<1>2. buttons \in [BTN!Button -> ButtonRecords] /\ presses \in [BTN!Button -> PressRecords]
  BY DEF ButtonsInv
<1> QED BY <1>1, <1>2 DEF BTN!Task

LEMMA ScanKeeps ==
    ASSUME ButtonTimes, ButtonsInv, NEW b \in BTN!Button, BTN!Task(b)
    PROVE  PressFits(buttons'[b], presses'[b])
<1> DEFINE x == buttons[b]
           p == presses[b]
           pin == button_pins[b]
           y == BTN!Sampled(x, pin)
           toggles == BTN!Toggles(x, pin)
           hold == BTN!Holds(y)
           fresh == IF toggles THEN {} ELSE p.held
           z == buttons'[b]
           q == presses'[b]
<1>1. PressFits(x, p) /\ pin \in BOOLEAN
  BY DEF ButtonsInv
<1>2. z = [y EXCEPT !.hold_signalized = y.hold_signalized \/ hold, !.plan = ScanInterval]
      /\ q = [held |-> IF hold THEN fresh \cup {BTN!HoldEvent(b)} ELSE fresh,
              differs |-> IF toggles \/ y.state = pin THEN BTN!INFINITY
                          ELSE IF p.differs = BTN!INFINITY THEN 0 ELSE p.differs,
              settled |-> ~ toggles /\ (p.settled \/ y.state = pin)]
  BY TaskDoes
<1>3. /\ y \in ButtonRecords
      /\ toggles => y.state = ~ x.state /\ y.state = pin /\ x.debounce = 0
      /\ ~ toggles => y.state = x.state /\ y.hold_signalized = x.hold_signalized
                      /\ y.click_timeout = x.click_timeout
                      /\ y.hold_threshold = x.hold_threshold
      /\ y.click_timeout <= y.hold_threshold
      /\ toggles /\ y.state => ~ y.hold_signalized
      /\ ~ toggles /\ y.state = pin => y.debounce = BTN!INFINITY
      /\ ~ toggles /\ y.state # pin =>
             y.debounce = IF x.debounce = BTN!INFINITY THEN DebounceTime ELSE x.debounce
  BY <1>1, Scanned
<1>4. hold <=> y.state /\ ~ y.hold_signalized /\ y.hold_threshold = 0
  BY DEF BTN!Holds
<1>5. x \in ButtonRecords /\ p \in PressRecords /\ BTN!HoldEvent(b) \in BTN!Hold
  BY <1>1 DEF PressFits, BTN!HoldEvent, BTN!Hold, BTN!Button
<1>6. ~ y.state \/ ~ y.hold_signalized => fresh = {}
  BY <1>1, <1>3 DEF PressFits
<1> HIDE DEF x, p, pin, y, toggles, hold, z, q
<1>7. /\ z \in ButtonRecords /\ z.state = y.state
      /\ z.click_timeout = y.click_timeout /\ z.hold_threshold = y.hold_threshold
      /\ z.debounce = y.debounce
  <2>1. (y.hold_signalized \/ hold) \in BOOLEAN /\ ScanInterval \in Nat
    BY DEF ButtonTimes
  <2> QED BY <1>2, <1>3, <2>1 DEF ButtonRecords
<1>8. z.hold_signalized = (y.hold_signalized \/ hold)
  BY <1>2, <1>3 DEF ButtonRecords
<1>9. /\ q.held = IF hold THEN fresh \cup {BTN!HoldEvent(b)} ELSE fresh
      /\ q.differs = IF toggles \/ y.state = pin THEN BTN!INFINITY
                     ELSE IF p.differs = BTN!INFINITY THEN 0 ELSE p.differs
  BY <1>2
<1>10. q.settled = (~ toggles /\ (p.settled \/ y.state = pin))
  BY <1>2
<1>11. q \in PressRecords
  <2>1. q.held \in SUBSET (BTN!Hold \cup {"joined"})
    BY <1>5, <1>9 DEF PressRecords
  <2>2. q.differs \in Int
    BY <1>5, <1>9 DEF PressRecords, BTN!INFINITY
  <2>3. q.settled \in BOOLEAN
    BY <1>10
  <2>4. q = [held |-> q.held, differs |-> q.differs, settled |-> q.settled]
    BY <1>2
  <2> QED BY <2>1, <2>2, <2>3, <2>4 DEF PressRecords
<1>12. ~ z.state \/ ~ z.hold_signalized => q.held = {}
  BY <1>4, <1>6, <1>7, <1>8, <1>9
<1>13. q.held \subseteq {"joined"} \/ z.click_timeout = 0
  <2>1. CASE hold
    BY <1>3, <1>4, <1>7, <2>1 DEF ButtonRecords
  <2>2. CASE ~ hold /\ toggles
    BY <1>9, <2>2
  <2>3. CASE ~ hold /\ ~ toggles
    BY <1>1, <1>3, <1>7, <1>9, <2>3 DEF PressFits
  <2> QED BY <2>1, <2>2, <2>3
<1>14. ASSUME q.settled
       PROVE  \/ z.debounce = BTN!INFINITY /\ q.differs = BTN!INFINITY
              \/ z.debounce \in 0 .. DebounceTime /\ q.differs = DebounceTime - z.debounce
  <2>1. ~ toggles
    BY <1>10, <1>14
  <2>2. CASE y.state = pin
    BY <1>3, <1>7, <1>9, <2>1, <2>2
  <2>3. CASE y.state # pin
    <3>1. p.settled
      BY <1>10, <1>14, <2>1, <2>3
    <3>2. CASE x.debounce = BTN!INFINITY /\ p.differs = BTN!INFINITY
      BY <1>3, <1>7, <1>9, <2>1, <2>3, <3>2 DEF ButtonTimes
    <3>3. CASE x.debounce \in 0 .. DebounceTime /\ p.differs = DebounceTime - x.debounce
      BY <1>3, <1>7, <1>9, <2>1, <2>3, <3>3 DEF ButtonTimes, BTN!INFINITY
    <3> QED BY <1>1, <3>1, <3>2, <3>3 DEF PressFits
  <2> QED BY <2>2, <2>3
<1>15. z.click_timeout <= z.hold_threshold
  BY <1>3, <1>7
<1> QED BY <1>7, <1>11, <1>12, <1>13, <1>14, <1>15 DEF PressFits, z, q

\* A hold of one button makes the other's press a part of it.
LEMMA OtherKept ==
    ASSUME ButtonsInv, NEW b \in BTN!Button, BTN!Task(b), NEW o, o = BTN!Other(b)
    PROVE  PressFits(buttons'[o], presses'[o])
<1> DEFINE hold == BTN!Holds(BTN!Sampled(buttons[b], button_pins[b]))
           x == buttons[o]
           p == presses[o]
<1>1. PressFits(x, p)
  BY TwoButtons DEF ButtonsInv
<1>2. buttons'[o] = (IF hold THEN BTN!OtherHeld(o) ELSE x)
      /\ presses'[o] = [p EXCEPT !.held = IF hold /\ x.state THEN p.held \cup {"joined"} ELSE p.held]
  BY TaskDoes
<1>3. x \in ButtonRecords /\ p \in PressRecords
  BY <1>1 DEF PressFits
<1>4. BTN!OtherHeld(o) = IF x.state THEN [x EXCEPT !.hold_signalized = TRUE] ELSE x
  BY DEF BTN!OtherHeld
<1> HIDE DEF hold, x, p
<1>5. CASE hold /\ x.state
  <2>1. buttons'[o] = [x EXCEPT !.hold_signalized = TRUE]
        /\ presses'[o] = [p EXCEPT !.held = p.held \cup {"joined"}]
    BY <1>2, <1>4, <1>5
  <2>2. /\ buttons'[o] \in ButtonRecords /\ buttons'[o].hold_signalized /\ buttons'[o].state
        /\ buttons'[o].click_timeout = x.click_timeout
        /\ buttons'[o].hold_threshold = x.hold_threshold /\ buttons'[o].debounce = x.debounce
    BY <1>3, <1>5, <2>1 DEF ButtonRecords
  <2>3. /\ presses'[o] \in PressRecords /\ presses'[o].held = p.held \cup {"joined"}
        /\ presses'[o].differs = p.differs /\ presses'[o].settled = p.settled
    BY <1>3, <2>1 DEF PressRecords
  <2> QED BY <1>1, <2>2, <2>3 DEF PressFits
<1>6. CASE ~ (hold /\ x.state)
  <2>1. buttons'[o] = x
    BY <1>2, <1>4, <1>6
  <2>2. presses'[o] = [p EXCEPT !.held = p.held]
    BY <1>2, <1>6
  <2>3. presses'[o] = p
    BY <1>3, <2>2 DEF PressRecords
  <2> QED BY <1>1, <2>1, <2>3
<1> QED BY <1>5, <1>6

LEMMA ButtonsKeep ==
    ASSUME ButtonTimes, ButtonsInv, [BTN!ButtonsNext]_(BTN!buttonVars)
    PROVE  ButtonsInv'
<1>1. CASE BTN!Tick
  BY <1>1, ButtonsTick
<1>2. ASSUME NEW b \in BTN!Button, BTN!Touch(b) PROVE ButtonsInv'
  BY <1>2 DEF BTN!Touch, ButtonsInv
<1>3. ASSUME NEW b \in BTN!Button, BTN!Task(b) PROVE ButtonsInv'
  <2>1. \A c \in BTN!Button : PressFits(buttons'[c], presses'[c])
    BY <1>3, ScanKeeps, OtherKept, TwoButtons
  <2>2. \A c \in BTN!Button : buttons'[c] \in ButtonRecords /\ presses'[c] \in PressRecords
    BY <2>1 DEF PressFits
  <2>3. buttons' = [c \in BTN!Button |-> buttons'[c]]
        /\ presses' = [c \in BTN!Button |-> presses'[c]]
    BY <1>3, TaskDoes
  <2>4. buttons' \in [BTN!Button -> ButtonRecords] /\ presses' \in [BTN!Button -> PressRecords]
    BY <2>2, <2>3
  <2>5. button_pins' = button_pins
    BY <1>3 DEF BTN!Task
  <2> QED BY <2>1, <2>4, <2>5 DEF ButtonsInv
<1>4. CASE UNCHANGED BTN!buttonVars
  BY <1>4 DEF BTN!buttonVars, ButtonsInv
<1> QED BY <1>1, <1>2, <1>3, <1>4 DEF BTN!ButtonsNext

\* The events of a scan, each with what makes it one.
LEMMA ScanTells ==
    ASSUME ButtonTimes, ButtonsInv, NEW b \in BTN!Button, BTN!Task(b)
    PROVE  /\ \A h : <<"hold", h>> \in button_events' => presses[b].held = {} /\ h = BTN!HoldEvent(b)
           /\ \A c : <<"click", c>> \in button_events' => c = b /\ presses[b].held \subseteq {"joined"}
           /\ buttons'[b].state # buttons[b].state /\ presses[b].settled =>
                  presses[b].differs = DebounceTime
           /\ buttons'[BTN!Other(b)].state = buttons[BTN!Other(b)].state
<1> DEFINE x == buttons[b]
           p == presses[b]
           pin == button_pins[b]
           y == BTN!Sampled(x, pin)
           toggles == BTN!Toggles(x, pin)
           hold == BTN!Holds(y)
           o == BTN!Other(b)
<1>1. PressFits(x, p) /\ pin \in BOOLEAN /\ PressFits(buttons[o], presses[o])
  BY TwoButtons DEF ButtonsInv
<1>2. /\ y \in ButtonRecords
      /\ toggles => y.state = ~ x.state /\ x.debounce = 0
      /\ ~ toggles => y.state = x.state /\ y.hold_signalized = x.hold_signalized
      /\ toggles /\ y.state => ~ y.hold_signalized
  BY <1>1, Scanned
<1>3. button_events' =
        (IF toggles THEN {<<IF y.state THEN "press" ELSE "release", b>>} ELSE {})
        \cup (IF BTN!Clicked(x, pin) THEN {<<"click", b>>} ELSE {})
        \cup (IF hold THEN {<<"hold", BTN!HoldEvent(b)>>} ELSE {})
  BY DEF BTN!Task
<1>4. buttons'[b] = [y EXCEPT !.hold_signalized = y.hold_signalized \/ hold, !.plan = ScanInterval]
      /\ buttons'[o] = (IF hold THEN BTN!OtherHeld(o) ELSE buttons[o])
  BY TaskDoes
<1>5. x \in ButtonRecords /\ buttons[o] \in ButtonRecords
  BY <1>1 DEF PressFits
<1>6. BTN!OtherHeld(o) \in {buttons[o], [buttons[o] EXCEPT !.hold_signalized = TRUE]}
  BY DEF BTN!OtherHeld
<1>7. hold <=> y.state /\ ~ y.hold_signalized /\ y.hold_threshold = 0
  BY DEF BTN!Holds
<1>8. BTN!Clicked(x, pin) <=> toggles /\ x.state /\ x.click_timeout > 0
  BY DEF BTN!Clicked
<1> HIDE DEF x, p, pin, y, toggles, hold
<1>9. hold => p.held = {}
  BY <1>1, <1>2, <1>5, <1>7 DEF PressFits, ButtonRecords
<1>10. BTN!Clicked(x, pin) => p.held \subseteq {"joined"}
  BY <1>1, <1>8 DEF PressFits
<1>11. ASSUME NEW h, <<"hold", h>> \in button_events'
       PROVE  p.held = {} /\ h = BTN!HoldEvent(b)
  BY <1>3, <1>9, <1>11
<1>12. ASSUME NEW c, <<"click", c>> \in button_events'
       PROVE  c = b /\ p.held \subseteq {"joined"}
  BY <1>3, <1>10, <1>12
<1>13. ASSUME buttons'[b].state # x.state, p.settled
       PROVE  p.differs = DebounceTime
  <2>1. buttons'[b].state = y.state
    BY <1>2, <1>4 DEF ButtonRecords
  <2>2. x.debounce = 0
    BY <1>2, <1>13, <2>1
  <2> QED BY <1>1, <1>13, <2>2 DEF PressFits, BTN!INFINITY, ButtonTimes
<1>14. buttons'[o].state = buttons[o].state
  BY <1>4, <1>5, <1>6 DEF ButtonRecords
<1> QED BY <1>11, <1>12, <1>13, <1>14 DEF p, x

LEMMA PressesToldSafely ==
    ASSUME ButtonTimes, ButtonsInv, [BTN!ButtonsNext]_(BTN!buttonVars)
    PROVE  /\ [\A b \in BTN!Button :
                 /\ <<"hold", b>> \in button_events' => presses[b].held = {}
                 /\ <<"hold", "both">> \in button_events' =>
                      \E c \in BTN!Button : presses[c].held \intersect {"both", "joined"} = {}
              ]_(BTN!buttonVars)
           /\ [\A b \in BTN!Button :
                 <<"click", b>> \in button_events' => presses[b].held \subseteq {"joined"}
              ]_(BTN!buttonVars)
           /\ [\A b \in BTN!Button :
                 buttons'[b].state # buttons[b].state /\ presses[b].settled
                   => presses[b].differs = DebounceTime]_(BTN!buttonVars)
<1>1. CASE UNCHANGED BTN!buttonVars
  BY <1>1
<1>2. CASE BTN!Tick \/ \E b \in BTN!Button : BTN!Touch(b)
  <2>1. button_events' = {}
    BY <1>2 DEF BTN!Tick, BTN!Touch
  <2>2. \A b \in BTN!Button : buttons'[b].state = buttons[b].state
    <3>1. CASE BTN!Tick
      BY <3>1 DEF BTN!Tick, ButtonsInv, ButtonRecords
    <3>2. CASE \E b \in BTN!Button : BTN!Touch(b)
      BY <3>2 DEF BTN!Touch
    <3> QED BY <1>2, <3>1, <3>2
  <2> QED BY <2>1, <2>2
<1>3. ASSUME NEW t \in BTN!Button, BTN!Task(t)
      PROVE  \A b \in BTN!Button :
               /\ <<"hold", b>> \in button_events' => presses[b].held = {}
               /\ <<"hold", "both">> \in button_events' =>
                    \E c \in BTN!Button : presses[c].held \intersect {"both", "joined"} = {}
               /\ <<"click", b>> \in button_events' => presses[b].held \subseteq {"joined"}
               /\ buttons'[b].state # buttons[b].state /\ presses[b].settled
                    => presses[b].differs = DebounceTime
  <2> SUFFICES ASSUME NEW b \in BTN!Button
               PROVE  /\ <<"hold", b>> \in button_events' => presses[b].held = {}
                      /\ <<"hold", "both">> \in button_events' =>
                           \E c \in BTN!Button : presses[c].held \intersect {"both", "joined"} = {}
                      /\ <<"click", b>> \in button_events' => presses[b].held \subseteq {"joined"}
                      /\ buttons'[b].state # buttons[b].state /\ presses[b].settled
                           => presses[b].differs = DebounceTime
    OBVIOUS
  <2>1. <<"hold", b>> \in button_events' => presses[b].held = {}
    <3>1. BTN!HoldEvent(t) \in {"both", t} /\ b # "both"
      BY DEF BTN!HoldEvent, BTN!Button
    <3> QED BY <1>3, <3>1, ScanTells
  <2>2. <<"hold", "both">> \in button_events' =>
          \E c \in BTN!Button : presses[c].held \intersect {"both", "joined"} = {}
    BY <1>3, ScanTells
  <2>3. <<"click", b>> \in button_events' => presses[b].held \subseteq {"joined"}
    BY <1>3, ScanTells
  <2>4. buttons'[b].state # buttons[b].state /\ presses[b].settled
          => presses[b].differs = DebounceTime
    BY <1>3, ScanTells, TwoButtons
  <2> QED BY <2>1, <2>2, <2>3, <2>4
<1> QED BY <1>1, <1>2, <1>3 DEF BTN!ButtonsNext

\* However the contacts bounce and the two tasks fall, with a click's time no
\* longer than a hold's: a press makes one hold, of its own or as part of the
\* other button's, and is no click then; and once an input has been seen to
\* agree with its button, the button follows it only after the debouncing.
THEOREM PressesAreToldAsTheyWere ==
    ASSUME ButtonTimes
    PROVE  BTN!Init /\ [][BTN!ButtonsNext]_(BTN!buttonVars)
           => BTN!OneHoldPerPress /\ BTN!HeldIsNoClick /\ BTN!DebouncedOnceSettled
<1>1. BTN!Init => ButtonsInv
  <2> SUFFICES ASSUME BTN!Init PROVE ButtonsInv
    OBVIOUS
  <2> DEFINE x == [state |-> FALSE, hold_signalized |-> FALSE, debounce |-> BTN!INFINITY,
                   click_timeout |-> 0, hold_threshold |-> 0, plan |-> 0]
             p == [held |-> {}, differs |-> BTN!INFINITY, settled |-> TRUE]
  <2>1. x \in ButtonRecords /\ p \in PressRecords
    BY DEF ButtonRecords, PressRecords, BTN!INFINITY
  <2>2. PressFits(x, p)
    BY <2>1 DEF PressFits
  <2>3. buttons = [b \in BTN!Button |-> x] /\ presses = [b \in BTN!Button |-> p]
        /\ button_pins \in [BTN!Button -> BOOLEAN]
    BY DEF BTN!Init
  <2> HIDE DEF x, p
  <2> QED BY <2>1, <2>2, <2>3 DEF ButtonsInv
<1>2. ButtonsInv /\ [BTN!ButtonsNext]_(BTN!buttonVars) => ButtonsInv'
  BY ButtonsKeep
<1> QED BY <1>1, <1>2, PressesToldSafely, PTL
        DEF BTN!OneHoldPerPress, BTN!HeldIsNoClick, BTN!DebouncedOnceSettled

-----------------------------------------------------------------------------
(***************************************************************************)
(* The dates of the real-time clock, which are counted in three ways: by   *)
(* the calendar, by the loop over the years and by the tables.  What the   *)
(* loop computes is the one function that solves its equation, and that is *)
(* counted by the rule for leap years; the tables are compared with it.    *)
(***************************************************************************)
CONSTANT LastYear
VARIABLES year, month, day, days, yday

RTC == INSTANCE Rtc

\* The days up to the beginning of a year, of the years since 1970 and of the
\* years of the century.
Until(n) == 365 * (n - 1970) + (n - 1969) \div 4
DaysUntil(y) == 10957 + 365 * y + (y + 3) \div 4

LEMMA LeapYears ==
    /\ \A n \in 1970 .. 2099 : RTC!LeapYear(n) <=> n % 4 = 0
    /\ \A y \in 0 .. 99 : RTC!LeapYear(2000 + y) <=> y % 4 = 0
    /\ \A y \in 0 .. 99 : y \in RTC!is_leap <=> y % 4 = 0
<1>1. \A n \in 1970 .. 2099 : RTC!LeapYear(n) <=> n % 4 = 0
  BY DEF RTC!LeapYear
<1>2. \A y \in 0 .. 99 : 2000 + y \in 1970 .. 2099 /\ (2000 + y) % 4 = y % 4
  OBVIOUS
<1>3. \A y \in 0 .. 99 : y \in RTC!is_leap <=> y % 4 = 0
  BY DEF RTC!is_leap
<1> QED BY <1>1, <1>2, <1>3

\* The table of the years counts by the rule.
LEMMA EpochTable == \A y \in 0 .. 99 : RTC!days_since_epoch[y + 1] = DaysUntil(y)
BY DEF RTC!days_since_epoch, DaysUntil

LEMMA YearEnds ==
    \A n \in 1970 .. 2098 : Until(n + 1) = Until(n) + RTC!DaysInYear(n)
BY LeapYears DEF Until, RTC!DaysInYear

\* The loop over the back years counts by the rule.
LEMMA BackYearsCounted == \A n \in 1970 .. 2099 : RTC!BackYears[n] = Until(n)
<1> DEFINE Step(f, n) == IF n = 1970 THEN 0 ELSE f[n - 1] + RTC!DaysInYear(n - 1)
           g == [n \in 1970 .. 2099 |-> Until(n)]
           b == RTC!BackYears
<1>1. g = [n \in 1970 .. 2099 |-> Step(g, n)]
  <2>1. \A n \in 1970 .. 2099 : Until(n) = Step(g, n)
    <3> TAKE n \in 1970 .. 2099
    <3>1. CASE n = 1970
      BY <3>1 DEF Until
    <3>2. CASE n # 1970
      <4>1. n - 1 \in 1970 .. 2098 /\ (n - 1) + 1 = n
        BY <3>2
      <4>2. g[n - 1] = Until(n - 1)
        BY <4>1
      <4>3. Until((n - 1) + 1) = Until(n - 1) + RTC!DaysInYear(n - 1)
        BY <4>1, YearEnds
      <4> QED BY <3>2, <4>1, <4>2, <4>3
    <3> QED BY <3>1, <3>2
  <2> QED BY <2>1
<1>2. b = [n \in 1970 .. 2099 |-> Step(b, n)]
  <2> DEFINE Solves(f) == f = [n \in 1970 .. 2099 |-> Step(f, n)]
  <2>1. b = CHOOSE f : Solves(f)
    BY DEF RTC!BackYears
  <2>2. \E f : Solves(f)
    <3>1. Solves(g)
      BY <1>1
    <3> HIDE DEF Solves, g
    <3> QED BY <3>1
  <2>3. Solves(b)
    <3> HIDE DEF b, Solves
    <3> QED BY <2>1, <2>2
  <2> QED BY <2>3
<1>3. /\ b[1970] = 0
      /\ \A n \in 1971 .. 2099 : b[n] = b[n - 1] + RTC!DaysInYear(n - 1)
  <2> HIDE DEF b
  <2> QED BY <1>2
<1> HIDE DEF b
<1> DEFINE Bad == {n \in 1970 .. 2099 : b[n] # Until(n)}
<1>4. SUFFICES ASSUME Bad # {} PROVE FALSE
  BY DEF b
<1>5. PICK n \in Bad : \A m \in Bad : n <= m
  <2>1. Bad \in SUBSET Nat
    OBVIOUS
  <2> HIDE DEF Bad
  <2> QED BY <1>4, <2>1, LeastNatural
<1>6. CASE n = 1970
  BY <1>3, <1>5, <1>6 DEF Until
<1>7. CASE n # 1970
  <2>1. n - 1 \in 1970 .. 2098 /\ (n - 1) + 1 = n /\ n \in 1971 .. 2099
    BY <1>5, <1>7
  <2>2. b[n - 1] = Until(n - 1)
    BY <1>5, <2>1
  <2>3. Until((n - 1) + 1) = Until(n - 1) + RTC!DaysInYear(n - 1)
    BY <2>1, YearEnds
  <2> QED BY <1>3, <1>5, <2>1, <2>2, <2>3
<1> QED BY <1>6, <1>7

\* The table of the months, and the days of a month, in a year of the
\* century.
Leap(y) == y % 4 = 0
Table(y) == RTC!days_since_new_year(Leap(y))
Month(y, m) ==
    IF m = 2 THEN IF Leap(y) THEN 29 ELSE 28 ELSE IF m \in {4, 6, 9, 11} THEN 30 ELSE 31

\* The table of the months counts by the calendar.
LEMMA FirstMonth == \A y \in 0 .. 99 : Table(y)[1] = 0
BY DEF Table, Leap, RTC!days_since_new_year

LEMMA LastMonth == ASSUME NEW y PROVE Table(y)[12] = IF Leap(y) THEN 335 ELSE 334
BY DEF Table, RTC!days_since_new_year

LEMMA MonthTyped == \A y \in 0 .. 99 : \A m \in 1 .. 12 : Table(y)[m] \in 0 .. 335
BY DEF Table, Leap, RTC!days_since_new_year

LEMMA NextMonth ==
    \A y \in 0 .. 99 : \A m \in 1 .. 11 : Table(y)[m + 1] = Table(y)[m] + Month(y, m)
BY DEF Table, Leap, RTC!days_since_new_year, Month

\* The days are counted from the epoch to the year, and in the year.
DatesInv ==
    /\ year \in 0 .. 99 /\ month \in 1 .. 12 /\ day \in 1 .. Month(year, month)
    /\ yday = Table(year)[month] + day - 1
    /\ days = DaysUntil(year) + yday

LEMMA DatesKeep ==
    ASSUME LastYear \in 0 .. 99, DatesInv, RTC!NextDay
    PROVE  DatesInv'
<1>1. RTC!DaysInMonth = Month(year, month) /\ year \in 0 .. 99
  BY DEF RTC!DaysInMonth, Month, Leap, DatesInv
<1>2. /\ Table(year)[1] = 0
      /\ Table(year)[12] = IF Leap(year) THEN 335 ELSE 334
      /\ \A m \in 1 .. 11 : Table(year)[m + 1] = Table(year)[m] + Month(year, m)
      /\ Table(year)[month] \in 0 .. 335
  <2>1. year \in 0 .. 99 /\ month \in 1 .. 12
    BY DEF DatesInv
  <2>2. Table(year)[1] = 0 /\ Table(year)[month] \in 0 .. 335
    BY <2>1, FirstMonth, MonthTyped
  <2>3. Table(year)[12] = IF Leap(year) THEN 335 ELSE 334
    BY LastMonth
  <2>4. \A m \in 1 .. 11 : Table(year)[m + 1] = Table(year)[m] + Month(year, m)
    BY <2>1, NextMonth
  <2> QED BY <2>2, <2>3, <2>4
<1>3. Month(year, month) \in 28 .. 31 /\ Month(year, 12) = 31 /\ \A m : Month(year, m) >= 1
  BY DEF Month
<1>4. /\ yday = Table(year)[month] + day - 1 /\ day \in 1 .. Month(year, month)
      /\ days = DaysUntil(year) + yday /\ days' = days + 1 /\ DaysUntil(year) \in Int
  BY DEF DatesInv, RTC!NextDay, DaysUntil
<1>5. CASE /\ day < RTC!DaysInMonth
           /\ day' = day + 1 /\ yday' = yday + 1 /\ UNCHANGED <<year, month>>
  <2>1. day' \in 1 .. Month(year, month) /\ yday' = Table(year)[month] + day' - 1
    BY <1>1, <1>2, <1>3, <1>4, <1>5
  <2>2. days' = DaysUntil(year) + yday'
    BY <1>2, <1>3, <1>4, <1>5
  <2> QED BY <1>5, <2>1, <2>2 DEF DatesInv
<1>6. CASE /\ day = RTC!DaysInMonth /\ month < 12
           /\ day' = 1 /\ month' = month + 1 /\ yday' = yday + 1 /\ UNCHANGED year
  <2>1. month \in 1 .. 11 /\ month' \in 1 .. 12
    BY <1>6 DEF DatesInv
  <2>2. yday' = Table(year)[month'] + day' - 1
    <3>1. Table(year)[month'] = Table(year)[month] + Month(year, month)
      BY <1>2, <1>6, <2>1
    <3>2. yday = Table(year)[month] + Month(year, month) - 1
      BY <1>1, <1>4, <1>6
    <3> QED BY <1>2, <1>3, <1>6, <3>1, <3>2
  <2>3. day' \in 1 .. Month(year, month')
    <3>1. Month(year, month') \in {28, 29, 30, 31}
      BY DEF Month
    <3> QED BY <1>6, <3>1
  <2>4. days' = DaysUntil(year) + yday'
    BY <1>2, <1>3, <1>4, <1>6
  <2> QED BY <1>6, <2>1, <2>2, <2>3, <2>4 DEF DatesInv
<1>7. CASE /\ day = RTC!DaysInMonth /\ month = 12 /\ year < LastYear
           /\ day' = 1 /\ month' = 1 /\ year' = year + 1 /\ yday' = 0
  <2>1. yday = IF Leap(year) THEN 365 ELSE 364
    BY <1>1, <1>2, <1>3, <1>4, <1>7
  <2>2. year' \in 0 .. 99
    BY <1>1, <1>7
  <2>3. DaysUntil(year + 1) = DaysUntil(year) + yday + 1
    BY <1>1, <2>1 DEF DaysUntil, Leap
  <2>4. Month(year', 1) = 31
    BY DEF Month
  <2>5. Table(year')[1] = 0
    BY <2>2, FirstMonth
  <2> QED BY <1>4, <1>7, <2>2, <2>3, <2>4, <2>5 DEF DatesInv
<1> QED BY <1>5, <1>6, <1>7 DEF RTC!NextDay

\* The days up to the end of the century, and the seconds, in their integers.
LEMMA CenturyEnds ==
    ASSUME NEW y \in 0 .. 99
    PROVE  DaysUntil(y) \in Int /\ DaysUntil(y) >= 0 /\ DaysUntil(y) <= 47117
<1>1. (y + 3) \div 4 \in 0 .. 25
  OBVIOUS
<1>2. \A z \in 0 .. 25 : /\ 10957 + 365 * y + z \in Int
                        /\ 10957 + 365 * y + z >= 0 /\ 10957 + 365 * y + z <= 47117
  OBVIOUS
<1> QED BY <1>1, <1>2 DEF DaysUntil

LEMMA SecondsFit ==
    ASSUME NEW d \in Int, d >= 0, d <= 47500
    PROVE  /\ (d * 675) % 33554432 = d * 675
           /\ d * 675 < 16777216 => (d * 675 + 16777216) % 33554432 = d * 675 + 16777216
<1>1. d * 675 \in Int /\ d * 675 <= 33554431
  OBVIOUS
<1>2. d * 675 >= 0
  OBVIOUS
<1>3. \A x \in Int : x >= 0 /\ x <= 33554431 => x % 33554432 = x
  OBVIOUS
<1> QED BY <1>1, <1>2, <1>3

\* By its two ways of conversion the clock has for each day of the century the
\* number of days that have passed, as far as its integers go, and so has the
\* day of the year.
THEOREM DatesCountDays ==
    ASSUME LastYear \in 0 .. 99
    PROVE  RTC!RtcSpec => []RTC!DatesAgree
<1>1. RTC!Init => DatesInv
  <2> SUFFICES ASSUME RTC!Init PROVE DatesInv
    OBVIOUS
  <2>1. year \in 0 .. 99
    BY DEF RTC!Init
  <2>2. DaysUntil(year) = 10957 /\ Month(year, month) = 31
    BY DEF RTC!Init, DaysUntil, Month
  <2>3. Table(year)[1] = 0
    BY <2>1, FirstMonth
  <2> QED BY <2>1, <2>2, <2>3 DEF RTC!Init, DatesInv
<1>2. DatesInv /\ [RTC!NextDay]_(RTC!rtcVars) => DatesInv'
  <2>1. DatesInv /\ UNCHANGED RTC!rtcVars => DatesInv'
    BY DEF DatesInv, RTC!rtcVars
  <2> QED BY <2>1, DatesKeep
<1>3. DatesInv => RTC!DatesAgree
  <2> SUFFICES ASSUME DatesInv PROVE RTC!DatesAgree
    OBVIOUS
  <2>1. year \in 0 .. 99 /\ day \in 1 .. 31 /\ Table(year)[month] \in 0 .. 335
    <3>1. Month(year, month) \in {28, 29, 30, 31}
      BY DEF Month
    <3>2. year \in 0 .. 99 /\ month \in 1 .. 12 /\ day \in 1 .. 31
      BY <3>1 DEF DatesInv
    <3>3. Table(year)[month] \in 0 .. 335
      BY <3>2, MonthTyped
    <3> QED BY <3>2, <3>3
  <2>2. /\ RTC!days_since_new_year(RTC!LeapYear(2000 + year)) = Table(year)
        /\ RTC!days_since_new_year(year \in RTC!is_leap) = Table(year)
    BY <2>1, LeapYears DEF RTC!days_since_new_year, Table, Leap
  <2>3. days = DaysUntil(year) + yday /\ yday = Table(year)[month] + day - 1
    BY DEF DatesInv
  <2>4. RTC!BackYears[2000 + year] = DaysUntil(year)
    <3>1. 2000 + year \in 1970 .. 2099
      BY <2>1
    <3>2. Until(2000 + year) = DaysUntil(year)
      BY <2>1 DEF Until, DaysUntil
    <3> QED BY <3>1, <3>2, BackYearsCounted
  <2>5. RTC!days_since_epoch[year + 1] = DaysUntil(year)
    BY <2>1, EpochTable
  <2>6. DaysUntil(year) \in Int /\ DaysUntil(year) >= 0 /\ DaysUntil(year) <= 47117
    BY <2>1, CenturyEnds
  <2>7. /\ days = DaysUntil(year) + Table(year)[month] + day - 1
        /\ days \in Int /\ days >= 0 /\ days <= 47500
    <3> DEFINE d == DaysUntil(year)
               t == Table(year)[month]
    <3>1. d \in Int /\ d >= 0 /\ d <= 47117 /\ t \in 0 .. 335 /\ day \in 1 .. 31
      BY <2>1, <2>6
    <3>2. days = d + (t + day - 1)
      BY <2>3
    <3> HIDE DEF d, t
    <3>3. d + (t + day - 1) = d + t + day - 1 /\ d + t + day - 1 >= 0 /\ d + t + day - 1 <= 47500
      <4>1. \A e \in 1 .. 31 : d + (t + e - 1) = d + t + e - 1
        BY <3>1
      <4>2. d + t + day - 1 >= 0
        BY <3>1
      <4>3. d + t + day - 1 <= 47500
        BY <3>1
      <4> QED BY <3>1, <4>1, <4>2, <4>3
    <3>4. d + t + day - 1 \in Int
      BY <3>1
    <3> QED BY <3>2, <3>3, <3>4 DEF d, t
  <2>8. RTC!DatetimeToTimestamp = (days * 675) % 33554432
    BY <2>2, <2>4, <2>7 DEF RTC!DatetimeToTimestamp, RTC!DAY, RTC!INT
  <2>9. RTC!GetTimestamp = ((days * 675 + 16777216) % 33554432) - 16777216
    BY <2>2, <2>5, <2>7 DEF RTC!GetTimestamp, RTC!DAY, RTC!INT
  <2>10. /\ (days * 675) % 33554432 = days * 675
         /\ days * 675 < 16777216 => (days * 675 + 16777216) % 33554432 = days * 675 + 16777216
    BY <2>7, SecondsFit
  <2>11. RTC!YearDay = yday
    BY <2>2, <2>3 DEF RTC!YearDay
  <2> QED BY <2>7, <2>8, <2>9, <2>10, <2>11 DEF RTC!DatesAgree, RTC!DAY, RTC!INT
<1> QED BY <1>1, <1>2, <1>3, PTL DEF RTC!RtcSpec

=============================================================================
