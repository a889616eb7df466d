------------------------------ MODULE LedStrip ------------------------------
(***************************************************************************)
(* A strip of LEDs: the effects of twr_led_strip.c, which draw a frame at  *)
(* a time into the buffer of twr_ws2812b.c, and the transfer of the buffer *)
(* to the LEDs by the DMA and the timer TIM2, during which the buffer is   *)
(* read pixel after pixel.                                                 *)
(*                                                                         *)
(* A colour is told apart by where it comes from.  An effect's wait is not *)
(* modelled: its task may run any time after it is planned.                *)
(***************************************************************************)
EXTENDS Integers

CONSTANTS
    count,          \* the pixels of the strip
    WHEEL,          \* the positions of the colour wheel (256)
    HALF,           \* the rounds of half a pulse (19)
    LENGTH,         \* the length of an icicle (10)
    MaxCalls        \* bound: the calls of the application

VARIABLES
    strip,          \* the colours in dma_bit_buffer
    phase,          \* the transfer: none, by DMA, the pause of TIM2, the task planned
    sent,           \* the pixels that the DMA has read
    pll,            \* the strip's uses of the PLL
    effect, led, round,     \* the effect whose task is registered, _effect
    shown,          \* the colours of the LEDs
    frame,          \* history: the buffer when the transfer began
    drawn,          \* history: the application drew since then
    seen,           \* history: what the pixels have shown during a finite effect
    disturbed,      \* history: the application drew since the effect was started
    done,           \* the effect whose end the event handler is told of
    calls

stripVars == <<strip, phase, sent, pll, effect, led, round, shown, frame, drawn, seen,
               disturbed, done, calls>>

Pixel == 0 .. count - 1
Finite == {"test", "color_wipe"}
Effects == Finite \cup {"rainbow", "rainbow_cycle", "theater_chase", "theater_chase_rainbow",
                        "stroboscope", "icicle", "pulse_color"}

Off == <<"off", 0>>
Color == <<"color", 0>>
Own == <<"application", 0>>
Wheel(position) == <<"wheel", position % WHEEL>>
Level(n) == <<"level", n>>
TestColor(r) == IF r = 4 THEN Off ELSE <<"test", r>>
Colors == {Off, Color, Own} \cup {<<"wheel", n>> : n \in 0 .. WHEEL - 1}
          \cup {<<"level", n>> : n \in 1 .. HALF + LENGTH + 1} \cup {<<"test", r>> : r \in 0 .. 3}

\* twr_led_strip_init, twr_ws2812b_init
StripInit ==
    /\ strip = [p \in Pixel |-> Off] /\ shown = strip /\ frame = strip
    /\ phase = "none" /\ sent = 0 /\ pll = 0
    /\ effect = "none" /\ led = 0 /\ round = 0 /\ done = "none"
    /\ drawn = FALSE /\ disturbed = FALSE /\ seen = {}
    /\ calls = 0

-----------------------------------------------------------------------------
(***************************************************************************)
(* The transfer.                                                           *)
(***************************************************************************)
\* twr_ws2812b_is_ready
Ready == phase = "none"

\* twr_ws2812b_write, when the buffer holds f; refused during a transfer.
Write(f) ==
    IF Ready
    THEN /\ phase' = "dma" /\ sent' = 0 /\ pll' = pll + 1
         /\ frame' = f /\ drawn' = FALSE
    ELSE UNCHANGED <<phase, sent, pll, frame, drawn>>

\* The DMA reads a pixel's pulses, and the pixel shows them.
SendPixel ==
    /\ phase = "dma" /\ sent < count
    /\ sent' = sent + 1
    /\ shown' = [shown EXCEPT ![sent] = strip[sent]]
    /\ seen' = IF effect \in Finite /\ ~ disturbed THEN seen \cup {<<sent, strip[sent]>>}
               ELSE seen
    /\ UNCHANGED <<strip, phase, pll, effect, led, round, frame, drawn, disturbed, done, calls>>

\* _twr_ws2812b_dma_event_handler: the timer now times the pause.
DmaDone ==
    /\ phase = "dma" /\ sent = count
    /\ phase' = "pause"
    /\ UNCHANGED <<strip, sent, pll, effect, led, round, shown, frame, drawn, seen, disturbed,
                   done, calls>>

\* HAL_TIM_PeriodElapsedCallback
PauseEnds ==
    /\ phase = "pause"
    /\ phase' = "planned"
    /\ UNCHANGED <<strip, sent, pll, effect, led, round, shown, frame, drawn, seen, disturbed,
                   done, calls>>

\* _twr_ws2812b_task
TransferTask ==
    /\ phase = "planned"
    /\ phase' = "none" /\ pll' = pll - 1
    /\ UNCHANGED <<strip, sent, effect, led, round, shown, frame, drawn, seen, disturbed, done,
                   calls>>

-----------------------------------------------------------------------------
(***************************************************************************)
(* The tasks of the effects.  During a transfer a task plans itself again  *)
(* and does nothing else.                                                  *)
(***************************************************************************)
\* Mutant: a task does not wait until the driver is ready.
MutRuns(e) == effect = e
Runs(e) == effect = e /\ Ready

\* The frame f is drawn and sent, and the effect goes on.
Shows(f, l, r) ==
    /\ strip' = f /\ Write(f)
    /\ led' = l /\ round' = r
    /\ UNCHANGED <<effect, shown, seen, disturbed, done, calls>>

\* _twr_led_strip_effect_done; its event handler's calls are the application's.
Ends ==
    /\ done' = effect /\ effect' = "none"
    /\ UNCHANGED <<shown, disturbed, calls>>

\* _twr_led_strip_effect_test_task
TestTask ==
    /\ Runs("test")
    /\ LET last == led + 1 = count
           f == [strip EXCEPT ![led] = TestColor(round)]
           r == IF last THEN round + 1 ELSE round
           l == IF last THEN 0 ELSE led + 1
       IN  \/ r < 5 /\ Shows(f, l, r)
           \/ /\ r = 5 /\ Ends
              /\ strip' = f /\ Write(f)
              /\ led' = l /\ round' = r /\ UNCHANGED seen

\* _twr_led_strip_effect_color_wipe_task: the last pixel is drawn and not sent.
WipeTask ==
    /\ Runs("color_wipe")
    /\ LET f == [strip EXCEPT ![led] = Color]
       IN  \/ led + 1 < count /\ Shows(f, led + 1, round)
           \/ /\ led + 1 = count /\ Ends
              /\ strip' = f /\ led' = led + 1
              /\ UNCHANGED <<round, phase, sent, pll, frame, drawn, seen>>

\* _twr_led_strip_effect_rainbow_task.  Of the round, what the wheel tells
\* apart is kept.
RainbowTask ==
    /\ Runs("rainbow")
    /\ Shows([p \in Pixel |-> Wheel(p + round)], led, (round + 1) % WHEEL)

\* _twr_led_strip_effect_rainbow_cycle_task
RainbowCycleTask ==
    /\ Runs("rainbow_cycle")
    /\ Shows([p \in Pixel |-> Wheel((p * WHEEL) \div count + round)], led, (round + 1) % WHEEL)

\* Every third pixel from led on goes out, and every third one after it on.
Chase(colors) ==
    [p \in Pixel |-> IF p % 3 = led THEN Off
                     ELSE IF p % 3 = (led + 1) % 3 THEN colors[p]
                     ELSE strip[p]]

\* _twr_led_strip_effect_theater_chase_task
TheaterChaseTask ==
    /\ Runs("theater_chase")
    /\ Shows(Chase([p \in Pixel |-> Color]), (led + 1) % 3, round)

\* _twr_led_strip_effect_theater_chase_rainbow_task: the last position of the
\* wheel is left out.
TheaterChaseRainbowTask ==
    /\ Runs("theater_chase_rainbow")
    /\ Shows(Chase([p \in Pixel |-> Wheel((p + round) % (WHEEL - 1))]),
             (led + 1) % 3, (round + 1) % (WHEEL - 1))

\* twr_led_strip_effect_stroboscope_task
StroboscopeTask ==
    /\ Runs("stroboscope")
    /\ Shows([p \in Pixel |-> IF round = 0 THEN Color ELSE Off], led, (round + 1) % 2)

\* _twr_led_strip_effect_icicle_task
IcicleTask ==
    /\ Runs("icicle")
    /\ LET next == IF led + 1 = count THEN - LENGTH ELSE led + 1
           Covers(from, p) == p \in from .. from + LENGTH - 1
       IN  Shows([p \in Pixel |-> IF Covers(next, p) THEN Level(p - next + 1)
                                  ELSE IF Covers(led, p) THEN Off ELSE strip[p]], next, round)

\* _twr_led_strip_effect_pulse_color_task
PulseColorTask ==
    /\ Runs("pulse_color")
    /\ LET level == (IF round < HALF THEN HALF - round ELSE round - HALF) + 1
       IN  Shows([p \in Pixel |-> Level(level)], led, (round + 1) % (2 * HALF))

EffectTask ==
    \/ TestTask \/ WipeTask \/ RainbowTask \/ RainbowCycleTask \/ TheaterChaseTask
    \/ TheaterChaseRainbowTask \/ StroboscopeTask \/ IcicleTask \/ PulseColorTask

-----------------------------------------------------------------------------
(***************************************************************************)
(* The application, which may call at any time between the tasks.          *)
(***************************************************************************)
Call == calls < MaxCalls /\ calls' = calls + 1 /\ UNCHANGED <<sent, shown>>

\* twr_led_strip_set_pixel, set_rgbw_framebuffer and fill; those of
\* twr_led_strip_thermometer, which then writes.
Draw ==
    /\ Call
    /\ \E first, last \in Pixel :
          strip' = [p \in Pixel |-> IF p \in first .. last THEN Own ELSE strip[p]]
    /\ drawn' = TRUE /\ disturbed' = TRUE /\ seen' = {}
    /\ UNCHANGED <<phase, pll, effect, led, round, frame, done>>

\* twr_led_strip_write
AppWrite ==
    /\ calls < MaxCalls /\ calls' = calls + 1
    /\ Write(strip)
    /\ UNCHANGED <<strip, effect, led, round, shown, seen, disturbed, done>>

\* twr_led_strip_effect_stop
EffectStop ==
    /\ Call
    /\ effect' = "none" /\ seen' = {}
    /\ UNCHANGED <<strip, phase, pll, led, round, frame, drawn, disturbed, done>>

\* twr_led_strip_effect_test and the others.  The test begins with a dark
\* buffer, whatever is being sent; an icicle begins before the strip.
EffectStart(e) ==
    /\ Call
    /\ effect' = e /\ round' = 0 /\ done' = "none"
    /\ led' = IF e = "icicle" THEN - LENGTH ELSE 0
    /\ strip' = IF e = "test" THEN [p \in Pixel |-> Off] ELSE strip
    /\ drawn' = (drawn \/ e = "test")
    /\ seen' = {} /\ disturbed' = FALSE
    /\ UNCHANGED <<phase, pll, frame>>

Works == SendPixel \/ DmaDone \/ PauseEnds \/ TransferTask \/ EffectTask

StripNext == Works \/ Draw \/ AppWrite \/ EffectStop \/ \E e \in Effects : EffectStart(e)

\* Transfers end, and the scheduler runs the tasks.
StripSpec == StripInit /\ [][StripNext]_stripVars /\ WF_stripVars(Works)

-----------------------------------------------------------------------------
StripTypeOK ==
    /\ {strip, shown, frame} \subseteq [Pixel -> Colors]
    /\ phase \in {"none", "dma", "pause", "planned"} /\ sent \in 0 .. count
    /\ pll \in Int
    /\ effect \in Effects \cup {"none"} /\ done \in Finite \cup {"none"}
    /\ led \in - LENGTH .. count /\ round \in Nat
    /\ {drawn, disturbed} \subseteq BOOLEAN
    /\ seen \subseteq Pixel \X Colors /\ calls \in 0 .. MaxCalls

\* The pulses are timed by the PLL, which is held for a transfer and for no
\* longer, whoever asks for one meanwhile.
PllHeld == pll = IF Ready THEN 0 ELSE 1

\* A frame is shown as it was when its transfer began, all of it, however the
\* tasks of the effects follow on one another, unless the application draws.
FrameShownWhole ==
    [][phase' = "pause" /\ phase # "pause" /\ ~ drawn => shown = frame]_stripVars

\* When a test or a wipe is told to be over, every pixel has shown its colours
\* (the test's last one, and the last pixel of a wipe, are yet to come).
EndIsTrue ==
    [][done = "none" /\ done' # "none" /\ ~ disturbed =>
          \A p \in Pixel :
              IF done' = "test" THEN \A r \in 0 .. 3 : <<p, TestColor(r)>> \in seen
              ELSE p < count - 1 => <<p, Color>> \in seen]_stripVars

\* A transfer ends, and so does an effect that is finite or is stopped.
EffectsEnd ==
    /\ ~ Ready ~> Ready
    /\ effect \in Finite ~> effect \notin Finite

StripServed == []PllHeld /\ FrameShownWhole /\ EndIsTrue /\ EffectsEnd

=============================================================================
