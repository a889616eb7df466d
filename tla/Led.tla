-------------------------------- MODULE Led ---------------------------------
(***************************************************************************)
(* A LED as twr_led.c drives it: steady, by a pattern of slots that may    *)
(* come to an end after a number of them, or by a pulse, from one task.    *)
(* The slots and pulses take their time: the task runs some time after it  *)
(* was planned.                                                            *)
(***************************************************************************)
EXTENDS Integers

CONSTANTS
    WIDTH,          \* slots of a pattern: 32, or another multiple of 8
    BlinkCounts,         \* counts that twr_led_blink is called with
    MaxPeriods      \* bound: counts that twr_led_set_count is called with

VARIABLES
    pattern,        \* the lit slots
    selector,       \* the slot that is next, 0 for the first one
    count, pulse_active, lit, planned,
    asked,          \* history: "off" or "on" if that was the last call for the LED
    pulsed,         \* history: a pulse has ended since then
    blinks          \* history: of twr_led_blink, the times asked for and the slots lit

ledVars == <<pattern, selector, count, pulse_active, lit, planned, asked, pulsed, blinks>>

All == 1 .. WIDTH
Off == {}
Blink == {s \in All : (s - 1) % 8 < 4}
BlinkFast == {s \in All : s % 2 = 1}
Flash == {1}
NoBlinks == [times |-> 0, slots |-> 0]

\* twr_led_init
Init ==
    /\ pattern = Off /\ selector = 0 /\ count = 0
    /\ pulse_active = FALSE /\ lit = FALSE /\ planned = FALSE
    /\ asked = "off" /\ pulsed = FALSE /\ blinks = NoBlinks

Asked(what) == asked' = what /\ pulsed' = FALSE /\ blinks' = NoBlinks

-----------------------------------------------------------------------------
Steady(p, on) ==
    /\ pattern' = p
    /\ count' = 0
    /\ lit' = IF pulse_active THEN lit ELSE on
    /\ UNCHANGED <<selector, pulse_active, planned>>

SetModeOff == Asked("off") /\ Steady(Off, FALSE)
SetModeOn == Asked("on") /\ Steady(All, TRUE)

\* It has no effect on a pattern.
SetModeToggle ==
    \/ /\ pattern = Off /\ Asked("on")
       /\ pattern' = All /\ count' = 0 /\ lit' = TRUE
       /\ UNCHANGED <<selector, pulse_active, planned>>
    \/ pattern = All /\ Asked("off") /\ Steady(Off, FALSE)

SetMode(p) ==
    /\ Asked("pattern")
    /\ pattern' = p
    /\ selector' = IF pattern = p THEN selector ELSE 0
    /\ count' = IF pattern = p THEN count ELSE 0
    /\ planned' = TRUE
    /\ UNCHANGED <<pulse_active, lit>>

SetPattern(p) ==
    /\ Asked("pattern")
    /\ pattern' = p /\ selector' = 0
    /\ planned' = TRUE
    /\ UNCHANGED <<count, pulse_active, lit>>

SetCount(n) ==
    /\ Asked("pattern")
    /\ count' = n
    /\ UNCHANGED <<pattern, selector, pulse_active, lit, planned>>

\* twr_led_blink
BlinkTimes(n) ==
    /\ asked' = "pattern" /\ pulsed' = FALSE /\ blinks' = [times |-> n, slots |-> 0]
    /\ pattern' = Blink /\ selector' = 0 /\ count' = n * 8
    /\ planned' = TRUE
    /\ UNCHANGED <<pulse_active, lit>>

\* twr_led_pulse
Pulse ==
    /\ lit' = IF pulse_active THEN lit ELSE TRUE
    /\ pulse_active' = TRUE
    /\ planned' = TRUE
    /\ blinks' = NoBlinks
    /\ UNCHANGED <<pattern, selector, count, asked, pulsed>>

-----------------------------------------------------------------------------
(***************************************************************************)
(* _twr_led_task                                                           *)
(***************************************************************************)
PulseEnds ==
    /\ planned /\ pulse_active
    /\ pulse_active' = FALSE /\ lit' = FALSE /\ selector' = 0
    /\ pulsed' = TRUE
    /\ UNCHANGED <<pattern, count, planned, asked, blinks>>

Rest ==
    /\ planned /\ ~ pulse_active
    /\ pattern \in {Off, All}
    /\ planned' = FALSE
    /\ UNCHANGED <<pattern, selector, count, pulse_active, lit, asked, pulsed, blinks>>

Slot ==
    /\ planned /\ ~ pulse_active
    /\ pattern \notin {Off, All}
    /\ LET s == IF selector = 0 THEN 1 ELSE selector
       IN /\ lit' = (s \in pattern)
          /\ selector' = IF s = WIDTH THEN 0 ELSE s + 1
    /\ count' = IF count # 0 THEN count - 1 ELSE 0
    /\ pattern' = IF count = 1 THEN Off ELSE pattern
    /\ blinks' = IF blinks.times > 0 /\ lit' THEN [blinks EXCEPT !.slots = @ + 1] ELSE blinks
    /\ UNCHANGED <<pulse_active, planned, asked, pulsed>>

Task == PulseEnds \/ Rest \/ Slot

LedNext ==
    \/ SetModeOff \/ SetModeOn \/ SetModeToggle \/ Pulse
    \/ \E p \in {Blink, BlinkFast, Flash} : SetMode(p)
    \/ \E p \in {Off, Flash, All} : SetPattern(p)
    \/ \E n \in 1 .. MaxPeriods : SetCount(n)
    \/ \E n \in BlinkCounts : BlinkTimes(n)
    \/ Task

LedSpec == Init /\ [][LedNext]_ledVars

-----------------------------------------------------------------------------
TypeOK ==
    /\ pattern \subseteq All /\ selector \in 0 .. WIDTH
    /\ count \in 0 .. MaxPeriods \cup 0 .. 8 * MaxPeriods
    /\ {pulse_active, lit, planned, pulsed} \subseteq BOOLEAN
    /\ asked \in {"off", "on", "pattern"}
    /\ blinks \in [times : {0} \cup BlinkCounts, slots : Nat]

\* "LED has steady off state", "LED has steady on state" (twr_led.h), whatever
\* pattern or pulse was in progress.  The latter as long as no pulse has ended:
\* it takes the light with it.
ShowsMode ==
    ~ pulse_active =>
        /\ asked = "off" => ~ lit
        /\ asked = "on" /\ ~ pulsed => lit

\* A LED that was told to blink some times is lit for four slots each time,
\* and dark in the end, unless something else is asked of it.
BlinksCounted ==
    blinks.times > 0 /\ pattern = Off =>
        blinks.slots = 4 * blinks.times /\ ~ lit

\* The LED shows what it was last told, in whatever order calls and slots come.
ShowsWhatWasAsked == ShowsMode /\ BlinksCounted

=============================================================================
