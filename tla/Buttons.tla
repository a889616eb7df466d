------------------------------ MODULE Buttons ------------------------------
(***************************************************************************)
(* The two buttons of the LCD module: twr_button.c, which scans an input   *)
(* and makes presses, releases, clicks and holds of it, and the event      *)
(* handler of twr_module_lcd.c, which makes one BOTH_HOLD of two holds by  *)
(* writing into the other button's state.                                  *)
(*                                                                         *)
(* A tick in the future is kept as the time until it, a tick that has come *)
(* as 0: the code only ever compares ticks with now.                       *)
(***************************************************************************)
EXTENDS Integers

CONSTANTS ScanInterval, DebounceTime, ClickTimeout, HoldTime

VARIABLES
    pins,       \* the inputs: pressed or not
    buttons,    \* twr_button_t: _state, _hold_signalized, the three ticks, and
                \* the tick that the button's task is planned for
    events,     \* what the application was told by the last step
    presses     \* history of each button's last press: the holds it made, or
                \* "joined" when the other button made them BOTH_HOLD; time for which the samples have differed from _state;
                \* whether one has equalled it since _state changed

buttonVars == <<pins, buttons, events, presses>>

Button == {"left", "right"}
Other(b) == IF b = "left" THEN "right" ELSE "left"
INFINITY == 0 - 1

\* twr_button_init_virtual and twr_button_set_event_handler: the task is
\* planned for now.
Init ==
    /\ pins = [b \in Button |-> FALSE]
    /\ buttons = [b \in Button |->
         [state |-> FALSE, hold_signalized |-> FALSE, debounce |-> INFINITY,
          click_timeout |-> 0, hold_threshold |-> 0, plan |-> 0]]
    /\ events = {}
    /\ presses = [b \in Button |-> [held |-> {}, differs |-> INFINITY, settled |-> TRUE]]

\* A finger, a bouncing contact, or a failed read, which counts as released.
Touch(b) ==
    /\ pins' = [pins EXCEPT ![b] = ~ @]
    /\ events' = {}
    /\ UNCHANGED <<buttons, presses>>

Less(t) == IF t > 0 THEN t - 1 ELSE t
Older(t) == IF t = INFINITY \/ t = DebounceTime THEN t ELSE t + 1

\* Time passes; a task may come late.
Tick ==
    /\ buttons' = [b \in Button |->
         [buttons[b] EXCEPT !.debounce = Less(@), !.click_timeout = Less(@),
                            !.hold_threshold = Less(@), !.plan = Less(@)]]
    /\ presses' = [b \in Button |-> [presses[b] EXCEPT !.differs = Older(@)]]
    /\ events' = {}
    /\ UNCHANGED pins

-----------------------------------------------------------------------------
(***************************************************************************)
(* _twr_button_task: x is the button before, pin the sample.               *)
(***************************************************************************)
Debouncing(x, pin) ==
    IF x.state = pin THEN [x EXCEPT !.debounce = INFINITY]
    ELSE IF x.debounce = INFINITY THEN [x EXCEPT !.debounce = DebounceTime]
    ELSE x

Toggles(x, pin) == x.state # pin /\ Debouncing(x, pin).debounce = 0

Toggled(x) ==
    IF x.state
    THEN [x EXCEPT !.state = FALSE]
    ELSE [x EXCEPT !.state = TRUE, !.hold_signalized = FALSE,
                   !.click_timeout = ClickTimeout, !.hold_threshold = HoldTime]

\* The button after its first half.
Sampled(x, pin) ==
    LET d == Debouncing(x, pin) IN IF Toggles(x, pin) THEN Toggled(d) ELSE d

Holds(x) == x.state /\ ~ x.hold_signalized /\ x.hold_threshold = 0

Clicked(x, pin) == Toggles(x, pin) /\ x.state /\ x.click_timeout > 0

\* _twr_module_lcd_button_event_handler of a hold of b, which is BOTH_HOLD if
\* the other button is pressed.
HoldEvent(b) == IF buttons[Other(b)].state THEN "both" ELSE b
Hold == {"left", "right", "both"}

\* Mutant: the other button's hold is still to be signalized.
MutOtherHeld(o) == buttons[o]
OtherHeld(o) == IF buttons[o].state THEN [buttons[o] EXCEPT !.hold_signalized = TRUE] ELSE buttons[o]

Task(b) ==
    LET x == Sampled(buttons[b], pins[b])
        o == Other(b)
        toggles == Toggles(buttons[b], pins[b])
        hold == Holds(x)
        fresh == IF toggles THEN {} ELSE presses[b].held
    IN
    /\ buttons[b].plan = 0
    /\ buttons' = [buttons EXCEPT
         ![b] = [x EXCEPT !.hold_signalized = @ \/ hold, !.plan = ScanInterval],
         ![o] = IF hold THEN OtherHeld(o) ELSE @]
    /\ events' =
         (IF toggles THEN {<<IF x.state THEN "press" ELSE "release", b>>} ELSE {})
         \union (IF Clicked(buttons[b], pins[b]) THEN {<<"click", b>>} ELSE {})
         \union (IF hold THEN {<<"hold", HoldEvent(b)>>} ELSE {})
    /\ presses' = [presses EXCEPT
         ![b] = [held |-> IF hold THEN fresh \union {HoldEvent(b)} ELSE fresh,
                 differs |-> IF toggles \/ x.state = pins[b] THEN INFINITY
                             ELSE IF @.differs = INFINITY THEN 0 ELSE @.differs,
                 settled |-> ~ toggles /\ (@.settled \/ x.state = pins[b])],
         ![o].held = IF hold /\ buttons[o].state THEN @ \union {"joined"} ELSE @]
    /\ UNCHANGED pins

ButtonsNext == Tick \/ \E b \in Button : Touch(b) \/ Task(b)

-----------------------------------------------------------------------------
Times(max) == INFINITY .. max

TypeOK ==
    /\ pins \in [Button -> BOOLEAN]
    /\ buttons \in [Button ->
         [state : BOOLEAN, hold_signalized : BOOLEAN, debounce : Times(DebounceTime),
          click_timeout : 0 .. ClickTimeout, hold_threshold : 0 .. HoldTime,
          plan : 0 .. ScanInterval]]
    /\ presses \in [Button ->
         [held : SUBSET (Hold \union {"joined"}), differs : Times(DebounceTime),
          settled : BOOLEAN]]

\* "so the hold event of the second button won't trigger which would cause
\* event duplication" (twr_module_lcd.c): a press that was part of a
\* BOTH_HOLD makes no further hold, unless the other button is pressed anew.
OneHoldPerPress ==
    [][\A b \in Button :
         /\ <<"hold", b>> \in events' => presses[b].held = {}
         /\ <<"hold", "both">> \in events' =>
              \E c \in Button : presses[c].held \intersect {"both", "joined"} = {}]_buttonVars

\* A press that made a hold is not a click when it ends.  One that joined the
\* other button's BOTH_HOLD may have begun a moment before that, and is.
HeldIsNoClick ==
    [][\A b \in Button : <<"click", b>> \in events' => presses[b].held \subseteq {"joined"}]_buttonVars

\* "minimum sampling interval during which input cannot change to toggle its
\* state" (twr_button.h) ...
Debounced ==
    [][\A b \in Button :
         buttons'[b].state # buttons[b].state => presses[b].differs = DebounceTime]_buttonVars

\* ... of which the code does as much: _tick_debounce, which stays in the
\* past when the state changes, makes it change back at the next scan.
DebouncedOnceSettled ==
    [][\A b \in Button :
         buttons'[b].state # buttons[b].state /\ presses[b].settled
           => presses[b].differs = DebounceTime]_buttonVars

\* A button that is held down gets its press, and this press its hold, of its
\* own or as part of the other button's BOTH_HOLD.
HoldComes ==
    \A b \in Button :
        <>[] pins[b] => <>[] (buttons[b].state /\ presses[b].held # {})

\* Each press is told of as what it was, and a long one as a hold.
PressesTold == OneHoldPerPress /\ HeldIsNoClick /\ DebouncedOnceSettled /\ HoldComes

=============================================================================
