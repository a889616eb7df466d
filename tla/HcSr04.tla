------------------------------- MODULE HcSr04 -------------------------------
(***************************************************************************)
(* The ultrasonic sensor of twr_hc_sr04.c: the task that asks for a        *)
(* measurement, the timer whose two captures take the edges of the echo,   *)
(* its interrupt, and the task that the driver registers to tell of the    *)
(* result.  The echo is the sensor's: it may not come, come late, come     *)
(* twice, or still last when the next measurement begins.                  *)
(***************************************************************************)
EXTENDS Integers, Sequences

VARIABLES
    measuring,      \* _measurement_active
    echo_valid,     \* _measurement_valid
    notify,         \* _task_id_notify: not registered, registered, planned
    echo_interval,  \* the interval task is planned
    echo_pll,       \* the driver's uses of the PLL
    capture,        \* the timer counts, its captures and its interrupt are enabled
    flags,          \* the flags of the timer's status register
    line,           \* the level of the echo
    long,           \* the edges captured last are further apart than an echo is
    edges,          \* history: the edges since the measurement was accepted
    echo_told       \* what the event handler was told last

echoVars == <<measuring, echo_valid, notify, echo_interval, echo_pll, capture, flags, line, long,
              edges, echo_told>>

\* twr_hc_sr04_init
EchoInit ==
    /\ measuring = FALSE /\ echo_valid = FALSE
    /\ notify = "none" /\ echo_interval = FALSE /\ echo_pll = 0
    /\ capture = FALSE /\ flags = {} /\ line = 0 /\ long = FALSE
    /\ edges = <<>> /\ echo_told = "none"

\* twr_hc_sr04_measure
Accepted ==
    IF measuring
    THEN UNCHANGED <<measuring, echo_valid, notify, echo_pll, capture, flags, edges, echo_told>>
    ELSE /\ measuring' = TRUE /\ echo_valid' = FALSE
         /\ notify' = "registered"
         /\ echo_pll' = echo_pll + 1
         /\ capture' = TRUE /\ flags' = {}
         /\ edges' = <<>> /\ echo_told' = "none"

EchoMeasure == Accepted /\ UNCHANGED <<echo_interval, line, long>>

\* twr_hc_sr04_set_update_interval: never, or an interval, which begins with
\* a measurement.
SetUpdateInterval ==
    /\ \/ /\ echo_interval' = FALSE
          /\ UNCHANGED <<measuring, echo_valid, notify, echo_pll, capture, flags, edges,
                         echo_told>>
       \/ echo_interval' = TRUE /\ Accepted
    /\ UNCHANGED <<line, long>>

\* _twr_hc_sr04_task_interval
IntervalTask == echo_interval /\ EchoMeasure

-----------------------------------------------------------------------------
(***************************************************************************)
(* The echo and the timer.                                                 *)
(***************************************************************************)
\* A capture that has its flag already sets its overcapture flag too.  From a
\* falling edge to a later rising one the difference of the captures, of 16
\* bits, is longer than an echo.
Captured(edge, over) == flags \cup {edge} \cup (IF edge \in flags THEN {over} ELSE {})

Edge ==
    /\ line' = 1 - line
    /\ IF capture
       THEN /\ flags' = IF line = 0 THEN Captured("rising", "rising twice")
                        ELSE Captured("falling", "falling twice")
            /\ long' = IF line = 0 THEN "falling" \in flags ELSE long
       ELSE UNCHANGED <<flags, long>>
    \* A third edge tells as much as any further one.
    /\ edges' = IF Len(edges) < 3 THEN Append(edges, line') ELSE edges
    /\ UNCHANGED <<measuring, echo_valid, notify, echo_interval, echo_pll, capture, echo_told>>

\* The echo lasts for more than 30 ms.
Lasts ==
    /\ capture /\ line = 1 /\ ~ long
    /\ long' = TRUE
    /\ UNCHANGED <<measuring, echo_valid, notify, echo_interval, echo_pll, capture, flags, line,
                   edges, echo_told>>

\* The 250 ms of the compare register.
Timeout ==
    /\ capture
    /\ flags' = flags \cup {"timeout"}
    /\ UNCHANGED <<measuring, echo_valid, notify, echo_interval, echo_pll, capture, line, long,
                   edges, echo_told>>

\* _twr_hc_sr04_tim2_iqr_handler and _tim3_iqr_handler
TimerIrq ==
    /\ capture /\ flags \cap {"falling", "timeout"} # {}
    /\ capture' = FALSE
    /\ echo_valid' = IF flags = {"rising", "falling"} /\ ~ long THEN TRUE ELSE echo_valid
    /\ notify' = IF notify = "none" THEN "none" ELSE "planned"
    /\ UNCHANGED <<measuring, echo_interval, echo_pll, flags, line, long, edges, echo_told>>

\* _twr_hc_sr04_task_notify, whose event handler's calls are the application's.
NotifyTask ==
    /\ notify = "planned"
    /\ echo_pll' = echo_pll - 1
    /\ measuring' = FALSE
    /\ notify' = "none"
    /\ echo_told' = IF echo_valid THEN "update" ELSE "error"
    /\ UNCHANGED <<echo_valid, echo_interval, capture, flags, line, long, edges>>

EchoWorks == Timeout \/ TimerIrq \/ NotifyTask

EchoNext == EchoMeasure \/ SetUpdateInterval \/ IntervalTask \/ Edge \/ Lasts \/ EchoWorks

EchoSpec == EchoInit /\ [][EchoNext]_echoVars /\ WF_echoVars(EchoWorks)

-----------------------------------------------------------------------------
EchoTypeOK ==
    /\ {measuring, echo_valid, echo_interval, capture, long} \subseteq BOOLEAN
    /\ notify \in {"none", "registered", "planned"} /\ echo_pll \in Int
    /\ flags \subseteq {"rising", "rising twice", "falling", "falling twice", "timeout"}
    /\ line \in 0 .. 1 /\ edges \in Seq(0 .. 1) /\ Len(edges) <= 3
    /\ echo_told \in {"none", "update", "error"}

\* The PLL, which the timer counts from, is held and the task registered for
\* a measurement and no longer, whoever asks for another one meanwhile: no
\* task is leaked and none is missing when the timer's interrupt comes.
HeldWhileMeasuring ==
    /\ echo_pll = IF measuring THEN 1 ELSE 0
    /\ notify = "none" <=> ~ measuring
    /\ capture => notify = "registered"

\* An update is told of an echo that rose and fell after the measurement was
\* asked for, and neither of one that still lasted then nor of two.
EchoIsOwn ==
    [][echo_told # "update" /\ echo_told' = "update" =>
          Len(edges) >= 2 /\ edges[1] = 1 /\ edges[2] = 0]_echoVars

\* Who is told that the measurement is begun is told of its end.
EchoAnswered == measuring ~> echo_told \in {"update", "error"}

EchoServed == []HeldWhileMeasuring /\ EchoIsOwn /\ EchoAnswered

=============================================================================
