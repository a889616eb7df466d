---------------------------- MODULE PulseCounter ----------------------------
(***************************************************************************)
(* A channel of twr_pulse_counter.c: the interrupt of an edge counts, and  *)
(* leaves an event to a task of the main program, which it may preempt     *)
(* between any two steps.                                                  *)
(***************************************************************************)
EXTENDS Integers

CONSTANTS
    COUNTS,         \* the number of values of the counter, 2^32, or at least more than
    MaxPulses       \* bound: edges

VARIABLES
    pulses,         \* the counter
    flag, pending,  \* pending_event_flag, pending_event
    interval,       \* the update interval is TWR_TICK_INFINITY, or some ticks
    due,            \* the task's tick: TWR_TICK_INFINITY, passed, or some ticks ahead
    at,             \* where the task is
    edges,
    silenced,       \* history: the interval was set to TWR_TICK_INFINITY since the edge
    wrapped         \* history: the counter has wrapped around, with no edge since,
                    \* and this has not been told; a wrap while the handler is told
                    \* of the one before does not count

pulseVars == <<pulses, flag, pending, interval, due, at, edges, silenced, wrapped>>

\* twr_pulse_counter_init
PulseInit ==
    /\ pulses = 0 /\ flag = FALSE /\ pending = "UPDATE"
    /\ interval = "INFINITY" /\ due = "INFINITY" /\ at = "idle"
    /\ edges = 0 /\ silenced = FALSE /\ wrapped = FALSE

EventOf(n) == IF n = 0 THEN "OVERFLOW" ELSE "UPDATE"

\* _twr_pulse_counter_channel_exti
Edge ==
    /\ edges < MaxPulses
    /\ edges' = edges + 1
    /\ pulses' = (pulses + 1) % COUNTS
    /\ flag' = TRUE
    /\ pending' = EventOf(pulses')
    /\ due' = "passed"
    /\ silenced' = FALSE
    /\ wrapped' = (pulses' = 0 /\ at # "told")
    /\ UNCHANGED <<interval, at>>

SetCount(n) ==
    /\ pulses' = n
    /\ UNCHANGED <<flag, pending, interval, due, at, edges, silenced, wrapped>>

\* twr_pulse_counter_set, by another task.
Set(n) == at = "idle" /\ SetCount(n)

\* twr_pulse_counter_reset, by the event handler too.
Reset == at \in {"idle", "told", "plan"} /\ SetCount(0)

\* twr_pulse_counter_set_update_interval
SetUpdateInterval(i) ==
    /\ at = "idle"
    /\ interval' = i
    /\ due' = i
    /\ silenced' = (i = "INFINITY" /\ (flag \/ silenced))
    /\ UNCHANGED <<pulses, flag, pending, at, edges, wrapped>>

-----------------------------------------------------------------------------
(***************************************************************************)
(* _twr_pulse_counter_channel_task_update                                  *)
(***************************************************************************)
Starts ==
    /\ at = "idle" /\ due # "INFINITY"
    /\ IF flag THEN at' = "event" ELSE at' = "plan"
    /\ flag' = FALSE
    /\ UNCHANGED <<pulses, pending, interval, due, edges, silenced, wrapped>>

Tells ==
    /\ at = "event"
    /\ at' = IF pending = "OVERFLOW" THEN "told" ELSE "plan"
    /\ wrapped' = FALSE
    /\ UNCHANGED <<pulses, flag, pending, interval, due, edges, silenced>>

\* The update follows.
ToldOverflow ==
    /\ at = "told"
    /\ flag' = TRUE /\ pending' = "UPDATE"
    /\ at' = "plan"
    /\ UNCHANGED <<pulses, interval, due, edges, silenced, wrapped>>

\* Mutant: the sum stops at TWR_TICK_INFINITY.
MutRelative(i) == i

\* The current tick plus TWR_TICK_INFINITY is the tick before.
Relative(i) == IF i = "INFINITY" THEN "passed" ELSE i

Plans ==
    /\ at = "plan"
    /\ due' = Relative(interval)
    /\ at' = "idle"
    /\ UNCHANGED <<pulses, flag, pending, interval, edges, silenced, wrapped>>

PulseNext ==
    \/ Edge \/ Starts \/ Tells \/ ToldOverflow \/ Plans
    \/ Set(COUNTS - 1) \/ Reset
    \/ \E i \in {"INFINITY", "ticks"} : SetUpdateInterval(i)

PulseSpec == PulseInit /\ [][PulseNext]_pulseVars

-----------------------------------------------------------------------------
PulseTypeOK ==
    /\ pulses \in 0 .. COUNTS - 1 /\ edges \in 0 .. MaxPulses
    /\ {flag, silenced, wrapped} \subseteq BOOLEAN
    /\ pending \in {"UPDATE", "OVERFLOW"}
    /\ interval \in {"INFINITY", "ticks"} /\ due \in {"INFINITY", "ticks", "passed"}
    /\ at \in {"idle", "event", "told", "plan"}

\* An edge that comes while the task runs, whose plan the task overwrites, is
\* told of all the same: in the next interval, and where there is none by the
\* sum that wraps around.
EdgeTold == at = "idle" /\ flag => due # "INFINITY" \/ silenced

\* An overflow is told of, unless the next edge comes before, or the event
\* handler is just being told of the last one.
OverflowTold == wrapped => (flag \/ at = "event") /\ pending = "OVERFLOW"

\* No edge and no overflow remains untold.
PulsesTold == EdgeTold /\ OverflowTold

=============================================================================
