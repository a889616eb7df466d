----------------------------- MODULE Scheduler -----------------------------
(***************************************************************************)
(* The cooperative task scheduler of the SDK (twr_scheduler.c), together   *)
(* with what it runs on: the millisecond tick counter advanced by the RTC  *)
(* wake-up interrupt (twr_tick.c, twr_system.c), the sleep semaphore       *)
(* consulted by application_idle (twr_sleep.c, main.c), and the interrupt  *)
(* handlers that wake a task with twr_scheduler_plan_now.                  *)
(*                                                                         *)
(* One thread executes twr_scheduler_run.  Tasks run to completion inside  *)
(* it and may call any function of the API.  Interrupts may fall between   *)
(* any two steps.  A task's body is unknown to the scheduler, so the model *)
(* lets it make any sequence of at most MaxCalls calls.                    *)
(*                                                                         *)
(* Ticks are 64-bit and wrap: the model keeps the wrap (AddTicks) with     *)
(* TICK_INFINITY standing for 2^64 - 1.  A tick is read and written in two *)
(* halves on this 32-bit core.  A half-written value is only ever seen by  *)
(* main after an interrupt stored 0, and then compares either as due or as *)
(* not due for one more pass, which are the outcomes of the two orders of  *)
(* the atomic steps below.                                                 *)
(***************************************************************************)
EXTENDS Integers, FiniteSets, FiniteSetsExt

CONSTANTS
    Tasks,          \* task functions (each with its parameter)
    NULL,           \* the null function pointer of a free slot
    MAX_TASKS,      \* TWR_SCHEDULER_MAX_TASKS
    TICK_INFINITY,  \* TWR_TICK_INFINITY, the largest tick
    INTERVAL_MS,    \* TWR_SCHEDULER_INTERVAL_MS
    Delays,         \* the ticks that clients pass to the API
    TickBound,      \* bound: the tick counter saturates here
    MaxCalls,       \* bound: API calls in one run of a task
    MaxLocks        \* bound: nesting of twr_sleep_disable

ASSUME SizeAssumption == MAX_TASKS \in Nat \ {0}
ASSUME TickAssumption == /\ TICK_INFINITY \in Nat \ {0}
                         /\ TickBound \in Nat
                         /\ TickBound < TICK_INFINITY
                         /\ INTERVAL_MS \in Nat \ {0}
ASSUME DelayAssumption == Delays \subseteq 0 .. TICK_INFINITY
ASSUME BoundAssumption == MaxCalls \in Nat /\ MaxLocks \in Nat
ASSUME NullAssumption == NULL \notin Tasks

VARIABLES
    pool,             \* slot -> task function or NULL
    tick_execution,   \* slot -> tick at which the slot is to run
    tick_spin,        \* the tick read at the start of the pass
    current_task_id,
    max_task_id,
    tick,             \* _twr_tick_counter
    sleep_lock,       \* sleep_manager.disable_sleep_semaphore
    pc,               \* where the main thread is
    calls,            \* API calls made by the running task
    touched,          \* history: slots (re)planned since the pass began
    irq_wake          \* history: slots woken by an interrupt, not run yet

slots == <<pool, tick_execution, max_task_id>>
vars == <<pool, tick_execution, tick_spin, current_task_id, max_task_id,
          tick, sleep_lock, pc, calls, touched, irq_wake>>

Ids == 0 .. MAX_TASKS - 1
Ticks == 0 .. TICK_INFINITY

(***************************************************************************)
(* Main is in application_init, at the head of the pass, at the loop test, *)
(* past the due test, inside a task, in application_idle, in WFI, or for   *)
(* good in application_error.                                              *)
(***************************************************************************)
Places == {"init", "spin", "scan", "due", "task", "idle", "wfi", "error"}

AddTicks(a, b) == (a + b) % (TICK_INFINITY + 1)

Free == {i \in Ids : pool[i] = NULL}

(***************************************************************************)
(* main() registers application_task in slot 0 and calls application_init. *)
(***************************************************************************)
Init ==
    /\ \E t \in Tasks : pool = [i \in Ids |-> IF i = 0 THEN t ELSE NULL]
    /\ tick_execution = [i \in Ids |-> 0]
    /\ tick_spin = 0
    /\ current_task_id = 0
    /\ max_task_id = 0
    /\ tick = 0
    /\ sleep_lock = 0
    /\ pc = "init"
    /\ calls = 0
    /\ touched = {}
    /\ irq_wake = {}

-----------------------------------------------------------------------------
(***************************************************************************)
(* The loop of twr_scheduler_run.                                          *)
(***************************************************************************)
\* Mutant: the pass does not begin again at slot 0.
MutStartPass ==
    /\ pc = "spin"
    /\ tick_spin' = tick
    /\ touched' = {}
    /\ pc' = "scan"
    /\ UNCHANGED <<slots, current_task_id, tick, sleep_lock, calls, irq_wake>>

StartPass ==
    /\ pc = "spin"
    /\ tick_spin' = tick
    /\ current_task_id' = 0
    /\ touched' = {}
    /\ pc' = "scan"
    /\ UNCHANGED <<slots, tick, sleep_lock, calls, irq_wake>>

Due(i) == pool[i] # NULL /\ tick_spin >= tick_execution[i]

SkipSlot ==
    /\ pc = "scan"
    /\ current_task_id <= max_task_id
    /\ ~ Due(current_task_id)
    /\ current_task_id' = current_task_id + 1
    /\ UNCHANGED <<slots, tick_spin, tick, sleep_lock, pc, calls, touched, irq_wake>>

FindDue ==
    /\ pc = "scan"
    /\ current_task_id <= max_task_id
    /\ Due(current_task_id)
    /\ pc' = "due"
    /\ UNCHANGED <<slots, tick_spin, current_task_id, tick, sleep_lock, calls,
                   touched, irq_wake>>

\* The slot is disarmed before the task is called, so a plan made while the
\* task runs is not lost.
Dispatch ==
    /\ pc = "due"
    /\ tick_execution' = [tick_execution EXCEPT ![current_task_id] = TICK_INFINITY]
    /\ irq_wake' = irq_wake \ {current_task_id}
    /\ calls' = 0
    /\ pc' = "task"
    /\ UNCHANGED <<pool, max_task_id, tick_spin, current_task_id, tick,
                   sleep_lock, touched>>

\* Mutants: the slot is disarmed when the task has returned; the loop stays
\* on the task while it keeps itself due.
MutTaskReturns ==
    /\ pc = "task"
    /\ tick_execution' = [tick_execution EXCEPT ![current_task_id] = TICK_INFINITY]
    /\ current_task_id' = current_task_id + 1
    /\ pc' = "scan"
    /\ UNCHANGED <<pool, max_task_id, tick_spin, tick, sleep_lock, calls, touched, irq_wake>>
MutTaskStays ==
    /\ pc = "task"
    /\ current_task_id' = IF Due(current_task_id) THEN current_task_id
                                                  ELSE current_task_id + 1
    /\ pc' = "scan"
    /\ UNCHANGED <<slots, tick_spin, tick, sleep_lock, calls, touched, irq_wake>>

TaskReturns ==
    /\ pc = "task"
    /\ current_task_id' = current_task_id + 1
    /\ pc' = "scan"
    /\ UNCHANGED <<slots, tick_spin, tick, sleep_lock, calls, touched, irq_wake>>

EndPass ==
    /\ pc = "scan"
    /\ current_task_id > max_task_id
    /\ pc' = "idle"
    /\ UNCHANGED <<slots, tick_spin, current_task_id, tick, sleep_lock, calls,
                   touched, irq_wake>>

\* application_init returns and main calls twr_scheduler_run.
InitReturns ==
    /\ pc = "init"
    /\ pc' = "spin"
    /\ UNCHANGED <<slots, tick_spin, current_task_id, tick, sleep_lock, calls,
                   touched, irq_wake>>

\* application_idle: twr_sleep enters WFI unless sleeping is disabled.
Idle ==
    /\ pc = "idle"
    /\ pc' = IF sleep_lock = 0 THEN "wfi" ELSE "spin"
    /\ UNCHANGED <<slots, tick_spin, current_task_id, tick, sleep_lock, calls,
                   touched, irq_wake>>

-----------------------------------------------------------------------------
(***************************************************************************)
(* The API, called by the running task or by application_init.  A call     *)
(* that reaches application_error does not return.                         *)
(***************************************************************************)
Call ==
    /\ pc \in {"init", "task"}
    /\ calls < MaxCalls
    /\ calls' = calls + 1
    /\ UNCHANGED <<tick_spin, current_task_id, tick>>

ApplicationError ==
    /\ pc' = "error"
    /\ UNCHANGED <<slots, sleep_lock, touched, irq_wake>>

\* twr_scheduler_register takes the first free slot.
Register(t, at) ==
    /\ Call
    /\ IF Free = {}
       THEN ApplicationError
       ELSE LET i == Min(Free) IN
            /\ pool' = [pool EXCEPT ![i] = t]
            /\ tick_execution' = [tick_execution EXCEPT ![i] = at]
            /\ max_task_id' = IF max_task_id < i THEN i ELSE max_task_id
            /\ touched' = touched \union {i}
            /\ irq_wake' = irq_wake \ {i}
            /\ UNCHANGED <<pc, sleep_lock>>

\* The registered slots below i, where max_task_id lands when slot i, the
\* last one, is unregistered.
Below(i) == {j \in Ids : j < i /\ pool[j] # NULL}

\* Mutant: the search for the new max_task_id keeps only slot 0.
MutUnregisterMax(i) ==
    /\ Call
    /\ IF i >= MAX_TASKS
       THEN ApplicationError
       ELSE /\ pool' = [pool EXCEPT ![i] = NULL]
            /\ max_task_id' = IF max_task_id # i THEN max_task_id ELSE 0
            /\ irq_wake' = irq_wake \ {i}
            /\ UNCHANGED <<tick_execution, touched, pc, sleep_lock>>

Unregister(i) ==
    /\ Call
    /\ IF i >= MAX_TASKS
       THEN ApplicationError
       ELSE /\ pool' = [pool EXCEPT ![i] = NULL]
            /\ max_task_id' = IF max_task_id # i THEN max_task_id
                              ELSE IF Below(i) = {} THEN 0 ELSE Max(Below(i))
            /\ irq_wake' = irq_wake \ {i}
            /\ UNCHANGED <<tick_execution, touched, pc, sleep_lock>>

Plan(i, at) ==
    /\ tick_execution' = [tick_execution EXCEPT ![i] = at]
    /\ touched' = touched \union {i}
    /\ irq_wake' = irq_wake \ {i}
    /\ UNCHANGED <<pool, max_task_id, pc, sleep_lock>>

\* twr_scheduler_plan_now does not look at the slot's task.
PlanNow(i) ==
    /\ Call
    /\ IF i >= MAX_TASKS THEN ApplicationError ELSE Plan(i, 0)

\* The other planning functions refuse a free slot.
PlanAt(i, at) ==
    /\ Call
    /\ IF i \in Ids \ Free THEN Plan(i, at) ELSE ApplicationError

PlanAbsolute(i, at)   == PlanAt(i, at)
PlanRelative(i, delay) == PlanAt(i, AddTicks(tick_spin, delay))
PlanFromNow(i, delay)  == PlanAt(i, AddTicks(tick, delay))

\* The _current variants index the pool with current_task_id unchecked.
PlanCurrent(at) == Call /\ Plan(current_task_id, at)

PlanCurrentNow           == PlanCurrent(0)
PlanCurrentAbsolute(at)  == PlanCurrent(at)
PlanCurrentRelative(delay) == PlanCurrent(AddTicks(tick_spin, delay))
PlanCurrentFromNow(delay)  == PlanCurrent(AddTicks(tick, delay))

SleepDisable ==
    /\ Call
    /\ sleep_lock < MaxLocks
    /\ sleep_lock' = sleep_lock + 1
    /\ UNCHANGED <<slots, pc, touched, irq_wake>>

\* Clients pair the two calls; sleep_lock > 0 is their obligation.
SleepEnable ==
    /\ Call
    /\ sleep_lock > 0
    /\ sleep_lock' = sleep_lock - 1
    /\ UNCHANGED <<slots, pc, touched, irq_wake>>

-----------------------------------------------------------------------------
(***************************************************************************)
(* Interrupts.  Any of them ends WFI.                                      *)
(***************************************************************************)
WakeCpu == pc' = IF pc = "wfi" THEN "spin" ELSE pc

TickIrq ==
    /\ tick' = IF tick + INTERVAL_MS > TickBound THEN TickBound ELSE tick + INTERVAL_MS
    /\ WakeCpu
    /\ UNCHANGED <<slots, tick_spin, current_task_id, sleep_lock, calls,
                   touched, irq_wake>>

\* A driver's handler calls twr_scheduler_plan_now with the id of its task.
DriverIrq(i) ==
    /\ tick_execution' = [tick_execution EXCEPT ![i] = 0]
    /\ touched' = touched \union {i}
    /\ irq_wake' = IF pool[i] = NULL THEN irq_wake ELSE irq_wake \union {i}
    /\ WakeCpu
    /\ UNCHANGED <<pool, max_task_id, tick_spin, current_task_id, tick,
                   sleep_lock, calls>>

-----------------------------------------------------------------------------
ApiCall ==
    \/ \E t \in Tasks, at \in Delays : Register(t, at)
    \/ \E i \in 0 .. MAX_TASKS : Unregister(i) \/ PlanNow(i)
    \/ \E i \in 0 .. MAX_TASKS, d \in Delays :
          PlanAbsolute(i, d) \/ PlanRelative(i, d) \/ PlanFromNow(i, d)
    \/ PlanCurrentNow
    \/ \E d \in Delays :
          PlanCurrentAbsolute(d) \/ PlanCurrentRelative(d) \/ PlanCurrentFromNow(d)
    \/ SleepDisable
    \/ SleepEnable

\* What the scheduler itself and returning tasks do.
Loop ==
    \/ InitReturns \/ StartPass \/ SkipSlot \/ FindDue \/ Dispatch
    \/ TaskReturns \/ EndPass \/ Idle

Next ==
    \/ Loop
    \/ ApiCall
    \/ TickIrq
    \/ \E i \in Ids : DriverIrq(i)

Spec == Init /\ [][Next]_vars

(***************************************************************************)
(* Tasks return and the RTC keeps firing.  Nothing is assumed of the       *)
(* drivers' interrupts or of what tasks call.                              *)
(***************************************************************************)
FairSpec == Spec /\ WF_vars(Loop) /\ WF_vars(TickIrq)

-----------------------------------------------------------------------------
TypeOK ==
    /\ pool \in [Ids -> Tasks \union {NULL}]
    /\ tick_execution \in [Ids -> Ticks]
    /\ tick_spin \in Ticks
    /\ current_task_id \in 0 .. MAX_TASKS
    /\ max_task_id \in Ids
    /\ tick \in Ticks
    /\ sleep_lock \in Nat
    /\ pc \in Places
    /\ calls \in Nat
    /\ touched \in SUBSET Ids
    /\ irq_wake \in SUBSET Ids

\* The pass looks at slots 0 .. max_task_id only.  Whatever the order of
\* registrations and unregistrations, no registered task lies beyond.
RegisteredSlotsScanned ==
    \A i \in Ids : pool[i] # NULL => i <= max_task_id

\* A pass passes over nobody: when it ends, a task that is still due at the
\* pass's tick was planned or registered while the pass ran (it is due for
\* the next one), even if tasks registered, unregistered and replanned each
\* other under the loop's feet.
PassServesDueTasks ==
    pc = "idle" => \A i \in Ids : Due(i) => i \in touched

\* A wake-up by an interrupt is never lost to the loop's disarming of the
\* slot: the slot stays armed at 0 until the task has been called, or until
\* a client itself replanned or released the slot.
IrqWakeKept ==
    \A i \in irq_wake : tick_execution[i] = 0 /\ pool[i] # NULL

\* No registered task stays due for ever: it is called, replanned or removed,
\* however busy the other tasks are, unless the application stops.
DueTaskServed ==
    \A i \in Ids : []<>(~ (pool[i] # NULL /\ tick_execution[i] <= tick) \/ pc = "error")

\* Passes are finite, even when tasks keep registering and replanning: the
\* application gets its idle call (and its sleep) again and again.
PassesEnd == []<>(pc \in {"idle", "error"})

\* Neither a task nor the application's idle call waits for the others for ever.
NoneStarves == DueTaskServed /\ PassesEnd

=============================================================================
