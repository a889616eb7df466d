-------------------------- MODULE SchedulerProofs --------------------------
(***************************************************************************)
(* The safety of the scheduler for any number of slots, any set of tasks   *)
(* and any delays.  The inductive invariant adds to the properties what    *)
(* holds in the middle of a pass: the slots behind the loop are either not *)
(* due at the pass's tick or were planned since it began.                  *)
(***************************************************************************)
EXTENDS Scheduler, WellFoundedInduction, TLAPS

\* Where an index into the pool is used, it is inside the pool.
CurrentInPool == pc \in {"init", "due", "task"} => current_task_id \in Ids

\* Real ticks never reach TICK_INFINITY.
TicksBounded == tick <= TickBound /\ tick_spin <= TickBound

\* In the middle of a pass.
PassedSlotsServed ==
    /\ pc \in {"scan", "due", "task"} =>
         \A i \in Ids : (i < current_task_id /\ Due(i)) => i \in touched
    /\ pc = "task" => (Due(current_task_id) => current_task_id \in touched)

IInv ==
    /\ TypeOK
    /\ CurrentInPool
    /\ TicksBounded
    /\ RegisteredSlotsScanned
    /\ PassedSlotsServed
    /\ PassServesDueTasks
    /\ IrqWakeKept

USE SizeAssumption, TickAssumption, DelayAssumption, NullAssumption DEF Ids, Ticks

-----------------------------------------------------------------------------
(***************************************************************************)
(* Min and Max of non-empty sets of slots are members and bounds.          *)
(***************************************************************************)
LEMMA LeastNatural ==
    ASSUME NEW T \in SUBSET Nat, T # {}
    PROVE  \E x \in T : \A y \in T : x <= y
  <1> DEFINE R == OpToRel(<, Nat)
  <1>1. IsWellFoundedOn(R, Nat)
    BY NatLessThanWellFounded
  <1>2. PICK x \in T : \A y \in T : ~ (<<y, x>> \in R)
    <2> HIDE DEF R
    <2> QED BY <1>1, WFMin
  <1>3. \A y \in T : ~ (y < x)
    BY <1>2 DEF OpToRel
  <1> QED BY <1>3

LEMMA MinOfSlots ==
    ASSUME NEW T \in SUBSET Ids, T # {}
    PROVE  /\ Min(T) \in T
           /\ \A y \in T : Min(T) <= y
  <1>1. \E x \in T : \A y \in T : x <= y
    BY LeastNatural
  <1> QED BY <1>1 DEF Min

LEMMA MaxOfSlots ==
    ASSUME NEW T \in SUBSET Ids, T # {}
    PROVE  /\ Max(T) \in T
           /\ \A y \in T : Max(T) >= y
  <1> DEFINE D == {MAX_TASKS - x : x \in T}
  <1>1. D \in SUBSET Nat /\ D # {}
    <2>1. \A x \in T : MAX_TASKS - x \in Nat
      OBVIOUS
    <2> QED BY <2>1
  <1>2. PICK d \in D : \A e \in D : d <= e
    BY <1>1, LeastNatural
  <1>3. PICK x \in T : d = MAX_TASKS - x
    BY <1>2
  <1>4. \A y \in T : x >= y
    BY <1>2, <1>3
  <1> QED BY <1>4 DEF Max

-----------------------------------------------------------------------------
THEOREM InitEstablishes == Init => IInv
  BY DEF Init, IInv, TypeOK, Places, CurrentInPool, TicksBounded,
         RegisteredSlotsScanned, PassedSlotsServed, PassServesDueTasks, IrqWakeKept

-----------------------------------------------------------------------------
(***************************************************************************)
(* The steps of the loop.                                                  *)
(***************************************************************************)
LEMMA LoopPreserves == IInv /\ Loop => IInv'
  <1> SUFFICES ASSUME IInv, Loop PROVE IInv'
    OBVIOUS
  <1> USE DEF IInv, TypeOK, Places, CurrentInPool, TicksBounded,
          RegisteredSlotsScanned, PassedSlotsServed, PassServesDueTasks,
          IrqWakeKept, Due, slots
  <1>1. CASE InitReturns
    BY <1>1 DEF InitReturns
  <1>2. CASE StartPass
    BY <1>2 DEF StartPass
  <1>3. CASE SkipSlot
    BY <1>3 DEF SkipSlot
  <1>4. CASE FindDue
    BY <1>4 DEF FindDue
  <1>5. CASE Dispatch
    BY <1>5 DEF Dispatch
  <1>6. CASE TaskReturns
    BY <1>6 DEF TaskReturns
  <1>7. CASE EndPass
    BY <1>7 DEF EndPass
  <1>8. CASE Idle
    BY <1>8 DEF Idle
  <1> QED
    BY <1>1, <1>2, <1>3, <1>4, <1>5, <1>6, <1>7, <1>8 DEF Loop

-----------------------------------------------------------------------------
(***************************************************************************)
(* The API.  Every planning function arms one slot at some tick.           *)
(***************************************************************************)
LEMMA AddTicksType ==
    ASSUME NEW x \in Ticks, NEW y \in Ticks
    PROVE  AddTicks(x, y) \in Ticks
  <1>1. TICK_INFINITY + 1 \in Nat \ {0} /\ x + y \in Nat
    OBVIOUS
  <1> QED BY <1>1 DEF AddTicks

LEMMA ErrorPreserves == IInv /\ Call /\ ApplicationError => IInv'
  BY DEF Call, ApplicationError, IInv, TypeOK, Places, CurrentInPool,
         TicksBounded, RegisteredSlotsScanned, PassedSlotsServed,
         PassServesDueTasks, IrqWakeKept, Due, slots

LEMMA PlanPreserves ==
    ASSUME IInv, Call, NEW i \in Ids, NEW at \in Ticks, Plan(i, at)
    PROVE  IInv'
  BY DEF Call, Plan, IInv, TypeOK, Places, CurrentInPool,
         TicksBounded, RegisteredSlotsScanned, PassedSlotsServed,
         PassServesDueTasks, IrqWakeKept, Due

LEMMA PlanAtPreserves ==
    ASSUME IInv, NEW i \in 0 .. MAX_TASKS, NEW at \in Ticks, PlanAt(i, at)
    PROVE  IInv'
  BY PlanPreserves, ErrorPreserves DEF PlanAt

LEMMA PlanCurrentPreserves ==
    ASSUME IInv, NEW at \in Ticks, PlanCurrent(at)
    PROVE  IInv'
  <1>1. current_task_id \in Ids
    BY DEF PlanCurrent, Call, IInv, CurrentInPool
  <1> QED BY <1>1, PlanPreserves DEF PlanCurrent

LEMMA RegisterPreserves ==
    ASSUME IInv, NEW t \in Tasks, NEW at \in Delays, Register(t, at)
    PROVE  IInv'
  <1>1. CASE Free = {}
    BY <1>1, ErrorPreserves DEF Register
  <1>2. CASE Free # {}
    <2>1. Min(Free) \in Free /\ Free \subseteq Ids
      BY <1>2, MinOfSlots DEF Free
    <2>2. PICK i \in Free : i = Min(Free)
      BY <2>1
    <2>3. /\ pool' = [pool EXCEPT ![i] = t]
          /\ tick_execution' = [tick_execution EXCEPT ![i] = at]
          /\ max_task_id' = IF max_task_id < i THEN i ELSE max_task_id
          /\ touched' = touched \union {i}
          /\ irq_wake' = irq_wake \ {i}
          /\ UNCHANGED <<pc, sleep_lock>>
      BY <1>2, <2>2 DEF Register
    <2>4. Call
      BY DEF Register
    <2>5. i \in Ids /\ pool[i] = NULL /\ at \in Ticks
      BY <2>1, <2>2 DEF Free
    <2>6. TypeOK'
      BY <2>3, <2>4, <2>5 DEF Call, IInv, TypeOK, Places
    <2> QED
      BY <2>3, <2>4, <2>5, <2>6
         DEF Call, IInv, TypeOK, Places, CurrentInPool,
             TicksBounded, RegisteredSlotsScanned, PassedSlotsServed,
             PassServesDueTasks, IrqWakeKept, Due
  <1> QED BY <1>1, <1>2

LEMMA UnregisterPreserves ==
    ASSUME IInv, NEW i \in 0 .. MAX_TASKS, Unregister(i)
    PROVE  IInv'
  <1>1. CASE i >= MAX_TASKS
    BY <1>1, ErrorPreserves DEF Unregister
  <1>2. CASE ~ (i >= MAX_TASKS)
    <2>1. i \in Ids
      BY <1>2
    <2>2. /\ max_task_id' \in Ids
          /\ \A j \in Ids : pool'[j] # NULL => j <= max_task_id'
      <3>1. CASE max_task_id # i
        <4>1. max_task_id' = max_task_id /\ pool' = [pool EXCEPT ![i] = NULL]
          BY <1>2, <3>1 DEF Unregister
        <4> QED
          BY <4>1, <2>1 DEF IInv, TypeOK, RegisteredSlotsScanned
      <3>2. CASE max_task_id = i /\ Below(i) = {}
        <4>1. max_task_id' = 0 /\ pool' = [pool EXCEPT ![i] = NULL]
          BY <1>2, <3>2 DEF Unregister
        <4>2. \A j \in Ids : pool'[j] = NULL
          BY <4>1, <2>1, <3>2, SMTT(30) DEF IInv, TypeOK, RegisteredSlotsScanned, Below
        <4> QED
          BY <4>1, <4>2
      <3>3. CASE max_task_id = i /\ Below(i) # {}
        <4>1. Below(i) \subseteq Ids
          BY DEF Below
        <4>2. Max(Below(i)) \in Below(i) /\ \A y \in Below(i) : Max(Below(i)) >= y
          BY <3>3, <4>1, MaxOfSlots
        <4>3. PICK m \in Below(i) : m = Max(Below(i))
          BY <4>2
        <4>4. max_task_id' = m /\ pool' = [pool EXCEPT ![i] = NULL]
          BY <1>2, <3>3, <4>3 DEF Unregister
        <4>5. \A y \in Below(i) : m >= y
          BY <4>2, <4>3
        <4> QED
          BY <2>1, <3>3, <4>1, <4>4, <4>5
             DEF IInv, TypeOK, RegisteredSlotsScanned, Below
      <3> QED BY <3>1, <3>2, <3>3
    <2>3. /\ Call
          /\ pool' = [pool EXCEPT ![i] = NULL]
          /\ irq_wake' = irq_wake \ {i}
          /\ UNCHANGED <<tick_execution, touched, pc, sleep_lock>>
      BY <1>2 DEF Unregister
    <2> QED
      BY <2>1, <2>2, <2>3
         DEF Call, IInv, TypeOK, Places, CurrentInPool,
             TicksBounded, RegisteredSlotsScanned, PassedSlotsServed,
             PassServesDueTasks, IrqWakeKept, Due
  <1> QED BY <1>1, <1>2

LEMMA SleepPreserves ==
    ASSUME IInv, SleepDisable \/ SleepEnable
    PROVE  IInv'
  <1>1. sleep_lock' \in Nat
    BY DEF SleepDisable, SleepEnable, IInv, TypeOK
  <1>2. Call /\ UNCHANGED <<slots, pc, touched, irq_wake>>
    BY DEF SleepDisable, SleepEnable
  <1> QED
    BY <1>1, <1>2
       DEF Call, IInv, TypeOK, Places, CurrentInPool, TicksBounded,
           RegisteredSlotsScanned, PassedSlotsServed, PassServesDueTasks,
           IrqWakeKept, Due, slots

LEMMA ApiPreserves == IInv /\ ApiCall => IInv'
  <1> SUFFICES ASSUME IInv, ApiCall PROVE IInv'
    OBVIOUS
  <1>0. /\ tick \in Ticks /\ tick_spin \in Ticks
        /\ 0 \in Ticks /\ Delays \subseteq Ticks
    BY DEF IInv, TypeOK
  <1>1. ASSUME NEW t \in Tasks, NEW at \in Delays, Register(t, at)
        PROVE  IInv'
    BY <1>1, RegisterPreserves
  <1>2. ASSUME NEW i \in 0 .. MAX_TASKS, Unregister(i)
        PROVE  IInv'
    BY <1>2, UnregisterPreserves
  <1>3. ASSUME NEW i \in 0 .. MAX_TASKS, PlanNow(i)
        PROVE  IInv'
    BY <1>0, <1>3, PlanPreserves, ErrorPreserves DEF PlanNow
  <1>4. ASSUME NEW i \in 0 .. MAX_TASKS, NEW d \in Delays, PlanAbsolute(i, d)
        PROVE  IInv'
    BY <1>0, <1>4, PlanAtPreserves DEF PlanAbsolute
  <1>5. ASSUME NEW i \in 0 .. MAX_TASKS, NEW d \in Delays, PlanRelative(i, d)
        PROVE  IInv'
    BY <1>0, <1>5, AddTicksType, PlanAtPreserves DEF PlanRelative
  <1>6. ASSUME NEW i \in 0 .. MAX_TASKS, NEW d \in Delays, PlanFromNow(i, d)
        PROVE  IInv'
    BY <1>0, <1>6, AddTicksType, PlanAtPreserves DEF PlanFromNow
  <1>7. CASE PlanCurrentNow
    BY <1>0, <1>7, PlanCurrentPreserves DEF PlanCurrentNow
  <1>8. ASSUME NEW d \in Delays, PlanCurrentAbsolute(d)
        PROVE  IInv'
    BY <1>0, <1>8, PlanCurrentPreserves DEF PlanCurrentAbsolute
  <1>9. ASSUME NEW d \in Delays, PlanCurrentRelative(d)
        PROVE  IInv'
    BY <1>0, <1>9, AddTicksType, PlanCurrentPreserves DEF PlanCurrentRelative
  <1>10. ASSUME NEW d \in Delays, PlanCurrentFromNow(d)
         PROVE  IInv'
    BY <1>0, <1>10, AddTicksType, PlanCurrentPreserves DEF PlanCurrentFromNow
  <1>11. CASE SleepDisable \/ SleepEnable
    BY <1>11, SleepPreserves
  <1> QED
    BY <1>1, <1>2, <1>3, <1>4, <1>5, <1>6, <1>7, <1>8, <1>9, <1>10, <1>11
       DEF ApiCall

-----------------------------------------------------------------------------
(***************************************************************************)
(* Interrupts.                                                             *)
(***************************************************************************)
LEMMA TickPreserves == IInv /\ TickIrq => IInv'
  BY DEF TickIrq, WakeCpu, IInv, TypeOK, Places, CurrentInPool,
         TicksBounded, RegisteredSlotsScanned, PassedSlotsServed,
         PassServesDueTasks, IrqWakeKept, Due, slots

LEMMA DriverIrqPreserves ==
    ASSUME IInv, NEW i \in Ids, DriverIrq(i)
    PROVE  IInv'
  BY DEF DriverIrq, WakeCpu, IInv, TypeOK, Places, CurrentInPool,
         TicksBounded, RegisteredSlotsScanned, PassedSlotsServed,
         PassServesDueTasks, IrqWakeKept, Due

LEMMA StutterPreserves == IInv /\ UNCHANGED vars => IInv'
  BY DEF vars, IInv, TypeOK, Places, CurrentInPool,
         TicksBounded, RegisteredSlotsScanned, PassedSlotsServed,
         PassServesDueTasks, IrqWakeKept, Due

LEMMA NextPreserves == IInv /\ [Next]_vars => IInv'
  BY LoopPreserves, ApiPreserves, TickPreserves, DriverIrqPreserves,
     StutterPreserves DEF Next

-----------------------------------------------------------------------------
\* The scheduler's variables keep their types; in particular every index
\* into the pool stays inside it.
THEOREM TypeCorrect == Spec => []TypeOK
  <1>1. IInv => TypeOK
    BY DEF IInv
  <1> QED BY <1>1, InitEstablishes, NextPreserves, PTL DEF Spec

\* No registered task lies beyond max_task_id, so every pass can see it.
THEOREM AllRegisteredSlotsScanned == Spec => []RegisteredSlotsScanned
  <1>1. IInv => RegisteredSlotsScanned
    BY DEF IInv
  <1> QED BY <1>1, InitEstablishes, NextPreserves, PTL DEF Spec

\* When a pass ends, a task due at its tick was called or planned during it.
THEOREM EveryPassServesDueTasks == Spec => []PassServesDueTasks
  <1>1. IInv => PassServesDueTasks
    BY DEF IInv
  <1> QED BY <1>1, InitEstablishes, NextPreserves, PTL DEF Spec

\* A wake-up made by an interrupt stays armed until the task is called.
THEOREM NoIrqWakeLost == Spec => []IrqWakeKept
  <1>1. IInv => IrqWakeKept
    BY DEF IInv
  <1> QED BY <1>1, InitEstablishes, NextPreserves, PTL DEF Spec

=============================================================================
