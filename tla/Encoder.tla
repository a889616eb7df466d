------------------------------ MODULE Encoder -------------------------------
(***************************************************************************)
(* The rotary encoder (twr_module_encoder.c).  Two contacts open and close *)
(* in turn; each of their edges interrupts; the handler compares the       *)
(* contacts with what they were at the interrupt before and counts; a task *)
(* takes the count and tells the application.                              *)
(*                                                                         *)
(* An edge that comes while another waits for its interrupt, or before the *)
(* lines are registered, may be missed: what is stated is stated of the    *)
(* others.  MaxEdges bounds the edges.                                     *)
(***************************************************************************)
EXTENDS Integers, FiniteSets

CONSTANT MaxEdges

VARIABLES
    phase,          \* no encoder found yet, its contacts sampled, or initialized
    lines,          \* the lines registered with twr_exti
    contacts,       \* P4 and P5
    waiting,        \* the lines whose interrupts are pending
    samples,        \* the contacts at the interrupt before, and at the last
    increment, increment_shadow,
    taking,         \* the task is between copying the count and clearing it
    task_planned,
    edges,          \* how many there have been
    position,       \* history: the full steps turned
    told,           \* history: the sum of what the application was told
    missed          \* history: an edge may have been missed

encoderVars == <<phase, lines, contacts, waiting, samples, increment, increment_shadow, taking,
                 task_planned, edges, position, told, missed>>

Line == {"P4", "P5"}
Contacts == [Line -> 0 .. 1]

\* twr_module_encoder_init
Init ==
    /\ phase = "absent" /\ lines = {}
    /\ contacts \in Contacts /\ waiting = {}
    /\ samples = <<[l \in Line |-> 0], [l \in Line |-> 0]>>
    /\ increment = 0 /\ increment_shadow = 0 /\ taking = FALSE
    /\ task_planned = TRUE
    /\ edges = 0 /\ position = 0 /\ told = 0 /\ missed = FALSE

\* A contact opens or closes: a step is P5's, while P4 is closed.
Edge(l) ==
    /\ edges < MaxEdges
    /\ edges' = edges + 1
    /\ contacts' = [contacts EXCEPT ![l] = 1 - @]
    /\ position' = IF l = "P4" \/ contacts["P4"] = 0 \/ phase = "absent" THEN position
                   ELSE IF contacts["P5"] = 1 THEN position + 1 ELSE position - 1
    /\ waiting' = IF l \in lines THEN waiting \cup {l} ELSE waiting
    /\ missed' = (missed \/ waiting # {} \/ (phase = "sampled" /\ l \notin lines))
    /\ UNCHANGED <<phase, lines, samples, increment, increment_shadow, taking, task_planned, told>>

-----------------------------------------------------------------------------
\* The task has disabled the interrupts.
Masked == taking

\* What the last two samples count for: both closed after P4 alone, and back.
Counts(old, new) ==
    IF old = new \/ old["P4"] = 0 \/ new["P4"] = 0 THEN 0
    ELSE IF new["P5"] = 1 THEN -1 ELSE 1

\* Mutant: only steps in one direction wake the task.
MutWakes(n) == n > 0

\* The handler plans the task if it has counted.
Wakes(n) == n # 0

\* _twr_module_encoder_exti_handler
Irq(l) ==
    /\ l \in waiting /\ ~ Masked
    /\ waiting' = waiting \ {l}
    /\ samples' = <<samples[2], contacts>>
    /\ LET n == Counts(samples[2], contacts)
       IN /\ increment' = increment + n
          /\ task_planned' = (task_planned \/ Wakes(n))
    /\ UNCHANGED <<phase, lines, contacts, increment_shadow, taking, edges, position, told, missed>>

\* The first run of the task looks for the encoder: if there is none it
\* reports an error and does not look again.
Absent ==
    /\ phase = "absent" /\ task_planned
    /\ task_planned' = FALSE
    /\ UNCHANGED <<phase, lines, contacts, waiting, samples, increment, increment_shadow, taking,
                   edges, position, told, missed>>

Sample ==
    /\ phase = "absent" /\ task_planned
    /\ phase' = "sampled"
    /\ samples' = <<samples[1], contacts>>
    /\ task_planned' = FALSE
    /\ UNCHANGED <<lines, contacts, waiting, increment, increment_shadow, taking, edges, position,
                   told, missed>>

\* The lines are registered one after the other.
Register ==
    /\ phase = "sampled"
    /\ lines' = IF lines = {} THEN {"P4"} ELSE Line
    /\ phase' = IF lines = {} THEN "sampled" ELSE "initialized"
    /\ UNCHANGED <<contacts, waiting, samples, increment, increment_shadow, taking, task_planned,
                   edges, position, told, missed>>

\* The later runs, up to the copy, and the rest.
Take ==
    /\ phase = "initialized" /\ task_planned /\ ~ taking
    /\ task_planned' = FALSE
    /\ increment_shadow' = increment
    /\ taking' = TRUE
    /\ UNCHANGED <<phase, lines, contacts, waiting, samples, increment, edges, position, told,
                   missed>>

Tell ==
    /\ taking
    /\ increment' = 0 /\ taking' = FALSE
    /\ told' = told + increment_shadow
    /\ UNCHANGED <<phase, lines, contacts, waiting, samples, increment_shadow, task_planned, edges,
                   position, missed>>

Works == Sample \/ Register \/ Take \/ Tell \/ \E l \in Line : Irq(l)

EncoderNext == Absent \/ Works \/ \E l \in Line : Edge(l)

\* Tasks run to their end, planned ones are run, and interrupts are served.
EncoderSpec == Init /\ [][EncoderNext]_encoderVars /\ WF_encoderVars(Works)

-----------------------------------------------------------------------------
TypeOK ==
    /\ phase \in {"absent", "sampled", "initialized"}
    /\ lines \subseteq Line /\ waiting \subseteq lines
    /\ contacts \in Contacts /\ samples \in Contacts \X Contacts
    /\ {increment, increment_shadow, position, told} \subseteq Int
    /\ {taking, task_planned, missed} \subseteq BOOLEAN
    /\ edges \in 0 .. MaxEdges

\* Every step is told to the application or will be, in its direction and
\* once, wherever the interrupts fall in the task that takes the count.
StepsCounted == ~ missed /\ waiting = {} => told + increment = position

\* What was counted is told without waiting for the next step.
StepsTold == increment # 0 ~> increment = 0

\* Each step is counted, once, and told of in the end.
StepsReachApplication == []StepsCounted /\ StepsTold

=============================================================================
