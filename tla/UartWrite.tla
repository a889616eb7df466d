----------------------------- MODULE UartWrite -----------------------------
(***************************************************************************)
(* The asynchronous transmitter of twr_uart.c, one channel: the write FIFO *)
(* (module Fifo, here its abstraction, a bounded sequence), the USART, its *)
(* interrupt handler, and the scheduler task that reports WRITE_DONE.      *)
(*                                                                         *)
(* The main program (tasks, which the scheduler runs one after another)    *)
(* and the interrupt handler interleave: twr_uart_async_write is one step  *)
(* per stretch of code that an interrupt can separate from the next one.   *)
(* Bytes are numbered in the order in which the application makes them.    *)
(***************************************************************************)
EXTENDS Integers, Sequences, FiniteSets

CONSTANTS
    Lengths,        \* the lengths of the messages the application writes
    MaxBytes,       \* bound: bytes written in all
    Capacity,       \* bytes that fit in write_fifo
    CHUNK,          \* bytes put in the FIFO at once, 16 in the code
    Slots,          \* the scheduler's slots, of which this channel may get one
    MaxDeinits      \* bound: calls of twr_uart_deinit

ASSUME LengthsAssumption == Lengths \subseteq Nat \ {0}
ASSUME BoundsAssumption ==
    /\ MaxBytes \in Nat /\ MaxDeinits \in Nat
    /\ Capacity \in Nat /\ CHUNK \in Nat \ {0}
ASSUME SlotsAssumption == Slots = 1 .. Cardinality(Slots) /\ Cardinality(Slots) >= 2

VARIABLES
    fifo,           \* write_fifo
    usart,          \* the registers: TXEIE, TCIE, TC, TDR and the shift register
    initialized, in_progress, task_id,
    slots,          \* the scheduler's slots: whose task, and when it is due
    clock,          \* this channel's share of the clock's semaphore
    call,           \* where the main program is in twr_uart_async_write
    made, deinits,  \* bytes written and deinits so far
    wire, told,     \* history: bytes sent, bytes reported as added
    overlapped      \* history: a message was written before WRITE_DONE

vars == <<fifo, usart, initialized, in_progress, task_id, slots, clock, call,
          made, deinits, wire, told, overlapped>>

NONE == 0
NoCall == [at |-> "idle", msg |-> <<>>, i |-> 0, written |-> 0]
FreeSlot == [owner |-> "free", due |-> FALSE]

Init ==
    /\ fifo = <<>>
    /\ usart = [txeie |-> FALSE, tcie |-> FALSE, tc |-> TRUE, tdr |-> NONE, shift |-> NONE]
    /\ initialized = TRUE /\ in_progress = FALSE /\ task_id = 0
    /\ slots = [s \in Slots |-> FreeSlot]
    /\ clock = 0
    /\ call = NoCall
    /\ made = 0 /\ deinits = 0
    /\ wire = <<>> /\ told = <<>> /\ overlapped = FALSE

-----------------------------------------------------------------------------
(***************************************************************************)
(* twr_uart_async_write                                                    *)
(***************************************************************************)
CallWrite(n) ==
    /\ call.at = "idle" /\ initialized
    /\ made + n <= MaxBytes
    /\ made' = made + n
    /\ overlapped' = (overlapped \/ in_progress)
    /\ call' = [at |-> "chunk", msg |-> [k \in 1 .. n |-> made + k], i |-> 0, written |-> 0]
    /\ UNCHANGED <<fifo, usart, initialized, in_progress, task_id, slots, clock,
                   deinits, wire, told>>

Least(a, b) == IF a < b THEN a ELSE b

MutRoom == Capacity     \* Mutant: the FIFO's fill level is not looked at.
Room == Capacity - Len(fifo)

\* twr_fifo_write of the next 16 bytes, or of what is left: what fits goes in.
WriteChunk ==
    /\ call.at = "chunk"
    /\ LET chunk == SubSeq(call.msg, call.i + 1, Least(call.i + CHUNK, Len(call.msg)))
           n == Least(Len(chunk), Room)
       IN /\ fifo' = fifo \o SubSeq(chunk, 1, n)
          /\ call' = [call EXCEPT !.i = @ + CHUNK, !.written = @ + n,
                        !.at = IF call.i + CHUNK < Len(call.msg) THEN "chunk" ELSE "plan"]
    /\ UNCHANGED <<usart, initialized, in_progress, task_id, slots, clock, made,
                   deinits, wire, told, overlapped>>

Free == {s \in Slots : slots[s].owner = "free"}

ReturnZero ==
    /\ call.at = "plan" /\ call.written = 0
    /\ call' = NoCall
    /\ UNCHANGED <<fifo, usart, initialized, in_progress, task_id, slots, clock,
                   made, deinits, wire, told, overlapped>>

\* The first write registers the write task and enables the clock ...
RegisterTask ==
    /\ call.at = "plan" /\ call.written > 0 /\ ~ in_progress
    /\ \E s \in Free :
         /\ \A other \in Free : s <= other
         /\ slots' = [slots EXCEPT ![s] = [owner |-> "write", due |-> FALSE]]
         /\ task_id' = s
    /\ clock' = clock + 1
    /\ call' = [call EXCEPT !.at = "enable"]
    /\ UNCHANGED <<fifo, usart, initialized, in_progress, made, deinits, wire, told, overlapped>>

\* ... and a later one puts the task off again.
PutOffTask ==
    /\ call.at = "plan" /\ call.written > 0 /\ in_progress
    /\ slots' = [slots EXCEPT ![task_id].due = FALSE]
    /\ call' = [call EXCEPT !.at = "enable"]
    /\ UNCHANGED <<fifo, usart, initialized, in_progress, task_id, clock, made,
                   deinits, wire, told, overlapped>>

\* Mutant: the transmit interrupt is enabled by the first write only.
MutEnableTx ==
    /\ call.at = "enable"
    /\ usart' = [usart EXCEPT !.txeie = ~ in_progress]
    /\ call' = [call EXCEPT !.at = "mark"]
    /\ UNCHANGED <<fifo, initialized, in_progress, task_id, slots, clock, made,
                   deinits, wire, told, overlapped>>
EnableTx ==
    /\ call.at = "enable"
    /\ usart' = [usart EXCEPT !.txeie = TRUE]
    /\ call' = [call EXCEPT !.at = "mark"]
    /\ UNCHANGED <<fifo, initialized, in_progress, task_id, slots, clock, made,
                   deinits, wire, told, overlapped>>

ReturnWritten ==
    /\ call.at = "mark"
    /\ in_progress' = TRUE
    /\ told' = told \o SubSeq(call.msg, 1, call.written)
    /\ call' = NoCall
    /\ UNCHANGED <<fifo, usart, initialized, task_id, slots, clock, made, deinits, wire, overlapped>>

AsyncWrite ==
    \/ \E n \in Lengths : CallWrite(n)
    \/ WriteChunk \/ ReturnZero \/ RegisterTask \/ PutOffTask \/ EnableTx \/ ReturnWritten

-----------------------------------------------------------------------------
(***************************************************************************)
(* The USART: a byte in TDR moves to the shift register as soon as that is *)
(* empty; TC is set when both are.                                         *)
(***************************************************************************)
Shift ==
    /\ usart.tdr # NONE /\ usart.shift = NONE
    /\ usart' = [usart EXCEPT !.shift = usart.tdr, !.tdr = NONE]
    /\ UNCHANGED <<fifo, initialized, in_progress, task_id, slots, clock, call,
                   made, deinits, wire, told, overlapped>>

Sent ==
    /\ usart.shift # NONE
    /\ wire' = Append(wire, usart.shift)
    /\ usart' = [usart EXCEPT !.shift = NONE, !.tc = (usart.tdr = NONE)]
    /\ UNCHANGED <<fifo, initialized, in_progress, task_id, slots, clock, call,
                   made, deinits, told, overlapped>>

-----------------------------------------------------------------------------
(***************************************************************************)
(* _twr_uart_irq_handler, the transmitting half.  Its two parts run one    *)
(* after the other; TDR and TC are read again for the second.              *)
(***************************************************************************)
TxEmpty(u) == u.txeie /\ u.tdr = NONE
TxComplete(u) == u.tcie /\ u.tc

LoadOrStop(u) ==
    IF ~ TxEmpty(u) THEN u
    ELSE IF fifo # <<>> THEN [u EXCEPT !.tdr = Head(fifo), !.tc = FALSE]
    ELSE [u EXCEPT !.txeie = FALSE, !.tcie = TRUE]

\* twr_scheduler_plan_now(async_write_task_id), whoever's task that is by now.
PlanWriteTask == slots' = [slots EXCEPT ![task_id].due = TRUE]

IrqHandler ==
    /\ TxEmpty(usart) \/ TxComplete(usart)
    /\ fifo' = IF TxEmpty(usart) /\ fifo # <<>> THEN Tail(fifo) ELSE fifo
    /\ LET u == LoadOrStop(usart) IN
       IF TxComplete(u)
       THEN usart' = [u EXCEPT !.tcie = FALSE] /\ PlanWriteTask
       ELSE usart' = u /\ UNCHANGED slots
    /\ UNCHANGED <<initialized, in_progress, task_id, clock, call, made, deinits, wire, told, overlapped>>

-----------------------------------------------------------------------------

(***************************************************************************)
(* The main program's other steps.                                         *)
(***************************************************************************)
\* _twr_uart_async_write_task: reports TWR_UART_EVENT_ASYNC_WRITE_DONE.  The
\* task id is kept.
WriteTask ==
    /\ call.at = "idle"
    /\ \E s \in Slots :
         /\ slots[s] = [owner |-> "write", due |-> TRUE]
         /\ slots' = [slots EXCEPT ![task_id] = FreeSlot]
    /\ in_progress' = FALSE
    /\ clock' = clock - 1
    /\ UNCHANGED <<fifo, usart, initialized, task_id, call, made, deinits, wire, told, overlapped>>

\* Another module registers a task of its own.
OtherRegisters ==
    /\ call.at = "idle"
    /\ \A s \in Slots : slots[s].owner # "other"
    /\ \E s \in Free :
         /\ \A other \in Free : s <= other
         /\ slots' = [slots EXCEPT ![s] = [owner |-> "other", due |-> FALSE]]
    /\ UNCHANGED <<fifo, usart, initialized, in_progress, task_id, clock, call,
                   made, deinits, wire, told, overlapped>>

\* twr_uart_deinit disables the USART and releases the slot of the last task
\* that the channel registered.
Deinit ==
    /\ call.at = "idle" /\ initialized
    /\ deinits < MaxDeinits
    /\ deinits' = deinits + 1
    /\ usart' = [usart EXCEPT !.txeie = FALSE, !.tcie = FALSE, !.tc = FALSE,
                              !.tdr = NONE, !.shift = NONE]
    /\ slots' = IF task_id # 0 THEN [slots EXCEPT ![task_id] = FreeSlot] ELSE slots
    /\ initialized' = FALSE
    /\ UNCHANGED <<fifo, in_progress, task_id, clock, call, made, wire, told, overlapped>>

\* twr_uart_init clears the channel's state.  The application gives it a FIFO
\* that it has initialized again, or, as twr_esp8266.c does, the old one.
Reinit ==
    /\ call.at = "idle" /\ ~ initialized
    /\ initialized' = TRUE /\ in_progress' = FALSE /\ task_id' = 0
    /\ usart' = [usart EXCEPT !.tc = TRUE]
    /\ fifo' \in {fifo, <<>>}
    /\ UNCHANGED <<slots, clock, call, made, deinits, wire, told, overlapped>>

-----------------------------------------------------------------------------
Hardware == Shift \/ Sent

Next ==
    AsyncWrite \/ Hardware \/ IrqHandler \/ WriteTask \/ OtherRegisters \/ Deinit \/ Reinit

Spec == Init /\ [][Next]_vars

(***************************************************************************)
(* A call returns, the transmitter is clocked, enabled interrupts are      *)
(* served, and the scheduler runs the task (Scheduler!DueTaskServed).      *)
(***************************************************************************)
Fairness ==
    /\ WF_vars(WriteChunk \/ ReturnZero \/ RegisterTask \/ PutOffTask \/ EnableTx \/ ReturnWritten)
    /\ WF_vars(Shift) /\ WF_vars(Sent) /\ WF_vars(IrqHandler) /\ WF_vars(WriteTask)

FairSpec == Spec /\ Fairness

-----------------------------------------------------------------------------
Bytes == 1 .. MaxBytes

TypeOK ==
    /\ fifo \in Seq(Bytes) /\ Len(fifo) <= Capacity
    /\ usart \in [txeie : BOOLEAN, tcie : BOOLEAN, tc : BOOLEAN,
                  tdr : Bytes \union {NONE}, shift : Bytes \union {NONE}]
    /\ initialized \in BOOLEAN /\ in_progress \in BOOLEAN
    /\ task_id \in Slots \union {0}
    /\ slots \in [Slots -> [owner : {"free", "write", "other"}, due : BOOLEAN]]
    /\ clock \in 0 .. 1 + MaxDeinits
    /\ call.at \in {"idle", "chunk", "plan", "enable", "mark"}
    /\ call.msg \in Seq(Bytes) /\ call.i \in Nat /\ call.written \in 0 .. MaxBytes
    /\ made \in 0 .. MaxBytes /\ deinits \in 0 .. MaxDeinits
    /\ wire \in Seq(Bytes) /\ told \in Seq(Bytes) /\ overlapped \in BOOLEAN

Byte(b) == IF b = NONE THEN <<>> ELSE <<b>>
Underway == wire \o Byte(usart.shift) \o Byte(usart.tdr) \o fifo
Transmitting == usart.tdr # NONE \/ usart.shift # NONE

\* What async_write returns is the number of bytes of the buffer, from its
\* beginning, that are sent: between calls, the bytes sent and on their way
\* are those the callers were told of, in order.  This holds for messages of
\* one chunk: a longer one can lose bytes in its middle when the interrupt
\* handler makes room between two chunks.  twr_uart_deinit ends a write where
\* it is.
ToldIsSent == call.at = "idle" /\ deinits = 0 => Underway = told

\* The channel holds the clock (twr_system_pll_enable or hsi16_enable)
\* exactly while a write is in progress, and never sends without it, but
\* for a message written in the middle of a write, whose WRITE_DONE may come
\* too early (DoneMeansSent).
\* twr_uart_deinit does not give back the clock of a write that it ends.
ClockHeldWhileSending ==
    call.at = "idle" /\ deinits = 0 =>
        /\ clock = IF in_progress THEN 1 ELSE 0
        /\ Transmitting /\ ~ overlapped => clock = 1

\* TWR_UART_EVENT_ASYNC_WRITE_DONE is reported when everything written has
\* left the USART, and the clock may go ...
DoneMeansSent ==
    [][(initialized /\ in_progress /\ ~ in_progress') => fifo = <<>> /\ ~ Transmitting]_vars

\* ... which is so of an application that writes its next message after the
\* WRITE_DONE of the last one, deinitializes the channel in the middle of a
\* write, and lets another module have the slot of the write task.
DoneAloneMeansSent ==
    [][(initialized /\ in_progress /\ ~ in_progress' /\ ~ overlapped)
         => fifo = <<>> /\ ~ Transmitting]_vars

\* What async_write added gets sent, however the calls fall between the
\* interrupts, and its WRITE_DONE comes, unless the channel is deinitialized.
EverythingSent == []<>((fifo = <<>> /\ ~ Transmitting) \/ deinits > 0)
DoneComes == in_progress ~> ~ in_progress \/ deinits > 0

\* What was written is sent under the clock, and WRITE_DONE comes, after it.
WritesServed ==
    /\ [](ToldIsSent /\ ClockHeldWhileSending)
    /\ DoneAloneMeansSent /\ EverythingSent /\ DoneComes

=============================================================================
