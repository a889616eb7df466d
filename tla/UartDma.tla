------------------------------ MODULE UartDma ------------------------------
(***************************************************************************)
(* The asynchronous receiver of twr_uart.c on UART2: channel 3 of the DMA  *)
(* writes the cells of read_fifo round and round, past the FIFO's own      *)
(* operations; a task that never sleeps compares the channel's CNDTR with  *)
(* the last value it saw, moves head after it and plans the read task.     *)
(* Bytes are numbered in the order in which they arrive.                   *)
(***************************************************************************)
EXTENDS Integers, Sequences

CONSTANTS
    DmaSize,        \* the cells of read_fifo
    DmaArrivals,    \* bound: bytes received
    DmaRuns         \* bound: calls of twr_uart_async_read_start

ASSUME DmaAssumption == DmaSize \in Nat \ {0} /\ DmaArrivals \in Nat /\ DmaRuns \in Nat

VARIABLES
    circular,           \* read_fifo: buffer, head and tail
    channel,        \* the DMA channel: enabled, and its CNDTR
    length,         \* _twr_uart_2_dma.length
    reader,         \* in_progress, what the read task is planned for, where it is
    line,           \* the receive data register and the bytes that have arrived
    runs,           \* calls of async_read_start so far
    history         \* since the last start: bytes the DMA received, how many of
                    \* them the task has seen, bytes read; aligned, lapped

dmaVars == <<circular, channel, length, reader, line, runs, history>>

NOTHING == 0
Cells == 0 .. DmaSize - 1

DmaInit ==
    /\ circular = [buffer |-> [c \in Cells |-> NOTHING], head |-> 0, tail |-> 0]
    /\ channel = [en |-> FALSE, cndtr |-> DmaSize]
    /\ length = 0
    /\ reader = [in_progress |-> FALSE, planned |-> "timeout", at |-> "idle"]
    /\ line = [rdr |-> NOTHING, arrived |-> 0]
    /\ runs = 0
    /\ history = [received |-> <<>>, seen |-> 0, read |-> <<>>, aligned |-> TRUE, lapped |-> FALSE]

Configured == [en |-> TRUE, cndtr |-> DmaSize]

\* twr_uart_async_read_start.  Neither head, tail nor length is reset.
DmaReadStart ==
    /\ reader.at \in {"idle", "handler"} /\ ~ reader.in_progress /\ runs < DmaRuns
    /\ runs' = runs + 1
    /\ reader' = [reader EXCEPT !.in_progress = TRUE, !.planned = "timeout"]
    /\ channel' = Configured
    /\ history' = [received |-> <<>>, seen |-> 0, read |-> <<>>,
                   aligned |-> circular.head = 0 /\ circular.tail = 0, lapped |-> FALSE]
    /\ UNCHANGED <<circular, length, line>>

\* twr_uart_async_read_cancel
DmaReadCancel ==
    /\ reader.at \in {"idle", "handler"} /\ reader.in_progress
    /\ reader' = [reader EXCEPT !.in_progress = FALSE]
    /\ channel' = [channel EXCEPT !.en = FALSE]
    /\ UNCHANGED <<circular, length, line, runs, history>>

\* The application initializes the FIFO again between two receptions.
FifoInit ==
    /\ ~ reader.in_progress /\ reader.at = "idle" /\ runs > 0
    /\ circular' = [circular EXCEPT !.head = 0, !.tail = 0]
    /\ UNCHANGED <<channel, length, reader, line, runs, history>>

HeadOf(cndtr) == DmaSize - cndtr

\* Mutant: head is moved, but the read task is left to its timeout.
MutPoll ==
    /\ reader.in_progress /\ reader.at = "idle"
    /\ channel.cndtr # length
    /\ circular' = [circular EXCEPT !.head = HeadOf(channel.cndtr)]
    /\ length' = channel.cndtr
    /\ history' = [history EXCEPT !.seen = Len(history.received)]
    /\ UNCHANGED <<channel, reader, line, runs>>

\* _twr_uart_2_dma_read_task
Poll ==
    /\ reader.in_progress /\ reader.at = "idle"
    /\ channel.cndtr # length
    /\ circular' = [circular EXCEPT !.head = HeadOf(channel.cndtr)]
    /\ length' = channel.cndtr
    /\ reader' = [reader EXCEPT !.planned = "now"]
    /\ history' = [history EXCEPT !.seen = Len(history.received)]
    /\ UNCHANGED <<channel, line, runs>>

\* _twr_uart_async_read_task, when it is planned or its timeout has come.
DmaReadTask ==
    /\ reader.in_progress /\ reader.at = "idle"
    /\ reader' = [reader EXCEPT !.planned = "timeout",
                    !.at = IF circular.head = circular.tail THEN "timeout" ELSE "handler"]
    /\ UNCHANGED <<circular, channel, length, line, runs, history>>

Following(c) == IF c + 1 = DmaSize THEN 0 ELSE c + 1

\* twr_uart_async_read of a byte by the event handler, which reads them all.
DmaRead ==
    /\ reader.at = "handler" /\ reader.in_progress /\ circular.head # circular.tail
    /\ circular' = [circular EXCEPT !.tail = Following(@)]
    /\ history' = [history EXCEPT !.read = Append(@, circular.buffer[circular.tail])]
    /\ UNCHANGED <<channel, length, reader, line, runs>>

DmaHandlerReturns ==
    /\ \/ reader.at = "timeout"
       \/ reader.at = "handler" /\ (circular.head = circular.tail \/ ~ reader.in_progress)
    /\ reader' = [reader EXCEPT !.at = "idle"]
    /\ UNCHANGED <<circular, channel, length, line, runs, history>>

\* A byte arrives.  Overrun detection is off: it replaces one that nobody took.
Arrive ==
    /\ line.arrived < DmaArrivals
    /\ line' = [rdr |-> line.arrived + 1, arrived |-> line.arrived + 1]
    /\ UNCHANGED <<circular, channel, length, reader, runs, history>>

\* The DMA takes it to its cell, whether that one has been read or not.
DmaMove ==
    /\ channel.en /\ line.rdr # NOTHING
    /\ circular' = [circular EXCEPT !.buffer[DmaSize - channel.cndtr] = line.rdr]
    /\ channel' = [channel EXCEPT !.cndtr = IF @ = 1 THEN DmaSize ELSE @ - 1]
    /\ line' = [line EXCEPT !.rdr = NOTHING]
    /\ history' = [history EXCEPT !.received = Append(@, line.rdr),
                     !.lapped = @ \/ Len(history.received) + 1 - Len(history.read) >= DmaSize]
    /\ UNCHANGED <<length, reader, runs>>

DmaNext ==
    \/ DmaReadStart \/ DmaReadCancel \/ FifoInit \/ Poll \/ DmaReadTask \/ DmaRead
    \/ DmaHandlerReturns \/ Arrive \/ DmaMove

\* The scheduler serves both tasks, however often the other one is due
\* (Scheduler!DueTaskServed), and the event handler returns.
DmaFairness ==
    /\ SF_dmaVars(Poll) /\ SF_dmaVars(DmaReadTask /\ reader.planned = "now")
    /\ WF_dmaVars(DmaRead) /\ WF_dmaVars(DmaHandlerReturns)

DmaSpec == DmaInit /\ [][DmaNext]_dmaVars /\ DmaFairness

-----------------------------------------------------------------------------
Received == 0 .. DmaArrivals

DmaTypeOK ==
    /\ circular \in [buffer : [Cells -> Received], head : Cells, tail : Cells]
    /\ channel \in [en : BOOLEAN, cndtr : 1 .. DmaSize]
    /\ length \in 0 .. DmaSize
    /\ reader \in [in_progress : BOOLEAN, planned : {"timeout", "now"},
                   at : {"idle", "timeout", "handler"}]
    /\ line \in [rdr : Received, arrived : Received]
    /\ runs \in 0 .. DmaRuns
    /\ history.received \in Seq(Received) /\ history.read \in Seq(Received)
    /\ history.seen \in 0 .. Len(history.received)

Unread ==
    IF circular.head >= circular.tail THEN circular.head - circular.tail
    ELSE circular.head - circular.tail + DmaSize
Contents == [i \in 1 .. Unread |-> circular.buffer[(circular.tail + i - 1) % DmaSize]]

\* What the application has read and will find in the FIFO is what was
\* received up to the task's last look, in order, although the DMA writes
\* behind the FIFO's back.  This needs that the FIFO never holds a whole lap
\* of unread bytes, and was empty at its first cell when the reception
\* started: otherwise cells that were read before, or never written, are
\* taken for new bytes.
InStep ==
    reader.in_progress /\ history.aligned /\ ~ history.lapped =>
        history.read \o Contents = SubSeq(history.received, 1, history.seen)

\* Every received byte reaches the application.  In a later reception it may
\* not: "length" is still that of the one before, and if as many bytes arrive
\* before the task's first look, it sees no difference.
EverythingRead ==
    (runs = 1 /\ history.read # history.received)
        ~> (history.read = history.received \/ ~ reader.in_progress \/ history.lapped)

\* What is received by DMA is read: in step, and in the end all of it.
ReceptionFollows == []InStep /\ EverythingRead

=============================================================================
