------------------------------ MODULE UartRead ------------------------------
(***************************************************************************)
(* The asynchronous receiver of twr_uart.c on a channel without DMA: the   *)
(* interrupt handler puts bytes in read_fifo and plans the read task; the  *)
(* read task plans its own timeout, tells the application whether there is *)
(* data, and the application reads it.  Interrupts come between any two of *)
(* these steps.  Ticks are those of the scheduler, which wrap.             *)
(***************************************************************************)
EXTENDS Integers, Sequences

CONSTANTS
    Timeouts,       \* the timeouts the application asks for
    INFINITY,       \* TWR_TICK_INFINITY, the largest tick
    ReadCapacity,   \* bytes that fit in read_fifo
    FirstTick,      \* when the model begins
    MaxTick,        \* bound: the last tick
    ReadBytes,      \* bound: bytes received
    MaxStarts       \* bound: calls of twr_uart_async_read_start

ASSUME TicksAssumption ==
    /\ INFINITY \in Nat /\ FirstTick \in Nat /\ MaxTick \in FirstTick .. INFINITY - 1
    /\ Timeouts \subseteq 1 .. INFINITY
ASSUME ReadAssumption == {ReadCapacity, ReadBytes, MaxStarts} \subseteq Nat

VARIABLES
    tick,
    rdr,            \* the receive data register, with RXNE
    rxneie,         \* RXNEIE: the receive interrupt is enabled
    async_read_in_progress, timeout,
    plan,           \* the tick the read task is planned for
    read_fifo,
    read_at,             \* where the read task is: "idle", "armed",
                    \* "handler", or "leaving" the handler
    event,          \* the event that the handler is called with
    arrived, starts,
    got,            \* history: the bytes the application has read
    before          \* history: bytes that had arrived at the last start

readVars == <<tick, rdr, rxneie, async_read_in_progress, timeout, plan, read_fifo, read_at, event,
          arrived, starts, got, before>>

EMPTY == 0

ReadInit ==
    /\ tick = FirstTick
    /\ rdr = EMPTY /\ rxneie = FALSE
    /\ async_read_in_progress = FALSE /\ timeout = INFINITY /\ plan = INFINITY
    /\ read_fifo = <<>> /\ read_at = "idle" /\ event = "none"
    /\ arrived = 0 /\ starts = 0
    /\ got = <<>> /\ before = 0

\* Sums of ticks wrap.
AddTicks(a, b) == (a + b) % (INFINITY + 1)

-----------------------------------------------------------------------------
\* twr_uart_async_read_start: the read task is registered for the tick
\* "timeout".
ReadStart(t) ==
    /\ read_at \in {"idle", "handler"} /\ ~ async_read_in_progress
    /\ starts < MaxStarts
    /\ starts' = starts + 1
    /\ timeout' = t
    /\ plan' = t
    /\ rxneie' = TRUE
    /\ async_read_in_progress' = TRUE
    /\ before' = arrived
    /\ UNCHANGED <<tick, rdr, read_fifo, read_at, event, arrived, got>>

\* twr_uart_async_read_cancel
ReadCancel ==
    /\ read_at \in {"idle", "handler"} /\ async_read_in_progress
    /\ async_read_in_progress' = FALSE /\ rxneie' = FALSE
    /\ plan' = INFINITY
    /\ UNCHANGED <<tick, rdr, timeout, read_fifo, read_at, event, arrived, starts, got,
                   before>>

\* _twr_uart_async_read_task, up to the first point where an interrupt can
\* make a difference.
ReadTask ==
    /\ read_at = "idle" /\ async_read_in_progress /\ plan <= tick
    /\ plan' = AddTicks(tick, timeout)
    /\ read_at' = "armed"
    /\ UNCHANGED <<tick, rdr, rxneie, async_read_in_progress, timeout, read_fifo, event,
                   arrived, starts, got, before>>

TellApplication ==
    /\ read_at = "armed"
    /\ event' = IF read_fifo = <<>> THEN "timeout" ELSE "data"
    /\ read_at' = "handler"
    /\ UNCHANGED <<tick, rdr, rxneie, async_read_in_progress, timeout, plan, read_fifo, arrived,
                   starts, got, before>>

\* twr_uart_async_read of a byte, by the event handler, which reads until
\* there is none.
AsyncRead ==
    /\ read_at = "handler" /\ async_read_in_progress
    /\ IF read_fifo # <<>>
       THEN /\ got' = Append(got, Head(read_fifo))
            /\ read_fifo' = Tail(read_fifo)
            /\ UNCHANGED read_at
       ELSE read_at' = "leaving" /\ UNCHANGED <<got, read_fifo>>
    /\ UNCHANGED <<tick, rdr, rxneie, async_read_in_progress, timeout, plan, event,
                   arrived, starts, before>>

MayReturn ==
    \/ read_at = "leaving"
    \/ read_at = "handler" /\ (event = "timeout" \/ ~ async_read_in_progress)

\* Mutant: the timeout is planned when the application has been told.
MutHandlerReturns ==
    /\ MayReturn
    /\ read_at' = "idle" /\ event' = "none"
    /\ plan' = IF async_read_in_progress THEN AddTicks(tick, timeout) ELSE plan
    /\ UNCHANGED <<tick, rdr, rxneie, async_read_in_progress, timeout, read_fifo,
                   arrived, starts, got, before>>

\* The task ends.  A handler told of a timeout need not read.
HandlerReturns ==
    /\ MayReturn
    /\ read_at' = "idle" /\ event' = "none"
    /\ UNCHANGED <<tick, rdr, rxneie, async_read_in_progress, timeout, plan, read_fifo,
                   arrived, starts, got, before>>

-----------------------------------------------------------------------------
\* A byte arrives.  Overrun detection is off: it replaces one that has not
\* been read.
ByteArrives ==
    /\ arrived < ReadBytes
    /\ arrived' = arrived + 1
    /\ rdr' = arrived + 1
    /\ UNCHANGED <<tick, rxneie, async_read_in_progress, timeout, plan, read_fifo, read_at, event,
                   starts, got, before>>

\* _twr_uart_irq_handler, the receiving half: a full FIFO drops the byte.
ReadIrqHandler ==
    /\ rxneie /\ rdr # EMPTY
    /\ read_fifo' = IF Len(read_fifo) < ReadCapacity THEN Append(read_fifo, rdr) ELSE read_fifo
    /\ rdr' = EMPTY
    /\ plan' = 0
    /\ UNCHANGED <<tick, rxneie, async_read_in_progress, timeout, read_at, event, arrived, starts,
                   got, before>>

Tick ==
    /\ tick < MaxTick
    /\ tick' = tick + 1
    /\ UNCHANGED <<rdr, rxneie, async_read_in_progress, timeout, plan, read_fifo, read_at, event,
                   arrived, starts, got, before>>

ReadNext ==
    \/ \E t \in Timeouts : ReadStart(t)
    \/ ReadCancel \/ ReadTask \/ TellApplication \/ AsyncRead \/ HandlerReturns
    \/ ByteArrives \/ ReadIrqHandler \/ Tick

ReadSpec == ReadInit /\ [][ReadNext]_readVars

-----------------------------------------------------------------------------
Arrivals == 1 .. ReadBytes

ReadTypeOK ==
    /\ tick \in FirstTick .. MaxTick /\ plan \in 0 .. INFINITY
    /\ timeout \in Timeouts \union {INFINITY}
    /\ rdr \in Arrivals \union {EMPTY}
    /\ async_read_in_progress \in BOOLEAN /\ rxneie = async_read_in_progress
    /\ read_fifo \in Seq(Arrivals) /\ Len(read_fifo) <= ReadCapacity /\ got \in Seq(Arrivals)
    /\ read_at \in {"idle", "armed", "handler", "leaving"} /\ event \in {"none", "data", "timeout"}
    /\ arrived \in 0 .. ReadBytes /\ starts \in 0 .. MaxStarts

\* A byte that has reached the FIFO since the read was started is not left
\* there unannounced: unless the application is about to be told, the read
\* task is due at once, although the task's plan for the timeout and the
\* interrupt handler's plan for now write the same slot.
ArrivalAnnounced ==
    (async_read_in_progress /\ \E k \in DOMAIN read_fifo : read_fifo[k] > before)
        => read_at # "idle" \/ plan <= tick

=============================================================================
