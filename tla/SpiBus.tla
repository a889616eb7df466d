------------------------------- MODULE SpiBus -------------------------------
(***************************************************************************)
(* The SPI of twr_spi.c with what it rests on: DMA channel 5 and the       *)
(* pending events of twr_dma.c, which it shares with the other channels,   *)
(* and the clocks of twr_system.c, which it shares with everybody; and its *)
(* client twr_ls013b7dh03.c, the display.                                  *)
(*                                                                         *)
(* The main program (tasks, one after another) comes to a halt wherever an *)
(* interrupt can make a difference: between loading a clock's semaphore    *)
(* and storing it.  Interrupts preempt it, and a DMA interrupt of a higher *)
(* priority (channels 1 to 3) preempts the one of channel 5.               *)
(***************************************************************************)
EXTENDS Clocks, Sequences, FiniteSets

CONSTANTS
    PendingCapacity,    \* events that fit in fifo_pending
    Backlog,            \* bound: other channels' events waiting for the DMA task
    MaxLeaks,           \* bound: asynchronous transfers without an event handler
    Ook                 \* whether twr_rf_ook_send is used

ASSUME SpiBounds ==
    PendingCapacity \in Nat /\ Backlog \in Nat /\ MaxLeaks \in Nat /\ Ook \in BOOLEAN

VARIABLES
    clocks,
    main,           \* the main program: where it is and the semaphore it loaded
    spi,            \* in_progress, pending_event_done, the event handler, and
                    \* whether a transfer is by DMA (history)
    selected,       \* the display's chip select is active
    dma,            \* channel 5: enabled, what is left, and its three flags
    irq,            \* channel 5's interrupt handler, inside twr_fifo_irq_write
    fifo_pending, dma_planned, spi_planned,
    ook,            \* twr_rf_ook.c is sending and holds the PLL
    hsi,            \* another module holds HSI16
    leaked,         \* history: transfers that ended without an event handler
    lost            \* history: an event of channel 5 was lost

spiVars == <<clocks, main, spi, selected, dma, irq, fifo_pending, dma_planned, spi_planned,
             ook, hsi, leaked, lost>>

NULL == "null"
Idle == [at |-> "idle", loaded |-> 0, for |-> NULL]
NoIrq == [event |-> "none", room |-> FALSE, preempted |-> FALSE]
Stopped == [en |-> FALSE, left |-> "none", half |-> FALSE, complete |-> FALSE, error |-> FALSE]

SpiInit ==
    /\ clocks = AtReset
    /\ main = Idle
    /\ spi = [in_progress |-> FALSE, pending_event_done |-> FALSE, event_handler |-> NULL,
              async |-> FALSE]
    /\ selected = FALSE
    /\ dma = Stopped /\ irq = NoIrq
    /\ fifo_pending = <<>> /\ dma_planned = FALSE /\ spi_planned = FALSE
    /\ ook = FALSE /\ hsi = FALSE
    /\ leaked = 0 /\ lost = FALSE

\* The main program takes a step at this point: no DMA interrupt is asserted.
MainAt(place) ==
    /\ main.at = place
    /\ irq = NoIrq /\ ~ dma.half /\ ~ dma.complete /\ ~ dma.error

Goto(place, loaded, client) == main' = [at |-> place, loaded |-> loaded, for |-> client]

\* twr_spi_is_ready
IsReady == ~ spi.in_progress /\ ~ spi.pending_event_done

-----------------------------------------------------------------------------
(***************************************************************************)
(* twr_spi_async_transfer.  The display's twr_ls013b7dh03_update asks      *)
(* first whether the SPI is ready, and selects its chip.                   *)
(***************************************************************************)
AsyncBegin(client) ==
    /\ MainAt("idle") /\ IsReady
    /\ client = NULL => leaked < MaxLeaks /\ ~ lost   \* bound
    /\ spi' = [spi EXCEPT !.event_handler = client]
    /\ selected' = (selected \/ client = "display")
    /\ Goto("async", clocks.pll, client)
    /\ UNCHANGED <<clocks, dma, irq, fifo_pending, dma_planned, spi_planned, ook, hsi,
                   leaked, lost>>

\* The PLL is enabled; twr_dma_channel_config and twr_dma_channel_run.
AsyncRun ==
    /\ MainAt("async")
    /\ clocks' = PllEnable(clocks, main.loaded + 1)
    /\ spi' = [spi EXCEPT !.in_progress = TRUE, !.async = TRUE]
    /\ dma' = [dma EXCEPT !.en = TRUE, !.left = "all"]
    /\ main' = Idle
    /\ UNCHANGED <<selected, irq, fifo_pending, dma_planned, spi_planned, ook, hsi, leaked, lost>>

\* A transfer that is not to transmit only: the PLL goes on and off again.
AsyncRefused ==
    /\ MainAt("idle") /\ IsReady
    /\ spi' = [spi EXCEPT !.event_handler = "app"]
    /\ UNCHANGED <<clocks, main, selected, dma, irq, fifo_pending, dma_planned, spi_planned,
                   ook, hsi, leaked, lost>>

-----------------------------------------------------------------------------
(***************************************************************************)
(* twr_spi_transfer, which waits for its bytes.  The display's VCOM task   *)
(* and twr_ls013b7dh03_clear_memory_command ask first whether the SPI is   *)
(* ready; an application need not.                                         *)
(***************************************************************************)
SyncBegin(client) ==
    /\ MainAt("idle") /\ ~ spi.in_progress
    /\ client = "display" => IsReady
    /\ spi' = [spi EXCEPT !.in_progress = TRUE]
    /\ selected' = (selected \/ client = "display")
    /\ Goto("sync", clocks.pll, client)
    /\ UNCHANGED <<clocks, dma, irq, fifo_pending, dma_planned, spi_planned, ook, hsi,
                   leaked, lost>>

SyncBytes ==
    /\ MainAt("sync")
    /\ clocks' = PllEnable(clocks, main.loaded + 1)
    /\ main' = [main EXCEPT !.at = "bytes"]
    /\ UNCHANGED <<spi, selected, dma, irq, fifo_pending, dma_planned, spi_planned, ook, hsi,
                   leaked, lost>>

SyncLoad ==
    /\ MainAt("bytes")
    /\ main' = [main EXCEPT !.at = "sent", !.loaded = clocks.pll]
    /\ UNCHANGED <<clocks, spi, selected, dma, irq, fifo_pending, dma_planned, spi_planned,
                   ook, hsi, leaked, lost>>

SyncEnd ==
    /\ MainAt("sent")
    /\ clocks' = PllDisable(clocks, main.loaded - 1)
    /\ spi' = [spi EXCEPT !.in_progress = FALSE]
    /\ selected' = (selected /\ main.for # "display")
    /\ main' = Idle
    /\ UNCHANGED <<dma, irq, fifo_pending, dma_planned, spi_planned, ook, hsi, leaked, lost>>

-----------------------------------------------------------------------------
(***************************************************************************)
(* DMA channel 5 and its interrupt handler.  The macro                     *)
(* _TWR_DMA_CHECK_IRQ_OF_CHANNEL_ serves one flag at a time, and never     *)
(* clears that of an error.                                                *)
(***************************************************************************)
Progress ==
    /\ dma.en
    /\ \/ dma.left = "all" /\ dma' = [dma EXCEPT !.left = "half", !.half = TRUE]
       \/ dma.left = "half" /\ dma' = [dma EXCEPT !.left = "none", !.complete = TRUE]
    /\ UNCHANGED <<clocks, main, spi, selected, irq, fifo_pending, dma_planned, spi_planned,
                   ook, hsi, leaked, lost>>

TransferError ==
    /\ dma.en /\ dma.left # "none"
    /\ dma' = [dma EXCEPT !.en = FALSE, !.error = TRUE]
    /\ UNCHANGED <<clocks, main, spi, selected, irq, fifo_pending, dma_planned, spi_planned,
                   ook, hsi, leaked, lost>>

Flagged ==
    IF dma.error THEN "error" ELSE IF dma.half THEN "half"
    ELSE IF dma.complete THEN "done" ELSE "none"

\* Mutant: the last cell is taken for a free one.
MutPendingRoom == Len(fifo_pending) <= PendingCapacity
PendingRoom == Len(fifo_pending) < PendingCapacity

\* _twr_dma_irq_handler, up to the event's cell being written.
IrqWrite ==
    /\ irq = NoIrq /\ Flagged # "none"
    /\ irq' = [event |-> Flagged, room |-> PendingRoom, preempted |-> FALSE]
    /\ dma' = IF Flagged = "done" THEN [dma EXCEPT !.en = FALSE] ELSE dma
    /\ UNCHANGED <<clocks, main, spi, selected, fifo_pending, dma_planned, spi_planned, ook,
                   hsi, leaked, lost>>

\* What head++ makes of the FIFO.  If another interrupt handler has written
\* its own event over this one, there is one cell more than was written,
\* with an old event; if that was the last cell, head meets tail.
Advanced ==
    IF ~ irq.room THEN {fifo_pending}
    ELSE IF ~ irq.preempted THEN {Append(fifo_pending, irq.event)}
    ELSE IF PendingRoom THEN {Append(fifo_pending, old) : old \in {"other", "half", "done"}}
    ELSE {<<>>}

\* Mutant: the end's flag stays set.
MutCleared(event) == [dma EXCEPT !.half = @ /\ event # "half"]
Cleared(event) ==
    [dma EXCEPT !.half = @ /\ event # "half", !.complete = @ /\ event # "done"]

\* The rest of it, and the clearing of the flag.
IrqAdvance ==
    /\ irq # NoIrq
    /\ fifo_pending' \in Advanced
    /\ irq' = NoIrq
    /\ dma_planned' = TRUE
    /\ dma' = Cleared(irq.event)
    /\ lost' = (lost \/ irq.preempted \/ ~ irq.room)
    /\ UNCHANGED <<clocks, main, spi, selected, spi_planned, ook, hsi, leaked>>

\* The interrupt of channel 2 or 3, as a whole: circular reception (UART2)
\* and the LED strip.  An event that finds no room is dropped.
OtherChannelIrq ==
    /\ Len(SelectSeq(fifo_pending, LAMBDA e : e = "other")) < Backlog
    /\ lost => irq = NoIrq     \* bound: one loss
    /\ fifo_pending' = IF PendingRoom THEN Append(fifo_pending, "other") ELSE fifo_pending
    /\ irq' = IF irq = NoIrq THEN irq ELSE [irq EXCEPT !.preempted = irq.room]
    /\ dma_planned' = TRUE
    /\ UNCHANGED <<clocks, main, spi, selected, dma, spi_planned, ook, hsi, leaked, lost>>

-----------------------------------------------------------------------------
(***************************************************************************)
(* The tasks.                                                              *)
(***************************************************************************)
\* _twr_dma_task
DmaTask ==
    /\ MainAt("idle") /\ dma_planned
    /\ dma_planned' = FALSE
    /\ main' = [Idle EXCEPT !.at = "events"]
    /\ UNCHANGED <<clocks, spi, selected, dma, irq, fifo_pending, spi_planned, ook, hsi,
                   leaked, lost>>

IsDone(event) == event = "done"

\* One turn of its loop, with _twr_spi_dma_event_handler: an error resets the
\* system.
DmaEvent ==
    /\ MainAt("events") /\ fifo_pending # <<>>
    /\ fifo_pending' = Tail(fifo_pending)
    /\ IF IsDone(Head(fifo_pending))
       THEN /\ spi' = [spi EXCEPT !.in_progress = FALSE, !.pending_event_done = TRUE]
            /\ spi_planned' = TRUE
       ELSE UNCHANGED <<spi, spi_planned>>
    /\ main' = IF Head(fifo_pending) = "error" THEN [main EXCEPT !.at = "reset"] ELSE main
    /\ UNCHANGED <<clocks, selected, dma, irq, dma_planned, ook, hsi, leaked, lost>>

\* Mutant: the task does not wait until it has served every event.
MutDmaTaskEnds ==
    /\ MainAt("events")
    /\ main' = Idle
    /\ UNCHANGED <<clocks, spi, selected, dma, irq, fifo_pending, dma_planned, spi_planned,
                   ook, hsi, leaked, lost>>

DmaTaskEnds ==
    /\ MainAt("events") /\ fifo_pending = <<>>
    /\ main' = Idle
    /\ UNCHANGED <<clocks, spi, selected, dma, irq, fifo_pending, dma_planned, spi_planned,
                   ook, hsi, leaked, lost>>

Reported(s) == [s EXCEPT !.pending_event_done = FALSE, !.async = FALSE]

\* _twr_spi_task calls the event handler, which for the display releases its
\* chip select, and then gives the PLL back ...
SpiTask ==
    /\ MainAt("idle") /\ spi_planned /\ spi.event_handler # NULL
    /\ spi_planned' = FALSE
    /\ selected' = (selected /\ spi.event_handler # "display")
    /\ Goto("reported", clocks.pll, spi.event_handler)
    /\ UNCHANGED <<clocks, spi, dma, irq, fifo_pending, dma_planned, ook, hsi, leaked, lost>>

SpiTaskEnds ==
    /\ MainAt("reported")
    /\ clocks' = PllDisable(clocks, main.loaded - 1)
    /\ spi' = Reported(spi)
    /\ main' = Idle
    /\ UNCHANGED <<selected, dma, irq, fifo_pending, dma_planned, spi_planned, ook, hsi,
                   leaked, lost>>

\* ... which it does not without an event handler.
SpiTaskNoHandler ==
    /\ MainAt("idle") /\ spi_planned /\ spi.event_handler = NULL
    /\ spi_planned' = FALSE
    /\ spi' = Reported(spi)
    /\ leaked' = IF lost THEN leaked ELSE leaked + 1
    /\ UNCHANGED <<clocks, main, selected, dma, irq, fifo_pending, dma_planned, ook, hsi, lost>>

-----------------------------------------------------------------------------
(***************************************************************************)
(* Other users of the clocks: the LPUART, of HSI16, and twr_rf_ook.c,      *)
(* which gives the PLL back from the interrupt handler of its timer.       *)
(***************************************************************************)
HsiBegin ==
    /\ MainAt("idle")
    /\ Goto(IF hsi THEN "hsi disable" ELSE "hsi enable", clocks.hsi16, NULL)
    /\ UNCHANGED <<clocks, spi, selected, dma, irq, fifo_pending, dma_planned, spi_planned,
                   ook, hsi, leaked, lost>>

HsiStore ==
    /\ \/ MainAt("hsi enable") /\ clocks' = HsiEnable(clocks, main.loaded + 1)
       \/ MainAt("hsi disable") /\ clocks' = HsiDisable(clocks, main.loaded - 1)
    /\ hsi' = ~ hsi
    /\ main' = Idle
    /\ UNCHANGED <<spi, selected, dma, irq, fifo_pending, dma_planned, spi_planned, ook,
                   leaked, lost>>

OokSend ==
    /\ Ook /\ MainAt("idle") /\ ~ ook
    /\ clocks' = PllEnable(clocks, clocks.pll + 1)
    /\ ook' = TRUE
    /\ UNCHANGED <<main, spi, selected, dma, irq, fifo_pending, dma_planned, spi_planned,
                   hsi, leaked, lost>>

\* _twr_rf_ook_irq_TIM3_handler, after the last bit.
OokIrq ==
    /\ ook
    /\ clocks' = PllDisable(clocks, clocks.pll - 1)
    /\ ook' = FALSE
    /\ UNCHANGED <<main, spi, selected, dma, irq, fifo_pending, dma_planned, spi_planned,
                   hsi, leaked, lost>>

-----------------------------------------------------------------------------
SpiCall ==
    \/ \E client \in {"display", "app", NULL} : AsyncBegin(client)
    \/ \E client \in {"display", "app"} : SyncBegin(client)
    \/ AsyncRefused \/ HsiBegin \/ OokSend

Return == AsyncRun \/ SyncBytes \/ SyncLoad \/ SyncEnd \/ HsiStore
Tasks == DmaTask \/ SpiTask \/ SpiTaskNoHandler
TaskSteps == DmaEvent \/ DmaTaskEnds \/ SpiTaskEnds
SpiHardware == Progress \/ TransferError
Interrupts == IrqWrite \/ IrqAdvance \/ OtherChannelIrq \/ OokIrq

SpiNext == SpiCall \/ Return \/ Tasks \/ TaskSteps \/ SpiHardware \/ Interrupts

SpiSpec == SpiInit /\ [][SpiNext]_spiVars

(***************************************************************************)
(* Calls and tasks return, the DMA makes progress, an asserted interrupt   *)
(* is served, and the scheduler runs each planned task                     *)
(* (Scheduler!DueTaskServed).  The DMA task's loop ends: the next event of *)
(* another channel is half a buffer's transfer away.                       *)
(***************************************************************************)
SpiFairness ==
    /\ WF_spiVars(Return) /\ WF_spiVars(TaskSteps) /\ WF_spiVars(Progress)
    /\ WF_spiVars(IrqWrite) /\ WF_spiVars(IrqAdvance)
    /\ SF_spiVars(DmaTask) /\ SF_spiVars(DmaTaskEnds)
    /\ SF_spiVars(SpiTask) /\ SF_spiVars(SpiTaskNoHandler)

SpiFairSpec == SpiSpec /\ SpiFairness

-----------------------------------------------------------------------------
SpiTypeOK ==
    /\ clocks \in Clocks
    /\ main \in [at : {"idle", "async", "sync", "bytes", "sent", "events", "reported",
                       "hsi enable", "hsi disable", "reset"},
                 loaded : Int, for : {"display", "app", NULL}]
    /\ spi \in [in_progress : BOOLEAN, pending_event_done : BOOLEAN,
                event_handler : {"display", "app", NULL}, async : BOOLEAN]
    /\ selected \in BOOLEAN
    /\ dma \in [en : BOOLEAN, left : {"all", "half", "none"}, half : BOOLEAN,
                complete : BOOLEAN, error : BOOLEAN]
    /\ irq.event \in {"none", "half", "done", "error"}
    /\ fifo_pending \in Seq({"other", "half", "done", "error"})
    /\ Len(fifo_pending) <= PendingCapacity
    /\ {dma_planned, spi_planned, ook, hsi, lost} \subseteq BOOLEAN
    /\ leaked \in 0 .. MaxLeaks

Share(held) == IF held THEN 1 ELSE 0

\* Bytes are clocked out with the PLL on and the device awake.  Here and
\* below, no event of the DMA has been lost: one that is can have another
\* taken for the end of a transfer.
TransferClocked ==
    ~ lost /\ (dma.en \/ main.at = "bytes") => clocks.clk = "PLL" /\ clocks.sleep > 0

\* Between calls, the clocks are held by exactly their users, the CPU runs
\* from the fastest one held, and the device may sleep if there is none.
\* Each asynchronous transfer without an event handler keeps the PLL.
ClocksAccounted ==
    main.at = "idle" /\ ~ lost =>
        /\ clocks.pll = Share(~ IsReady) + Share(ook) + leaked
        /\ clocks.hsi16 = Share(clocks.pll > 0) + Share(hsi)
        /\ clocks.sleep = clocks.hsi16
        /\ clocks.clk = ClockGet(clocks)

\* The events of an end of a transfer that wait for the DMA task.
EndEvents == {k \in DOMAIN fifo_pending : fifo_pending[k] = "done"}

Completions ==
    Share(dma.en \/ dma.complete) + Share(irq.event = "done" /\ ~ dma.complete)
    + Cardinality(EndEvents)

\* While a transfer by DMA is in progress, its end is still to come, once;
\* otherwise no event can be taken for the end of a transfer.
OneCompletion ==
    ~ lost /\ ~ dma.error =>
        Completions = Share(spi.async /\ spi.in_progress /\ ~ spi.pending_event_done)

\* The display's chip stays selected while its frame is sent.  Another
\* client's bytes reach it only between the DMA task and the SPI task, when
\* twr_spi_transfer no longer looks at pending_event_done.
DisplayAlone ==
    /\ ~ lost /\ dma.en /\ spi.event_handler = "display" => selected
    /\ ~ lost /\ selected /\ (dma.en \/ main.at = "bytes") =>
         \/ (IF dma.en THEN spi.event_handler ELSE main.for) = "display"
         \/ spi.pending_event_done

\* Accepted transfers are carried out once, under the clock, and undisturbed.
TransfersUndisturbed == TransferClocked /\ ClocksAccounted /\ OneCompletion /\ DisplayAlone

\* An accepted transfer ends and its event handler is called, unless the DMA
\* failed, or an event was lost between two interrupt handlers.
TransferCompletes == spi.async ~> ~ spi.async \/ lost \/ dma.error

=============================================================================
