-------------------------------- MODULE Fifo --------------------------------
(***************************************************************************)
(* The ring buffer of twr_fifo.c.  head is the next cell to write, tail    *)
(* the next one to read; one cell stays empty, so that head = tail means   *)
(* an empty FIFO.  A call that writes or reads several bytes repeats the   *)
(* action for one byte until it is refused.                                *)
(*                                                                         *)
(* One end is the main program's and the other an interrupt handler's,     *)
(* which uses twr_fifo_irq_write or twr_fifo_irq_read.  Writes, reads and  *)
(* the test for an empty FIFO disable interrupts in the main program, and  *)
(* so are atomic; a purge does not, and the handler may come between its   *)
(* two stores.  Bytes are any values: the FIFO does not look at them.      *)
(***************************************************************************)
EXTENDS Integers, Sequences

CONSTANTS
    Bytes,      \* the values a cell may hold
    size        \* the number of cells

ASSUME SizeAssumption == size \in Nat \ {0}

VARIABLES
    buffer, head, tail,
    irq_end,        \* what the interrupt handler does: it "writes" or "reads"
    purging,        \* the purge has stored head, and not yet tail
    result          \* what the last call returned

vars == <<buffer, head, tail, irq_end, purging, result>>

Cells == 0 .. size - 1

Init ==
    /\ buffer \in [Cells -> Bytes]
    /\ head = 0 /\ tail = 0
    /\ irq_end \in {"writes", "reads"} /\ purging = FALSE
    /\ result = <<"init">>

\* head++, or tail++, and back to 0 at the end.
MutNext(i) == i + 1             \* Mutant: without the return to 0.
NextCell(i) == IF i + 1 = size THEN 0 ELSE i + 1

\* Mutant: the second test is missing.
MutFull == head + 1 = tail
Full == head + 1 = tail \/ (head + 1 = size /\ tail = 0)

\* Who calls: the handler may come at any time, the main program makes one
\* call after the other.
Writer == irq_end = "writes" \/ ~ purging
Reader == irq_end = "reads" \/ ~ purging

\* The body of the loop of twr_fifo_write and twr_fifo_irq_write.
WriteByte(b) ==
    /\ Writer
    /\ IF Full
       THEN result' = <<"full">> /\ UNCHANGED <<buffer, head>>
       ELSE /\ buffer' = [buffer EXCEPT ![head] = b]
            /\ head' = NextCell(head)
            /\ result' = <<"written">>
    /\ UNCHANGED <<tail, irq_end, purging>>

\* The body of the loop of twr_fifo_read and twr_fifo_irq_read.
ReadByte ==
    /\ Reader
    /\ IF tail # head
       THEN result' = <<"read", buffer[tail]>> /\ tail' = NextCell(tail)
       ELSE result' = <<"nothing">> /\ UNCHANGED tail
    /\ UNCHANGED <<buffer, head, irq_end, purging>>

\* twr_fifo_is_empty
IsEmpty ==
    /\ ~ purging
    /\ result' = <<"empty", tail = head>>
    /\ UNCHANGED <<buffer, head, tail, irq_end, purging>>

\* twr_fifo_purge, store by store.
PurgeHead ==
    /\ ~ purging /\ purging' = TRUE
    /\ head' = 0
    /\ UNCHANGED <<buffer, tail, irq_end, result>>

PurgeTail ==
    /\ purging /\ purging' = FALSE
    /\ tail' = 0
    /\ result' = <<"purged">>
    /\ UNCHANGED <<buffer, head, irq_end>>

Next == (\E b \in Bytes : WriteByte(b)) \/ ReadByte \/ IsEmpty \/ PurgeHead \/ PurgeTail

Spec == Init /\ [][Next]_vars

-----------------------------------------------------------------------------
TypeOK ==
    /\ buffer \in [Cells -> Bytes]
    /\ head \in Cells /\ tail \in Cells
    /\ irq_end \in {"writes", "reads"} /\ purging \in BOOLEAN

(***************************************************************************)
(* The refinement mapping: the cells from tail up to head, wrapping.  In a *)
(* purge the tail is as good as stored: what was in the FIFO is gone, and  *)
(* what the handler writes meanwhile starts at cell 0.                     *)
(***************************************************************************)
First == IF purging THEN 0 ELSE tail
Count == IF head >= First THEN head - First ELSE head - First + size
Cell(i) == IF First + i < size THEN First + i ELSE First + i - size
Contents == [i \in 1 .. Count |-> buffer[Cell(i - 1)]]

Q == INSTANCE BoundedQueue WITH Capacity <- size - 1, queue <- Contents

\* The FIFO is a queue of size - 1 bytes: the interrupt handler and the main
\* program, each at its own end, see nothing else of head, tail and wrapping.
\* A handler that comes within a purge may be refused a byte for which there
\* is room, or read bytes that nobody wrote since, but what it gets in is kept
\* and the FIFO is whole again when the purge ends.
ImplementsQueue == Q!Spec

=============================================================================
