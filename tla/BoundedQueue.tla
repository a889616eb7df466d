---------------------------- MODULE BoundedQueue ----------------------------
(***************************************************************************)
(* What a FIFO promises its two ends, one byte at a time: bytes come out   *)
(* in the order in which they went in, none is lost, repeated or invented, *)
(* writing is refused exactly when Capacity bytes are in, and reading      *)
(* exactly when none is.  result is what the last call told its caller.    *)
(*                                                                         *)
(* A purge takes two steps.  Between them, one end is served as it comes:  *)
(* a byte written is kept behind those written since the purge began, or   *)
(* refused for no reason; what is read is any byte, and is not taken from  *)
(* the queue.                                                              *)
(***************************************************************************)
EXTENDS Naturals, Sequences

CONSTANTS Bytes, Capacity

VARIABLES queue, irq_end, purging, result

Init ==
    /\ queue = <<>> /\ result = <<"init">>
    /\ irq_end \in {"writes", "reads"} /\ purging = FALSE

Write(b) ==
    /\ irq_end = "writes" \/ ~ purging
    /\ \/ /\ Len(queue) < Capacity
          /\ queue' = Append(queue, b) /\ result' = <<"written">>
       \/ /\ Len(queue) = Capacity \/ purging
          /\ UNCHANGED queue /\ result' = <<"full">>
    /\ UNCHANGED <<irq_end, purging>>

Read ==
    /\ ~ purging
    /\ IF queue # <<>>
       THEN queue' = Tail(queue) /\ result' = <<"read", Head(queue)>>
       ELSE UNCHANGED queue /\ result' = <<"nothing">>
    /\ UNCHANGED <<irq_end, purging>>

ReadInPurge ==
    /\ irq_end = "reads" /\ purging
    /\ result' \in {<<"nothing">>} \union {<<"read", b>> : b \in Bytes}
    /\ UNCHANGED <<queue, irq_end, purging>>

IsEmpty ==
    /\ ~ purging
    /\ result' = <<"empty", queue = <<>> >>
    /\ UNCHANGED <<queue, irq_end, purging>>

PurgeBegins ==
    /\ ~ purging /\ purging' = TRUE
    /\ queue' = <<>>
    /\ UNCHANGED <<irq_end, result>>

PurgeEnds ==
    /\ purging /\ purging' = FALSE
    /\ result' = <<"purged">>
    /\ UNCHANGED <<queue, irq_end>>

Next ==
    \/ \E b \in Bytes : Write(b)
    \/ Read \/ ReadInPurge \/ IsEmpty
    \/ PurgeBegins \/ PurgeEnds

Spec == Init /\ [][Next]_<<queue, irq_end, purging, result>>

=============================================================================
