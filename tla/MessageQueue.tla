---------------------------- MODULE MessageQueue ----------------------------
(***************************************************************************)
(* The message queue of twr_queue.c: one buffer, in which each message     *)
(* follows its length; a message leaves at the front, and the others are   *)
(* moved up.  A cell holds a byte; a length is written in the first of its *)
(* PREFIX cells, the others hold 0.                                        *)
(***************************************************************************)
EXTENDS Integers, Sequences, SequencesExt

CONSTANTS
    MessageBytes,   \* the values that a byte of a message may have
    MaxLength,      \* the longest message that is put
    Room,           \* _size
    PREFIX          \* sizeof(size_t)

ASSUME QueueAssumption ==
    MaxLength \in Nat /\ Room \in Nat /\ PREFIX \in Nat \ {0} /\ MessageBytes \subseteq Nat

VARIABLES
    store,      \* _buffer
    used,       \* _length
    answer      \* what the last call returned

queueVars == <<store, used, answer>>

StoreCells == 0 .. Room - 1
Values == MessageBytes \union 0 .. MaxLength

\* twr_queue_init does not clear the buffer.
QueueInit ==
    /\ store = [c \in StoreCells |-> 0]
    /\ used = 0
    /\ answer = <<"init">>

\* memcpy of values to the cells from "to" on.
Copied(to, values) ==
    [c \in StoreCells |-> IF c - to + 1 \in DOMAIN values THEN values[c - to + 1] ELSE store[c]]

LengthCells(n) == [i \in 1 .. PREFIX |-> IF i = 1 THEN n ELSE 0]

Fits(m) == PREFIX + Len(m) <= Room - used

\* twr_queue_put; without a buffer the message is of zeros.
Put(m) ==
    IF m = <<>> THEN answer' = <<"put">> /\ UNCHANGED <<store, used>>
    ELSE IF Fits(m)
    THEN /\ store' = Copied(used, LengthCells(Len(m)) \o m)
         /\ used' = used + PREFIX + Len(m)
         /\ answer' = <<"put">>
    ELSE answer' = <<"refused">> /\ UNCHANGED <<store, used>>

Slice(from, n) == [i \in 1 .. n |-> store[from + i - 1]]

\* Mutant: the length of what is moved up counts from the message, not from
\* its length.
MutRest(n) == used - n
Rest(n) == used - (PREFIX + n)

\* twr_queue_get
Get ==
    IF used = 0 THEN answer' = <<"nothing">> /\ UNCHANGED <<store, used>>
    ELSE LET n == store[0] IN
         /\ used' = Rest(n)
         /\ answer' = <<"got", Slice(PREFIX, n)>>
         /\ store' = Copied(0, Slice(PREFIX + n, used - (PREFIX + n)))

\* twr_queue_clear
Clear == used' = 0 /\ answer' = <<"cleared">> /\ UNCHANGED store

QueueNext == (\E m \in BoundedSeq(MessageBytes, MaxLength) : Put(m)) \/ Get \/ Clear

-----------------------------------------------------------------------------
QueueTypeOK ==
    /\ store \in [StoreCells -> Values]
    /\ used \in 0 .. Room

(***************************************************************************)
(* The refinement mapping: the messages, from one length to the next.      *)
(***************************************************************************)
From[at \in 0 .. Room] ==
    IF at >= used \/ at + PREFIX + store[at] > Room THEN <<>>
    ELSE <<Slice(at + PREFIX, store[at])>> \o From[at + PREFIX + store[at]]

M == INSTANCE Messages WITH queue <- From[0], Bytes <- MessageBytes

\* However puts, gets and clears follow on one another, and whatever earlier
\* messages left in the buffer, the lengths in the buffer lead from message
\* to message, and the users see a queue of whole messages.
ImplementsMessages == M!Init /\ [][M!Next]_<<From[0], answer>>

=============================================================================
