------------------------------ MODULE Messages ------------------------------
(***************************************************************************)
(* What twr_queue.c promises its users, the radio before all: messages     *)
(* come out whole, in the order in which they went in, and a message is    *)
(* refused exactly when it and its length do not fit any more.  answer is  *)
(* what the last call told its caller.                                     *)
(***************************************************************************)
EXTENDS Integers, Sequences, SequencesExt

CONSTANTS
    Bytes,
    MaxLength,      \* the longest message that is put
    Room,           \* the size of the buffer
    PREFIX          \* sizeof(size_t)

VARIABLES queue, answer

\* The room that the first messages take, with their lengths.
Taken[n \in 0 .. Len(queue)] == IF n = 0 THEN 0 ELSE Taken[n - 1] + PREFIX + Len(queue[n])
Used == Taken[Len(queue)]

Init == queue = <<>> /\ answer = <<"init">>

\* An empty message is accepted and forgotten.
Put(m) ==
    IF m = <<>> THEN UNCHANGED queue /\ answer' = <<"put">>
    ELSE IF PREFIX + Len(m) <= Room - Used
    THEN queue' = Append(queue, m) /\ answer' = <<"put">>
    ELSE UNCHANGED queue /\ answer' = <<"refused">>

Get ==
    IF queue # <<>>
    THEN queue' = Tail(queue) /\ answer' = <<"got", Head(queue)>>
    ELSE UNCHANGED queue /\ answer' = <<"nothing">>

Clear == queue' = <<>> /\ answer' = <<"cleared">>

Next == (\E m \in BoundedSeq(Bytes, MaxLength) : Put(m)) \/ Get \/ Clear

Spec == Init /\ [][Next]_<<queue, answer>>

=============================================================================
