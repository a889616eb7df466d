---------------------------- MODULE BufferProofs ----------------------------
(***************************************************************************)
(* The buffers: the ring of twr_fifo.c implements a bounded queue, that of *)
(* twr_data_stream.c the window of the latest samples, and the store of    *)
(* twr_queue.c a queue of messages, for every size and whatever is put     *)
(* into them.                                                              *)
(***************************************************************************)
EXTENDS Fifo, DataStream, MessageQueue, SequenceTheorems, WellFoundedInduction,
        TLAPS

-----------------------------------------------------------------------------
(***************************************************************************)
(* The queue.                                                              *)
(***************************************************************************)
\* Between the two stores of a purge, a handler that reads has head at 0, and
\* one that writes stays below what is left of the old tail.
InPurge ==
    purging => /\ tail = 0 \/ head < tail
               /\ irq_end = "reads" => head = 0

FifoInv == TypeOK /\ InPurge

LEMMA FifoKeeps == FifoInv /\ [Next]_vars => FifoInv'
<1> SUFFICES ASSUME FifoInv, [Next]_vars
             PROVE  FifoInv'
    OBVIOUS
<1> USE SizeAssumption DEF FifoInv, TypeOK, InPurge, Cells
<1>1. ASSUME NEW b \in Bytes, WriteByte(b)
      PROVE  FifoInv'
    <2>1. CASE Full
        BY <1>1, <2>1 DEF WriteByte
    <2>2. CASE ~ Full
        <3>1. buffer' \in [Cells -> Bytes]
            BY <1>1, <2>2 DEF WriteByte
        <3>2. head' \in Cells /\ tail' \in Cells /\ irq_end' \in {"writes", "reads"}
              /\ purging' \in BOOLEAN /\ InPurge'
            BY <1>1, <2>2 DEF WriteByte, Writer, Full, NextCell
        <3> QED
            BY <3>1, <3>2
    <2> QED
        BY <2>1, <2>2
<1>2. CASE ReadByte
    BY <1>2 DEF ReadByte, Reader, NextCell
<1>3. CASE IsEmpty
    BY <1>3 DEF IsEmpty
<1>4. CASE PurgeHead
    <2>1. 0 \in Cells /\ tail \in Nat /\ (tail = 0 \/ 0 < tail)
        OBVIOUS
    <2>2. buffer' = buffer /\ tail' = tail /\ irq_end' = irq_end /\ head' = 0 /\ purging' = TRUE
        BY <1>4 DEF PurgeHead
    <2> QED
        BY <2>1, <2>2
<1>5. CASE PurgeTail
    <2>1. buffer' = buffer /\ head' = head /\ irq_end' = irq_end /\ tail' = 0 /\ purging' = FALSE
        BY <1>5 DEF PurgeTail
    <2>2. 0 \in Cells
        OBVIOUS
    <2> QED
        BY <2>1, <2>2
<1>6. CASE UNCHANGED vars
    BY <1>6 DEF vars
<1> QED
    BY <1>1, <1>2, <1>3, <1>4, <1>5, <1>6 DEF Next

LEMMA FifoStarts == Init => FifoInv
<1> SUFFICES ASSUME Init
             PROVE  FifoInv
    OBVIOUS
<1>1. 0 \in Cells
    BY SizeAssumption DEF Cells
<1>2. buffer \in [Cells -> Bytes]
    BY DEF Init
<1>3. head = 0 /\ tail = 0 /\ irq_end \in {"writes", "reads"} /\ purging = FALSE
    BY DEF Init
<1> QED
    BY <1>1, <1>2, <1>3 DEF FifoInv, TypeOK, InPurge

\* The indices stay inside the buffer, whatever is called and whenever the
\* interrupt handler comes, also within a purge: the write to buffer[head] and
\* the read of buffer[tail] are in bounds.
THEOREM TypeCorrect == Spec => []TypeOK
<1>1. FifoInv => TypeOK
    BY DEF FifoInv
<1> QED
    BY <1>1, FifoStarts, FifoKeeps, PTL DEF Spec

-----------------------------------------------------------------------------
(***************************************************************************)
(* The number of bytes, and what the code's two tests say about it.        *)
(***************************************************************************)
LEMMA CountBounds ==
    ASSUME TypeOK
    PROVE  /\ Count \in 0 .. size - 1
           /\ ~ purging => (Full <=> Count = size - 1)
           /\ ~ purging => ((tail = head) <=> Count = 0)
    BY SizeAssumption DEF TypeOK, Cells, Count, First, Full

LEMMA CellBounds ==
    ASSUME TypeOK, NEW i \in 0 .. Count - 1
    PROVE  Cell(i) \in Cells
    BY SizeAssumption DEF TypeOK, Cells, Count, Cell, First

\* The sequence that the ring holds.
LEMMA ContentsSequence ==
    ASSUME TypeOK
    PROVE  /\ Contents \in Seq(Bytes)
           /\ Len(Contents) = Count
           /\ \A i \in 1 .. Count : Contents[i] = buffer[Cell(i - 1)]
<1>1. Count \in Nat
    BY CountBounds, SizeAssumption
<1>2. \A i \in 1 .. Count : buffer[Cell(i - 1)] \in Bytes
    <2> TAKE i \in 1 .. Count
    <2>1. i - 1 \in 0 .. Count - 1
        BY <1>1
    <2>2. Cell(i - 1) \in Cells
        BY <2>1, CellBounds
    <2> QED
        BY <2>2 DEF TypeOK
<1>3. Contents \in [1 .. Count -> Bytes]
    BY <1>2 DEF Contents
<1> QED
    BY <1>1, <1>3 DEF Contents

-----------------------------------------------------------------------------
LEMMA WriteAppends ==
    ASSUME FifoInv, NEW b \in Bytes, WriteByte(b), ~ Full
    PROVE  Contents' = Append(Contents, b)
<1> USE SizeAssumption
<1>0. TypeOK
    BY DEF FifoInv
<1>1. /\ buffer' = [buffer EXCEPT ![head] = b]
      /\ head' = NextCell(head) /\ tail' = tail /\ purging' = purging
    BY DEF WriteByte
<1>2. Count' = Count + 1
    BY <1>1 DEF Count, First, Full, NextCell, FifoInv, TypeOK, InPurge, Cells
<1>3. Cell(Count) = head
    BY <1>0 DEF Count, Cell, First, TypeOK, Cells
<1>4. \A i \in 0 .. Count - 1 : Cell(i) # head
    BY <1>0 DEF Count, Cell, First, TypeOK, Cells
<1>5. Count \in Nat
    BY <1>0, CountBounds
<1>6. \A i \in 1 .. Count + 1 : Contents'[i] = Append(Contents, b)[i]
    <2> TAKE i \in 1 .. Count + 1
    <2>0. i - 1 \in 0 .. Count
        BY <1>5
    <2>1. Contents'[i] = buffer'[Cell(i - 1)']
        BY <1>2 DEF Contents
    <2>2. Cell(i - 1)' = Cell(i - 1)
        BY <1>1 DEF Cell, First
    <2>3. CASE i = Count + 1
        <3>1. Cell(i - 1) = head
            BY <2>3, <1>3, <1>5
        <3>2. buffer'[head] = b
            BY <1>0, <1>1 DEF TypeOK
        <3> QED
            BY <2>1, <2>2, <2>3, <3>1, <3>2, <1>5, <1>0, ContentsSequence
    <2>4. CASE i # Count + 1
        <3>1. i \in 1 .. Count /\ i - 1 \in 0 .. Count - 1
            BY <2>4, <1>5
        <3>2. Cell(i - 1) \in Cells \ {head}
            BY <3>1, <1>4, <1>0, CellBounds
        <3>3. buffer'[Cell(i - 1)] = buffer[Cell(i - 1)]
            BY <3>2, <1>0, <1>1 DEF TypeOK
        <3> QED
            BY <2>1, <2>2, <3>1, <3>3, <1>5, <1>0, ContentsSequence
    <2> QED
        BY <2>3, <2>4
<1>7. /\ Append(Contents, b) \in Seq(Bytes)
      /\ Len(Append(Contents, b)) = Count + 1
    BY <1>0, ContentsSequence
<1>8. \A i \in 1 .. Count + 1 : Contents'[i] \in Bytes
    BY <1>6, <1>7, <1>5
<1>9. Contents' \in [1 .. Count + 1 -> Bytes]
    BY <1>2, <1>8 DEF Contents
<1>10. Contents' \in Seq(Bytes) /\ Len(Contents') = Count + 1
    BY <1>5, <1>9
<1> QED
    BY <1>6, <1>7, <1>10, SeqEqual

LEMMA ReadTakesFirst ==
    ASSUME TypeOK, ReadByte, ~ purging, tail # head
    PROVE  /\ Contents # <<>>
           /\ Head(Contents) = buffer[tail]
           /\ Contents' = Tail(Contents)
<1> USE SizeAssumption
<1>1. tail' = NextCell(tail) /\ buffer' = buffer /\ head' = head /\ purging' = FALSE
    BY DEF ReadByte
<1>2. Count \in Nat \ {0}
    BY CountBounds
<1>3. Count' = Count - 1
    BY <1>1 DEF Count, First, NextCell, TypeOK, Cells
<1>4. Cell(0) = tail
    BY DEF Cell, First, TypeOK, Cells
<1>5. Contents # <<>> /\ Head(Contents) = buffer[tail]
    BY <1>2, <1>4, ContentsSequence
<1>6. \A i \in 1 .. Count - 1 : Contents'[i] = Contents[i + 1]
    <2> TAKE i \in 1 .. Count - 1
    <2>1. Contents'[i] = buffer[Cell(i - 1)']
        BY <1>1, <1>3 DEF Contents
    <2>2. Cell(i - 1)' = Cell(i)
        BY <1>1, <1>2 DEF Cell, First, NextCell, TypeOK, Cells, Count
    <2>3. Contents[i + 1] = buffer[Cell(i)]
        BY <1>2, ContentsSequence
    <2> QED
        BY <2>1, <2>2, <2>3
<1>7. /\ Tail(Contents) \in Seq(Bytes)
      /\ Len(Tail(Contents)) = Count - 1
      /\ \A i \in 1 .. Count - 1 : Tail(Contents)[i] = Contents[i + 1]
    BY <1>5, ContentsSequence, HeadTailProperties
<1>8. \A i \in 1 .. Count - 1 : Contents'[i] \in Bytes
    BY <1>2, <1>6, ContentsSequence
<1>9. Contents' \in [1 .. Count - 1 -> Bytes]
    BY <1>3, <1>8 DEF Contents
<1>10. Contents' \in Seq(Bytes) /\ Len(Contents') = Count - 1
    BY <1>2, <1>9
<1> QED
    BY <1>5, <1>6, <1>7, <1>10, SeqEqual

\* Between the two stores of a purge the FIFO holds what the handler wrote
\* since the first.
LEMMA PurgeMaps ==
    ASSUME FifoInv, PurgeHead \/ PurgeTail
    PROVE  Q!PurgeBegins \/ Q!PurgeEnds
<1>1. CASE PurgeHead
    <2>1. Count' = 0
        BY <1>1, SizeAssumption DEF PurgeHead, Count, First
    <2>2. Contents' = <<>>
        BY <2>1 DEF Contents
    <2> QED
        BY <1>1, <2>2 DEF PurgeHead, Q!PurgeBegins
<1>2. CASE PurgeTail
    <2>1. First' = First /\ head' = head /\ buffer' = buffer
        BY <1>2 DEF PurgeTail, First
    <2>2. Contents' = Contents
        BY <2>1 DEF Contents, Count, Cell
    <2> QED
        BY <1>2, <2>2 DEF PurgeTail, Q!PurgeEnds
<1> QED
    BY <1>1, <1>2

LEMMA WriteMaps ==
    ASSUME FifoInv, NEW b \in Bytes, WriteByte(b)
    PROVE  Q!Write(b)
<1>0. TypeOK /\ (irq_end = "writes" \/ ~ purging) /\ UNCHANGED <<irq_end, purging>>
    BY DEF FifoInv, WriteByte, Writer
<1>1. CASE Full
    <2>1. First' = First /\ head' = head /\ buffer' = buffer
        BY <1>1 DEF WriteByte, First
    <2>2. Contents' = Contents /\ result' = <<"full">>
        BY <1>1, <2>1 DEF WriteByte, Contents, Count, Cell
    <2>3. purging \/ Len(Contents) = size - 1
        BY <1>0, <1>1, CountBounds, ContentsSequence
    <2> QED
        BY <1>0, <2>2, <2>3 DEF Q!Write
<1>2. CASE ~ Full
    <2>1. Contents' = Append(Contents, b)
        BY <1>2, WriteAppends
    <2>2. result' = <<"written">>
        BY <1>2 DEF WriteByte
    <2>3. Count < size - 1
        BY <1>2, SizeAssumption DEF FifoInv, TypeOK, InPurge, Cells, Count, First, Full
    <2>4. Len(Contents) < size - 1
        BY <1>0, <2>3, ContentsSequence
    <2> QED
        BY <1>0, <2>1, <2>2, <2>4 DEF Q!Write
<1> QED
    BY <1>1, <1>2

LEMMA ReadMaps ==
    ASSUME FifoInv, ReadByte
    PROVE  Q!Read \/ Q!ReadInPurge
<1>0. TypeOK /\ UNCHANGED <<buffer, head, irq_end, purging>>
    BY DEF FifoInv, ReadByte
<1>1. CASE purging
    <2>1. irq_end = "reads" /\ buffer[tail] \in Bytes
        BY <1>0, <1>1 DEF ReadByte, Reader, TypeOK
    <2>2. First' = First
        BY <1>0, <1>1 DEF First
    <2>3. Contents' = Contents
        BY <1>0, <2>2 DEF Contents, Count, Cell
    <2>4. result' = <<"nothing">> \/ result' = <<"read", buffer[tail]>>
        BY DEF ReadByte
    <2> QED
        BY <1>0, <1>1, <2>1, <2>3, <2>4 DEF Q!ReadInPurge
<1>2. CASE ~ purging /\ tail = head
    <2>1. result' = <<"nothing">> /\ tail' = tail
        BY <1>2 DEF ReadByte
    <2>2. First' = First
        BY <1>0, <2>1 DEF First
    <2>3. Contents' = Contents
        BY <1>0, <2>2 DEF Contents, Count, Cell
    <2>4. Contents = <<>>
        BY <1>0, <1>2, CountBounds, ContentsSequence
    <2> QED
        BY <1>0, <1>2, <2>1, <2>3, <2>4 DEF Q!Read
<1>3. CASE ~ purging /\ tail # head
    <2>1. result' = <<"read", buffer[tail]>>
        BY <1>3 DEF ReadByte
    <2> QED
        BY <1>0, <1>3, <2>1, ReadTakesFirst DEF Q!Read
<1> QED
    BY <1>1, <1>2, <1>3

\* The ring buffer implements the bounded queue, for any size and whichever
\* end the interrupt handler has: every call either changes the queue of bytes
\* as promised and reports so, or is refused exactly when the promise allows
\* it; within a purge, the handler's bytes are kept or refused, and what it
\* reads is no part of the queue.
THEOREM RingImplementsQueue == Spec => ImplementsQueue
<1>1. Init => Q!Init
    <2> SUFFICES ASSUME Init
                 PROVE  Q!Init
        OBVIOUS
    <2>1. Count = 0
        BY SizeAssumption DEF Init, Count, First
    <2>2. Contents = <<>>
        BY <2>1 DEF Contents
    <2> QED
        BY <2>2 DEF Init, Q!Init
<1>2. FifoInv /\ [Next]_vars => [Q!Next]_<<Contents, irq_end, purging, result>>
    <2> SUFFICES ASSUME FifoInv, [Next]_vars
                 PROVE  [Q!Next]_<<Contents, irq_end, purging, result>>
        OBVIOUS
    <2>1. ASSUME NEW b \in Bytes, WriteByte(b)
          PROVE  Q!Next
        BY <2>1, WriteMaps DEF Q!Next
    <2>2. CASE ReadByte
        BY <2>2, ReadMaps DEF Q!Next
    <2>3. CASE IsEmpty
        <3>1. TypeOK /\ ~ purging /\ UNCHANGED <<buffer, head, tail, irq_end, purging>>
            BY <2>3 DEF FifoInv, IsEmpty
        <3>2. First' = First
            BY <3>1 DEF First
        <3>3. Contents' = Contents
            BY <3>1, <3>2 DEF Contents, Count, Cell
        <3>4. (tail = head) <=> (Contents = <<>>)
            BY <3>1, CountBounds, ContentsSequence
        <3> QED
            BY <2>3, <3>1, <3>3, <3>4 DEF IsEmpty, Q!IsEmpty, Q!Next
    <2>4. CASE PurgeHead \/ PurgeTail
        BY <2>4, PurgeMaps DEF Q!Next
    <2>5. CASE UNCHANGED vars
        BY <2>5 DEF vars, Contents, Count, Cell, First
    <2> QED
        BY <2>1, <2>2, <2>3, <2>4, <2>5 DEF Next
<1> QED
    BY <1>1, <1>2, FifoStarts, FifoKeeps, PTL DEF Spec, ImplementsQueue, Q!Spec

-----------------------------------------------------------------------------
(***************************************************************************)
(* The stream of samples.  Until it has wrapped around, the head is at the *)
(* last of the samples since the reset; from then on every cell is in use. *)
(***************************************************************************)
StreamInv ==
    /\ feed \in [0 .. N - 1 -> Samples \cup {0}]
    /\ feed_head \in 0 .. N - 1
    /\ counter \in Nat
    /\ counter = 0 => feed_head = N - 1
    /\ 0 < counter /\ counter <= N => feed_head = counter - 1

\* The place of the k-th sample of the window.
Place(k) ==
    LET place == feed_head + N - Length + k IN IF place < N THEN place ELSE place - N

LEMMA PlaceIs ==
    ASSUME N \in Nat \ {0}, StreamInv, NEW k \in 1 .. Length
    PROVE  /\ Length \in Nat /\ Length <= N
           /\ Place(k) \in 0 .. N - 1
           /\ Place(k) = (feed_head + N - Length + k) % N
<1>1. Length \in Nat /\ Length <= N
    BY DEF Length, StreamInv
<1> DEFINE place == feed_head + N - Length + k
<1>2. place \in Nat /\ 0 <= place /\ place < 2 * N
    BY <1>1 DEF StreamInv
<1> HIDE DEF place
<1>3. place % N = IF place < N THEN place ELSE place - N
    BY <1>2
<1> USE DEF place
<1> QED
    BY <1>1, <1>2, <1>3 DEF Place

LEMMA WindowIs ==
    ASSUME N \in Nat \ {0}, StreamInv
    PROVE  /\ Window \in Seq(Samples \cup {0}) /\ Len(Window) = Length
           /\ \A k \in 1 .. Length : Window[k] = feed[Place(k)]
<1>1. Length \in Nat
    BY DEF Length, StreamInv
<1>2. \A k \in 1 .. Length : Window[k] = feed[Place(k)] /\ Window[k] \in Samples \cup {0}
    BY PlaceIs DEF Window, StreamInv
<1>3. Window \in [1 .. Length -> Samples \cup {0}]
    BY <1>2 DEF Window
<1> QED
    BY <1>1, <1>2, <1>3

WindowRead ==
    /\ Window \in Seq(Samples \cup {0}) /\ Len(Window) = Length
    /\ \A k \in 1 .. Length : Window[k] = feed[Place(k)]

LEMMA WindowIsRead ==
    ASSUME N \in Nat \ {0}
    PROVE  StreamInv => WindowRead
<1> SUFFICES ASSUME StreamInv PROVE WindowRead
    OBVIOUS
<1> QED
    BY WindowIs DEF WindowRead

\* The same of the next state.
LEMMA NextWindowIs ==
    ASSUME N \in Nat \ {0}
    PROVE  StreamInv' => WindowRead'
BY WindowIsRead, PTL

LEMMA FeedIs ==
    ASSUME N \in Nat \ {0}, StreamInv, NEW x \in Samples, Feed(x)
    PROVE  /\ StreamInv'
           /\ Length' = IF counter < N THEN Length + 1 ELSE N
           /\ \A k \in 1 .. Length' :
                 feed'[Place(k)'] = IF k = Length' THEN x
                                    ELSE feed[Place(IF counter < N THEN k ELSE k + 1)]
<1> USE DEF StreamInv
<1>1. /\ feed_head' = IF feed_head + 1 = N THEN 0 ELSE feed_head + 1
      /\ feed' = [feed EXCEPT ![feed_head'] = x]
      /\ counter' = counter + 1
    BY DEF Feed
<1>2. StreamInv'
    BY <1>1
<1>3. Length' = IF counter < N THEN Length + 1 ELSE N
    BY <1>1 DEF Length
<1>4. feed_head' \in 0 .. N - 1
    BY <1>2
<1>5. ASSUME NEW k \in 1 .. Length'
      PROVE  feed'[Place(k)'] = IF k = Length' THEN x
                                ELSE feed[Place(IF counter < N THEN k ELSE k + 1)]
    <2>1. CASE k = Length'
        <3>1. Place(k)' = feed_head'
            BY <1>1, <1>3, <1>4, <2>1 DEF Place, Length
        <3> QED
            BY <1>1, <1>4, <2>1, <3>1
    <2>2. CASE k # Length'
        <3> DEFINE l == IF counter < N THEN k ELSE k + 1
        <3>1. Place(k)' = Place(l) /\ Place(l) # feed_head' /\ Place(l) \in 0 .. N - 1
            BY <1>1, <1>3, <1>4, <1>5, <2>2 DEF Place, Length
        <3> QED
            BY <1>1, <2>2, <3>1
    <2> QED
        BY <2>1, <2>2
<1> QED
    BY <1>2, <1>3, <1>5

LEMMA FeedAppends ==
    ASSUME N \in Nat \ {0}, StreamInv, NEW x \in Samples, Feed(x)
    PROVE  StreamInv' /\ W!Feed(x)
<1> DEFINE S == Samples \cup {0}
           longer == Append(Window, x)
<1>1. StreamInv'
    BY FeedIs
<1>2. /\ Window \in Seq(S) /\ Len(Window) = Length /\ Length \in Nat
      /\ \A k \in 1 .. Length : Window[k] = feed[Place(k)]
    BY WindowIs DEF Length, StreamInv
<1>3. /\ Window' \in Seq(S) /\ Len(Window') = Length'
      /\ \A k \in 1 .. Length' : Window'[k] = feed'[Place(k)']
    BY <1>1, NextWindowIs DEF WindowRead
<1>4. /\ Length' = IF counter < N THEN Length + 1 ELSE N
      /\ \A k \in 1 .. Length' :
            Window'[k] = IF k = Length' THEN x
                         ELSE feed[Place(IF counter < N THEN k ELSE k + 1)]
    BY <1>3, FeedIs
<1>5. /\ longer \in Seq(S) /\ Len(longer) = Length + 1
      /\ \A k \in 1 .. Length : longer[k] = Window[k]
      /\ longer[Length + 1] = x
    <2>1. x \in S
        OBVIOUS
    <2> HIDE DEF S
    <2> QED
        BY <1>2, <2>1
<1>6. counter \in Nat /\ Length = IF counter > N THEN N ELSE counter
    BY DEF StreamInv, Length
<1> HIDE DEF longer, S
<1>7. CASE counter < N
    <2>1. W!Latest(longer) = longer
        BY <1>5, <1>6, <1>7 DEF W!Latest, N
    <2>2. Length' = Length + 1 /\ Len(Window') = Len(longer)
        BY <1>3, <1>4, <1>5, <1>7
    <2>3. \A k \in 1 .. Len(longer) : Window'[k] = longer[k]
        BY <1>2, <1>4, <1>5, <1>7, <2>2
    <2>4. Window' = longer
        BY <1>3, <1>5, <2>2, <2>3, SeqEqual
    <2> QED
        BY <1>1, <2>1, <2>4 DEF W!Feed, longer
<1>8. CASE ~ (counter < N)
    <2>1. Length = N /\ Length' = N
        BY <1>4, <1>6, <1>8
    <2>2. W!Latest(longer) = Tail(longer)
        BY <1>5, <2>1 DEF W!Latest, N
    <2>3. /\ Tail(longer) \in Seq(S) /\ Len(Tail(longer)) = N
          /\ \A k \in 1 .. N : Tail(longer)[k] = longer[k + 1]
        BY <1>2, <1>5, <2>1
    <2>4. \A k \in 1 .. N : Window'[k] = longer[k + 1]
        <3>1. TAKE k \in 1 .. N
        <3>2. CASE k = N
            BY <1>4, <1>5, <2>1, <3>2
        <3>3. CASE k # N
            <4>1. k + 1 \in 1 .. Length
                BY <2>1, <3>3
            <4> QED
                BY <1>2, <1>4, <1>5, <1>8, <2>1, <3>3, <4>1
        <3> QED
            BY <3>2, <3>3
    <2>5. Window' = Tail(longer)
        BY <1>3, <2>1, <2>3, <2>4, SeqEqual
    <2> QED
        BY <1>1, <2>2, <2>5 DEF W!Feed, longer
<1> QED
    BY <1>7, <1>8

LEMMA ResetEmpties ==
    ASSUME N \in Nat \ {0}, StreamInv, Reset
    PROVE  StreamInv' /\ W!Reset
<1>1. StreamInv' /\ Length' = 0
    BY DEF StreamInv, Reset, Length
<1>2. Window' \in Seq(Samples \cup {0}) /\ Len(Window') = 0
    BY <1>1, NextWindowIs DEF WindowRead
<1>3. Window' = <<>>
    BY <1>2
<1> QED
    BY <1>1, <1>3 DEF W!Reset

LEMMA StreamBegins ==
    ASSUME N \in Nat \ {0}, StreamInit
    PROVE  StreamInv /\ W!Init
<1>1. StreamInv /\ Length = 0
    BY DEF StreamInv, StreamInit, Length
<1>2. Window \in Seq(Samples \cup {0}) /\ Len(Window) = 0
    BY <1>1, WindowIs
<1>3. Window = <<>>
    BY <1>2
<1> QED
    BY <1>1, <1>3 DEF W!Init

\* Where the queries read, the window has the sample that they are asked for.
LEMMA PlacesRight ==
    ASSUME N \in Nat \ {0}, StreamInv
    PROVE  PlacesAgree
<1> USE DEF StreamInv
<1>1. /\ Window \in Seq(Samples \cup {0}) /\ Len(Window) = Length
      /\ Length = IF counter > N THEN N ELSE counter
      /\ \A k \in 1 .. Length : Window[k] = feed[Place(k)]
    BY WindowIs DEF Length
<1>2. ASSUME Length > 0 PROVE GetFirst = Head(Window) /\ GetLast = Last(Window)
    <2>1. 1 \in 1 .. Length /\ Length \in 1 .. Length
        BY <1>1, <1>2
    <2>2. Head(Window) = feed[Place(1)] /\ Last(Window) = feed[Place(Length)]
        BY <1>1, <2>1 DEF Last
    <2>3. Place(Length) = feed_head
        BY <1>1, <1>2 DEF Place
    <2>4. (feed_head + 1) % N = IF feed_head + 1 < N THEN feed_head + 1 ELSE 0
        OBVIOUS
    <2>5. Place(1) = IF counter < N THEN 0 ELSE (feed_head + 1) % N
        BY <1>1, <1>2, <2>4 DEF Place
    <2> QED
        BY <2>2, <2>3, <2>5 DEF GetFirst, GetLast
<1>3. ASSUME NEW n \in 1 .. N + 1
      PROVE  NthAvailable(- n) = (n <= Length)
    BY <1>1 DEF NthAvailable
<1>4. ASSUME NEW n \in 1 .. N + 1, n <= Length
      PROVE  GetNth(- n) = Window[Length + 1 - n]
    <2> DEFINE k == Length + 1 - n
               place == (IF counter < N THEN counter ELSE feed_head + 1 + N) + (- n)
    <2>1. k \in 1 .. Length
        BY <1>1, <1>4
    <2>2. place \in Nat /\ place < 2 * N
        BY <1>1, <1>4
    <2>3. place % N = IF place < N THEN place ELSE place - N
        <3> HIDE DEF place
        <3> QED
            BY <2>2
    <2>4. Place(k) = place % N
        <3>1. Place(k) = IF place < N THEN place ELSE place - N
            BY <1>1, <1>4 DEF Place
        <3> QED
            BY <2>3, <3>1
    <2>5. GetNth(- n) = feed[place % N]
        BY DEF GetNth
    <2> HIDE DEF k, place
    <2>6. GetNth(- n) = Window[k]
        BY <1>1, <2>1, <2>4, <2>5
    <2> QED
        BY <2>6 DEF k
<1> QED
    BY <1>2, <1>3, <1>4 DEF PlacesAgree

\* To whoever asks for a sample, the stream of twr_data_stream.c is the window of the
\* latest ones since the reset, and each query for a place reads its sample, before
\* the ring has wrapped around and after.
THEOREM StreamImplementsWindow ==
    ASSUME number_of_samples \in Nat \ {0}
    PROVE  StreamSpec => ImplementsWindow /\ []PlacesAgree
<1>1. N \in Nat \ {0}
    BY DEF N
<1>2. StreamInit => StreamInv /\ W!Init
    BY <1>1, StreamBegins
<1>3. StreamInv /\ [StreamNext]_streamVars => StreamInv' /\ [W!WindowNext]_Window
    <2> SUFFICES ASSUME StreamInv, [StreamNext]_streamVars
                 PROVE  StreamInv' /\ [W!WindowNext]_Window
        OBVIOUS
    <2>1. CASE Reset
        BY <1>1, <2>1, ResetEmpties DEF W!WindowNext
    <2>2. ASSUME NEW x \in Samples, Feed(x) PROVE StreamInv' /\ W!WindowNext
        BY <1>1, <2>2, FeedAppends DEF W!WindowNext
    <2>3. CASE UNCHANGED streamVars
        BY <2>3 DEF streamVars, StreamInv, Window, Length
    <2> QED
        BY <2>1, <2>2, <2>3 DEF StreamNext
<1>4. StreamInv => PlacesAgree
    BY <1>1, PlacesRight
<1> QED
    BY <1>2, <1>3, <1>4, PTL DEF StreamSpec, ImplementsWindow, W!WindowSpec

-----------------------------------------------------------------------------
(***************************************************************************)
(* The message queue.  A set of natural numbers that is not empty has a    *)
(* least one: what leads from place to place in the buffer is shown with   *)
(* the first place that it would not lead to.                              *)
(***************************************************************************)
LEMMA LeastNatural ==
    ASSUME NEW T \in SUBSET Nat, T # {}
    PROVE  \E x \in T : \A y \in T : x <= y
<1> DEFINE R == OpToRel(<, Nat)
<1>1. IsWellFoundedOn(R, Nat)
    BY NatLessThanWellFounded
<1>2. PICK x \in T : \A y \in T : ~ (<<y, x>> \in R)
    <2> HIDE DEF R
    <2> QED
        BY <1>1, WFMin
<1>3. \A y \in T : ~ (y < x)
    BY <1>2 DEF OpToRel
<1> QED
    BY <1>3

-----------------------------------------------------------------------------
(***************************************************************************)
(* The messages.  Each follows the one before it, and its length.          *)
(***************************************************************************)
Message == {m \in Seq(MessageBytes) : 0 < Len(m) /\ Len(m) <= MaxLength}

\* The messages q are stored one behind the other, the k-th from ends[k - 1] to ends[k].
LaidOut(q, ends) ==
    /\ q \in Seq(Message) /\ ends \in [0 .. Len(q) -> Nat]
    /\ ends[0] = 0 /\ ends[Len(q)] = used
    /\ \A k \in 1 .. Len(q) :
          /\ ends[k] = ends[k - 1] + PREFIX + Len(q[k])
          /\ ends[k] <= used
          /\ store[ends[k - 1]] = Len(q[k])
          /\ \A j \in 1 .. Len(q[k]) : store[ends[k - 1] + PREFIX + j - 1] = q[k][j]

\* What follows the message at a place.
Following(f, at) ==
    IF at >= used \/ at + PREFIX + store[at] > Room THEN <<>>
    ELSE <<Slice(at + PREFIX, store[at])>> \o f[at + PREFIX + store[at]]

\* Each place leads to one behind it, so there is a function as From is defined.
LEMMA FromUnfolds ==
    ASSUME store \in [StoreCells -> Nat], used \in 0 .. Room
    PROVE  From = [at \in 0 .. Room |-> Following(From, at)]
<1> USE QueueAssumption
<1> DEFINE Good(n) == \E f : f = [at \in Room - n .. Room |-> Following(f, at)]
           Bad == {n \in 0 .. Room : ~ Good(n)}
<1>1. Good(0)
    <2> PICK f : f = [at \in Room - 0 .. Room |-> <<>>]
        OBVIOUS
    <2>1. \A at \in Room - 0 .. Room : at >= used
        OBVIOUS
    <2>2. \A at \in Room - 0 .. Room : Following(f, at) = <<>>
        BY <2>1 DEF Following
    <2>3. f = [at \in Room - 0 .. Room |-> Following(f, at)]
        BY <2>2
    <2> QED
        BY <2>3
<1>2. ASSUME NEW n \in 1 .. Room, Good(n - 1) PROVE Good(n)
    <2> DEFINE first == Room - n
    <2>1. PICK f : f = [at \in Room - (n - 1) .. Room |-> Following(f, at)]
        BY <1>2
    <2> DEFINE g == [at \in first .. Room |-> IF at = first THEN Following(f, at) ELSE f[at]]
    <2>2. \A at \in first + 1 .. Room : at \in Room - (n - 1) .. Room /\ g[at] = f[at] /\ f[at] = Following(f, at)
        <3> TAKE at \in first + 1 .. Room
        <3>1. at \in Room - (n - 1) .. Room /\ at \in first .. Room /\ at # first
            OBVIOUS
        <3> HIDE DEF first
        <3> QED
            BY <2>1, <3>1
    <2>3. \A at \in first .. Room : Following(f, at) = Following(g, at)
        <3>1. TAKE at \in first .. Room
        <3>2. CASE at >= used
            BY <3>2 DEF Following
        <3>3. CASE at < used
            <4>1. at \in Nat /\ at \in StoreCells /\ store[at] \in Nat
                BY <3>3 DEF StoreCells
            <4>2. CASE at + PREFIX + store[at] > Room
                BY <4>2 DEF Following
            <4>3. CASE at + PREFIX + store[at] <= Room
                <5>1. at + PREFIX + store[at] \in first + 1 .. Room
                    BY <4>1, <4>3
                <5>2. g[at + PREFIX + store[at]] = f[at + PREFIX + store[at]]
                    BY <2>2, <5>1
                <5> QED
                    BY <5>2 DEF Following
            <4> QED
                BY <4>1, <4>2, <4>3
        <3> QED
            BY <3>2, <3>3
    <2>4. \A at \in first .. Room : g[at] = Following(g, at)
        <3>1. TAKE at \in first .. Room
        <3>2. CASE at = first
            BY <2>3, <3>2
        <3>3. CASE at # first
            <4>1. at \in first + 1 .. Room
                BY <3>3
            <4>2. g[at] = f[at] /\ f[at] = Following(f, at)
                BY <2>2, <4>1
            <4> QED
                BY <2>3, <4>2
        <3> QED
            BY <3>2, <3>3
    <2>5. g = [at \in first .. Room |-> Following(g, at)]
        <3> DEFINE h == [at \in first .. Room |-> Following(g, at)]
        <3>1. \A at \in first .. Room : g[at] = h[at]
            BY <2>4
        <3> HIDE DEF first
        <3> QED
            BY <3>1
    <2> QED
        BY <2>5
<1>3. Bad = {}
    <2> HIDE DEF Good
    <2> SUFFICES ASSUME Bad # {} PROVE FALSE
        OBVIOUS
    <2>0. Bad \in SUBSET Nat
        OBVIOUS
    <2>1. PICK n \in Bad : \A k \in Bad : n <= k
        <3> HIDE DEF Bad
        <3> QED
            BY <2>0, LeastNatural
    <2>2. n \in 1 .. Room /\ n - 1 \in 0 .. Room /\ ~ Good(n)
        BY <1>1, <2>1
    <2>3. n - 1 \notin Bad
        BY <2>1, <2>2
    <2> QED
        BY <1>2, <2>2, <2>3
<1>4. \E f : f = [at \in 0 .. Room |-> Following(f, at)]
    <2>1. Room \in 0 .. Room /\ Room - Room = 0
        OBVIOUS
    <2>2. Good(Room)
        <3> HIDE DEF Good
        <3> QED
            BY <1>3, <2>1
    <2> QED
        BY <2>1, <2>2
<1>5. From = CHOOSE f : f = [at \in 0 .. Room |-> Following(f, at)]
    BY DEF From, Following
<1> QED
    BY <1>4, <1>5

-----------------------------------------------------------------------------
(***************************************************************************)
(* The refinement mapping reads the messages that are laid out.            *)
(***************************************************************************)
LEMMA MessageIs ==
    ASSUME NEW q \in Seq(Message), NEW k \in 1 .. Len(q)
    PROVE  q[k] \in Message /\ q[k] \in Seq(MessageBytes) /\ Len(q[k]) \in Nat /\ Len(q[k]) > 0
<1>1. q[k] \in Message
    OBVIOUS
<1> QED
    BY <1>1 DEF Message

\* The ends grow, and where a message is read from is in the buffer.
LEMMA EndsGrow ==
    ASSUME used \in 0 .. Room, NEW q, NEW ends, LaidOut(q, ends)
    PROVE  /\ Len(q) \in Nat /\ \A k \in 0 .. Len(q) : ends[k] \in Nat /\ ends[k] <= used
           /\ \A k \in 1 .. Len(q) :
                 /\ ends[k - 1] \in Nat /\ k - 1 \in 0 .. Len(q) /\ k \in 0 .. Len(q)
                 /\ ends[k - 1] < ends[k] /\ ends[k - 1] < used
                 /\ Len(q[k]) \in Nat /\ Len(q[k]) > 0
<1> USE DEF LaidOut
<1>1. q \in Seq(Message) /\ Len(q) \in Nat
    OBVIOUS
<1>2. ASSUME NEW k \in 0 .. Len(q) PROVE ends[k] \in Nat /\ ends[k] <= used
    <2>1. CASE k = 0
        BY <1>1, <2>1
    <2>2. CASE k # 0
        <3>1. k \in 1 .. Len(q)
            BY <1>1, <2>2
        <3> QED
            BY <3>1
    <2> QED
        BY <2>1, <2>2
<1>3. ASSUME NEW k \in 1 .. Len(q)
      PROVE  /\ ends[k - 1] \in Nat /\ k - 1 \in 0 .. Len(q) /\ k \in 0 .. Len(q)
             /\ ends[k - 1] < ends[k] /\ ends[k - 1] < used
             /\ Len(q[k]) \in Nat /\ Len(q[k]) > 0
    <2>1. k - 1 \in 0 .. Len(q) /\ k \in 0 .. Len(q)
        BY <1>1
    <2>2. Len(q[k]) \in Nat /\ Len(q[k]) > 0
        BY <1>1, MessageIs
    <2>3. ends[k] = ends[k - 1] + PREFIX + Len(q[k]) /\ ends[k] <= used
        OBVIOUS
    <2>4. ends[k - 1] \in Nat /\ ends[k] \in Nat /\ used \in Nat /\ PREFIX \in Nat
        BY <1>2, <2>1, QueueAssumption
    <2> HIDE DEF LaidOut
    <2> QED
        BY <2>1, <2>2, <2>3, <2>4
<1> QED
    BY <1>1, <1>2, <1>3

LEMMA FirstAndRest ==
    ASSUME NEW S, NEW q \in Seq(S), NEW k \in 1 .. Len(q)
    PROVE  <<q[k]>> \o SubSeq(q, k + 1, Len(q)) = SubSeq(q, k, Len(q))
<1> DEFINE n == Len(q)
           m == q[k]
           rest == SubSeq(q, k + 1, n)
           both == <<m>> \o rest
           all == SubSeq(q, k, n)
<1>1. n \in Nat /\ m \in S /\ k \in 1 .. n
    OBVIOUS
<1>2. rest \in Seq(S) /\ Len(rest) = n - k /\ \A i \in 1 .. n - k : rest[i] = q[k + i]
    OBVIOUS
<1>3. all \in Seq(S) /\ Len(all) = n - k + 1 /\ \A i \in 1 .. n - k + 1 : all[i] = q[k + i - 1]
    OBVIOUS
<1> HIDE DEF rest, all
<1>4. <<m>> \in Seq(S) /\ Len(<<m>>) = 1 /\ <<m>>[1] = m
    BY <1>1
<1>5. /\ both \in Seq(S) /\ Len(both) = n - k + 1
      /\ \A i \in 1 .. n - k + 1 : both[i] = IF i <= 1 THEN m ELSE rest[i - 1]
    <2> DEFINE one == <<m>>
    <2>1. one \in Seq(S) /\ Len(one) = 1 /\ one[1] = m
        BY <1>4
    <2> HIDE DEF one
    <2>2. /\ one \o rest \in Seq(S)
          /\ Len(one \o rest) = Len(one) + Len(rest)
          /\ \A i \in 1 .. Len(one) + Len(rest) :
                (one \o rest)[i] = IF i <= Len(one) THEN one[i] ELSE rest[i - Len(one)]
        BY <1>2, <2>1, ConcatProperties
    <2>3. both = one \o rest
        BY DEF one
    <2>4. Len(one) + Len(rest) = n - k + 1
        BY <1>1, <1>2, <2>1
    <2> HIDE DEF both
    <2>5. \A i \in 1 .. n - k + 1 : both[i] = IF i <= 1 THEN m ELSE rest[i - 1]
        <3> TAKE i \in 1 .. n - k + 1
        <3>1. both[i] = IF i <= 1 THEN one[i] ELSE rest[i - 1]
            BY <2>1, <2>2, <2>3, <2>4
        <3>2. i <= 1 => i = 1
            BY <1>1
        <3> QED
            BY <2>1, <3>1, <3>2
    <2> QED
        BY <2>2, <2>3, <2>4, <2>5
<1> HIDE DEF both
<1>6. \A i \in 1 .. n - k + 1 : both[i] = all[i]
    <2> TAKE i \in 1 .. n - k + 1
    <2>1. all[i] = q[k + i - 1] /\ both[i] = IF i <= 1 THEN m ELSE rest[i - 1]
        BY <1>3, <1>5
    <2>2. CASE i <= 1
        BY <1>1, <2>1, <2>2
    <2>3. CASE i > 1
        <3>1. i - 1 \in 1 .. n - k /\ k + (i - 1) = k + i - 1
            BY <1>1, <2>3
        <3>2. rest[i - 1] = q[k + i - 1]
            BY <1>2, <3>1
        <3>3. ~ (i <= 1)
            BY <1>1, <2>3
        <3> QED
            BY <2>1, <3>2, <3>3
    <2> QED
        BY <1>1, <2>2, <2>3
<1>7. both = all
    BY <1>3, <1>5, <1>6, SeqEqual
<1> QED
    BY <1>7 DEF both, all, rest

LEMMA FromReads ==
    ASSUME store \in [StoreCells -> Nat], used \in 0 .. Room, NEW q, NEW ends, LaidOut(q, ends)
    PROVE  From[0] = q
<1> DEFINE Good(k) == From[ends[k]] = SubSeq(q, k + 1, Len(q))
           n == Len(q)
           Bad == {l \in 0 .. n : ~ Good(n - l)}
<1>1. q \in Seq(Message) /\ n \in Nat /\ (\A k \in 0 .. n : ends[k] \in 0 .. Room)
    <2>1. q \in Seq(Message)
        BY DEF LaidOut
    <2>2. n \in Nat /\ \A k \in 0 .. n : ends[k] \in Nat /\ ends[k] <= used
        BY EndsGrow
    <2>3. \A k \in 0 .. n : ends[k] \in 0 .. Room
        BY <2>2, QueueAssumption
    <2> QED
        BY <2>1, <2>2, <2>3
<1>2. Good(n)
    <2>1. ends[n] = used /\ ends[n] \in 0 .. Room
        BY <1>1 DEF LaidOut
    <2>2. From[ends[n]] = Following(From, ends[n])
        BY <2>1, FromUnfolds
    <2>3. From[ends[n]] = <<>>
        BY <2>1, <2>2 DEF Following
    <2>4. SubSeq(q, n + 1, Len(q)) = <<>>
        BY <1>1
    <2> QED
        BY <2>3, <2>4
<1>3. ASSUME NEW k \in 1 .. n, Good(k) PROVE Good(k - 1)
    <2> DEFINE at == ends[k - 1]
               m == q[k]
    <2>1. /\ at \in Nat /\ at < used /\ ends[k] = at + PREFIX + Len(m) /\ ends[k] <= used
          /\ store[at] = Len(m)
          /\ \A j \in 1 .. Len(m) : store[at + PREFIX + j - 1] = m[j]
        BY EndsGrow DEF LaidOut
    <2>2. m \in Seq(MessageBytes) /\ Len(m) \in Nat /\ m \in Message
        BY <1>1, MessageIs
    <2>3. at \in 0 .. Room /\ at + PREFIX + Len(m) <= Room
        <3> DEFINE length == Len(m)
        <3> HIDE DEF at, length, m
        <3>1. at + PREFIX + length <= used /\ at \in Nat /\ length \in Nat /\ at < used
            BY <2>1, <2>2 DEF length
        <3>2. at \in 0 .. Room /\ at + PREFIX + length <= Room
            BY <3>1, QueueAssumption
        <3> QED
            BY <3>2 DEF length
    <2> HIDE DEF at, m
    <2>4. From[at] = <<Slice(at + PREFIX, Len(m))>> \o From[ends[k]]
        <3>1. From[at] = Following(From, at)
            BY <2>3, FromUnfolds
        <3>2. ~ (at >= used \/ at + PREFIX + store[at] > Room)
            BY <2>1, <2>2, <2>3, QueueAssumption
        <3> QED
            BY <2>1, <3>1, <3>2 DEF Following
    <2>5. Slice(at + PREFIX, Len(m)) = m
        <3>1. Slice(at + PREFIX, Len(m)) = [j \in 1 .. Len(m) |-> m[j]]
            BY <2>1 DEF Slice
        <3> QED
            BY <2>2, <3>1
    <2>6. From[ends[k]] = SubSeq(q, k + 1, Len(q))
        BY <1>3
    <2>7. <<m>> \o SubSeq(q, k + 1, n) = SubSeq(q, k, n)
        BY <1>1, FirstAndRest DEF m
    <2>8. (k - 1) + 1 = k
        BY <1>1
    <2> QED
        BY <2>4, <2>5, <2>6, <2>7, <2>8 DEF at
<1>4. Bad = {}
    <2> HIDE DEF Good
    <2> SUFFICES ASSUME Bad # {} PROVE FALSE
        OBVIOUS
    <2>0. Bad \in SUBSET Nat
        BY <1>1
    <2>1. PICK l \in Bad : \A i \in Bad : l <= i
        <3> HIDE DEF Bad
        <3> QED
            BY <2>0, LeastNatural
    <2>2. l \in 0 .. n /\ ~ Good(n - l)
        BY <2>1
    <2>3. l # 0
        BY <1>1, <1>2, <2>2
    <2>4. n - l + 1 \in 1 .. n /\ l - 1 \in 0 .. n /\ n - (l - 1) = n - l + 1 /\ (n - l + 1) - 1 = n - l
        BY <1>1, <2>2, <2>3
    <2>5. l - 1 \notin Bad
        <3>1. l \in Nat /\ ~ (l <= l - 1)
            BY <1>1, <2>2
        <3> HIDE DEF Bad
        <3> QED
            BY <2>1, <3>1
    <2>6. Good(n - l + 1)
        BY <2>4, <2>5
    <2> QED
        BY <1>3, <2>2, <2>4, <2>6
<1>5. Good(0)
    <2>1. n \in 0 .. n /\ n - n = 0
        BY <1>1
    <2> HIDE DEF Good
    <2>2. n \notin Bad
        <3> HIDE DEF Bad
        <3> QED
            BY <1>4
    <2> QED
        BY <2>1, <2>2
<1>6. SubSeq(q, 1, n) = q
    BY <1>1
<1> QED
    BY <1>1, <1>5, <1>6 DEF LaidOut

\* The room that the abstract queue counts is what the buffer uses.
LEMMA UsedReads ==
    ASSUME store \in [StoreCells -> Nat], used \in 0 .. Room, NEW q, NEW ends, LaidOut(q, ends)
    PROVE  M!Used = used
<1> DEFINE n == Len(q)
           Sums(f) == f = [k \in 0 .. n |-> IF k = 0 THEN 0 ELSE f[k - 1] + PREFIX + Len(q[k])]
<1>1. From[0] = q
    BY FromReads
<1>2. /\ n \in Nat /\ ends \in [0 .. n -> Nat] /\ ends[0] = 0 /\ ends[n] = used
      /\ \A k \in 1 .. n : ends[k] = ends[k - 1] + PREFIX + Len(q[k])
    BY EndsGrow DEF LaidOut
<1>3. Sums(ends)
    <2> DEFINE g == [k \in 0 .. n |-> IF k = 0 THEN 0 ELSE ends[k - 1] + PREFIX + Len(q[k])]
    <2>1. \A k \in 0 .. n : ends[k] = g[k]
        <3> TAKE k \in 0 .. n
        <3>1. k = 0 \/ k \in 1 .. n
            BY <1>2
        <3> QED
            BY <1>2, <3>1
    <2> QED
        BY <1>2, <2>1
<1>4. M!Taken = CHOOSE f : Sums(f)
    BY <1>1 DEF M!Taken
<1>5. PICK f : f = M!Taken /\ Sums(f)
    <2> HIDE DEF Sums
    <2> QED
        BY <1>3, <1>4
<1>6. \A k \in 0 .. n : f[k] = IF k = 0 THEN 0 ELSE f[k - 1] + PREFIX + Len(q[k])
    BY <1>5
<1>7. f[n] = ends[n]
    <2> DEFINE Bad == {k \in 0 .. n : f[k] # ends[k]}
    <2>1. Bad \in SUBSET Nat
        BY <1>2
    <2>2. SUFFICES ASSUME Bad # {} PROVE FALSE
        BY <1>2
    <2>3. PICK k \in Bad : \A j \in Bad : k <= j
        <3> HIDE DEF Bad
        <3> QED
            BY <2>1, <2>2, LeastNatural
    <2>4. k \in 0 .. n /\ f[k] # ends[k]
        BY <2>3
    <2>5. k \in 1 .. n /\ k - 1 \in 0 .. n /\ ~ (k <= k - 1)
        BY <1>2, <1>6, <2>4
    <2>6. k - 1 \notin Bad
        <3> HIDE DEF Bad
        <3> QED
            BY <2>3, <2>5
    <2>7. f[k - 1] = ends[k - 1]
        BY <2>5, <2>6
    <2> QED
        BY <1>2, <1>6, <2>4, <2>5, <2>7
<1> QED
    BY <1>1, <1>2, <1>5, <1>7 DEF M!Used

LEMMA EmptyWhenUnused ==
    ASSUME used \in 0 .. Room, NEW q, NEW ends, LaidOut(q, ends)
    PROVE  used = 0 <=> q = <<>>
<1>1. q \in Seq(Message) /\ ends[0] = 0 /\ ends[Len(q)] = used
    BY DEF LaidOut
<1>2. Len(q) \in Nat /\ \A k \in 1 .. Len(q) : ends[k - 1] \in Nat /\ ends[k - 1] < used
    BY EndsGrow
<1>3. ASSUME q = <<>> PROVE used = 0
    BY <1>1, <1>3
<1>4. ASSUME q # <<>> PROVE used # 0
    <2>1. 1 \in 1 .. Len(q)
        BY <1>1, <1>4
    <2>2. ends[1 - 1] \in Nat /\ ends[1 - 1] < used
        BY <1>2, <2>1
    <2> QED
        BY <2>2
<1> QED
    BY <1>3, <1>4

-----------------------------------------------------------------------------
(***************************************************************************)
(* Each call leaves messages laid out.                                     *)
(***************************************************************************)
StoreTyped == store \in [StoreCells -> Nat] /\ used \in 0 .. Room

LEMMA PutStores ==
    ASSUME StoreTyped, NEW q, NEW ends, LaidOut(q, ends),
           NEW m \in Message, Fits(m), Put(m)
    PROVE  StoreTyped' /\ \E e : LaidOut(Append(q, m), e)'
<1> DEFINE n == Len(q)
           r == Append(q, m)
           values == LengthCells(Len(m)) \o m
<1> PICK e : e = [k \in 0 .. n + 1 |-> IF k <= n THEN ends[k] ELSE used + PREFIX + Len(m)]
    OBVIOUS
<1>1. m \in Seq(MessageBytes) /\ m \in Seq(Nat) /\ Len(m) \in Nat /\ Len(m) > 0 /\ m # <<>>
    <2>1. m \in Seq(MessageBytes) /\ Len(m) \in Nat /\ Len(m) > 0
        BY DEF Message
    <2>2. \A i \in 1 .. Len(m) : m[i] \in Nat
        <3>1. \A i \in 1 .. Len(m) : m[i] \in MessageBytes
            BY <2>1
        <3> QED
            BY <3>1, QueueAssumption
    <2>3. m \in [1 .. Len(m) -> Nat]
        BY <2>1, <2>2
    <2> QED
        BY <2>1, <2>3
<1>2. /\ Room \in Nat /\ PREFIX \in Nat \ {0} /\ used \in Nat
      /\ used' = used + PREFIX + Len(m) /\ used' \in 0 .. Room
      /\ store' = Copied(used, values)
    BY <1>1, QueueAssumption DEF Put, Fits, StoreTyped
<1>3. /\ Len(values) = PREFIX + Len(m) /\ values \in Seq(Nat) /\ DOMAIN values = 1 .. PREFIX + Len(m)
      /\ values[1] = Len(m)
      /\ \A j \in 1 .. Len(m) : values[PREFIX + j] = m[j]
    <2> DEFINE l == LengthCells(Len(m))
    <2>1. l \in Seq(Nat) /\ Len(l) = PREFIX /\ l[1] = Len(m)
        BY <1>1, <1>2 DEF LengthCells
    <2> HIDE DEF l
    <2>2. /\ l \o m \in Seq(Nat) /\ Len(l \o m) = PREFIX + Len(m)
          /\ \A i \in 1 .. PREFIX + Len(m) :
                (l \o m)[i] = IF i <= PREFIX THEN l[i] ELSE m[i - PREFIX]
        BY <1>1, <2>1, ConcatProperties
    <2>3. values = l \o m
        BY DEF l
    <2> HIDE DEF values
    <2>4. \A i \in 1 .. PREFIX + Len(m) : values[i] = IF i <= PREFIX THEN l[i] ELSE m[i - PREFIX]
        BY <2>2, <2>3
    <2>5. values[1] = Len(m)
        <3>1. 1 \in 1 .. PREFIX + Len(m) /\ 1 <= PREFIX
            BY <1>1, <1>2
        <3> QED
            BY <2>1, <2>4, <3>1
    <2>7. \A j \in 1 .. Len(m) : values[PREFIX + j] = m[j]
        <3> TAKE j \in 1 .. Len(m)
        <3>1. PREFIX + j \in 1 .. PREFIX + Len(m) /\ ~ (PREFIX + j <= PREFIX) /\ PREFIX + j - PREFIX = j
            BY <1>1, <1>2
        <3>2. values[PREFIX + j] = m[PREFIX + j - PREFIX]
            BY <2>4, <3>1
        <3> QED
            BY <3>1, <3>2
    <2>6. DOMAIN values = 1 .. Len(values)
        BY <2>2, <2>3
    <2> QED
        BY <2>2, <2>3, <2>5, <2>6, <2>7
<1> HIDE DEF values
<1>4. store' \in [StoreCells -> Nat]
    <2>1. \A c \in StoreCells : store[c] \in Nat
        BY DEF StoreTyped
    <2>2. \A i \in DOMAIN values : values[i] \in Nat
        BY <1>3
    <2> QED
        BY <1>2, <2>1, <2>2 DEF Copied
<1>5. \A c \in 0 .. used - 1 : store'[c] = store[c]
    <2> TAKE c \in 0 .. used - 1
    <2>1. c \in StoreCells /\ c - used + 1 \notin 1 .. PREFIX + Len(m)
        BY <1>1, <1>2 DEF StoreTyped, StoreCells
    <2> QED
        BY <1>2, <1>3, <2>1 DEF Copied
<1>6. \A i \in 1 .. PREFIX + Len(m) : store'[used + i - 1] = values[i]
    <2> TAKE i \in 1 .. PREFIX + Len(m)
    <2>1. used + i - 1 \in StoreCells /\ (used + i - 1) - used + 1 = i
        BY <1>1, <1>2 DEF StoreCells
    <2> QED
        BY <1>2, <1>3, <2>1 DEF Copied
<1>7. /\ q \in Seq(Message) /\ n \in Nat /\ ends \in [0 .. n -> Nat] /\ ends[0] = 0 /\ ends[n] = used
    BY EndsGrow DEF LaidOut
<1>8. r \in Seq(Message) /\ Len(r) = n + 1 /\ r[n + 1] = m /\ \A k \in 1 .. n : r[k] = q[k]
    BY <1>7
<1>9. /\ e \in [0 .. n + 1 -> Nat] /\ e[0] = 0 /\ e[n + 1] = used' /\ e[n] = used
      /\ \A k \in 0 .. n : e[k] = ends[k]
    <2>1. used + PREFIX + Len(m) \in Nat
        BY <1>1, <1>2
    <2> QED
        BY <1>2, <1>7, <2>1
<1> HIDE DEF r
<1>10. ASSUME NEW k \in 1 .. n + 1
       PROVE  /\ e[k] = e[k - 1] + PREFIX + Len(r[k])
              /\ e[k] <= used'
              /\ store'[e[k - 1]] = Len(r[k])
              /\ \A j \in 1 .. Len(r[k]) : store'[e[k - 1] + PREFIX + j - 1] = r[k][j]
    <2>1. CASE k \in 1 .. n
        <3>1. /\ ends[k - 1] \in Nat /\ k - 1 \in 0 .. n /\ k \in 0 .. n /\ ends[k - 1] < used
              /\ Len(q[k]) \in Nat
            BY <2>1, EndsGrow, StoreTyped DEF StoreTyped
        <3>2. /\ ends[k] = ends[k - 1] + PREFIX + Len(q[k])
              /\ ends[k] <= used
              /\ store[ends[k - 1]] = Len(q[k])
              /\ \A j \in 1 .. Len(q[k]) : store[ends[k - 1] + PREFIX + j - 1] = q[k][j]
            BY <2>1 DEF LaidOut
        <3>3. r[k] = q[k] /\ e[k] = ends[k] /\ e[k - 1] = ends[k - 1]
            BY <1>8, <1>9, <2>1, <3>1
        <3> DEFINE last == ends[k - 1]
                   length == Len(q[k])
        <3>0. ends[k] = last + PREFIX + length /\ ends[k] <= used /\ last \in Nat /\ length \in Nat
            BY <3>1, <3>2
        <3>4. ends[k] <= used'
            <4> HIDE DEF last, length
            <4> QED
                BY <1>1, <1>2, <3>0
        <3>5. store'[ends[k - 1]] = store[ends[k - 1]]
            BY <1>2, <1>5, <3>1
        <3>6. \A j \in 1 .. Len(q[k]) :
                 store'[ends[k - 1] + PREFIX + j - 1] = store[ends[k - 1] + PREFIX + j - 1]
            <4> TAKE j \in 1 .. Len(q[k])
            <4>1. ends[k - 1] + PREFIX + j - 1 \in 0 .. used - 1
                <5>1. j \in 1 .. length
                    OBVIOUS
                <5>2. last + PREFIX + j - 1 \in 0 .. used - 1
                    <6> HIDE DEF last, length
                    <6> QED
                        BY <1>2, <3>0, <5>1
                <5> QED
                    BY <5>2
            <4> QED
                BY <1>5, <4>1
        <3> QED
            BY <3>2, <3>3, <3>4, <3>5, <3>6
    <2>2. CASE k = n + 1
        <3>1. e[k] = used' /\ e[k - 1] = used /\ r[k] = m
            BY <1>7, <1>8, <1>9, <2>2
        <3>2. store'[used] = Len(m)
            <4>1. 1 \in 1 .. PREFIX + Len(m) /\ used + 1 - 1 = used
                BY <1>1, <1>2
            <4> QED
                BY <1>3, <1>6, <4>1
        <3>3. \A j \in 1 .. Len(m) : store'[used + PREFIX + j - 1] = m[j]
            <4> TAKE j \in 1 .. Len(m)
            <4>1. PREFIX + j \in 1 .. PREFIX + Len(m) /\ used + PREFIX + j - 1 = used + (PREFIX + j) - 1
                BY <1>1, <1>2
            <4> QED
                BY <1>3, <1>6, <4>1
        <3>4. used' = used + PREFIX + Len(m) /\ used' <= used'
            BY <1>2
        <3> QED
            BY <3>1, <3>2, <3>3, <3>4
    <2> QED
        BY <1>7, <2>1, <2>2
<1>11. LaidOut(r, e)'
    <2>1. r \in Seq(Message) /\ e \in [0 .. Len(r) -> Nat] /\ e[0] = 0 /\ e[Len(r)] = used'
        BY <1>8, <1>9
    <2>2. \A k \in 1 .. Len(r) :
             /\ e[k] = e[k - 1] + PREFIX + Len(r[k])
             /\ e[k] <= used'
             /\ store'[e[k - 1]] = Len(r[k])
             /\ \A j \in 1 .. Len(r[k]) : store'[e[k - 1] + PREFIX + j - 1] = r[k][j]
        BY <1>8, <1>10
    <2> QED
        BY <2>1, <2>2 DEF LaidOut
<1> QED
    BY <1>2, <1>4, <1>11 DEF StoreTyped, StoreCells, r

\* What is moved up is the messages behind the first.
LEMMA GetStores ==
    ASSUME StoreTyped, NEW q, NEW ends, LaidOut(q, ends), used # 0, Get
    PROVE  /\ StoreTyped' /\ \E e : LaidOut(Tail(q), e)'
           /\ q # <<>> /\ answer' = <<"got", Head(q)>>
<1> DEFINE n == Len(q)
           first == Len(q[1])
           r == Tail(q)
           rest == used - (PREFIX + first)
<1>1. /\ q \in Seq(Message) /\ n \in Nat /\ ends \in [0 .. n -> Nat] /\ ends[0] = 0 /\ ends[n] = used
      /\ Room \in Nat /\ PREFIX \in Nat \ {0} /\ used \in Nat /\ used <= Room
    BY EndsGrow, QueueAssumption DEF LaidOut, StoreTyped
<1>2. q # <<>> /\ 1 \in 1 .. n /\ q[1] \in Message /\ Head(q) = q[1]
    <2>1. q # <<>>
        BY EmptyWhenUnused DEF StoreTyped
    <2>2. 1 \in 1 .. n
        BY <1>1, <2>1
    <2> QED
        BY <1>1, <2>1, <2>2
<1>3. first \in Nat /\ first > 0 /\ q[1] \in Seq(MessageBytes)
    BY <1>1, <1>2, MessageIs
<1>4. /\ ends[1] = PREFIX + first /\ ends[1] <= used
      /\ store[0] = first
      /\ \A j \in 1 .. first : store[PREFIX + j - 1] = q[1][j]
    <2>1. /\ ends[1] = ends[1 - 1] + PREFIX + Len(q[1])
          /\ ends[1] <= used
          /\ store[ends[1 - 1]] = Len(q[1])
          /\ \A j \in 1 .. Len(q[1]) : store[ends[1 - 1] + PREFIX + j - 1] = q[1][j]
        BY <1>2 DEF LaidOut
    <2>2. 1 - 1 = 0 /\ ends[0] = 0
        BY <1>1
    <2>3. /\ store[0] = first
          /\ \A j \in 1 .. first : store[0 + PREFIX + j - 1] = q[1][j]
        BY <2>1, <2>2
    <2>4. ends[1] = 0 + PREFIX + first
        BY <2>1, <2>2
    <2>5. \A j \in 1 .. first : 0 + PREFIX + j - 1 = PREFIX + j - 1
        BY <1>1
    <2>6. 0 + PREFIX + first = PREFIX + first
        BY <1>1, <1>3
    <2> QED
        BY <2>1, <2>3, <2>4, <2>5, <2>6
<1>5. rest \in Nat /\ rest <= used
    BY <1>1, <1>3, <1>4
<1>6. /\ used' = rest /\ answer' = <<"got", Slice(PREFIX, first)>>
      /\ store' = Copied(0, Slice(PREFIX + first, rest))
    BY <1>4 DEF Get, Rest
<1>7. Slice(PREFIX, first) = Head(q)
    <2>1. Slice(PREFIX, first) = [j \in 1 .. first |-> q[1][j]]
        BY <1>4 DEF Slice
    <2> QED
        BY <1>2, <1>3, <2>1
<1>8. \A c \in 0 .. rest - 1 : PREFIX + first + c \in StoreCells /\ store'[c] = store[PREFIX + first + c]
    <2> TAKE c \in 0 .. rest - 1
    <2> DEFINE values == Slice(PREFIX + first, rest)
    <2> HIDE DEF first
    <2>1. PREFIX + first + c \in StoreCells /\ c \in StoreCells /\ c - 0 + 1 \in 1 .. rest
        BY <1>1, <1>3, <1>5 DEF StoreCells
    <2>2. DOMAIN values = 1 .. rest /\ values[c - 0 + 1] = store[PREFIX + first + (c - 0 + 1) - 1]
        BY <2>1 DEF Slice
    <2>3. PREFIX + first + (c - 0 + 1) - 1 = PREFIX + first + c
        BY <1>1, <1>3
    <2>4. store'[c] = values[c - 0 + 1]
        <3> HIDE DEF values
        <3>1. store' = Copied(0, values)
            BY <1>6 DEF values
        <3> QED
            BY <2>1, <2>2, <3>1 DEF Copied
    <2> QED
        BY <2>1, <2>2, <2>3, <2>4
<1>9. StoreTyped'
    <2>1. \A c \in StoreCells : store[c] \in Nat
        BY DEF StoreTyped
    <2> DEFINE values == Slice(PREFIX + first, rest)
    <2> HIDE DEF first
    <2>2. \A i \in DOMAIN values : values[i] \in Nat
        <3> TAKE i \in DOMAIN values
        <3>1. i \in 1 .. rest /\ values[i] = store[PREFIX + first + i - 1]
            BY DEF Slice
        <3>2. PREFIX + first + i - 1 \in StoreCells
            BY <1>1, <1>3, <1>5, <3>1 DEF StoreCells
        <3> QED
            BY <2>1, <3>1, <3>2
    <2>3. store' \in [StoreCells -> Nat]
        <3> HIDE DEF values
        <3>1. store' = Copied(0, values)
            BY <1>6 DEF values
        <3> QED
            BY <2>1, <2>2, <3>1 DEF Copied
    <2>4. used' \in 0 .. Room
        BY <1>1, <1>5, <1>6
    <2> QED
        BY <2>3, <2>4 DEF StoreTyped, StoreCells
<1> PICK e : e = [k \in 0 .. n - 1 |-> ends[k + 1] - ends[1]]
    OBVIOUS
<1>10. r \in Seq(Message) /\ Len(r) = n - 1 /\ \A k \in 1 .. n - 1 : r[k] = q[k + 1]
    BY <1>1, <1>2
<1>11. \A k \in 1 .. n : ends[1] <= ends[k]
    <2> DEFINE Bad == {k \in 1 .. n : ~ (ends[1] <= ends[k])}
    <2>1. Bad \in SUBSET Nat
        BY <1>1
    <2>2. SUFFICES ASSUME Bad # {} PROVE FALSE
        OBVIOUS
    <2>3. PICK k \in Bad : \A j \in Bad : k <= j
        <3> HIDE DEF Bad
        <3> QED
            BY <2>1, <2>2, LeastNatural
    <2>4. k \in 1 .. n /\ ~ (ends[1] <= ends[k])
        BY <2>3
    <2>5. \A i \in 0 .. n : ends[i] \in Nat
        BY <1>1
    <2>6. k # 1
        BY <1>1, <2>4, <2>5
    <2>7. k - 1 \in 1 .. n /\ ~ (k <= k - 1)
        BY <1>1, <2>4, <2>6
    <2>8. k - 1 \notin Bad
        <3> HIDE DEF Bad
        <3> QED
            BY <2>3, <2>7
    <2>9. ends[1] <= ends[k - 1]
        BY <2>7, <2>8
    <2>10. ends[k - 1] < ends[k]
        BY <2>4, EndsGrow DEF StoreTyped
    <2>11. ends[1] \in Nat /\ ends[k - 1] \in Nat /\ ends[k] \in Nat
        BY <1>1, <2>4, <2>5, <2>7
    <2> QED
        BY <2>4, <2>9, <2>10, <2>11
<1>12. /\ e \in [0 .. n - 1 -> Nat] /\ e[0] = 0 /\ e[n - 1] = used'
       /\ \A k \in 0 .. n - 1 : e[k] = ends[k + 1] - ends[1]
    <2>1. \A k \in 0 .. n - 1 : e[k] = ends[k + 1] - ends[1] /\ e[k] \in Nat
        <3> TAKE k \in 0 .. n - 1
        <3>1. k + 1 \in 1 .. n /\ k + 1 \in 0 .. n /\ 1 \in 0 .. n
            BY <1>1, <1>2
        <3>2. ends[1] <= ends[k + 1] /\ ends[1] \in Nat /\ ends[k + 1] \in Nat
            BY <1>1, <1>11, <3>1
        <3> QED
            BY <3>2
    <2>2. 0 \in 0 .. n - 1 /\ n - 1 \in 0 .. n - 1 /\ 0 + 1 = 1 /\ n - 1 + 1 = n
        BY <1>1, <1>2
    <2>3. e[0] = 0
        <3>1. ends[1] \in Nat
            BY <1>1, <1>2
        <3> QED
            BY <2>1, <2>2, <3>1
    <2>4. e[n - 1] = used'
        BY <1>1, <1>4, <1>6, <2>1, <2>2
    <2> QED
        BY <2>1, <2>3, <2>4
<1> HIDE DEF r
<1>13. ASSUME NEW k \in 1 .. n - 1
       PROVE  /\ e[k] = e[k - 1] + PREFIX + Len(r[k])
              /\ e[k] <= used'
              /\ store'[e[k - 1]] = Len(r[k])
              /\ \A j \in 1 .. Len(r[k]) : store'[e[k - 1] + PREFIX + j - 1] = r[k][j]
    <2> DEFINE from == ends[k]
               to == ends[k + 1]
               length == Len(q[k + 1])
               skip == PREFIX + first
    <2>1. k \in 1 .. n /\ k + 1 \in 1 .. n /\ k + 1 - 1 = k /\ k \in 0 .. n - 1 /\ k - 1 \in 0 .. n - 1 /\ k - 1 + 1 = k
        BY <1>1
    <2>2. /\ to = from + PREFIX + length /\ to <= used
          /\ store[from] = length
          /\ \A j \in 1 .. length : store[from + PREFIX + j - 1] = q[k + 1][j]
        <3>1. /\ ends[k + 1] = ends[k + 1 - 1] + PREFIX + Len(q[k + 1])
              /\ ends[k + 1] <= used
              /\ store[ends[k + 1 - 1]] = Len(q[k + 1])
              /\ \A j \in 1 .. Len(q[k + 1]) : store[ends[k + 1 - 1] + PREFIX + j - 1] = q[k + 1][j]
            BY <2>1 DEF LaidOut
        <3> QED
            BY <2>1, <3>1
    <2>3. from \in Nat /\ skip \in Nat /\ skip <= from /\ length \in Nat
        <3>1. from \in Nat /\ length \in Nat
            <4>1. length \in Nat
                BY <1>1, <2>1, MessageIs
            <4>2. from \in Nat
                BY <1>1, <2>1
            <4> QED
                BY <4>1, <4>2
        <3>2. ends[1] <= from /\ ends[1] = skip
            BY <1>4, <1>11, <2>1
        <3> QED
            BY <1>1, <1>3, <3>1, <3>2
    <2>4. e[k - 1] = from - skip /\ e[k] = to - skip /\ r[k] = q[k + 1] /\ used' = used - skip
        BY <1>4, <1>6, <1>10, <1>12, <2>1
    <2>5. rest = used - skip
        OBVIOUS
    <2> HIDE DEF from, to, length, skip, rest
    <2>6. \A x \in from .. to - 1 : store'[x - skip] = store[x]
        <3> TAKE x \in from .. to - 1
        <3>1. x - skip \in 0 .. rest - 1 /\ skip + (x - skip) = x
            BY <1>1, <2>2, <2>3, <2>5
        <3>2. store'[x - skip] = store[skip + (x - skip)]
            BY <1>8, <3>1 DEF skip
        <3> QED
            BY <3>1, <3>2
    <2>7. e[k] = e[k - 1] + PREFIX + length
        BY <1>1, <2>2, <2>3, <2>4
    <2>8. e[k] <= used'
        BY <1>1, <2>2, <2>3, <2>4
    <2>9. store'[e[k - 1]] = length
        <3>1. from \in from .. to - 1
            BY <1>1, <2>2, <2>3
        <3> QED
            BY <2>2, <2>4, <2>6, <3>1
    <2>10. \A j \in 1 .. length : store'[e[k - 1] + PREFIX + j - 1] = q[k + 1][j]
        <3> TAKE j \in 1 .. length
        <3>1. from + PREFIX + j - 1 \in from .. to - 1
            BY <1>1, <2>2, <2>3
        <3>2. (from + PREFIX + j - 1) - skip = e[k - 1] + PREFIX + j - 1
            BY <1>1, <2>3, <2>4
        <3>3. store'[(from + PREFIX + j - 1) - skip] = store[from + PREFIX + j - 1]
            BY <2>6, <3>1
        <3> QED
            BY <2>2, <3>2, <3>3
    <2> QED
        BY <2>4, <2>7, <2>8, <2>9, <2>10 DEF length
<1>14. LaidOut(r, e)'
    BY <1>10, <1>12, <1>13 DEF LaidOut
<1> QED
    BY <1>2, <1>6, <1>7, <1>9, <1>14 DEF r

LEMMA EmptyIsLaidOut ==
    ASSUME used = 0
    PROVE  \E e : LaidOut(<<>>, e)
<1> DEFINE e == [k \in 0 .. 0 |-> 0]
           q == <<>>
<1>1. q \in Seq(Message) /\ Len(q) = 0
    OBVIOUS
<1>2. e \in [0 .. 0 -> Nat] /\ e[0] = 0 /\ 1 .. 0 = {}
    OBVIOUS
<1>3. LaidOut(q, e)
    <2> HIDE DEF e, q
    <2> QED
        BY <1>1, <1>2 DEF LaidOut
<1> QED
    BY <1>3

-----------------------------------------------------------------------------
QueueInv == StoreTyped /\ \E q, ends : LaidOut(q, ends)

\* The abstract queue, as the buffer holds it; the facts above in a form that
\* also speaks of the next state.
MappingRight == \A q, ends : StoreTyped /\ LaidOut(q, ends) => From[0] = q /\ M!Used = used

LEMMA MappingReads == MappingRight
    BY FromReads, UsedReads DEF StoreTyped, MappingRight

EmptyFits == used = 0 => \E e : LaidOut(<<>>, e)

LEMMA ClearedIsLaidOut == EmptyFits
    BY EmptyIsLaidOut DEF EmptyFits

LEMMA QueueBegins ==
    ASSUME QueueInit
    PROVE  QueueInv /\ M!Init
<1>1. StoreTyped /\ used = 0
    BY QueueAssumption DEF QueueInit, StoreTyped
<1>2. PICK e : LaidOut(<<>>, e)
    BY <1>1, ClearedIsLaidOut DEF EmptyFits
<1>3. From[0] = <<>>
    BY <1>1, <1>2, MappingReads DEF MappingRight
<1> QED
    BY <1>1, <1>2, <1>3 DEF QueueInv, QueueInit, M!Init

LEMMA QueueSteps ==
    ASSUME QueueInv, [QueueNext]_queueVars
    PROVE  QueueInv' /\ [M!Next]_<<From[0], answer>>
<1>1. PICK q, ends : LaidOut(q, ends)
    BY DEF QueueInv
<1>2. StoreTyped /\ From[0] = q /\ M!Used = used /\ q \in Seq(Message)
    BY <1>1, MappingReads DEF QueueInv, LaidOut, MappingRight
<1>3. ASSUME NEW r, StoreTyped', \E e : LaidOut(r, e)'
      PROVE  QueueInv' /\ (From[0])' = r
    <2>1. MappingRight'
        BY MappingReads, PTL
    <2> QED
        BY <1>3, <2>1 DEF QueueInv, MappingRight
<1>4. ASSUME UNCHANGED <<store, used>> PROVE QueueInv' /\ (From[0])' = q
    <2>1. StoreTyped' /\ LaidOut(q, ends)'
        BY <1>1, <1>2, <1>4 DEF StoreTyped, StoreCells, LaidOut
    <2> QED
        BY <1>3, <2>1
<1>5. ASSUME NEW m \in BoundedSeq(MessageBytes, MaxLength), Put(m)
      PROVE  QueueInv' /\ [M!Next]_<<From[0], answer>>
    <2>1. m \in Seq(MessageBytes) /\ Len(m) <= MaxLength
        BY QueueAssumption DEF BoundedSeq, SeqOf
    <2>2. QueueInv' /\ M!Put(m)
        <3>1. CASE m = <<>>
            BY <1>2, <1>4, <1>5, <3>1 DEF Put, M!Put
        <3>2. CASE m # <<>> /\ Fits(m)
            <4>1. m \in Message
                BY <2>1, <3>2 DEF Message
            <4>2. StoreTyped' /\ \E e : LaidOut(Append(q, m), e)'
                BY <1>1, <1>2, <1>5, <3>2, <4>1, PutStores
            <4>3. QueueInv' /\ (From[0])' = Append(q, m)
                BY <1>3, <4>2
            <4> QED
                BY <1>2, <1>5, <3>2, <4>3 DEF Put, Fits, M!Put
        <3>3. CASE m # <<>> /\ ~ Fits(m)
            BY <1>2, <1>4, <1>5, <3>3 DEF Put, Fits, M!Put
        <3> QED
            BY <3>1, <3>2, <3>3
    <2> QED
        BY <2>2 DEF M!Next, M!BoundedSeq, M!SeqOf, BoundedSeq, SeqOf
<1>6. ASSUME Get PROVE QueueInv' /\ M!Get
    <2>1. CASE used = 0
        <3>1. q = <<>>
            BY <1>1, <1>2, <2>1, EmptyWhenUnused DEF StoreTyped
        <3>2. UNCHANGED <<store, used>> /\ answer' = <<"nothing">>
            BY <1>6, <2>1 DEF Get
        <3> QED
            BY <1>2, <1>4, <3>1, <3>2 DEF M!Get
    <2>2. CASE used # 0
        <3>1. /\ StoreTyped' /\ \E e : LaidOut(Tail(q), e)'
              /\ q # <<>> /\ answer' = <<"got", Head(q)>>
            BY <1>1, <1>2, <1>6, <2>2, GetStores
        <3>2. QueueInv' /\ (From[0])' = Tail(q)
            BY <1>3, <3>1
        <3> QED
            BY <1>2, <3>1, <3>2 DEF M!Get
    <2> QED
        BY <2>1, <2>2
<1>7. ASSUME Clear PROVE QueueInv' /\ M!Clear
    <2>1. StoreTyped' /\ used' = 0 /\ answer' = <<"cleared">>
        BY <1>2, <1>7, QueueAssumption DEF Clear, StoreTyped, StoreCells
    <2>2. \E e : LaidOut(<<>>, e)'
        <3>1. EmptyFits'
            BY ClearedIsLaidOut, PTL
        <3> QED
            BY <2>1, <3>1 DEF EmptyFits
    <2> QED
        BY <1>3, <2>1, <2>2 DEF M!Clear
<1>8. CASE UNCHANGED queueVars
    BY <1>2, <1>4, <1>8 DEF queueVars
<1> QED
    BY <1>5, <1>6, <1>7, <1>8 DEF QueueNext, M!Next

\* However puts, gets and clears follow on one another, the buffer of twr_queue.c
\* is to its users a queue of whole messages, whatever its size.
THEOREM QueueImplementsMessages ==
    QueueInit /\ [][QueueNext]_queueVars => ImplementsMessages
<1>1. QueueInit => QueueInv /\ M!Init
    BY QueueBegins
<1>2. QueueInv /\ [QueueNext]_queueVars => QueueInv' /\ [M!Next]_<<From[0], answer>>
    BY QueueSteps
<1> QED
    BY <1>1, <1>2, PTL DEF ImplementsMessages

=============================================================================
