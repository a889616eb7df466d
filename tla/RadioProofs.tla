---------------------------- MODULE RadioProofs -----------------------------
(***************************************************************************)
(* What holds of every radio in every interleaving of its two tasks, its   *)
(* transceiver and its application, whatever the others send it: nothing it*)
(* waits for is forgotten, and what it sends again is the message, within  *)
(* its number of attempts.                                                 *)
(*                                                                         *)
(* A handler of Radio maps a record to a record through several calls, so  *)
(* each call has a lemma: which fields it leaves alone (SameBut), and that *)
(* it keeps what is true of a radio in the middle of a task (Core).        *)
(***************************************************************************)
EXTENDS RadioLink, TLAPS, SequenceTheorems, WellFoundedInduction

\* The record of a radio: what never changes, what its protocol changes
\* without a call to the driver, and what the two share.
Settings == {"self", "mode", "window_after_ack", "TX_MAX_COUNT", "subs_length"}
LocalFields ==
    {"my_id", "ack", "due", "pairing_request", "pairing_mode", "automatic_pairing", "sent_subs",
     "pub_queue", "rx_queue", "peers", "peers_length", "window", "accepted", "outcome", "removed"}
LinkFields ==
    {"state", "message_id", "transmit_count", "tx", "saved_tx", "saved_count", "timed",
     "desired", "current", "driver_plan", "air", "irq_sent", "rx_fifo", "message",
     "transmissions"}
Fields == Settings \union LocalFields \union LinkFields

Whole(x) == x = [f \in Fields |-> x[f]]
SameBut(y, x, S) == Whole(y) /\ \A f \in Fields \ S : y[f] = x[f]

-----------------------------------------------------------------------------
(***************************************************************************)
(* What is true of a radio's record x in the middle of a task.  early says *)
(* whether the task has an early return to fear (EarlyReturns).            *)
(***************************************************************************)
KnownFrames(early) == {f \in Frames : f.kind = "pub" /\ f.body \in UnknownOrder => early}
Items(early) ==
    {i \in [kind : {"pub", "attach", "detach"}, body : Bodies \union Radios \union {NONE}] :
        i.kind = "pub" /\ i.body \in UnknownOrder => early}
Peers == [id : Radios \union {NONE}, message_id : Ids, synced : BOOLEAN]

Settled(x) ==
    /\ x.self \in Radios /\ x.mode \in Modes /\ x.window_after_ack \in BOOLEAN
    /\ x.TX_MAX_COUNT \in Nat \ {0} /\ x.subs_length \in Nat

Local(x, early) ==
    /\ x.my_id \in {NONE, x.self} /\ x.ack \in BOOLEAN /\ x.due \in BOOLEAN
    /\ x.pairing_request \in {"no", "yes", "long"}
    /\ x.pairing_request = "long" => early
    /\ x.pairing_mode \in BOOLEAN /\ x.automatic_pairing \in BOOLEAN /\ x.window \in BOOLEAN
    /\ x.sent_subs \in 0 .. x.subs_length
    /\ x.pub_queue \in Seq(Items(early)) /\ Len(x.pub_queue) <= PubCapacity
    /\ x.rx_queue \in Seq(KnownFrames(early)) /\ Len(x.rx_queue) <= RxCapacity
    /\ x.peers_length \in 0 .. MAX_DEVICES - 1 /\ x.peers \in [Slots -> Peers]

\* The message stays in the transmit buffer, or in ack_tx_cache_buffer.
Buffers(x, early) ==
    /\ x.state \in States /\ x.message_id \in Ids
    /\ x.tx \in KnownFrames(early) /\ x.saved_tx \in KnownFrames(early)
    /\ x.message \in KnownFrames(early) /\ x.message.kind # "ack"
    /\ x.state \in {"TX", "TX_WAIT_ACK"} => x.tx = x.message
    /\ x.state = "TX_SEND_ACK" => x.saved_tx = x.message
    /\ x.state \in {"RX_SEND_ACK", "TX_SEND_ACK"} => x.tx.kind = "ack"

\* The attempts made and the attempts left add up, wherever the count is.
Counts(x) ==
    /\ x.transmit_count \in 0 .. x.TX_MAX_COUNT + 2 /\ x.saved_count \in 0 .. x.TX_MAX_COUNT
    /\ x.transmissions \in 0 .. x.TX_MAX_COUNT
    /\ x.state = "TX" =>
          /\ x.transmit_count > 0
          /\ x.transmissions + x.transmit_count <=
                x.TX_MAX_COUNT + (IF x.current = "TX" THEN 1 ELSE 0)
    /\ x.state = "TX" /\ x.current = "TX" => x.transmissions > 0
    /\ x.state = "TX_WAIT_ACK" => x.transmissions + x.transmit_count <= x.TX_MAX_COUNT
    /\ x.state = "TX_SEND_ACK" => x.transmissions + x.saved_count <= x.TX_MAX_COUNT
    /\ x.state # "TX" /\ x.message # NoFrame => x.transmissions > 0

\* A subscription is being registered while there is one to register.
Subs(x) ==
    x.state \in {"TX", "TX_WAIT_ACK", "TX_SEND_ACK"} /\ x.message.kind = "subreg"
        => x.sent_subs < x.subs_length

Target(s) == CASE s \in {"TX", "RX_SEND_ACK", "TX_SEND_ACK"} -> "TX"
               [] s \in {"RX", "TX_WAIT_ACK"} -> "RX"
               [] s = "SLEEP" -> "SLEEP"
Agrees(x) == x.desired = Target(x.state)

\* What the transceiver does, and what it has for the driver's task.
Transceiver(x, early) ==
    /\ x.current \in DriverStates /\ x.driver_plan \in Plans
    /\ x.timed \in BOOLEAN /\ x.irq_sent \in BOOLEAN
    /\ x.rx_fifo \in KnownFrames(early) \union {NONE, DISCARDED}
    /\ x.current = "TX" => x.desired = "TX" /\ (x.air # NONE \/ x.irq_sent)
    /\ x.air # NONE => x.current = "TX" /\ x.air = x.tx /\ ~ x.irq_sent
    /\ x.rx_fifo # NONE => x.current = "RX"
    /\ x.driver_plan = "timeout" => x.current = "RX"

\* The task's work is planned, unless the radio is busy or returns early.
HasWork(x) == x.pub_queue # <<>> \/ x.pairing_request = "yes" \/ x.rx_queue # <<>>
Work(x, early) == HasWork(x) => early \/ x.due \/ x.state \notin {"RX", "SLEEP"}

Body(x, early) == Whole(x) /\ Settled(x) /\ Local(x, early) /\ Buffers(x, early) /\ Counts(x)
                  /\ Subs(x) /\ Agrees(x)
Core(x, early) == Body(x, early) /\ Transceiver(x, early) /\ Work(x, early)

\* Between the tasks, the driver's next run is planned as well.
Planned(x) ==
    /\ x.desired # x.current => x.driver_plan = "now"
    /\ x.current = "TX" /\ x.air = NONE => x.driver_plan = "now"
    /\ x.rx_fifo # NONE => x.driver_plan = "now"

Sound(x, early) == Core(x, early) /\ Planned(x)

KnownBodies == {b \in Bodies : b \in UnknownOrder => EarlyReturns}

IInv ==
    /\ scenario \in Scenarios
    /\ to_publish \in [Radios -> Seq(KnownBodies)]
    /\ DOMAIN radio = Radios
    /\ \A r \in Radios : radio[r].self = r /\ Sound(radio[r], EarlyReturns)

-----------------------------------------------------------------------------
(***************************************************************************)
(* Records that differ in some fields.                                     *)
(***************************************************************************)
LEMMA SameTwice ==
    ASSUME NEW x, NEW y, NEW z, NEW S, NEW T, SameBut(y, x, S), SameBut(z, y, T)
    PROVE  SameBut(z, x, S \union T)
  BY DEF SameBut

LEMMA SameWider ==
    ASSUME NEW x, NEW y, NEW S, NEW T, SameBut(y, x, S), S \subseteq T
    PROVE  SameBut(y, x, T)
  BY DEF SameBut

LEMMA SameSelf == ASSUME NEW x, Whole(x), NEW S PROVE SameBut(x, x, S)
  BY DEF SameBut

\* What only local fields differ in has the same settings and link.
LEMMA LocalSame ==
    ASSUME NEW x, NEW y, SameBut(y, x, LocalFields)
    PROVE  /\ Whole(y)
           /\ y.self = x.self /\ y.mode = x.mode /\ y.window_after_ack = x.window_after_ack
           /\ y.TX_MAX_COUNT = x.TX_MAX_COUNT /\ y.subs_length = x.subs_length
           /\ y.state = x.state /\ y.message_id = x.message_id
           /\ y.transmit_count = x.transmit_count /\ y.tx = x.tx /\ y.saved_tx = x.saved_tx
           /\ y.saved_count = x.saved_count /\ y.timed = x.timed /\ y.desired = x.desired
           /\ y.current = x.current /\ y.driver_plan = x.driver_plan /\ y.air = x.air
           /\ y.irq_sent = x.irq_sent /\ y.rx_fifo = x.rx_fifo /\ y.message = x.message
           /\ y.transmissions = x.transmissions
  BY DEF SameBut, Fields, Settings, LinkFields, LocalFields

\* What only the link's fields differ in has the same settings and the same
\* to do.
LEMMA LinkSame ==
    ASSUME NEW x, NEW y, SameBut(y, x, LinkFields)
    PROVE  /\ Whole(y)
           /\ y.self = x.self /\ y.mode = x.mode /\ y.window_after_ack = x.window_after_ack
           /\ y.TX_MAX_COUNT = x.TX_MAX_COUNT /\ y.subs_length = x.subs_length
           /\ y.my_id = x.my_id /\ y.ack = x.ack /\ y.due = x.due
           /\ y.pairing_request = x.pairing_request /\ y.pairing_mode = x.pairing_mode
           /\ y.automatic_pairing = x.automatic_pairing /\ y.sent_subs = x.sent_subs
           /\ y.pub_queue = x.pub_queue /\ y.rx_queue = x.rx_queue /\ y.peers = x.peers
           /\ y.peers_length = x.peers_length /\ y.window = x.window
  BY DEF SameBut, Fields, Settings, LinkFields, LocalFields

(***************************************************************************)
(* A quiet change: to local fields only, and it plans the task if it makes *)
(* it work.                                                                *)
(***************************************************************************)
Quiet(y, x, early) ==
    /\ SameBut(y, x, LocalFields)
    /\ Local(x, early) => Local(y, early)
    /\ Work(x, early) => Work(y, early)
    /\ y.sent_subs <= x.sent_subs

LEMMA QuietCore ==
    ASSUME NEW early \in BOOLEAN, NEW x, NEW y, Core(x, early), Quiet(y, x, early)
    PROVE  Core(y, early)
<1>1. Settled(y)
  BY LocalSame DEF Core, Body, Settled, Quiet
<1>2. Buffers(y, early)
  BY LocalSame DEF Core, Body, Buffers, Quiet
<1>3. Counts(y)
  BY LocalSame DEF Core, Body, Counts, Quiet
<1>4. Subs(y)
  <2>1. x.sent_subs \in Int /\ y.sent_subs \in Int /\ x.subs_length \in Int
    BY LocalSame DEF Core, Body, Local, Settled, Quiet
  <2> QED
    BY <2>1, LocalSame DEF Core, Body, Subs, Quiet
<1>5. Agrees(y) /\ Transceiver(y, early)
  BY LocalSame DEF Core, Body, Agrees, Transceiver, Quiet
<1> QED
  BY <1>1, <1>2, <1>3, <1>4, <1>5, LocalSame DEF Core, Body, Quiet

LEMMA QuietTwice ==
    ASSUME NEW early, NEW x, NEW y, NEW z, Local(x, early),
           Quiet(y, x, early), Quiet(z, y, early)
    PROVE  Quiet(z, x, early)
<1>1. SameBut(z, x, LocalFields)
  BY SameTwice, SameWider DEF Quiet
<1>2. Local(y, early) /\ Local(z, early)
  BY DEF Quiet
<1>3. z.sent_subs <= x.sent_subs
  <2>1. x.sent_subs \in Int /\ y.sent_subs \in Int /\ z.sent_subs \in Int
    BY <1>2 DEF Local
  <2> QED
    BY <2>1 DEF Quiet
<1> QED
  BY <1>1, <1>2, <1>3 DEF Quiet

(***************************************************************************)
(* The peer table and the queues.                                          *)
(***************************************************************************)
LEMMA PubPutQuiet ==
    ASSUME NEW early \in BOOLEAN, NEW x, Whole(x), Local(x, early), NEW item \in Items(early)
    PROVE  Quiet(PubPut(x, item), x, early)
<1>1. CASE Len(x.pub_queue) < PubCapacity
  <2> DEFINE y == [x EXCEPT !.pub_queue = Append(@, item), !.due = TRUE]
  <2>1. SameBut(y, x, {"pub_queue", "due"}) /\ y.pub_queue = Append(x.pub_queue, item) /\ y.due
    BY DEF Whole, SameBut, Fields, LocalFields
  <2> HIDE DEF y
  <2>2. SameBut(y, x, LocalFields)
    BY <2>1, SameWider DEF LocalFields
  <2>3. /\ y.pub_queue \in Seq(Items(early))
        /\ Len(y.pub_queue) <= PubCapacity
    BY <2>1, <1>1, LimitAssumption DEF Local
  <2>4. /\ y.my_id = x.my_id /\ y.self = x.self /\ y.ack = x.ack
        /\ y.pairing_request = x.pairing_request /\ y.pairing_mode = x.pairing_mode
        /\ y.automatic_pairing = x.automatic_pairing /\ y.sent_subs = x.sent_subs
        /\ y.rx_queue = x.rx_queue /\ y.peers = x.peers /\ y.peers_length = x.peers_length
        /\ y.window = x.window /\ y.subs_length = x.subs_length
    BY <2>1 DEF SameBut, Fields, LocalFields, Settings
  <2>5. Local(y, early)
    BY <2>1, <2>3, <2>4 DEF Local
  <2>6. y.sent_subs <= x.sent_subs
    BY <2>4 DEF Local
  <2>7. PubPut(x, item) = y
    BY <1>1 DEF PubPut, y
  <2> QED
    BY <2>1, <2>2, <2>5, <2>6, <2>7 DEF Quiet, Work
<1>2. CASE ~ Len(x.pub_queue) < PubCapacity
  BY <1>2, SameSelf DEF PubPut, Quiet, Local
<1> QED
  BY <1>1, <1>2

TableFields == {"peers", "peers_length", "removed", "due"}

LEMMA TableQuiet ==
    ASSUME NEW early \in BOOLEAN, NEW x, NEW y, Local(x, early), SameBut(y, x, TableFields),
           y.peers \in [Slots -> Peers], y.peers_length \in 0 .. MAX_DEVICES - 1,
           y.due \in BOOLEAN, x.due => y.due
    PROVE  Quiet(y, x, early)
<1>1. SameBut(y, x, LocalFields)
  BY SameWider DEF LocalFields, TableFields
<1>2. /\ y.my_id = x.my_id /\ y.self = x.self /\ y.ack = x.ack
      /\ y.pairing_request = x.pairing_request /\ y.pairing_mode = x.pairing_mode
      /\ y.automatic_pairing = x.automatic_pairing /\ y.sent_subs = x.sent_subs
      /\ y.rx_queue = x.rx_queue /\ y.pub_queue = x.pub_queue
      /\ y.window = x.window /\ y.subs_length = x.subs_length /\ y.state = x.state
  BY DEF SameBut, Fields, LocalFields, LinkFields, Settings, TableFields
<1>3. Local(y, early)
  BY <1>2 DEF Local
<1>4. y.sent_subs <= x.sent_subs
  BY <1>2 DEF Local
<1>5. Work(x, early) => Work(y, early)
  BY <1>2 DEF Work, HasWork
<1> QED
  BY <1>1, <1>3, <1>4, <1>5 DEF Quiet

\* A peer written anywhere leaves a table of peers.
LEMMA JoinedTable ==
    ASSUME NEW peers \in [Slots -> Peers], NEW i, NEW id \in Radios \union {NONE}
    PROVE  Joined(peers, i, id) \in [Slots -> Peers]
<1>1. \A p \in Peers : [p EXCEPT !.id = id, !.synced = FALSE] \in Peers
  BY DEF Peers
<1> QED
  BY <1>1 DEF Joined

LEMMA HeardTable ==
    ASSUME NEW peers \in [Slots -> Peers], NEW i, NEW id \in Ids, NEW synced \in BOOLEAN
    PROVE  Heard(peers, i, id, synced) \in [Slots -> Peers]
<1>1. \A p \in Peers : [p EXCEPT !.message_id = id, !.synced = synced] \in Peers
  BY DEF Peers
<1> QED
  BY <1>1 DEF Heard

LEMMA RemovedTable ==
    ASSUME NEW peers \in [Slots -> Peers], NEW i, NEW last \in Slots
    PROVE  [peers EXCEPT ![i] = IF i # last THEN peers[last] ELSE [@ EXCEPT !.id = NONE]]
              \in [Slots -> Peers]
<1>1. \A p \in Peers : [p EXCEPT !.id = NONE] \in Peers
  BY DEF Peers
<1> QED
  BY <1>1

LEMMA PeerDeviceAddQuiet ==
    ASSUME NEW early \in BOOLEAN, NEW x, Whole(x), Local(x, early),
           NEW id \in Radios \union {NONE}
    PROVE  Quiet(PeerDeviceAdd(x, id), x, early)
<1>1. CASE CanAdd(x, id)
  <2> DEFINE y == [x EXCEPT
                     !.peers = Joined(@, x.peers_length, id),
                     !.peers_length = @ + 1,
                     !.removed = @ \ {id},
                     !.due = TRUE]
             item == [kind |-> "attach", body |-> id]
  <2>1. /\ SameBut(y, x, TableFields) /\ y.peers_length = x.peers_length + 1 /\ y.due
        /\ y.peers = Joined(x.peers, x.peers_length, id)
    BY DEF Whole, SameBut, Fields, LocalFields, TableFields
  <2> HIDE DEF y
  <2>2. y.peers \in [Slots -> Peers]
    BY <2>1, JoinedTable DEF Local
  <2>3. y.peers_length \in 0 .. MAX_DEVICES - 1
    BY <2>1, <1>1, LimitAssumption DEF Local, CanAdd
  <2>4. Quiet(y, x, early)
    BY <2>1, <2>2, <2>3, TableQuiet
  <2>5. Whole(y) /\ Local(y, early)
    BY <2>4, LocalSame DEF Quiet
  <2>6. item \in Items(early)
    BY DEF Items
  <2>7. Quiet(PubPut(y, item), y, early)
    BY <2>5, <2>6, PubPutQuiet
  <2>8. PeerDeviceAdd(x, id) = PubPut(y, item)
    BY <1>1 DEF PeerDeviceAdd, y
  <2> QED
    BY <2>4, <2>7, <2>8, QuietTwice
<1>2. CASE ~ CanAdd(x, id)
  BY <1>2, SameSelf DEF PeerDeviceAdd, Quiet, Local
<1> QED
  BY <1>1, <1>2

LEMMA RemovePeerQuiet ==
    ASSUME NEW early \in BOOLEAN, NEW x, Whole(x), Local(x, early), NEW id
    PROVE  Quiet(RemovePeer(x, id), x, early)
<1>1. CASE IsPeer(x, id)
  <2> DEFINE i == PeerSlot(x, id)
             last == x.peers_length - 1
             y == RemovePeer(x, id)
  <2>1. last \in Slots /\ last \in 0 .. MAX_DEVICES - 1
    BY <1>1, LimitAssumption DEF Local, IsPeer, PeerSlots, Slots
  <2> HIDE DEF i, last
  <2>2. y = [x EXCEPT
               !.peers = [x.peers EXCEPT ![i] = IF i # last THEN x.peers[last]
                                                ELSE [@ EXCEPT !.id = NONE]],
               !.peers_length = last,
               !.removed = @ \union {id},
               !.due = TRUE]
    BY <1>1, Zenon DEF RemovePeer, i, last, y
  <2> HIDE DEF y
  <2>3. /\ SameBut(y, x, TableFields) /\ y.peers_length = last /\ y.due
        /\ y.peers = [x.peers EXCEPT ![i] = IF i # last THEN x.peers[last]
                                            ELSE [@ EXCEPT !.id = NONE]]
    BY <2>2 DEF Whole, SameBut, Fields, LocalFields, TableFields
  <2>4. y.peers \in [Slots -> Peers]
    <3>1. x.peers \in [Slots -> Peers]
      BY DEF Local
    <3>2. \A p \in [Slots -> Peers] :
            [p EXCEPT ![i] = IF i # last THEN p[last] ELSE [@ EXCEPT !.id = NONE]]
               \in [Slots -> Peers]
      BY <2>1, RemovedTable
    <3> QED
      BY <2>3, <3>1, <3>2
  <2> QED
    BY <2>1, <2>3, <2>4, TableQuiet DEF y
<1>2. CASE ~ IsPeer(x, id)
  BY <1>2, SameSelf DEF RemovePeer, Quiet, Local
<1> QED
  BY <1>1, <1>2

LEMMA DueQuiet ==
    ASSUME NEW early \in BOOLEAN, NEW x, Whole(x), Local(x, early)
    PROVE  Quiet([x EXCEPT !.due = TRUE], x, early)
<1> DEFINE y == [x EXCEPT !.due = TRUE]
<1>1. /\ SameBut(y, x, TableFields) /\ y.due
      /\ y.peers = x.peers /\ y.peers_length = x.peers_length
  BY DEF Whole, SameBut, Fields, LocalFields, TableFields
<1> QED
  BY <1>1, TableQuiet DEF Local

LEMMA PeerDeviceRemoveQuiet ==
    ASSUME NEW early \in BOOLEAN, NEW x, Whole(x), Local(x, early), NEW id \in Radios
    PROVE  Quiet(PeerDeviceRemove(x, id), x, early)
<1>1. CASE IsPeer(x, id)
  <2> DEFINE y == RemovePeer(x, id)
             item == [kind |-> "detach", body |-> id]
             z == PubPut(y, item)
  <2>1. Quiet(y, x, early)
    BY RemovePeerQuiet
  <2>2. Whole(y) /\ Local(y, early)
    BY <2>1, LocalSame DEF Quiet
  <2>3. item \in Items(early)
    BY DEF Items
  <2>4. Quiet(z, y, early)
    BY <2>2, <2>3, PubPutQuiet
  <2>5. Whole(z) /\ Local(z, early)
    BY <2>2, <2>4, LocalSame DEF Quiet
  <2>6. Quiet([z EXCEPT !.due = TRUE], z, early)
    BY <2>5, DueQuiet
  <2>7. PeerDeviceRemove(x, id) = [z EXCEPT !.due = TRUE]
    BY <1>1 DEF PeerDeviceRemove
  <2> HIDE DEF y, z
  <2>8. Quiet(z, x, early)
    BY <2>1, <2>4, QuietTwice
  <2> QED
    BY <2>6, <2>7, <2>8, QuietTwice
<1>2. CASE ~ IsPeer(x, id)
  BY <1>2, SameSelf DEF PeerDeviceRemove, Quiet, Local
<1> QED
  BY <1>1, <1>2

LEMMA RxPutQuiet ==
    ASSUME NEW early \in BOOLEAN, NEW x, Whole(x), Local(x, early),
           NEW frame \in KnownFrames(early)
    PROVE  Quiet(RxPut(x, frame), x, early)
<1> DEFINE S == {"rx_queue", "accepted", "due"}
           y == RxPut(x, frame)
<1> PICK rx : rx = IF Len(x.rx_queue) < RxCapacity THEN Append(x.rx_queue, frame)
                   ELSE x.rx_queue
  OBVIOUS
<1> PICK accepted : accepted = IF frame.kind = "pub" THEN Append(x.accepted, frame)
                               ELSE x.accepted
  OBVIOUS
<1>1. y = [x EXCEPT !.rx_queue = rx, !.accepted = accepted, !.due = TRUE]
  BY DEF RxPut
<1> HIDE DEF y
<1>2. SameBut(y, x, S) /\ y.rx_queue = rx /\ y.due
  BY <1>1 DEF Whole, SameBut, Fields, LocalFields
<1>3. rx \in Seq(KnownFrames(early)) /\ Len(rx) <= RxCapacity
  BY LimitAssumption DEF Local
<1>4. /\ y.my_id = x.my_id /\ y.self = x.self /\ y.ack = x.ack
      /\ y.pairing_request = x.pairing_request /\ y.pairing_mode = x.pairing_mode
      /\ y.automatic_pairing = x.automatic_pairing /\ y.sent_subs = x.sent_subs
      /\ y.pub_queue = x.pub_queue /\ y.peers = x.peers /\ y.peers_length = x.peers_length
      /\ y.window = x.window /\ y.subs_length = x.subs_length
  BY <1>2 DEF SameBut, Fields, LocalFields, Settings
<1>5. Local(y, early)
  BY <1>2, <1>3, <1>4 DEF Local
<1>6. SameBut(y, x, LocalFields)
  BY <1>2, SameWider DEF LocalFields
<1>7. y.sent_subs <= x.sent_subs
  BY <1>4 DEF Local
<1> QED
  BY <1>2, <1>5, <1>6, <1>7 DEF Quiet, Work, y

\* The changes of one flag that the application and the other radios make.
LEMMA FlagsQuiet ==
    ASSUME NEW early \in BOOLEAN, NEW x, Whole(x), Local(x, early)
    PROVE  /\ Quiet([x EXCEPT !.pairing_request = "yes", !.due = TRUE], x, early)
           /\ early => Quiet([x EXCEPT !.pairing_request = "long", !.due = TRUE], x, early)
           /\ Quiet([x EXCEPT !.pairing_mode = ~ @], x, early)
           /\ Quiet([x EXCEPT !.automatic_pairing = ~ @], x, early)
           /\ Quiet([x EXCEPT !.window = TRUE, !.due = TRUE], x, early)
           /\ Quiet([x EXCEPT !.pub_queue = <<>>], x, early)
           /\ Quiet([x EXCEPT !.my_id = x.self], x, early)
<1> DEFINE S == {"pairing_request", "pairing_mode", "automatic_pairing", "window", "my_id",
                 "pub_queue", "due"}
<1>1. ASSUME NEW y, SameBut(y, x, S), y.due \in BOOLEAN, x.due => y.due,
             y.pairing_request \in {"no", "yes", "long"}, y.pairing_request = "long" => early,
             y.pairing_mode \in BOOLEAN, y.automatic_pairing \in BOOLEAN, y.window \in BOOLEAN,
             y.my_id \in {NONE, x.self}, y.pub_queue \in {x.pub_queue, <<>>},
             y.due = TRUE \/ y.pairing_request = x.pairing_request
      PROVE  Quiet(y, x, early)
  <2>1. /\ y.self = x.self /\ y.ack = x.ack /\ y.sent_subs = x.sent_subs
        /\ y.rx_queue = x.rx_queue /\ y.peers = x.peers /\ y.peers_length = x.peers_length
        /\ y.subs_length = x.subs_length /\ y.state = x.state
    BY <1>1 DEF SameBut, Fields, LocalFields, LinkFields, Settings
  <2>2. y.pub_queue \in Seq(Items(early)) /\ Len(y.pub_queue) <= PubCapacity
    <3>1. x.pub_queue \in Seq(Items(early)) /\ Len(x.pub_queue) <= PubCapacity
      BY DEF Local
    <3>2. <<>> \in Seq(Items(early)) /\ Len(<<>>) <= PubCapacity
      BY LimitAssumption
    <3> QED
      BY <1>1, <3>1, <3>2
  <2>3. Local(y, early)
    BY <1>1, <2>1, <2>2 DEF Local
  <2>4. SameBut(y, x, LocalFields)
    BY <1>1, SameWider DEF LocalFields
  <2>5. y.sent_subs <= x.sent_subs
    BY <2>1 DEF Local
  <2>6. Work(x, early) => Work(y, early)
    <3>1. CASE y.due = TRUE
      BY <3>1 DEF Work
    <3>2. CASE y.pairing_request = x.pairing_request
      <4>1. HasWork(y) => HasWork(x)
        BY <1>1, <2>1, <3>2 DEF HasWork
      <4>2. x.due => y.due
        BY <1>1
      <4> QED
        BY <2>1, <4>1, <4>2 DEF Work
    <3> QED
      BY <1>1, <3>1, <3>2
  <2> QED
    BY <2>3, <2>4, <2>5, <2>6 DEF Quiet
<1>2. Quiet([x EXCEPT !.pairing_request = "yes", !.due = TRUE], x, early)
  <2> DEFINE y == [x EXCEPT !.pairing_request = "yes", !.due = TRUE]
  <2>1. SameBut(y, x, S) /\ y.due = TRUE /\ y.pairing_request = "yes"
        /\ y.pairing_mode = x.pairing_mode /\ y.automatic_pairing = x.automatic_pairing
        /\ y.window = x.window /\ y.my_id = x.my_id /\ y.pub_queue = x.pub_queue
    BY DEF Whole, SameBut, Fields, LocalFields
  <2> QED
    BY <1>1, <2>1 DEF Local
<1>3. ASSUME early
      PROVE  Quiet([x EXCEPT !.pairing_request = "long", !.due = TRUE], x, early)
  <2> DEFINE y == [x EXCEPT !.pairing_request = "long", !.due = TRUE]
  <2>1. SameBut(y, x, S) /\ y.due = TRUE /\ y.pairing_request = "long"
        /\ y.pairing_mode = x.pairing_mode /\ y.automatic_pairing = x.automatic_pairing
        /\ y.window = x.window /\ y.my_id = x.my_id /\ y.pub_queue = x.pub_queue
    BY DEF Whole, SameBut, Fields, LocalFields
  <2> QED
    BY <1>1, <1>3, <2>1 DEF Local
<1>4. Quiet([x EXCEPT !.pairing_mode = ~ @], x, early)
  <2> DEFINE y == [x EXCEPT !.pairing_mode = ~ @]
  <2>1. SameBut(y, x, S) /\ y.due = x.due /\ y.pairing_request = x.pairing_request
        /\ y.automatic_pairing = x.automatic_pairing
        /\ y.window = x.window /\ y.my_id = x.my_id /\ y.pub_queue = x.pub_queue
    BY DEF Whole, SameBut, Fields, LocalFields
  <2>2. y.pairing_mode \in BOOLEAN
    BY DEF Whole, Fields, LocalFields
  <2> QED
    BY <1>1, <2>1, <2>2 DEF Local
<1>5. Quiet([x EXCEPT !.automatic_pairing = ~ @], x, early)
  <2> DEFINE y == [x EXCEPT !.automatic_pairing = ~ @]
  <2>1. SameBut(y, x, S) /\ y.due = x.due /\ y.pairing_request = x.pairing_request
        /\ y.pairing_mode = x.pairing_mode
        /\ y.window = x.window /\ y.my_id = x.my_id /\ y.pub_queue = x.pub_queue
    BY DEF Whole, SameBut, Fields, LocalFields
  <2>2. y.automatic_pairing \in BOOLEAN
    BY DEF Whole, Fields, LocalFields
  <2> QED
    BY <1>1, <2>1, <2>2 DEF Local
<1>6. Quiet([x EXCEPT !.window = TRUE, !.due = TRUE], x, early)
  <2> DEFINE y == [x EXCEPT !.window = TRUE, !.due = TRUE]
  <2>1. SameBut(y, x, S) /\ y.due = TRUE /\ y.pairing_request = x.pairing_request
        /\ y.pairing_mode = x.pairing_mode /\ y.automatic_pairing = x.automatic_pairing
        /\ y.window = TRUE /\ y.my_id = x.my_id /\ y.pub_queue = x.pub_queue
    BY DEF Whole, SameBut, Fields, LocalFields
  <2> QED
    BY <1>1, <2>1 DEF Local
<1>7. Quiet([x EXCEPT !.pub_queue = <<>>], x, early)
  <2> DEFINE y == [x EXCEPT !.pub_queue = <<>>]
  <2>1. SameBut(y, x, S) /\ y.due = x.due /\ y.pairing_request = x.pairing_request
        /\ y.pairing_mode = x.pairing_mode /\ y.automatic_pairing = x.automatic_pairing
        /\ y.window = x.window /\ y.my_id = x.my_id /\ y.pub_queue = <<>>
    BY DEF Whole, SameBut, Fields, LocalFields
  <2> QED
    BY <1>1, <2>1 DEF Local
<1>8. Quiet([x EXCEPT !.my_id = x.self], x, early)
  <2> DEFINE y == [x EXCEPT !.my_id = x.self]
  <2>1. SameBut(y, x, S) /\ y.due = x.due /\ y.pairing_request = x.pairing_request
        /\ y.pairing_mode = x.pairing_mode /\ y.automatic_pairing = x.automatic_pairing
        /\ y.window = x.window /\ y.my_id = x.self /\ y.pub_queue = x.pub_queue
    BY DEF Whole, SameBut, Fields, LocalFields
  <2> QED
    BY <1>1, <2>1 DEF Local
<1> QED
  BY <1>2, <1>3, <1>4, <1>5, <1>6, <1>7, <1>8

LEMMA ReportQuiet ==
    ASSUME NEW early \in BOOLEAN, NEW x, Whole(x), Local(x, early), NEW result
    PROVE  Quiet(Report(x, result), x, early)
<1>1. CASE x.message.kind = "pub"
  <2> PICK outcome : outcome = Append(x.outcome, [frame |-> x.message, result |-> result])
    OBVIOUS
  <2> DEFINE y == [x EXCEPT !.outcome = outcome]
  <2>1. /\ SameBut(y, x, {"outcome"}) /\ y.self = x.self /\ y.my_id = x.my_id /\ y.ack = x.ack
        /\ y.due = x.due /\ y.pairing_request = x.pairing_request
        /\ y.pairing_mode = x.pairing_mode /\ y.automatic_pairing = x.automatic_pairing
        /\ y.sent_subs = x.sent_subs /\ y.subs_length = x.subs_length
        /\ y.pub_queue = x.pub_queue /\ y.rx_queue = x.rx_queue /\ y.peers = x.peers
        /\ y.peers_length = x.peers_length /\ y.window = x.window /\ y.state = x.state
    BY DEF Whole, SameBut, Fields, LocalFields, LinkFields, Settings
  <2>2. Report(x, result) = y
    BY <1>1 DEF Report
  <2> HIDE DEF y
  <2>3. Local(y, early)
    BY <2>1 DEF Local
  <2>4. SameBut(y, x, LocalFields)
    BY <2>1, SameWider DEF LocalFields
  <2>5. y.sent_subs <= x.sent_subs
    BY <2>1 DEF Local
  <2>6. Work(x, early) => Work(y, early)
    BY <2>1 DEF Work, HasWork
  <2> QED
    BY <2>2, <2>3, <2>4, <2>5, <2>6 DEF Quiet
<1>2. CASE x.message.kind # "pub"
  BY <1>2, SameSelf DEF Report, Quiet, Local
<1> QED
  BY <1>1, <1>2

-----------------------------------------------------------------------------
(***************************************************************************)
(* The changes of the protocol's state.  A step of a handler leaves the    *)
(* transceiver where it is, and plans the driver's task if it is to move.  *)
(***************************************************************************)
Step(y, x, early) ==
    /\ Core(y, early) /\ y.current = x.current /\ y.self = x.self
    /\ y.driver_plan = "now" \/ (y.desired = x.desired /\ y.driver_plan = x.driver_plan)

LEMMA StepTwice ==
    ASSUME NEW early, NEW x, NEW y, NEW z, Step(y, x, early), Step(z, y, early)
    PROVE  Step(z, x, early)
  BY DEF Step

LEMMA StepSelf == ASSUME NEW early, NEW x, Core(x, early) PROVE Step(x, x, early)
  BY DEF Step

LEMMA QuietStep ==
    ASSUME NEW early \in BOOLEAN, NEW x, NEW y, Core(x, early), Quiet(y, x, early)
    PROVE  Step(y, x, early)
<1>1. Core(y, early)
  BY QuietCore
<1> QED
  BY <1>1, LocalSame DEF Step, Quiet

\* What is left of Core when the end of a message has been dealt with.
Loose(x, early) ==
    Whole(x) /\ Settled(x) /\ Local(x, early) /\ Buffers(x, early) /\ Counts(x)

RestFields == {"state", "desired", "driver_plan", "timed", "window", "due"}

LEMMA GoToRests ==
    ASSUME NEW x, Whole(x), x.state # "TX", x.window \in BOOLEAN, x.timed \in BOOLEAN,
           NEW open
    PROVE  LET y == GoToRxOrSleep(x, open) IN
           /\ SameBut(y, x, RestFields) /\ y.state \in {"RX", "SLEEP"}
           /\ y.desired = y.state /\ y.driver_plan = "now" /\ y.due = TRUE
           /\ y.window \in BOOLEAN /\ y.timed \in BOOLEAN
<1>1. CASE x.mode = "NODE_SLEEPING" /\ ~ (x.window /\ open)
  <2> DEFINE y == [x EXCEPT !.desired = "SLEEP", !.driver_plan = "now"]
             z == [y EXCEPT !.state = "SLEEP", !.window = FALSE, !.due = TRUE]
  <2>1. SameBut(y, x, {"desired", "driver_plan"}) /\ y.desired = "SLEEP"
        /\ y.driver_plan = "now" /\ y.timed = x.timed
    BY DEF Whole, SameBut, Fields, LinkFields
  <2> HIDE DEF y
  <2>2. SameBut(z, y, {"state", "window", "due"}) /\ z.state = "SLEEP" /\ z.window = FALSE
        /\ z.due = TRUE /\ z.desired = y.desired /\ z.driver_plan = y.driver_plan
        /\ z.timed = y.timed
    BY <2>1 DEF Whole, SameBut, Fields, LinkFields, LocalFields
  <2>3. GoToRxOrSleep(x, open) = z
    BY <1>1 DEF GoToRxOrSleep, SpiritSleep, Desire, y, z
  <2> HIDE DEF z
  <2>4. SameBut(z, x, RestFields)
    BY <2>1, <2>2, SameTwice, SameWider DEF RestFields
  <2> QED
    BY <2>1, <2>2, <2>3, <2>4
<1>2. CASE ~ (x.mode = "NODE_SLEEPING" /\ ~ (x.window /\ open))
  <2> PICK timed \in BOOLEAN : timed = (x.mode = "NODE_SLEEPING")
    OBVIOUS
  <2> DEFINE y == [x EXCEPT !.desired = "RX", !.driver_plan = "now"]
             w == [y EXCEPT !.timed = timed]
             z == [w EXCEPT !.state = "RX", !.due = TRUE]
  <2>1. SameBut(y, x, {"desired", "driver_plan"}) /\ y.desired = "RX"
        /\ y.driver_plan = "now" /\ y.window = x.window
    BY DEF Whole, SameBut, Fields, LinkFields, LocalFields
  <2> HIDE DEF y
  <2>2. SameBut(w, y, {"timed"}) /\ w.desired = "RX"
        /\ w.driver_plan = "now" /\ w.timed = timed /\ w.window = x.window
    BY <2>1 DEF Whole, SameBut, Fields, LinkFields, LocalFields
  <2> HIDE DEF w
  <2>3. SameBut(z, w, {"state", "due"}) /\ z.state = "RX"
        /\ z.due = TRUE /\ z.desired = "RX" /\ z.driver_plan = "now"
        /\ z.timed = timed /\ z.window = x.window
    BY <2>2 DEF Whole, SameBut, Fields, LinkFields, LocalFields
  <2>4. GoToRxOrSleep(x, open) = z
    BY <1>2 DEF GoToRxOrSleep, SpiritRx, Desire, y, w, z
  <2> HIDE DEF z
  <2>5. SameBut(z, x, RestFields)
    BY <2>1, <2>2, <2>3, SameTwice, SameWider DEF RestFields
  <2> QED
    BY <2>3, <2>4, <2>5
<1> QED
  BY <1>1, <1>2

LEMMA GoToBody ==
    ASSUME NEW early \in BOOLEAN, NEW x, Loose(x, early), x.state # "TX",
           x.timed \in BOOLEAN, NEW open
    PROVE  LET y == GoToRxOrSleep(x, open) IN
           /\ Body(y, early) /\ Work(y, early) /\ y.driver_plan = "now"
           /\ y.state \in {"RX", "SLEEP"}
           /\ y.current = x.current /\ y.air = x.air /\ y.rx_fifo = x.rx_fifo
           /\ y.irq_sent = x.irq_sent /\ y.timed \in BOOLEAN /\ y.self = x.self
           /\ y.message = x.message
<1> DEFINE y == GoToRxOrSleep(x, open)
<1>1. /\ SameBut(y, x, RestFields) /\ y.state \in {"RX", "SLEEP"}
      /\ y.desired = y.state /\ y.driver_plan = "now" /\ y.due = TRUE
      /\ y.window \in BOOLEAN /\ y.timed \in BOOLEAN
  BY GoToRests DEF Loose, Local
<1> HIDE DEF y
<1>2. /\ y.self = x.self /\ y.TX_MAX_COUNT = x.TX_MAX_COUNT /\ y.subs_length = x.subs_length
      /\ y.my_id = x.my_id /\ y.ack = x.ack /\ y.pairing_request = x.pairing_request
      /\ y.pairing_mode = x.pairing_mode /\ y.automatic_pairing = x.automatic_pairing
      /\ y.sent_subs = x.sent_subs /\ y.pub_queue = x.pub_queue /\ y.rx_queue = x.rx_queue
      /\ y.peers = x.peers /\ y.peers_length = x.peers_length
      /\ y.mode = x.mode /\ y.window_after_ack = x.window_after_ack
  BY <1>1 DEF SameBut, Fields, LinkFields, LocalFields, Settings, RestFields
<1>3. /\ y.message_id = x.message_id /\ y.tx = x.tx /\ y.saved_tx = x.saved_tx
      /\ y.message = x.message /\ y.transmit_count = x.transmit_count
      /\ y.saved_count = x.saved_count /\ y.transmissions = x.transmissions
      /\ y.current = x.current /\ y.air = x.air /\ y.rx_fifo = x.rx_fifo
      /\ y.irq_sent = x.irq_sent
  BY <1>1 DEF SameBut, Fields, LinkFields, LocalFields, Settings, RestFields
<1>4. Settled(y)
  BY <1>2 DEF Loose, Settled
<1>5. Local(y, early)
  BY <1>1, <1>2 DEF Loose, Local
<1>6. Buffers(y, early)
  BY <1>1, <1>3 DEF Loose, Buffers, States
<1>7. Counts(y)
  BY <1>1, <1>2, <1>3 DEF Loose, Counts
<1>8. Subs(y) /\ Agrees(y) /\ Work(y, early)
  BY <1>1 DEF Subs, Agrees, Target, Work
<1>9. Whole(y)
  BY <1>1 DEF SameBut
<1> QED
  BY <1>1, <1>2, <1>3, <1>4, <1>5, <1>6, <1>7, <1>8, <1>9 DEF Body, y

LEMMA GoToStep ==
    ASSUME NEW early \in BOOLEAN, NEW x, Loose(x, early), Transceiver(x, early),
           x.state # "TX", x.current # "TX", NEW open
    PROVE  /\ Step(GoToRxOrSleep(x, open), x, early)
           /\ GoToRxOrSleep(x, open).state \in {"RX", "SLEEP"}
<1> DEFINE y == GoToRxOrSleep(x, open)
<1>1. /\ Body(y, early) /\ Work(y, early) /\ y.driver_plan = "now"
      /\ y.state \in {"RX", "SLEEP"}
      /\ y.current = x.current /\ y.air = x.air /\ y.rx_fifo = x.rx_fifo
      /\ y.irq_sent = x.irq_sent /\ y.timed \in BOOLEAN /\ y.self = x.self
  BY GoToBody DEF Transceiver
<1> HIDE DEF y
<1>2. Transceiver(y, early)
  BY <1>1 DEF Transceiver, Plans
<1>3. Core(y, early)
  BY <1>1, <1>2 DEF Core
<1> QED
  BY <1>1, <1>3 DEF Step, y

\* A frame that a radio may answer.
Heeded(frame) == frame.src \in Radios \union {NONE} /\ frame.id \in Ids
AckBodies == Radios \union {NONE, ACK_SUB_REQUEST}

LEMMA SendAckStep ==
    ASSUME NEW early \in BOOLEAN, NEW x, Core(x, early), x.current # "TX",
           NEW frame, Heeded(frame), NEW body \in AckBodies
    PROVE  Step(SendAck(x, frame, body), x, early)
<1> DEFINE ackFrame == [src |-> frame.src, id |-> frame.id, kind |-> "ack", body |-> body]
           d == [x EXCEPT !.desired = "TX", !.driver_plan = "now"]
           ack == [d EXCEPT !.tx = ackFrame, !.transmit_count = 2]
           z == SendAck(x, frame, body)
<1>1. ackFrame \in KnownFrames(early) /\ ackFrame.kind = "ack"
  BY DEF Heeded, AckBodies, KnownFrames, Frames, Kinds
<1> HIDE DEF ackFrame
<1>2. SameBut(d, x, {"desired", "driver_plan"}) /\ d.desired = "TX" /\ d.driver_plan = "now"
  BY DEF Core, Body, Whole, SameBut, Fields, LinkFields
<1> HIDE DEF d
<1>3. SameBut(ack, d, {"tx", "transmit_count"}) /\ ack.desired = "TX"
      /\ ack.driver_plan = "now" /\ ack.tx = ackFrame /\ ack.transmit_count = 2
  BY <1>2 DEF Whole, SameBut, Fields, LinkFields
<1> HIDE DEF ack
<1>4. SameBut(ack, x, {"desired", "driver_plan", "tx", "transmit_count"})
  BY <1>2, <1>3, SameTwice, SameWider
<1>5. ASSUME NEW y, NEW S \in SUBSET LinkFields, SameBut(y, x, S),
             S \subseteq {"desired", "driver_plan", "tx", "transmit_count", "state",
                          "saved_tx", "saved_count"},
             y.desired = "TX", y.driver_plan = "now", y.tx = ackFrame, y.transmit_count = 2,
             \/ /\ x.state = "TX_WAIT_ACK" /\ y.state = "TX_SEND_ACK"
                /\ y.saved_tx = x.tx /\ y.saved_count = x.transmit_count
             \/ /\ x.state = "RX" /\ y.state = "RX_SEND_ACK"
                /\ y.saved_tx = x.saved_tx /\ y.saved_count = x.saved_count
      PROVE  Step(y, x, early)
  <2>1. /\ y.self = x.self /\ y.TX_MAX_COUNT = x.TX_MAX_COUNT /\ y.subs_length = x.subs_length
        /\ y.my_id = x.my_id /\ y.ack = x.ack /\ y.pairing_request = x.pairing_request
        /\ y.pairing_mode = x.pairing_mode /\ y.automatic_pairing = x.automatic_pairing
        /\ y.sent_subs = x.sent_subs /\ y.pub_queue = x.pub_queue /\ y.rx_queue = x.rx_queue
        /\ y.peers = x.peers /\ y.peers_length = x.peers_length /\ y.window = x.window
        /\ y.mode = x.mode /\ y.window_after_ack = x.window_after_ack /\ y.due = x.due
    <3>1. SameBut(y, x, LinkFields)
      BY <1>5, SameWider
    <3> QED
      BY <3>1, LinkSame
  <2>2. /\ y.message_id = x.message_id /\ y.message = x.message
        /\ y.transmissions = x.transmissions /\ y.timed = x.timed
        /\ y.current = x.current /\ y.air = x.air /\ y.rx_fifo = x.rx_fifo
        /\ y.irq_sent = x.irq_sent
    BY <1>5 DEF SameBut, Fields, LinkFields
  <2>3. Settled(y)
    BY <2>1 DEF Core, Body, Settled
  <2>4. Local(y, early)
    BY <2>1 DEF Core, Body, Local
  <2>5. Buffers(y, early)
    BY <1>1, <1>5, <2>2 DEF Core, Body, Buffers, States
  <2>6. Counts(y)
    <3>1. x.TX_MAX_COUNT \in Nat \ {0} /\ x.transmit_count \in Nat
      BY DEF Core, Body, Settled, Counts
    <3>2. CASE x.state = "TX_WAIT_ACK" /\ y.state = "TX_SEND_ACK"
      BY <1>5, <2>1, <2>2, <3>1, <3>2 DEF Core, Body, Counts
    <3>3. CASE x.state = "RX" /\ y.state = "RX_SEND_ACK"
      BY <1>5, <2>1, <2>2, <3>1, <3>3 DEF Core, Body, Counts
    <3> QED
      BY <1>5, <3>2, <3>3
  <2>7. Subs(y)
    BY <1>5, <2>1, <2>2 DEF Core, Body, Subs
  <2>8. Agrees(y) /\ Work(y, early)
    BY <1>5 DEF Agrees, Target, Work
  <2>9. Transceiver(y, early)
    BY <1>5, <2>2 DEF Core, Transceiver, Plans
  <2>10. Whole(y)
    BY <1>5 DEF SameBut
  <2> QED
    BY <1>5, <2>1, <2>2, <2>3, <2>4, <2>5, <2>6, <2>7, <2>8, <2>9, <2>10 DEF Core, Body, Step
<1>6. CASE x.state = "TX_WAIT_ACK"
  <2> DEFINE y == [ack EXCEPT !.state = "TX_SEND_ACK", !.saved_tx = x.tx,
                              !.saved_count = x.transmit_count]
  <2>1. /\ SameBut(y, ack, {"state", "saved_tx", "saved_count"})
        /\ y.state = "TX_SEND_ACK" /\ y.saved_tx = x.tx /\ y.saved_count = x.transmit_count
        /\ y.desired = "TX" /\ y.driver_plan = "now" /\ y.tx = ackFrame
        /\ y.transmit_count = 2
    BY <1>3 DEF Whole, SameBut, Fields, LinkFields
  <2>2. z = y
    BY <1>6 DEF SendAck, SpiritTx, Desire, ack, d, ackFrame
  <2> HIDE DEF y
  <2> DEFINE S == {"desired", "driver_plan", "tx", "transmit_count"}
                  \union {"state", "saved_tx", "saved_count"}
  <2>3. SameBut(y, x, S)
    BY <2>1, <1>4, SameTwice
  <2>4. S \subseteq LinkFields
    BY DEF LinkFields
  <2> QED
    BY <1>5, <1>6, <2>1, <2>2, <2>3, <2>4
<1>7. CASE x.state = "RX"
  <2> DEFINE y == [ack EXCEPT !.state = "RX_SEND_ACK"]
  <2>1. /\ SameBut(y, ack, {"state"})
        /\ y.state = "RX_SEND_ACK" /\ y.saved_tx = ack.saved_tx
        /\ y.saved_count = ack.saved_count
        /\ y.desired = "TX" /\ y.driver_plan = "now" /\ y.tx = ackFrame
        /\ y.transmit_count = 2
    BY <1>3 DEF Whole, SameBut, Fields, LinkFields
  <2>2. z = y
    BY <1>7 DEF SendAck, SpiritTx, Desire, ack, d, ackFrame
  <2>3. ack.saved_tx = x.saved_tx /\ ack.saved_count = x.saved_count
    BY <1>4 DEF SameBut, Fields, LinkFields
  <2> HIDE DEF y
  <2> DEFINE S == {"desired", "driver_plan", "tx", "transmit_count"} \union {"state"}
  <2>4. SameBut(y, x, S)
    BY <2>1, <1>4, SameTwice
  <2>5. S \subseteq LinkFields
    BY DEF LinkFields
  <2> QED
    BY <1>5, <1>7, <2>1, <2>2, <2>3, <2>4, <2>5
<1>8. CASE x.state \notin {"TX_WAIT_ACK", "RX"}
  <2>1. z = x
    BY <1>8 DEF SendAck
  <2> QED
    BY <2>1, StepSelf
<1> QED
  BY <1>6, <1>7, <1>8

LEMMA RetransmitStep ==
    ASSUME NEW early \in BOOLEAN, NEW x, Core(x, early), x.current # "TX",
           x.state = "TX_WAIT_ACK", x.transmit_count > 0
    PROVE  Step(Retransmit(x), x, early)
<1> DEFINE y == Retransmit(x)
           S == {"desired", "driver_plan", "state"}
<1>1. SameBut(y, x, S) /\ y.desired = "TX" /\ y.driver_plan = "now" /\ y.state = "TX"
  BY DEF Core, Body, Whole, SameBut, Fields, LinkFields, Retransmit, SpiritTx, Desire
<1> HIDE DEF y
<1>2. /\ y.self = x.self /\ y.TX_MAX_COUNT = x.TX_MAX_COUNT /\ y.subs_length = x.subs_length
      /\ y.my_id = x.my_id /\ y.ack = x.ack /\ y.pairing_request = x.pairing_request
      /\ y.pairing_mode = x.pairing_mode /\ y.automatic_pairing = x.automatic_pairing
      /\ y.sent_subs = x.sent_subs /\ y.pub_queue = x.pub_queue /\ y.rx_queue = x.rx_queue
      /\ y.peers = x.peers /\ y.peers_length = x.peers_length /\ y.window = x.window
      /\ y.mode = x.mode /\ y.window_after_ack = x.window_after_ack /\ y.due = x.due
  <2>1. SameBut(y, x, LinkFields)
    BY <1>1, SameWider DEF LinkFields
  <2> QED
    BY <2>1, LinkSame
<1>3. /\ y.message_id = x.message_id /\ y.tx = x.tx /\ y.saved_tx = x.saved_tx
      /\ y.message = x.message /\ y.transmit_count = x.transmit_count
      /\ y.saved_count = x.saved_count /\ y.transmissions = x.transmissions
      /\ y.current = x.current /\ y.air = x.air /\ y.rx_fifo = x.rx_fifo
      /\ y.irq_sent = x.irq_sent /\ y.timed = x.timed
  BY <1>1 DEF SameBut, Fields, LinkFields
<1>4. Settled(y)
  BY <1>2 DEF Core, Body, Settled
<1>5. Local(y, early)
  BY <1>2 DEF Core, Body, Local
<1>6. Buffers(y, early)
  BY <1>1, <1>3 DEF Core, Body, Buffers, States
<1>7. Counts(y)
  BY <1>1, <1>2, <1>3 DEF Core, Body, Counts, Settled
<1>8. Subs(y) /\ Agrees(y) /\ Work(y, early)
  BY <1>1, <1>2, <1>3 DEF Core, Body, Subs, Agrees, Target, Work
<1>9. Transceiver(y, early)
  BY <1>1, <1>3 DEF Core, Transceiver, Plans
<1>10. Whole(y)
  BY <1>1 DEF SameBut
<1> QED
  BY <1>1, <1>2, <1>3, <1>4, <1>5, <1>6, <1>7, <1>8, <1>9, <1>10 DEF Core, Body, Step, y

LEMMA LooseKept ==
    ASSUME NEW early \in BOOLEAN, NEW x, NEW y, Loose(x, early), SameBut(y, x, LocalFields),
           Local(y, early)
    PROVE  Loose(y, early)
<1>1. Settled(y)
  BY LocalSame DEF Loose, Settled
<1>2. Buffers(y, early) /\ Counts(y) /\ Whole(y)
  BY LocalSame DEF Loose, Buffers, Counts
<1> QED
  BY <1>1, <1>2 DEF Loose

LEMMA TransceiverKept ==
    ASSUME NEW early \in BOOLEAN, NEW x, NEW y, Transceiver(x, early), SameBut(y, x, LocalFields)
    PROVE  Transceiver(y, early)
  BY LocalSame DEF Transceiver

\* The three local fields that an ACK may change.
LEMMA AckedLocal ==
    ASSUME NEW early \in BOOLEAN, NEW x, Whole(x), Local(x, early), Settled(x),
           x.tx.kind = "subreg" => x.sent_subs < x.subs_length, NEW frame
    PROVE  SameBut(Acked(x, frame), x, LocalFields) /\ Local(Acked(x, frame), early)
<1> DEFINE y == Acked(x, frame)
           S == {"peers", "peers_length", "sent_subs", "due"}
<1>1. ASSUME NEW z, SameBut(z, x, S), z.peers \in [Slots -> Peers],
             z.peers_length \in 0 .. MAX_DEVICES - 1, z.sent_subs \in 0 .. x.subs_length,
             z.due \in BOOLEAN
      PROVE  SameBut(z, x, LocalFields) /\ Local(z, early)
  <2>1. /\ z.my_id = x.my_id /\ z.self = x.self /\ z.ack = x.ack
        /\ z.pairing_request = x.pairing_request /\ z.pairing_mode = x.pairing_mode
        /\ z.automatic_pairing = x.automatic_pairing
        /\ z.pub_queue = x.pub_queue /\ z.rx_queue = x.rx_queue
        /\ z.window = x.window /\ z.subs_length = x.subs_length
    BY <1>1 DEF SameBut, Fields, LocalFields, Settings
  <2>2. SameBut(z, x, LocalFields)
    BY <1>1, SameWider DEF LocalFields
  <2> QED
    BY <1>1, <2>1, <2>2 DEF Local
<1>2. SameBut(x, x, LocalFields) /\ Local(x, early)
  BY SameSelf
<1>3. ASSUME NEW gateway \in Radios \union {NONE}
      PROVE  SameBut(Paired(x, gateway), x, LocalFields) /\ Local(Paired(x, gateway), early)
  <2>1. CASE x.mode # "GATEWAY" /\ x.peers[0].id # gateway
    <3> DEFINE z == [x EXCEPT !.peers = Joined(@, 0, gateway), !.peers_length = 1,
                              !.sent_subs = 0, !.due = TRUE]
    <3>1. /\ SameBut(z, x, S) /\ z.peers = Joined(x.peers, 0, gateway) /\ z.peers_length = 1
          /\ z.sent_subs = 0 /\ z.due = TRUE
      BY DEF Whole, SameBut, Fields, LocalFields
    <3> HIDE DEF z
    <3>2. z.peers \in [Slots -> Peers]
      BY <3>1, JoinedTable DEF Local
    <3>3. 1 \in 0 .. MAX_DEVICES - 1 /\ 0 \in 0 .. x.subs_length
      BY LimitAssumption DEF Settled
    <3>4. SameBut(z, x, LocalFields) /\ Local(z, early)
      BY <1>1, <3>1, <3>2, <3>3
    <3>5. Paired(x, gateway) = z
      BY <2>1 DEF Paired, z
    <3> QED
      BY <3>4, <3>5
  <2>2. CASE ~ (x.mode # "GATEWAY" /\ x.peers[0].id # gateway)
    BY <2>2, <1>2 DEF Paired
  <2> QED
    BY <2>1, <2>2
<1>4. ASSUME NEW n \in 0 .. x.subs_length
      PROVE  LET z == [x EXCEPT !.sent_subs = n] IN
             SameBut(z, x, LocalFields) /\ Local(z, early)
  <2> DEFINE z == [x EXCEPT !.sent_subs = n]
  <2>1. /\ SameBut(z, x, S) /\ z.peers = x.peers /\ z.peers_length = x.peers_length
        /\ z.sent_subs = n /\ z.due = x.due
    BY DEF Whole, SameBut, Fields, LocalFields
  <2> HIDE DEF z
  <2>2. z.peers \in [Slots -> Peers] /\ z.peers_length \in 0 .. MAX_DEVICES - 1
        /\ z.due \in BOOLEAN
    BY <2>1 DEF Local
  <2>3. SameBut(z, x, LocalFields) /\ Local(z, early)
    BY <1>1, <2>1, <2>2
  <2> QED
    BY <2>3 DEF z
<1>5. CASE x.tx.kind = "pairing"
  BY <1>2, <1>3, <1>5 DEF Acked
<1>6. CASE x.tx.kind = "subreg"
  <2>1. x.sent_subs + 1 \in 0 .. x.subs_length
    BY <1>6 DEF Local, Settled
  <2>2. Acked(x, frame) = [x EXCEPT !.sent_subs = x.sent_subs + 1]
    BY <1>6 DEF Acked
  <2> QED
    BY <1>4, <2>1, <2>2
<1>7. CASE x.tx.kind \notin {"pairing", "subreg"}
  <2>1. 0 \in 0 .. x.subs_length
    BY DEF Settled
  <2>2. Acked(x, frame) = IF frame.body = ACK_SUB_REQUEST THEN [x EXCEPT !.sent_subs = 0] ELSE x
    BY <1>7 DEF Acked
  <2>3. LET z == [x EXCEPT !.sent_subs = 0] IN
        SameBut(z, x, LocalFields) /\ Local(z, early)
    BY <1>4, <2>1
  <2> QED
    BY <1>2, <2>2, <2>3
<1> QED
  BY <1>5, <1>6, <1>7

LEMMA RxAckStep ==
    ASSUME NEW early \in BOOLEAN, NEW x, Core(x, early), x.current # "TX", NEW frame,
           NEW open \in BOOLEAN
    PROVE  Step(RxAck(x, frame, open), x, early)
<1>1. CASE AwaitedAck(x, frame)
  <2> DEFINE u == [x EXCEPT !.transmit_count = 0, !.ack = TRUE]
             y == Acked(u, frame)
             z == [y EXCEPT !.window = @ \/ y.window_after_ack]
             w == GoToRxOrSleep(z, open \/ y.window_after_ack)
  <2>1. /\ SameBut(u, x, {"transmit_count", "ack"}) /\ u.transmit_count = 0 /\ u.ack = TRUE
    BY DEF Core, Body, Whole, SameBut, Fields, LinkFields, LocalFields
  <2> HIDE DEF u
  <2>2. /\ u.self = x.self /\ u.TX_MAX_COUNT = x.TX_MAX_COUNT /\ u.subs_length = x.subs_length
        /\ u.my_id = x.my_id /\ u.pairing_request = x.pairing_request
        /\ u.pairing_mode = x.pairing_mode /\ u.automatic_pairing = x.automatic_pairing
        /\ u.sent_subs = x.sent_subs /\ u.pub_queue = x.pub_queue /\ u.rx_queue = x.rx_queue
        /\ u.peers = x.peers /\ u.peers_length = x.peers_length /\ u.window = x.window
        /\ u.mode = x.mode /\ u.window_after_ack = x.window_after_ack /\ u.due = x.due
    BY <2>1 DEF SameBut, Fields, LinkFields, LocalFields, Settings
  <2>3. /\ u.state = x.state /\ u.message_id = x.message_id /\ u.tx = x.tx
        /\ u.saved_tx = x.saved_tx /\ u.message = x.message
        /\ u.saved_count = x.saved_count /\ u.transmissions = x.transmissions
        /\ u.current = x.current /\ u.air = x.air /\ u.rx_fifo = x.rx_fifo
        /\ u.irq_sent = x.irq_sent /\ u.timed = x.timed /\ u.desired = x.desired
        /\ u.driver_plan = x.driver_plan
    BY <2>1 DEF SameBut, Fields, LinkFields, LocalFields, Settings
  <2>4. u.state = "TX_WAIT_ACK"
    BY <1>1, <2>3 DEF AwaitedAck
  <2>5. Settled(u)
    BY <2>2 DEF Core, Body, Settled
  <2>6. Local(u, early)
    BY <2>1, <2>2 DEF Core, Body, Local
  <2>7. Buffers(u, early)
    BY <2>3 DEF Core, Body, Buffers
  <2>8. Counts(u)
    BY <2>1, <2>2, <2>3, <2>4 DEF Core, Body, Counts, Settled
  <2>9. Transceiver(u, early)
    BY <2>3 DEF Core, Transceiver
  <2>10. u.tx.kind = "subreg" => u.sent_subs < u.subs_length
    BY <2>2, <2>3, <2>4 DEF Core, Body, Subs, Buffers
  <2>11. Whole(u) /\ Loose(u, early)
    BY <2>1, <2>5, <2>6, <2>7, <2>8 DEF SameBut, Loose
  <2>12. SameBut(y, u, LocalFields) /\ Local(y, early)
    BY <2>5, <2>6, <2>10, <2>11, AckedLocal
  <2>13. Loose(y, early) /\ Transceiver(y, early)
    BY <2>9, <2>11, <2>12, LooseKept, TransceiverKept
  <2>14. y.state = "TX_WAIT_ACK" /\ y.current = x.current /\ y.self = x.self
    BY <2>2, <2>3, <2>4, <2>12, LocalSame
  <2> HIDE DEF y
  <2> PICK v \in BOOLEAN : v = (y.window \/ y.window_after_ack)
    BY <2>13 DEF Loose, Local, Settled
  <2>15. z = [y EXCEPT !.window = v]
    OBVIOUS
  <2> HIDE DEF z
  <2>16. /\ SameBut(z, y, {"window"}) /\ z.window = v /\ z.self = y.self /\ z.my_id = y.my_id
         /\ z.ack = y.ack /\ z.due = y.due /\ z.pairing_request = y.pairing_request
         /\ z.pairing_mode = y.pairing_mode /\ z.automatic_pairing = y.automatic_pairing
         /\ z.sent_subs = y.sent_subs /\ z.subs_length = y.subs_length
         /\ z.pub_queue = y.pub_queue /\ z.rx_queue = y.rx_queue /\ z.peers = y.peers
         /\ z.peers_length = y.peers_length
    BY <2>13, <2>15 DEF Loose, Whole, SameBut, Fields, LocalFields, LinkFields, Settings
  <2>17. SameBut(z, y, LocalFields)
    BY <2>16, SameWider DEF LocalFields
  <2>18. Local(z, early)
    BY <2>13, <2>16 DEF Loose, Local
  <2>19. Loose(z, early) /\ Transceiver(z, early)
    BY <2>13, <2>17, <2>18, LooseKept, TransceiverKept
  <2>20. z.state = "TX_WAIT_ACK" /\ z.current = x.current /\ z.self = x.self
    BY <2>14, <2>17, LocalSame
  <2>21. Step(w, z, early) /\ w.state \in {"RX", "SLEEP"}
    BY <2>19, <2>20, GoToStep
  <2>22. w.driver_plan = "now"
    BY <2>19, <2>20, GoToBody DEF Transceiver
  <2> HIDE DEF w
  <2>23. Step(w, x, early)
    BY <2>20, <2>21, <2>22 DEF Step
  <2>24. Core(w, early) /\ Whole(w) /\ Local(w, early)
    BY <2>21 DEF Step, Core, Body
  <2>25. Quiet(Report(w, "TX_DONE"), w, early)
    BY <2>24, ReportQuiet
  <2>26. Step(Report(w, "TX_DONE"), w, early)
    BY <2>24, <2>25, QuietStep
  <2>27. RxAck(x, frame, open) = Report(w, "TX_DONE")
    BY <1>1 DEF RxAck, w, z, y, u
  <2> QED
    BY <2>23, <2>26, <2>27, StepTwice
<1>2. CASE ~ AwaitedAck(x, frame)
  BY <1>2, StepSelf DEF RxAck
<1> QED
  BY <1>1, <1>2

LEMMA HeardQuiet ==
    ASSUME NEW early \in BOOLEAN, NEW x, Whole(x), Local(x, early), NEW i, NEW id \in Ids,
           NEW synced \in BOOLEAN
    PROVE  Quiet([x EXCEPT !.peers = Heard(@, i, id, synced)], x, early)
<1> DEFINE y == [x EXCEPT !.peers = Heard(@, i, id, synced)]
<1>1. /\ SameBut(y, x, TableFields) /\ y.due = x.due
      /\ y.peers = Heard(x.peers, i, id, synced) /\ y.peers_length = x.peers_length
  BY DEF Whole, SameBut, Fields, LocalFields, TableFields
<1> HIDE DEF y
<1>2. y.peers \in [Slots -> Peers]
  <2>1. x.peers \in [Slots -> Peers]
    BY DEF Local
  <2>2. Heard(x.peers, i, id, synced) \in [Slots -> Peers]
    BY <2>1, HeardTable
  <2> QED
    BY <1>1, <2>2
<1>3. y.peers_length \in 0 .. MAX_DEVICES - 1 /\ y.due \in BOOLEAN
  BY <1>1 DEF Local
<1>4. SameBut(y, x, TableFields) /\ (x.due => y.due)
  BY <1>1
<1>5. Quiet(y, x, early)
  BY <1>2, <1>3, <1>4, TableQuiet
<1> QED
  BY <1>5 DEF y

LEMMA RxPairingStep ==
    ASSUME NEW early \in BOOLEAN, NEW x, Core(x, early), x.current # "TX",
           NEW frame, Heeded(frame)
    PROVE  Step(RxPairing(x, frame), x, early)
<1> DEFINE y == IF x.pairing_mode THEN PeerDeviceAdd(x, frame.src) ELSE x
           z == SendAck(y, frame, y.my_id)
           i == PeerSlot(z, frame.src)
           w == [z EXCEPT !.peers = Heard(@, i, frame.id, TRUE)]
<1>1. Step(y, x, early)
  <2>1. Whole(x) /\ Local(x, early)
    BY DEF Core, Body
  <2>2. Quiet(PeerDeviceAdd(x, frame.src), x, early)
    BY <2>1, PeerDeviceAddQuiet DEF Heeded
  <2> QED
    BY <2>2, QuietStep, StepSelf
<1> HIDE DEF y
<1>2. Core(y, early) /\ y.current # "TX" /\ y.my_id \in AckBodies
  BY <1>1 DEF Step, Core, Body, Local, Settled, AckBodies
<1>3. Step(z, y, early)
  BY <1>2, SendAckStep
<1> HIDE DEF z
<1>4. Core(z, early) /\ Whole(z) /\ Local(z, early)
  BY <1>3 DEF Step, Core, Body
<1>5. Quiet(w, z, early)
  BY <1>4, HeardQuiet DEF Heeded
<1>6. Step(w, z, early)
  BY <1>4, <1>5, QuietStep
<1>7. RxPairing(x, frame) = IF IsPeer(y, frame.src) THEN w ELSE y
  BY DEF RxPairing, w, z, y
<1> QED
  BY <1>1, <1>3, <1>6, <1>7, StepTwice

LEMMA RxAttachStep ==
    ASSUME NEW early \in BOOLEAN, NEW x, Core(x, early), x.current # "TX",
           NEW frame, Heeded(frame)
    PROVE  /\ Step(RxAttach(x, frame), x, early)
           /\ Step(RxDetach(x, frame), x, early)
<1>1. Whole(x) /\ Local(x, early) /\ NONE \in AckBodies
  BY DEF Core, Body, AckBodies
<1>2. ASSUME NEW y, Step(y, x, early)
      PROVE  Step(SendAck(y, frame, NONE), x, early)
  <2>1. Core(y, early) /\ y.current # "TX"
    BY <1>2 DEF Step
  <2>2. Step(SendAck(y, frame, NONE), y, early)
    BY <1>1, <2>1, SendAckStep
  <2> QED
    BY <1>2, <2>2, StepTwice
<1>3. Step(x, x, early)
  BY StepSelf
<1>4. Step([x EXCEPT !.pairing_request = "yes", !.due = TRUE], x, early)
  BY <1>1, FlagsQuiet, QuietStep
<1>5. Step(RemovePeer(x, frame.src), x, early)
  BY <1>1, RemovePeerQuiet, QuietStep
<1>6. Step(RxAttach(x, frame), x, early)
  BY <1>2, <1>3, <1>4 DEF RxAttach
<1>7. Step(RxDetach(x, frame), x, early)
  BY <1>2, <1>3, <1>5 DEF RxDetach
<1> QED
  BY <1>6, <1>7

LEMMA RxFromPeerStep ==
    ASSUME NEW early \in BOOLEAN, NEW x, Core(x, early), x.current # "TX",
           NEW frame \in KnownFrames(early)
    PROVE  Step(RxFromPeer(x, frame), x, early)
<1> DEFINE i == PeerSlot(x, frame.src)
           seen == [x EXCEPT !.peers = Heard(@, i, frame.id, FALSE)]
           put == RxPut(seen, frame)
           heard == [put EXCEPT !.peers = Heard(@, i, frame.id, TRUE)]
           subsRequest == x.mode = "GATEWAY" /\ (~ x.peers[i].synced
                                                 \/ x.peers[i].message_id > frame.id)
           body == IF subsRequest THEN ACK_SUB_REQUEST ELSE NONE
<1>1. Heeded(frame) /\ frame.id \in Ids
  BY DEF KnownFrames, Frames, Heeded
<1>2. Quiet(seen, x, early)
  BY <1>1, HeardQuiet DEF Core, Body
<1>3. Step(seen, x, early)
  BY <1>2, QuietStep
<1>4. Whole(seen) /\ Local(seen, early) /\ Core(seen, early)
  BY <1>3 DEF Step, Core, Body
<1>5. Step(put, seen, early)
  <2> HIDE DEF seen
  <2> QED
    BY <1>4, RxPutQuiet, QuietStep
<1>6. Whole(put) /\ Local(put, early) /\ Core(put, early)
  BY <1>5 DEF Step, Core, Body
<1>7. Step(heard, put, early)
  <2> HIDE DEF put
  <2>1. Quiet(heard, put, early)
    BY <1>1, <1>6, HeardQuiet
  <2> QED
    BY <1>6, <2>1, QuietStep
<1> body \in AckBodies
  BY DEF AckBodies
<1>8. RxFromPeer(x, frame) \in {x, seen, SendAck(heard, frame, body)}
  BY DEF RxFromPeer
<1> HIDE DEF seen, put, heard, body
<1>9. Step(heard, x, early)
  BY <1>3, <1>5, <1>7, StepTwice
<1>10. Core(heard, early) /\ heard.current # "TX"
  BY <1>9 DEF Step
<1>11. Step(SendAck(heard, frame, body), heard, early)
  BY <1>1, <1>10, SendAckStep
<1>12. Step(SendAck(heard, frame, body), x, early)
  BY <1>9, <1>11, StepTwice
<1> QED
  BY <1>3, <1>8, <1>12, StepSelf

LEMMA DecodeStep ==
    ASSUME NEW early \in BOOLEAN, NEW x, Core(x, early), x.current # "TX",
           NEW frame \in KnownFrames(early), NEW open \in BOOLEAN
    PROVE  Step(Decode(x, frame, open), x, early)
<1>1. Heeded(frame) /\ frame.src \in Radios \union {NONE}
  BY DEF KnownFrames, Frames, Heeded
<1>2. Step(RxAck(x, frame, open), x, early)
  BY RxAckStep
<1>3. Step(RxPairing(x, frame), x, early)
  BY <1>1, RxPairingStep
<1>4. Step(RxAttach(x, frame), x, early) /\ Step(RxDetach(x, frame), x, early)
  BY <1>1, RxAttachStep
<1>5. Step(RxFromPeer(x, frame), x, early)
  BY RxFromPeerStep
<1>6. Step(PeerDeviceAdd(x, frame.src), x, early)
  <2>1. Quiet(PeerDeviceAdd(x, frame.src), x, early)
    BY <1>1, PeerDeviceAddQuiet DEF Core, Body
  <2> QED
    BY <2>1, QuietStep
<1> QED
  BY <1>2, <1>3, <1>4, <1>5, <1>6, StepSelf DEF Decode

LEMMA RxDoneStep ==
    ASSUME NEW early \in BOOLEAN, NEW x, Core(x, early), x.current # "TX", x.desired # "TX",
           NEW frame \in KnownFrames(early), NEW late \in BOOLEAN, NEW open \in BOOLEAN
    PROVE  Step(RxDone(x, frame, late, open), x, early)
<1> DEFINE y == GoToRxOrSleep(x, open)
<1>1. x.state # "TX"
  BY DEF Core, Body, Agrees, Target
<1>2. Step(y, x, early)
  <2>1. Loose(x, early) /\ Transceiver(x, early)
    BY DEF Core, Body, Loose
  <2> QED
    BY <1>1, <2>1, GoToStep
<1> HIDE DEF y
<1>3. Core(y, early) /\ y.current # "TX"
  BY <1>2 DEF Step
<1>4. Step(Decode(y, frame, open), x, early)
  BY <1>2, <1>3, DecodeStep, StepTwice
<1>5. Step(Decode(x, frame, open), x, early)
  BY DecodeStep
<1>6. x.state = "TX_WAIT_ACK" /\ AttemptsLeft(x) => Step(Retransmit(x), x, early)
  BY RetransmitStep DEF AttemptsLeft
<1>7. RxDone(x, frame, late, open) =
        IF ~ late THEN Decode(x, frame, open)
        ELSE IF x.state = "TX_WAIT_ACK" /\ AttemptsLeft(x) THEN Retransmit(x)
        ELSE Decode(y, frame, open)
  BY DEF RxDone, y
<1> QED
  BY <1>4, <1>5, <1>6, <1>7

LEMMA RxTimeoutStep ==
    ASSUME NEW early \in BOOLEAN, NEW x, Core(x, early), x.current # "TX", NEW open
    PROVE  Step(RxTimeout(x, open), x, early)
<1>1. Loose(x, early) /\ Transceiver(x, early) /\ Whole(x) /\ Local(x, early)
  BY DEF Core, Body, Loose
<1>2. CASE x.state = "TX_WAIT_ACK" /\ AttemptsLeft(x)
  BY <1>2, RetransmitStep DEF RxTimeout, AttemptsLeft
<1>3. CASE x.state = "TX_WAIT_ACK" /\ ~ AttemptsLeft(x)
  <2> DEFINE y == Report(x, "TX_ERROR")
  <2>1. Quiet(y, x, early)
    BY <1>1, ReportQuiet
  <2>2. Step(y, x, early) /\ y.state = x.state
    BY <2>1, QuietStep, LocalSame DEF Quiet
  <2> HIDE DEF y
  <2>3. Loose(y, early) /\ Transceiver(y, early) /\ y.current # "TX" /\ y.state # "TX"
    BY <1>3, <2>2 DEF Step, Core, Body, Loose
  <2>4. Step(GoToRxOrSleep(y, open), y, early)
    BY <2>3, GoToStep
  <2>5. RxTimeout(x, open) = GoToRxOrSleep(y, open)
    BY <1>3 DEF RxTimeout, y
  <2> QED
    BY <2>2, <2>4, <2>5, StepTwice
<1>4. CASE x.state = "TX"
  BY <1>4, StepSelf DEF RxTimeout, GoToRxOrSleep
<1>5. CASE x.state \notin {"TX_WAIT_ACK", "TX"}
  BY <1>1, <1>5, GoToStep DEF RxTimeout
<1> QED
  BY <1>2, <1>3, <1>4, <1>5

-----------------------------------------------------------------------------
(***************************************************************************)
(* The driver's task.  The transceiver enters the state that is desired:   *)
(* from there on the two agree and what is to come is planned.             *)
(***************************************************************************)
ReadyToEnter(x, early) ==
    /\ Body(x, early) /\ Work(x, early) /\ x.air = NONE /\ x.timed \in BOOLEAN
    /\ x.driver_plan \in {"now", "never"}
    /\ x.state = "TX" => x.current # "TX"

EnterFields == {"current", "air", "irq_sent", "rx_fifo", "transmissions", "driver_plan"}

LEMMA EnterKeeps ==
    ASSUME NEW early \in BOOLEAN, NEW x, NEW y, Body(x, early), Work(x, early),
           SameBut(y, x, EnterFields), Counts(y)
    PROVE  Body(y, early) /\ Work(y, early) /\ y.self = x.self
<1>1. /\ y.self = x.self /\ y.TX_MAX_COUNT = x.TX_MAX_COUNT /\ y.subs_length = x.subs_length
      /\ y.my_id = x.my_id /\ y.ack = x.ack /\ y.pairing_request = x.pairing_request
      /\ y.pairing_mode = x.pairing_mode /\ y.automatic_pairing = x.automatic_pairing
      /\ y.sent_subs = x.sent_subs /\ y.pub_queue = x.pub_queue /\ y.rx_queue = x.rx_queue
      /\ y.peers = x.peers /\ y.peers_length = x.peers_length /\ y.window = x.window
      /\ y.mode = x.mode /\ y.window_after_ack = x.window_after_ack /\ y.due = x.due
  <2>1. SameBut(y, x, LinkFields)
    BY SameWider DEF LinkFields, EnterFields
  <2> QED
    BY <2>1, LinkSame
<1>2. /\ y.state = x.state /\ y.message_id = x.message_id /\ y.tx = x.tx
      /\ y.saved_tx = x.saved_tx /\ y.message = x.message /\ y.desired = x.desired
  BY DEF SameBut, Fields, LinkFields, EnterFields
<1>3. Settled(y)
  BY <1>1 DEF Body, Settled
<1>4. Local(y, early)
  BY <1>1 DEF Body, Local
<1>5. Buffers(y, early)
  BY <1>2 DEF Body, Buffers
<1>6. Subs(y) /\ Agrees(y)
  BY <1>1, <1>2 DEF Body, Subs, Agrees
<1>7. Work(y, early)
  BY <1>1, <1>2 DEF Work, HasWork
<1> QED
  BY <1>1, <1>3, <1>4, <1>5, <1>6, <1>7 DEF Body, SameBut

LEMMA EnterTxSound ==
    ASSUME NEW early \in BOOLEAN, NEW x, ReadyToEnter(x, early), x.desired = "TX"
    PROVE  Sound(EnterTx(x), early) /\ EnterTx(x).self = x.self
<1> DEFINE y == EnterTx(x)
<1>1. Whole(x) /\ x.tx \in Frames /\ x.message.kind # "ack"
  BY DEF ReadyToEnter, Body, Buffers, KnownFrames
<1> PICK n : n = IF x.tx.kind = "ack" THEN x.transmissions ELSE x.transmissions + 1
  OBVIOUS
<1>2. y = [x EXCEPT !.current = "TX", !.air = x.tx, !.irq_sent = FALSE, !.rx_fifo = NONE,
                    !.transmissions = n]
  BY DEF EnterTx
<1> HIDE DEF y
<1>3. /\ SameBut(y, x, EnterFields) /\ y.current = "TX" /\ y.air = x.tx /\ y.irq_sent = FALSE
      /\ y.rx_fifo = NONE /\ y.transmissions = n /\ y.driver_plan = x.driver_plan
  BY <1>1, <1>2 DEF Whole, SameBut, Fields, LinkFields, EnterFields
<1>4. /\ y.TX_MAX_COUNT = x.TX_MAX_COUNT /\ y.state = x.state /\ y.tx = x.tx
      /\ y.message = x.message /\ y.transmit_count = x.transmit_count
      /\ y.saved_count = x.saved_count /\ y.desired = x.desired /\ y.timed = x.timed
  BY <1>3 DEF SameBut, Fields, Settings, LinkFields, LocalFields, EnterFields
<1>5. x.state \in {"TX", "RX_SEND_ACK", "TX_SEND_ACK"}
  BY DEF ReadyToEnter, Body, Agrees, Target, Buffers, States
<1>6. Counts(y)
  <2>1. CASE x.state = "TX"
    <3>1. n = x.transmissions + 1 /\ x.current # "TX"
      BY <1>1, <2>1 DEF ReadyToEnter, Body, Buffers
    <3>2. /\ x.transmit_count > 0 /\ x.transmit_count \in Nat /\ x.transmissions \in Nat
          /\ x.transmissions + x.transmit_count <= x.TX_MAX_COUNT
          /\ x.TX_MAX_COUNT \in Nat
      BY <2>1, <3>1 DEF ReadyToEnter, Body, Counts, Settled
    <3> QED
      BY <1>3, <1>4, <2>1, <3>1, <3>2 DEF ReadyToEnter, Body, Counts
  <2>2. CASE x.state \in {"RX_SEND_ACK", "TX_SEND_ACK"}
    <3>1. n = x.transmissions
      BY <2>2 DEF ReadyToEnter, Body, Buffers
    <3> QED
      BY <1>3, <1>4, <2>2, <3>1 DEF ReadyToEnter, Body, Counts
  <2> QED
    BY <1>5, <2>1, <2>2
<1>7. Body(y, early) /\ Work(y, early) /\ y.self = x.self
  BY <1>3, <1>6, EnterKeeps DEF ReadyToEnter
<1>8. y.air # NONE
  BY <1>1, <1>3, FrameAssumption
<1>9. Transceiver(y, early)
  BY <1>3, <1>4, <1>8 DEF Transceiver, ReadyToEnter, DriverStates, Plans
<1>10. Planned(y)
  BY <1>3, <1>4, <1>8 DEF Planned
<1> QED
  BY <1>7, <1>9, <1>10 DEF Sound, Core, y

LEMMA EnterOtherSound ==
    ASSUME NEW early \in BOOLEAN, NEW x, ReadyToEnter(x, early),
           NEW s \in {"RX", "SLEEP"}, x.desired = s, NEW y,
           SameBut(y, x, {"current", "irq_sent", "rx_fifo", "driver_plan"}),
           y.current = s, y.irq_sent = FALSE, y.rx_fifo = NONE,
           y.driver_plan \in Plans, y.driver_plan = "timeout" => s = "RX"
    PROVE  Sound(y, early) /\ y.self = x.self
<1>1. SameBut(y, x, EnterFields)
  BY SameWider DEF EnterFields
<1>2. /\ y.TX_MAX_COUNT = x.TX_MAX_COUNT /\ y.state = x.state
      /\ y.message = x.message /\ y.transmit_count = x.transmit_count
      /\ y.saved_count = x.saved_count /\ y.desired = x.desired /\ y.timed = x.timed
      /\ y.air = x.air /\ y.transmissions = x.transmissions
  BY DEF SameBut, Fields, Settings, LinkFields, LocalFields
<1>3. x.state # "TX"
  BY DEF ReadyToEnter, Body, Agrees, Target
<1>4. Counts(y)
  BY <1>2, <1>3 DEF ReadyToEnter, Body, Counts
<1>5. Body(y, early) /\ Work(y, early) /\ y.self = x.self
  BY <1>1, <1>4, EnterKeeps DEF ReadyToEnter
<1>6. Transceiver(y, early)
  BY <1>2 DEF Transceiver, ReadyToEnter, DriverStates
<1>7. Planned(y)
  BY <1>2 DEF Planned
<1> QED
  BY <1>5, <1>6, <1>7 DEF Sound, Core

LEMMA EnterSound ==
    ASSUME NEW early \in BOOLEAN, NEW x, ReadyToEnter(x, early)
    PROVE  Sound(Enter(x), early) /\ Enter(x).self = x.self
<1>1. Whole(x) /\ x.desired \in {"TX", "RX", "SLEEP"}
  BY DEF ReadyToEnter, Body, Agrees, Target, Buffers, States
<1>2. CASE x.desired = "TX"
  BY <1>2, EnterTxSound DEF Enter
<1>3. CASE x.desired = "RX"
  <2> PICK plan : plan = PlanTimeout(x)
    OBVIOUS
  <2> DEFINE y == [x EXCEPT !.current = "RX", !.driver_plan = plan, !.irq_sent = FALSE,
                            !.rx_fifo = NONE]
  <2>1. plan \in Plans
    BY DEF PlanTimeout, Plans
  <2>2. /\ SameBut(y, x, {"current", "irq_sent", "rx_fifo", "driver_plan"})
        /\ y.current = "RX" /\ y.irq_sent = FALSE /\ y.rx_fifo = NONE /\ y.driver_plan = plan
    BY <1>1 DEF Whole, SameBut, Fields, LinkFields
  <2> HIDE DEF y
  <2>3. Sound(y, early) /\ y.self = x.self
    BY <1>3, <2>1, <2>2, EnterOtherSound
  <2>4. Enter(x) = y
    BY <1>3 DEF Enter, EnterRx, y
  <2> QED
    BY <2>3, <2>4
<1>4. CASE x.desired = "SLEEP"
  <2> DEFINE y == [x EXCEPT !.current = "SLEEP", !.irq_sent = FALSE, !.rx_fifo = NONE]
  <2>1. /\ SameBut(y, x, {"current", "irq_sent", "rx_fifo", "driver_plan"})
        /\ y.current = "SLEEP" /\ y.irq_sent = FALSE /\ y.rx_fifo = NONE
        /\ y.driver_plan = x.driver_plan
    BY <1>1 DEF Whole, SameBut, Fields, LinkFields
  <2> HIDE DEF y
  <2>2. y.driver_plan \in Plans /\ y.driver_plan # "timeout"
    BY <2>1 DEF ReadyToEnter, Plans
  <2>3. Sound(y, early) /\ y.self = x.self
    BY <1>4, <2>1, <2>2, EnterOtherSound
  <2>4. Enter(x) = y
    BY <1>4 DEF Enter, EnterSleep, y
  <2> QED
    BY <2>3, <2>4
<1> QED
  BY <1>1, <1>2, <1>3, <1>4

\* A frame has been sent: the driver has the state SLEEP in mind until the
\* handler says where to go, and it always does.
Sent(x, early) ==
    /\ Loose(x, early) /\ Subs(x) /\ x.state \in {"TX", "RX_SEND_ACK", "TX_SEND_ACK"}
    /\ x.current = "TX" /\ x.air = NONE /\ x.timed \in BOOLEAN

TxDoneFields == {"desired", "driver_plan", "timed", "state", "tx", "transmit_count", "ack"}

LEMMA TxDoneKeeps ==
    ASSUME NEW early \in BOOLEAN, NEW x, NEW y, Sent(x, early), SameBut(y, x, TxDoneFields),
           y.ack \in BOOLEAN, Buffers(y, early), Counts(y), Subs(y), Agrees(y),
           y.timed \in BOOLEAN, y.driver_plan = "now", y.state \notin {"TX", "RX", "SLEEP"}
    PROVE  ReadyToEnter(y, early) /\ y.self = x.self
<1>1. /\ y.self = x.self /\ y.TX_MAX_COUNT = x.TX_MAX_COUNT /\ y.subs_length = x.subs_length
      /\ y.my_id = x.my_id /\ y.pairing_request = x.pairing_request
      /\ y.pairing_mode = x.pairing_mode /\ y.automatic_pairing = x.automatic_pairing
      /\ y.sent_subs = x.sent_subs /\ y.pub_queue = x.pub_queue /\ y.rx_queue = x.rx_queue
      /\ y.peers = x.peers /\ y.peers_length = x.peers_length /\ y.window = x.window
      /\ y.mode = x.mode /\ y.window_after_ack = x.window_after_ack /\ y.due = x.due
      /\ y.air = x.air
  BY DEF SameBut, Fields, Settings, LinkFields, LocalFields, TxDoneFields
<1>2. Settled(y)
  BY <1>1 DEF Sent, Loose, Settled
<1>3. Local(y, early)
  BY <1>1 DEF Sent, Loose, Local
<1>4. Work(y, early)
  BY DEF Work
<1>5. Whole(y) /\ y.air = NONE
  BY <1>1 DEF SameBut, Sent
<1> QED
  BY <1>1, <1>2, <1>3, <1>4, <1>5 DEF ReadyToEnter, Body

LEMMA TxDoneReady ==
    ASSUME NEW early \in BOOLEAN, NEW x0, Sent(x0, early), NEW open
    PROVE  ReadyToEnter(TxDone(x0, open), early) /\ TxDone(x0, open).self = x0.self
<1> PICK n : n = IF x0.transmit_count > 0 THEN x0.transmit_count - 1 ELSE 0
  OBVIOUS
<1> DEFINE x == [x0 EXCEPT !.transmit_count = n]
           z == TxDone(x0, open)
<1>1. x0.transmit_count \in Nat /\ n \in Nat /\ x0.TX_MAX_COUNT \in Nat \ {0} /\ Whole(x0)
  BY DEF Sent, Loose, Counts, Settled
<1>2. SameBut(x, x0, {"transmit_count"}) /\ x.transmit_count = n
  BY <1>1 DEF Whole, SameBut, Fields, LinkFields
<1>3. z = CASE x.state = "TX" ->
                 [SpiritRx(x, TRUE) EXCEPT !.state = "TX_WAIT_ACK", !.ack = FALSE]
            [] x.state \in {"RX_SEND_ACK", "TX_SEND_ACK"} /\ n > 0 -> SpiritTx(x)
            [] x.state = "TX_SEND_ACK" /\ n = 0 -> ResumeWaiting(x)
            [] OTHER -> GoToRxOrSleep(x, open)
  BY DEF TxDone
<1> HIDE DEF x, z
<1>4. /\ x.self = x0.self /\ x.state = x0.state /\ x.message_id = x0.message_id
      /\ x.tx = x0.tx /\ x.saved_tx = x0.saved_tx /\ x.message = x0.message
      /\ x.saved_count = x0.saved_count /\ x.transmissions = x0.transmissions
      /\ x.TX_MAX_COUNT = x0.TX_MAX_COUNT /\ x.timed = x0.timed
      /\ x.current = x0.current /\ x.air = x0.air /\ x.ack = x0.ack /\ x.window = x0.window
  BY <1>2 DEF SameBut, Fields, Settings, LinkFields, LocalFields
<1>5. x0.ack \in BOOLEAN /\ x0.window \in BOOLEAN
  BY DEF Sent, Loose, Local
<1>6. Whole(x)
  BY <1>2 DEF SameBut
<1>7. CASE x.state = "TX"
  <2> DEFINE y == [x EXCEPT !.desired = "RX", !.driver_plan = "now"]
             w == [y EXCEPT !.timed = TRUE]
             v == [w EXCEPT !.state = "TX_WAIT_ACK", !.ack = FALSE]
  <2>1. z = v
    BY <1>3, <1>7 DEF SpiritRx, Desire
  <2>2. SameBut(y, x, {"desired", "driver_plan"}) /\ y.desired = "RX" /\ y.driver_plan = "now"
    BY <1>6 DEF Whole, SameBut, Fields, LinkFields
  <2> HIDE DEF y
  <2>3. /\ SameBut(w, y, {"timed"}) /\ w.timed = TRUE /\ w.desired = "RX"
        /\ w.driver_plan = "now"
    BY <2>2 DEF Whole, SameBut, Fields, LinkFields
  <2> HIDE DEF w
  <2>4. /\ SameBut(v, w, {"state", "ack"}) /\ v.state = "TX_WAIT_ACK" /\ v.ack = FALSE
        /\ v.desired = "RX" /\ v.driver_plan = "now" /\ v.timed = TRUE
    BY <2>3 DEF Whole, SameBut, Fields, LinkFields, LocalFields
  <2> HIDE DEF v
  <2>5. SameBut(v, x, {"desired", "driver_plan", "timed", "state", "ack"})
    BY <2>2, <2>3, <2>4, SameTwice, SameWider
  <2>6. SameBut(v, x0, TxDoneFields)
    BY <1>2, <2>5, SameTwice, SameWider DEF TxDoneFields
  <2>7. /\ v.message_id = x.message_id /\ v.tx = x.tx /\ v.saved_tx = x.saved_tx
        /\ v.message = x.message /\ v.saved_count = x.saved_count
        /\ v.transmissions = x.transmissions /\ v.TX_MAX_COUNT = x.TX_MAX_COUNT
        /\ v.transmit_count = n /\ v.current = x.current
    BY <1>2, <2>5 DEF SameBut, Fields, Settings, LinkFields, LocalFields
  <2>8. v.sent_subs = x0.sent_subs /\ v.subs_length = x0.subs_length
    BY <2>6 DEF SameBut, Fields, Settings, LinkFields, LocalFields, TxDoneFields
  <2>9. Buffers(v, early)
    BY <1>4, <1>7, <2>4, <2>7 DEF Sent, Loose, Buffers, States
  <2>10. Counts(v)
    <3>1. n = x0.transmit_count - 1 /\ x0.transmissions > 0 /\ x0.transmissions \in Nat
          /\ x0.transmissions + x0.transmit_count <= x0.TX_MAX_COUNT + 1
          /\ x0.transmit_count \in 0 .. x0.TX_MAX_COUNT + 2
      BY <1>1, <1>4, <1>7 DEF Sent, Loose, Counts
    <3> QED
      BY <1>1, <1>4, <2>4, <2>7, <3>1 DEF Sent, Loose, Counts
  <2>11. Subs(v) /\ Agrees(v)
    BY <1>4, <1>7, <2>4, <2>7, <2>8 DEF Sent, Subs, Agrees, Target
  <2> QED
    BY <2>1, <2>4, <2>6, <2>9, <2>10, <2>11, TxDoneKeeps DEF z
<1>8. CASE x.state \in {"RX_SEND_ACK", "TX_SEND_ACK"} /\ n > 0
  <2> DEFINE v == [x EXCEPT !.desired = "TX", !.driver_plan = "now"]
  <2>1. z = v
    BY <1>3, <1>8 DEF SpiritTx, Desire
  <2>2. SameBut(v, x, {"desired", "driver_plan"}) /\ v.desired = "TX" /\ v.driver_plan = "now"
    BY <1>6 DEF Whole, SameBut, Fields, LinkFields
  <2> HIDE DEF v
  <2>3. SameBut(v, x0, TxDoneFields)
    BY <1>2, <2>2, SameTwice, SameWider DEF TxDoneFields
  <2>4. /\ v.message_id = x.message_id /\ v.tx = x.tx /\ v.saved_tx = x.saved_tx
        /\ v.message = x.message /\ v.saved_count = x.saved_count
        /\ v.transmissions = x.transmissions /\ v.TX_MAX_COUNT = x.TX_MAX_COUNT
        /\ v.transmit_count = n /\ v.current = x.current /\ v.state = x.state
        /\ v.ack = x.ack /\ v.timed = x.timed
    BY <1>2, <2>2 DEF SameBut, Fields, Settings, LinkFields, LocalFields
  <2>5. v.sent_subs = x0.sent_subs /\ v.subs_length = x0.subs_length
    BY <2>3 DEF SameBut, Fields, Settings, LinkFields, LocalFields, TxDoneFields
  <2>6. Buffers(v, early)
    BY <1>4, <2>4 DEF Sent, Loose, Buffers
  <2>7. Counts(v)
    <3>1. n \in 0 .. x0.TX_MAX_COUNT + 2
      BY <1>1 DEF Sent, Loose, Counts
    <3> QED
      BY <1>4, <1>8, <2>4, <3>1 DEF Sent, Loose, Counts
  <2>8. Subs(v) /\ Agrees(v)
    BY <1>4, <1>8, <2>2, <2>4, <2>5 DEF Sent, Subs, Agrees, Target
  <2>9. v.ack \in BOOLEAN /\ v.timed \in BOOLEAN /\ v.state \notin {"TX", "RX", "SLEEP"}
    BY <1>4, <1>5, <1>8, <2>4 DEF Sent
  <2> QED
    BY <2>1, <2>2, <2>3, <2>6, <2>7, <2>8, <2>9, TxDoneKeeps DEF z
<1>9. CASE x.state = "TX_SEND_ACK" /\ n = 0
  <2> DEFINE y == [x EXCEPT !.desired = "RX", !.driver_plan = "now"]
             w == [y EXCEPT !.timed = TRUE]
             v == [w EXCEPT !.state = "TX_WAIT_ACK", !.tx = x.saved_tx,
                            !.transmit_count = x.saved_count]
  <2>1. z = v
    BY <1>3, <1>9 DEF ResumeWaiting, SpiritRx, Desire
  <2>2. SameBut(y, x, {"desired", "driver_plan"}) /\ y.desired = "RX" /\ y.driver_plan = "now"
    BY <1>6 DEF Whole, SameBut, Fields, LinkFields
  <2> HIDE DEF y
  <2>3. /\ SameBut(w, y, {"timed"}) /\ w.timed = TRUE /\ w.desired = "RX"
        /\ w.driver_plan = "now"
    BY <2>2 DEF Whole, SameBut, Fields, LinkFields
  <2> HIDE DEF w
  <2>4. /\ SameBut(v, w, {"state", "tx", "transmit_count"}) /\ v.state = "TX_WAIT_ACK"
        /\ v.tx = x.saved_tx /\ v.transmit_count = x.saved_count
        /\ v.desired = "RX" /\ v.driver_plan = "now" /\ v.timed = TRUE
    BY <2>3 DEF Whole, SameBut, Fields, LinkFields, LocalFields
  <2> HIDE DEF v
  <2>5. SameBut(v, x, {"desired", "driver_plan", "timed", "state", "tx", "transmit_count"})
    BY <2>2, <2>3, <2>4, SameTwice, SameWider
  <2>6. SameBut(v, x0, TxDoneFields)
    BY <1>2, <2>5, SameTwice, SameWider DEF TxDoneFields
  <2>7. /\ v.message_id = x.message_id /\ v.saved_tx = x.saved_tx
        /\ v.message = x.message /\ v.saved_count = x.saved_count
        /\ v.transmissions = x.transmissions /\ v.TX_MAX_COUNT = x.TX_MAX_COUNT
        /\ v.current = x.current /\ v.ack = x.ack
    BY <2>5 DEF SameBut, Fields, Settings, LinkFields, LocalFields
  <2>8. v.sent_subs = x0.sent_subs /\ v.subs_length = x0.subs_length
    BY <2>6 DEF SameBut, Fields, Settings, LinkFields, LocalFields, TxDoneFields
  <2>9. Buffers(v, early)
    BY <1>4, <1>9, <2>4, <2>7 DEF Sent, Loose, Buffers, States
  <2>10. Counts(v)
    BY <1>1, <1>4, <1>9, <2>4, <2>7 DEF Sent, Loose, Counts
  <2>11. Subs(v) /\ Agrees(v)
    BY <1>4, <1>9, <2>4, <2>7, <2>8 DEF Sent, Subs, Agrees, Target
  <2>12. v.ack \in BOOLEAN
    BY <1>4, <1>5, <2>7
  <2> QED
    BY <2>1, <2>4, <2>6, <2>9, <2>10, <2>11, <2>12, TxDoneKeeps DEF z
<1>10. CASE x.state = "RX_SEND_ACK" /\ ~ (n > 0)
  <2>1. z = GoToRxOrSleep(x, open)
    BY <1>3, <1>10
  <2>2. n \in 0 .. x0.TX_MAX_COUNT + 2
    BY <1>1 DEF Sent, Loose, Counts
  <2>3. Settled(x) /\ Local(x, early)
    <3>1. /\ x.mode = x0.mode /\ x.window_after_ack = x0.window_after_ack
          /\ x.subs_length = x0.subs_length
          /\ x.my_id = x0.my_id /\ x.due = x0.due /\ x.pairing_request = x0.pairing_request
          /\ x.pairing_mode = x0.pairing_mode /\ x.automatic_pairing = x0.automatic_pairing
          /\ x.sent_subs = x0.sent_subs /\ x.pub_queue = x0.pub_queue
          /\ x.rx_queue = x0.rx_queue /\ x.peers = x0.peers
          /\ x.peers_length = x0.peers_length
      BY <1>2 DEF SameBut, Fields, Settings, LinkFields, LocalFields
    <3>2. Settled(x)
      BY <1>4, <3>1 DEF Sent, Loose, Settled
    <3>3. Local(x, early)
      BY <1>4, <3>1 DEF Sent, Loose, Local
    <3> QED
      BY <3>2, <3>3
  <2>4. Buffers(x, early)
    BY <1>4 DEF Sent, Loose, Buffers
  <2>5. Counts(x)
    BY <1>2, <1>4, <1>10, <2>2 DEF Sent, Loose, Counts
  <2>6. Loose(x, early) /\ x.state # "TX" /\ x.timed \in BOOLEAN /\ x.air = NONE
    BY <1>4, <1>6, <1>10, <2>3, <2>4, <2>5 DEF Loose, Sent
  <2>7. /\ Body(z, early) /\ Work(z, early) /\ z.driver_plan = "now"
        /\ z.state \in {"RX", "SLEEP"} /\ z.air = x.air /\ z.timed \in BOOLEAN
        /\ z.self = x.self
    BY <2>1, <2>6, GoToBody
  <2> QED
    BY <1>4, <2>6, <2>7 DEF ReadyToEnter, z
<1>11. x.state \in {"TX", "RX_SEND_ACK", "TX_SEND_ACK"}
  BY <1>4 DEF Sent
<1>12. n > 0 \/ n = 0
  BY <1>1
<1> QED
  BY <1>7, <1>8, <1>9, <1>10, <1>11, <1>12 DEF z

DriverFields == {"driver_plan", "rx_fifo", "irq_sent", "air"}

LEMMA DriverCore ==
    ASSUME NEW early \in BOOLEAN, NEW x, NEW y, Core(x, early), SameBut(y, x, DriverFields),
           /\ y.driver_plan \in Plans /\ y.irq_sent \in BOOLEAN
           /\ y.rx_fifo \in KnownFrames(early) \union {NONE, DISCARDED}
           /\ x.current = "TX" => y.air # NONE \/ y.irq_sent
           /\ y.air # NONE => x.current = "TX" /\ y.air = x.tx /\ ~ y.irq_sent
           /\ y.rx_fifo # NONE => x.current = "RX"
           /\ y.driver_plan = "timeout" => x.current = "RX"
    PROVE  /\ Core(y, early) /\ y.self = x.self /\ y.current = x.current
           /\ y.desired = x.desired /\ y.timed = x.timed
<1>1. SameBut(y, x, EnterFields)
  BY SameWider DEF EnterFields, DriverFields
<1>2. /\ y.TX_MAX_COUNT = x.TX_MAX_COUNT /\ y.state = x.state /\ y.tx = x.tx
      /\ y.message = x.message /\ y.transmit_count = x.transmit_count
      /\ y.saved_count = x.saved_count /\ y.desired = x.desired /\ y.timed = x.timed
      /\ y.current = x.current /\ y.transmissions = x.transmissions
  BY DEF SameBut, Fields, Settings, LinkFields, LocalFields, DriverFields
<1>3. Counts(y)
  BY <1>2 DEF Core, Body, Counts
<1>4. Body(y, early) /\ Work(y, early) /\ y.self = x.self
  BY <1>1, <1>3, EnterKeeps DEF Core
<1>5. Transceiver(y, early)
  <2>1. x.current = "TX" => x.desired = "TX"
    BY DEF Core, Transceiver
  <2>2. y.current \in DriverStates /\ y.timed \in BOOLEAN
    BY <1>2 DEF Core, Transceiver
  <2> QED
    BY <1>2, <2>1, <2>2 DEF Transceiver
<1> QED
  BY <1>2, <1>4, <1>5 DEF Core

LEMMA CheckTxSound ==
    ASSUME NEW early \in BOOLEAN, NEW x, Core(x, early), x.current = "TX", NEW open
    PROVE  Sound(CheckTx(x, open), early) /\ CheckTx(x, open).self = x.self
<1>1. x.state \in {"TX", "RX_SEND_ACK", "TX_SEND_ACK"} /\ x.desired = "TX"
  BY DEF Core, Transceiver, Body, Agrees, Target, Buffers, States
<1>2. CASE x.irq_sent
  <2> DEFINE s == [x EXCEPT !.irq_sent = FALSE, !.desired = "SLEEP"]
  <2>1. SameBut(s, x, {"irq_sent", "desired"})
    BY DEF Core, Body, Whole, SameBut, Fields, LinkFields
  <2>2. CheckTx(x, open) = Enter(TxDone(s, open))
    BY <1>2 DEF CheckTx
  <2> HIDE DEF s
  <2>3. SameBut(s, x, LinkFields)
    BY <2>1, SameWider DEF LinkFields
  <2>4. /\ s.state = x.state /\ s.message_id = x.message_id /\ s.tx = x.tx
        /\ s.saved_tx = x.saved_tx /\ s.message = x.message
        /\ s.transmit_count = x.transmit_count /\ s.saved_count = x.saved_count
        /\ s.transmissions = x.transmissions /\ s.current = x.current /\ s.air = x.air
        /\ s.timed = x.timed
    BY <2>1 DEF SameBut, Fields, Settings, LinkFields, LocalFields
  <2>5. Settled(s) /\ s.self = x.self
    BY <2>3, LinkSame DEF Core, Body, Settled
  <2>6. Local(s, early)
    BY <2>3, LinkSame DEF Core, Body, Local
  <2>7. Buffers(s, early) /\ Counts(s) /\ Subs(s)
    <3>1. s.TX_MAX_COUNT = x.TX_MAX_COUNT /\ s.sent_subs = x.sent_subs
          /\ s.subs_length = x.subs_length
      BY <2>3, LinkSame
    <3>2. Buffers(s, early)
      BY <2>4 DEF Core, Body, Buffers
    <3>3. Counts(s)
      BY <2>4, <3>1 DEF Core, Body, Counts
    <3>4. Subs(s)
      BY <2>4, <3>1 DEF Core, Body, Subs
    <3> QED
      BY <3>2, <3>3, <3>4
  <2>8. x.air = NONE /\ s.timed \in BOOLEAN
    BY <1>2, <2>4 DEF Core, Transceiver
  <2>9. Sent(s, early)
    BY <1>1, <2>1, <2>4, <2>5, <2>6, <2>7, <2>8 DEF Sent, Loose, SameBut
  <2>10. ReadyToEnter(TxDone(s, open), early) /\ TxDone(s, open).self = s.self
    BY <2>9, TxDoneReady
  <2> QED
    BY <2>2, <2>5, <2>10, EnterSound
<1>3. CASE ~ x.irq_sent
  <2>1. CheckTx(x, open) = x
    BY <1>3 DEF CheckTx
  <2>2. Planned(x)
    BY <1>1, <1>3 DEF Core, Transceiver, Planned
  <2> QED
    BY <2>1, <2>2 DEF Sound
<1> QED
  BY <1>2, <1>3

LEMMA CheckRxSound ==
    ASSUME NEW early \in BOOLEAN, NEW x, Core(x, early), x.current = "RX", x.desired = "RX",
           NEW late \in BOOLEAN, NEW open \in BOOLEAN
    PROVE  Sound(CheckRx(x, late, open), early) /\ CheckRx(x, late, open).self = x.self
<1>0. ASSUME NEW q, Core(q, early), q.current = "RX", q.desired # "RX" => q.driver_plan = "now"
      PROVE  Sound([q EXCEPT !.rx_fifo = NONE], early)
             /\ [q EXCEPT !.rx_fifo = NONE].self = q.self
  <2> DEFINE y == [q EXCEPT !.rx_fifo = NONE]
  <2>1. /\ SameBut(y, q, DriverFields) /\ y.rx_fifo = NONE /\ y.driver_plan = q.driver_plan
        /\ y.irq_sent = q.irq_sent /\ y.air = q.air
    BY <1>0 DEF Core, Body, Whole, SameBut, Fields, LinkFields, DriverFields
  <2> HIDE DEF y
  <2>2. Core(y, early) /\ y.self = q.self /\ y.current = q.current /\ y.desired = q.desired
    <3>1. /\ y.driver_plan \in Plans /\ y.irq_sent \in BOOLEAN
          /\ y.rx_fifo \in KnownFrames(early) \union {NONE, DISCARDED}
          /\ q.current = "TX" => y.air # NONE \/ y.irq_sent
          /\ y.air # NONE => q.current = "TX" /\ y.air = q.tx /\ ~ y.irq_sent
          /\ y.rx_fifo # NONE => q.current = "RX"
          /\ y.driver_plan = "timeout" => q.current = "RX"
      BY <1>0, <2>1 DEF Core, Transceiver
    <3> QED
      BY <1>0, <2>1, <3>1, DriverCore
  <2>3. Planned(y)
    BY <1>0, <2>1, <2>2 DEF Planned
  <2> QED
    BY <2>2, <2>3 DEF Sound, y
<1>1. CASE x.rx_fifo \in {NONE, DISCARDED}
  BY <1>0, <1>1 DEF CheckRx
<1>2. CASE x.rx_fifo \notin {NONE, DISCARDED}
  <2> PICK plan : plan = PlanTimeout(x)
    OBVIOUS
  <2> DEFINE p == [x EXCEPT !.driver_plan = plan]
             q == RxDone(p, x.rx_fifo, late, open)
  <2>1. x.rx_fifo \in KnownFrames(early)
    BY <1>2 DEF Core, Transceiver
  <2>2. plan \in Plans
    BY DEF PlanTimeout, Plans
  <2>3. /\ SameBut(p, x, DriverFields) /\ p.rx_fifo = x.rx_fifo /\ p.driver_plan = plan
        /\ p.irq_sent = x.irq_sent /\ p.air = x.air
    BY DEF Core, Body, Whole, SameBut, Fields, LinkFields, DriverFields
  <2>4. CheckRx(x, late, open) = [q EXCEPT !.rx_fifo = NONE]
    BY <1>2 DEF CheckRx
  <2> HIDE DEF p
  <2>5. Core(p, early) /\ p.self = x.self /\ p.current = x.current /\ p.desired = x.desired
    <3>1. /\ p.driver_plan \in Plans /\ p.irq_sent \in BOOLEAN
          /\ p.rx_fifo \in KnownFrames(early) \union {NONE, DISCARDED}
          /\ x.current = "TX" => p.air # NONE \/ p.irq_sent
          /\ p.air # NONE => x.current = "TX" /\ p.air = x.tx /\ ~ p.irq_sent
          /\ p.rx_fifo # NONE => x.current = "RX"
          /\ p.driver_plan = "timeout" => x.current = "RX"
      BY <2>2, <2>3 DEF Core, Transceiver
    <3> QED
      BY <2>3, <3>1, DriverCore
  <2>6. Step(q, p, early)
    BY <2>1, <2>5, RxDoneStep
  <2> HIDE DEF q
  <2>7. Core(q, early) /\ q.current = "RX" /\ (q.desired # "RX" => q.driver_plan = "now")
        /\ q.self = x.self
    BY <2>5, <2>6 DEF Step
  <2> QED
    BY <1>0, <2>4, <2>7
<1> QED
  BY <1>1, <1>2

LEMMA DriverTaskSound ==
    ASSUME NEW early \in BOOLEAN, NEW x0, Sound(x0, early),
           NEW expired \in BOOLEAN, NEW late \in BOOLEAN, NEW open \in BOOLEAN,
           \/ x0.driver_plan = "now" /\ (expired => CanExpire(x0))
           \/ x0.driver_plan = "timeout" /\ expired
    PROVE  LET y == DriverTask(x0, expired, late, open) IN Sound(y, early) /\ y.self = x0.self
<1> DEFINE run == [x0 EXCEPT !.driver_plan = "never"]
           x == IF expired THEN RxTimeout(run, open) ELSE run
<1>0. Core(x0, early) /\ Whole(x0)
  BY DEF Sound, Core, Body
<1>1. /\ SameBut(run, x0, DriverFields) /\ run.rx_fifo = x0.rx_fifo
      /\ run.driver_plan = "never" /\ run.irq_sent = x0.irq_sent /\ run.air = x0.air
  BY <1>0 DEF Whole, SameBut, Fields, LinkFields, DriverFields
<1>2. DriverTask(x0, expired, late, open) =
        IF x.desired # x.current THEN Enter(x)
        ELSE IF x.current = "TX" THEN CheckTx(x, open)
        ELSE IF x.current = "RX" THEN CheckRx(x, late /\ x.timed, open)
        ELSE x
  BY DEF DriverTask
<1> HIDE DEF run
<1>3. Core(run, early) /\ run.self = x0.self /\ run.current = x0.current
  <2>1. /\ run.driver_plan \in Plans /\ run.irq_sent \in BOOLEAN
        /\ run.rx_fifo \in KnownFrames(early) \union {NONE, DISCARDED}
        /\ x0.current = "TX" => run.air # NONE \/ run.irq_sent
        /\ run.air # NONE => x0.current = "TX" /\ run.air = x0.tx /\ ~ run.irq_sent
        /\ run.rx_fifo # NONE => x0.current = "RX"
        /\ run.driver_plan # "timeout"
    BY <1>0, <1>1 DEF Core, Transceiver, Plans
  <2> QED
    BY <1>0, <1>1, <2>1, DriverCore
<1>4. expired => x0.current = "RX"
  BY <1>0 DEF CanExpire, Core, Transceiver
<1>5. Step(x, run, early)
  <2>1. CASE expired
    BY <1>3, <1>4, <2>1, RxTimeoutStep
  <2>2. CASE ~ expired
    BY <1>3, <2>2, StepSelf
  <2> QED
    BY <2>1, <2>2
<1> HIDE DEF x
<1>6. /\ Core(x, early) /\ x.self = x0.self /\ x.driver_plan \in {"now", "never"}
      /\ x.timed \in BOOLEAN
  BY <1>1, <1>3, <1>5 DEF Step, Core, Transceiver
<1>7. CASE x.desired # x.current
  <2>1. x.current # "TX" /\ x.air = NONE
    BY <1>6, <1>7 DEF Core, Transceiver
  <2>2. ReadyToEnter(x, early)
    BY <1>6, <2>1 DEF ReadyToEnter, Core
  <2> QED
    BY <1>2, <1>6, <1>7, <2>2, EnterSound
<1>8. CASE x.desired = x.current /\ x.current = "TX"
  BY <1>2, <1>6, <1>8, CheckTxSound
<1>9. CASE x.desired = x.current /\ x.current = "RX"
  <2> PICK l \in BOOLEAN : l = (late /\ x.timed)
    BY <1>6
  <2>1. DriverTask(x0, expired, late, open) = CheckRx(x, l, open)
    BY <1>2, <1>9
  <2> QED
    BY <1>6, <1>9, <2>1, CheckRxSound
<1>10. CASE x.desired = x.current /\ x.current \notin {"TX", "RX"}
  <2>1. Planned(x)
    BY <1>6, <1>10 DEF Core, Transceiver, Planned
  <2> QED
    BY <1>2, <1>6, <1>10, <2>1 DEF Sound
<1> QED
  BY <1>7, <1>8, <1>9, <1>10

-----------------------------------------------------------------------------
(***************************************************************************)
(* The protocol's task.                                                    *)
(***************************************************************************)
LEMMA QuietSound ==
    ASSUME NEW early \in BOOLEAN, NEW x, NEW y, Sound(x, early), Quiet(y, x, early)
    PROVE  Sound(y, early) /\ y.self = x.self
<1>1. Core(y, early)
  BY QuietCore DEF Sound
<1>2. Planned(y) /\ y.self = x.self
  BY LocalSame DEF Sound, Planned, Quiet
<1> QED
  BY <1>1, <1>2 DEF Sound

TaskFields == {"due", "pairing_request", "pub_queue", "rx_queue"}

LEMMA TaskLocal ==
    ASSUME NEW early \in BOOLEAN, NEW x, NEW y, Core(x, early), SameBut(y, x, TaskFields),
           y.due \in BOOLEAN, y.pairing_request \in {"no", x.pairing_request},
           y.pub_queue \in Seq(Items(early)), Len(y.pub_queue) <= PubCapacity,
           y.rx_queue \in Seq(KnownFrames(early)), Len(y.rx_queue) <= RxCapacity
    PROVE  /\ Work(y, early) => Quiet(y, x, early)
           /\ Loose(y, early) /\ Transceiver(y, early) /\ y.state = x.state
           /\ y.sent_subs = x.sent_subs /\ y.subs_length = x.subs_length /\ y.self = x.self
           /\ y.desired = x.desired
<1>1. SameBut(y, x, LocalFields)
  BY SameWider DEF LocalFields, TaskFields
<1>2. /\ y.my_id = x.my_id /\ y.self = x.self /\ y.ack = x.ack
      /\ y.pairing_mode = x.pairing_mode
      /\ y.automatic_pairing = x.automatic_pairing /\ y.sent_subs = x.sent_subs
      /\ y.peers = x.peers /\ y.peers_length = x.peers_length
      /\ y.window = x.window /\ y.subs_length = x.subs_length /\ y.state = x.state
  BY DEF SameBut, Fields, LocalFields, LinkFields, Settings, TaskFields
<1>3. Local(y, early)
  BY <1>2 DEF Core, Body, Local
<1>4. y.sent_subs <= x.sent_subs
  BY <1>2 DEF Core, Body, Local
<1>5. Settled(y) /\ Whole(y)
  BY <1>1, LocalSame DEF Core, Body, Settled
<1>6. Buffers(y, early)
  BY <1>1, LocalSame DEF Core, Body, Buffers
<1>7. Counts(y)
  BY <1>1, LocalSame DEF Core, Body, Counts
<1>8. Transceiver(y, early)
  BY <1>1, LocalSame DEF Core, Transceiver
<1>9. y.desired = x.desired
  BY <1>1, LocalSame
<1> QED
  BY <1>1, <1>2, <1>3, <1>4, <1>5, <1>6, <1>7, <1>8, <1>9 DEF Quiet, Loose

StartFields == {"desired", "driver_plan", "message_id", "tx", "message", "transmissions",
                "transmit_count", "state"}

Started(x, id, frame, attempts) ==
    [SpiritTx(x) EXCEPT !.message_id = id, !.tx = frame, !.message = frame,
                        !.transmissions = 0, !.transmit_count = attempts, !.state = "TX"]

LEMMA StartSame ==
    ASSUME NEW x, Whole(x), NEW id, NEW frame, NEW attempts
    PROVE  LET m == Started(x, id, frame, attempts)
           IN /\ SameBut(m, x, StartFields)
              /\ m.message_id = id /\ m.tx = frame /\ m.message = frame
              /\ m.transmissions = 0 /\ m.transmit_count = attempts /\ m.state = "TX"
              /\ m.desired = "TX" /\ m.driver_plan = "now"
<1> DEFINE d == [x EXCEPT !.desired = "TX", !.driver_plan = "now"]
           m == [d EXCEPT !.message_id = id, !.tx = frame, !.message = frame,
                          !.transmissions = 0, !.transmit_count = attempts, !.state = "TX"]
<1>1. SameBut(d, x, {"desired", "driver_plan"}) /\ d.desired = "TX" /\ d.driver_plan = "now"
  BY DEF Whole, SameBut, Fields, LinkFields
<1> HIDE DEF d
<1>2. /\ SameBut(m, d, {"message_id", "tx", "message", "transmissions", "transmit_count", "state"})
      /\ m.message_id = id /\ m.tx = frame /\ m.message = frame
      /\ m.transmissions = 0 /\ m.transmit_count = attempts /\ m.state = "TX"
      /\ m.desired = "TX" /\ m.driver_plan = "now"
  BY <1>1 DEF Whole, SameBut, Fields, LinkFields
<1>3. m = Started(x, id, frame, attempts)
  BY DEF Started, SpiritTx, Desire, d
<1> HIDE DEF m
<1>4. SameBut(m, x, StartFields)
  BY <1>1, <1>2, SameTwice, SameWider DEF StartFields
<1> QED
  BY <1>2, <1>3, <1>4

Sendable(x, kind, body, early) ==
    \A id \in Ids : [src |-> x.self, id |-> id, kind |-> kind, body |-> body]
                       \in KnownFrames(early)

LEMMA StartTxSound ==
    ASSUME NEW early \in BOOLEAN, NEW x, Loose(x, early), Transceiver(x, early),
           x.desired # "TX", NEW kind \in Kinds \ {"ack"}, NEW body,
           Sendable(x, kind, body, early),
           kind = "subreg" => x.sent_subs < x.subs_length
    PROVE  Sound(StartTx(x, kind, body), early) /\ StartTx(x, kind, body).self = x.self
<1>a. PICK id : id = (x.message_id + 1) % IdMod
  OBVIOUS
<1>b. PICK frame : frame = [src |-> x.self, id |-> id, kind |-> kind, body |-> body]
  OBVIOUS
<1>c. PICK attempts : attempts = x.TX_MAX_COUNT
  OBVIOUS
<1>1. x.message_id \in Nat /\ IdMod \in Nat \ {0} /\ x.TX_MAX_COUNT \in Nat \ {0} /\ Whole(x)
  BY LimitAssumption DEF Loose, Buffers, Ids, Settled
<1>2. id \in Ids
  BY <1>a, <1>1 DEF Ids
<1>3. frame \in KnownFrames(early) /\ frame.kind = kind
  BY <1>b, <1>2 DEF Sendable
<1> DEFINE m == Started(x, id, frame, attempts)
<1>4. StartTx(x, kind, body) = m
  BY <1>a, <1>b, <1>c DEF StartTx, Started
<1>7. /\ SameBut(m, x, StartFields)
      /\ m.message_id = id /\ m.tx = frame /\ m.message = frame
      /\ m.transmissions = 0 /\ m.transmit_count = attempts /\ m.state = "TX"
      /\ m.desired = "TX" /\ m.driver_plan = "now"
  BY <1>1, StartSame
<1> HIDE DEF m
<1>8. SameBut(m, x, LinkFields)
  BY <1>7, SameWider DEF StartFields, LinkFields
<1>9. /\ m.saved_tx = x.saved_tx /\ m.saved_count = x.saved_count /\ m.timed = x.timed
      /\ m.current = x.current /\ m.air = x.air /\ m.irq_sent = x.irq_sent
      /\ m.rx_fifo = x.rx_fifo
  BY <1>7 DEF SameBut, Fields, Settings, LinkFields, LocalFields, StartFields
<1>10. m.current # "TX"
  BY <1>9 DEF Transceiver
<1>11. Settled(m) /\ Whole(m) /\ m.self = x.self /\ m.TX_MAX_COUNT = x.TX_MAX_COUNT
       /\ m.sent_subs = x.sent_subs /\ m.subs_length = x.subs_length
  BY <1>8, LinkSame DEF Loose, Settled
<1>12. Local(m, early)
  BY <1>8, LinkSame DEF Loose, Local
<1>13. Buffers(m, early)
  <2>1. m.tx = m.message /\ m.message.kind # "ack" /\ m.message \in KnownFrames(early)
    BY <1>3, <1>7
  <2>2. m.message_id \in Ids /\ m.saved_tx \in KnownFrames(early)
    BY <1>2, <1>7, <1>9 DEF Loose, Buffers
  <2> QED
    BY <1>7, <2>1, <2>2 DEF Buffers, States
<1>14. Counts(m)
  <2>1. attempts \in 0 .. m.TX_MAX_COUNT + 2 /\ attempts > 0 /\ m.TX_MAX_COUNT \in Nat
        /\ attempts = m.TX_MAX_COUNT
    BY <1>c, <1>1, <1>11
  <2>2. m.saved_count \in 0 .. m.TX_MAX_COUNT
    BY <1>9, <1>11 DEF Loose, Counts
  <2> QED
    BY <1>7, <1>10, <2>1, <2>2 DEF Counts
<1>15. Subs(m) /\ Agrees(m)
  BY <1>3, <1>7, <1>11 DEF Subs, Agrees, Target
<1>16. Transceiver(m, early)
  BY <1>7, <1>9, <1>10 DEF Transceiver, Plans
<1>17. Work(m, early) /\ Planned(m)
  BY <1>7 DEF Work, Planned
<1> QED
  BY <1>4, <1>11, <1>12, <1>13, <1>14, <1>15, <1>16, <1>17 DEF Sound, Core, Body

LEMMA LeastNatural ==
    ASSUME NEW T \in SUBSET Nat, T # {}
    PROVE  \E k \in T : \A j \in T : k <= j
<1> DEFINE R == OpToRel(<, Nat)
<1>1. IsWellFoundedOn(R, Nat)
  BY NatLessThanWellFounded
<1>2. PICK k \in T : \A j \in T : ~ (<<j, k>> \in R)
  <2> HIDE DEF R
  <2> QED
    BY <1>1, WFMin
<1>3. \A j \in T : ~ (j < k)
  BY <1>2 DEF OpToRel
<1> QED
  BY <1>3

\* The early return of the task keeps the messages behind the unknown one.
LEMMA SkipUnknownQueue ==
    ASSUME NEW early \in BOOLEAN, NEW x, x.rx_queue \in Seq(KnownFrames(early)),
           Len(x.rx_queue) <= RxCapacity, Unknown(x) # {}
    PROVE  /\ early
           /\ \E rx : /\ SkipUnknown(x) = [x EXCEPT !.rx_queue = rx]
                      /\ rx \in Seq(KnownFrames(early)) /\ Len(rx) <= RxCapacity
<1> DEFINE q == x.rx_queue
<1>1. Unknown(x) \in SUBSET (1 .. Len(q)) /\ Len(q) \in Nat
  BY DEF Unknown
<1>2. early
  <2>1. PICK k \in Unknown(x) : TRUE
    OBVIOUS
  <2>2. k \in 1 .. Len(q) /\ q[k].kind = "pub" /\ q[k].body \in UnknownOrder
    BY <1>1 DEF Unknown
  <2>3. q[k] \in KnownFrames(early)
    BY <2>2
  <2> QED
    BY <2>2, <2>3 DEF KnownFrames
<1> DEFINE k == CHOOSE i \in Unknown(x) : \A j \in Unknown(x) : i <= j
<1>3. k \in 1 .. Len(q)
  <2>1. \E i \in Unknown(x) : \A j \in Unknown(x) : i <= j
    BY <1>1, LeastNatural
  <2> QED
    BY <1>1, <2>1
<1> PICK rx : rx = SubSeq(q, k + 1, Len(q))
  OBVIOUS
<1>4. SkipUnknown(x) = [x EXCEPT !.rx_queue = rx]
  BY DEF SkipUnknown
<1> HIDE DEF k
<1>5. \A i \in k + 1 .. Len(q) : q[i] \in KnownFrames(early)
  BY <1>3
<1>6. /\ rx \in Seq(KnownFrames(early))
      /\ Len(rx) = IF k + 1 <= Len(q) THEN Len(q) - (k + 1) + 1 ELSE 0
  BY <1>1, <1>3, <1>5, SubSeqProperties
<1>7. Len(rx) <= RxCapacity
  BY <1>1, <1>3, <1>6, LimitAssumption
<1> QED
  BY <1>2, <1>3, <1>4, <1>6, <1>7

LEMMA RadioTaskSound ==
    ASSUME NEW early \in BOOLEAN, NEW x, Sound(x, early)
    PROVE  LET y == RadioTask([x EXCEPT !.due = FALSE]) IN Sound(y, early) /\ y.self = x.self
<1> DEFINE w == [x EXCEPT !.due = FALSE]
           z == RadioTask(w)
<1>0. Core(x, early) /\ Whole(x) /\ Local(x, early)
  BY DEF Sound, Core, Body
<1>1. /\ SameBut(w, x, TaskFields) /\ Whole(w) /\ w.due = FALSE
      /\ w.pairing_request = x.pairing_request
      /\ w.pub_queue = x.pub_queue /\ w.rx_queue = x.rx_queue
  BY <1>0 DEF Whole, SameBut, Fields, LocalFields, TaskFields
<1>2. z = IF w.my_id = NONE \/ w.state \notin {"RX", "SLEEP"}
          THEN TryLater(w)
          ELSE IF w.pairing_request = "long"
          THEN [w EXCEPT !.pairing_request = "no"]
          ELSE IF w.pairing_request = "yes"
          THEN StartTx([w EXCEPT !.pairing_request = "no"], "pairing", NONE)
          ELSE IF w.ack /\ w.sent_subs # w.subs_length
          THEN StartTx(w, "subreg", SUB_REG(w.sent_subs))
          ELSE IF Unknown(w) # {} THEN SkipUnknown(w)
          ELSE IF w.pub_queue = <<>> THEN [w EXCEPT !.rx_queue = <<>>]
          ELSE StartTx([w EXCEPT !.rx_queue = <<>>, !.pub_queue = Tail(@)],
                       Head(w.pub_queue).kind, Head(w.pub_queue).body)
  BY DEF RadioTask
<1> HIDE DEF w, z
<1>3. /\ x.pub_queue \in Seq(Items(early)) /\ Len(x.pub_queue) <= PubCapacity
      /\ x.rx_queue \in Seq(KnownFrames(early)) /\ Len(x.rx_queue) <= RxCapacity
      /\ x.pairing_request \in {"no", "yes", "long"} /\ (x.pairing_request = "long" => early)
  BY <1>0 DEF Local
<1>4. /\ Loose(w, early) /\ Transceiver(w, early) /\ w.state = x.state
      /\ w.sent_subs = x.sent_subs /\ w.subs_length = x.subs_length /\ w.self = x.self
      /\ w.desired = x.desired
  BY <1>0, <1>1, <1>3, TaskLocal, ZenonT(60)
<1>5. <<>> \in Seq(KnownFrames(early)) /\ Len(<<>>) <= RxCapacity
  BY LimitAssumption
<1>6. ASSUME NEW y, SameBut(y, x, TaskFields), y.due \in BOOLEAN,
             y.pairing_request \in {"no", x.pairing_request},
             y.pub_queue = x.pub_queue,
             y.rx_queue \in Seq(KnownFrames(early)), Len(y.rx_queue) <= RxCapacity,
             Work(y, early)
      PROVE  Sound(y, early) /\ y.self = x.self
  <2>1. Quiet(y, x, early)
    BY <1>0, <1>3, <1>6, TaskLocal
  <2> QED
    BY <2>1, QuietSound
<1>7. CASE w.my_id = NONE \/ w.state \notin {"RX", "SLEEP"}
  <2> DEFINE y == [w EXCEPT !.due = TRUE]
  <2>1. z = y
    BY <1>2, <1>7 DEF TryLater
  <2>2. /\ SameBut(y, w, {"due"}) /\ y.due = TRUE /\ y.pairing_request = w.pairing_request
        /\ y.pub_queue = w.pub_queue /\ y.rx_queue = w.rx_queue
    BY <1>1 DEF Whole, SameBut, Fields, LocalFields
  <2> HIDE DEF y
  <2>3. SameBut(y, x, TaskFields)
    BY <1>1, <2>2, SameTwice, SameWider DEF TaskFields
  <2>4. Work(y, early)
    BY <2>2 DEF Work
  <2> QED
    BY <1>1, <1>3, <1>6, <2>1, <2>2, <2>3, <2>4 DEF z, w
<1>8. CASE ~ (w.my_id = NONE \/ w.state \notin {"RX", "SLEEP"})
  <2>0. w.desired # "TX" /\ w.self \in Radios
    BY <1>0, <1>4, <1>8 DEF Core, Body, Agrees, Target, Settled
  <2>1. CASE w.pairing_request = "long"
    <3> DEFINE y == [w EXCEPT !.pairing_request = "no"]
    <3>1. z = y
      BY <1>2, <1>8, <2>1
    <3>2. /\ SameBut(y, w, {"pairing_request"}) /\ y.due = FALSE /\ y.pairing_request = "no"
          /\ y.pub_queue = w.pub_queue /\ y.rx_queue = w.rx_queue
      BY <1>1 DEF Whole, SameBut, Fields, LocalFields
    <3> HIDE DEF y
    <3>3. SameBut(y, x, TaskFields)
      BY <1>1, <3>2, SameTwice, SameWider DEF TaskFields
    <3>4. Work(y, early)
      BY <1>1, <1>3, <2>1 DEF Work
    <3> QED
      BY <1>1, <1>3, <1>6, <3>1, <3>2, <3>3, <3>4 DEF z, w
  <2>2. CASE w.pairing_request = "yes"
    <3> DEFINE y == [w EXCEPT !.pairing_request = "no"]
    <3>1. z = StartTx(y, "pairing", NONE)
      BY <1>2, <1>8, <2>2
    <3>2. /\ SameBut(y, w, {"pairing_request"}) /\ y.due = FALSE /\ y.pairing_request = "no"
          /\ y.pub_queue = w.pub_queue /\ y.rx_queue = w.rx_queue
      BY <1>1 DEF Whole, SameBut, Fields, LocalFields
    <3> HIDE DEF y
    <3>3. SameBut(y, x, TaskFields)
      BY <1>1, <3>2, SameTwice, SameWider DEF TaskFields
    <3>4. /\ Loose(y, early) /\ Transceiver(y, early) /\ y.self = x.self
          /\ y.desired = x.desired
      <4>1. /\ y.pub_queue \in Seq(Items(early)) /\ Len(y.pub_queue) <= PubCapacity
            /\ y.rx_queue \in Seq(KnownFrames(early)) /\ Len(y.rx_queue) <= RxCapacity
            /\ y.due \in BOOLEAN
        BY <1>1, <1>3, <3>2
      <4> QED
        BY <1>0, <3>2, <3>3, <4>1, TaskLocal
    <3>5. Sendable(y, "pairing", NONE, early)
      BY <1>4, <2>0, <3>4 DEF Sendable, KnownFrames, Frames, Kinds
    <3>6. "pairing" \in Kinds \ {"ack"} /\ "pairing" # "subreg"
      BY DEF Kinds
    <3> QED
      BY <1>4, <2>0, <3>1, <3>4, <3>5, <3>6, StartTxSound DEF z, w
  <2>3. CASE w.pairing_request = "no" /\ w.ack /\ w.sent_subs # w.subs_length
    <3> PICK body : body = SUB_REG(w.sent_subs)
      OBVIOUS
    <3>1. z = StartTx(w, "subreg", body)
      BY <1>2, <1>8, <2>3
    <3>2. w.sent_subs < w.subs_length /\ w.sent_subs \in Nat
      BY <1>4, <2>3 DEF Loose, Local, Settled
    <3>3. Sendable(w, "subreg", body, early)
      BY <2>0, <3>2 DEF Sendable, KnownFrames, Frames, Kinds, SUB_REG
    <3>4. "subreg" \in Kinds \ {"ack"}
      BY DEF Kinds
    <3> QED
      <4>1. Sound(StartTx(w, "subreg", body), early) /\ StartTx(w, "subreg", body).self = w.self
        BY <1>4, <2>0, <3>2, <3>3, <3>4, StartTxSound
      <4> QED
        BY <1>4, <3>1, <4>1 DEF z, w
  <2>4. CASE w.pairing_request = "no" /\ ~ (w.ack /\ w.sent_subs # w.subs_length)
             /\ Unknown(w) # {}
    <3>1. z = SkipUnknown(w)
      BY <1>2, <1>8, <2>4
    <3>2. early
      BY <1>1, <1>3, <2>4, SkipUnknownQueue
    <3>3. PICK rx : /\ SkipUnknown(w) = [w EXCEPT !.rx_queue = rx]
                    /\ rx \in Seq(KnownFrames(early)) /\ Len(rx) <= RxCapacity
      BY <1>1, <1>3, <2>4, SkipUnknownQueue
    <3> DEFINE y == [w EXCEPT !.rx_queue = rx]
    <3>4. /\ SameBut(y, w, {"rx_queue"}) /\ y.due = FALSE
          /\ y.pairing_request = w.pairing_request
          /\ y.pub_queue = w.pub_queue /\ y.rx_queue = rx
      BY <1>1 DEF Whole, SameBut, Fields, LocalFields
    <3>5. z = y
      BY <3>1, <3>3
    <3> HIDE DEF y
    <3>6. SameBut(y, x, TaskFields)
      BY <1>1, <3>4, SameTwice, SameWider DEF TaskFields
    <3>7. Work(y, early)
      BY <3>2 DEF Work
    <3> QED
      BY <1>1, <1>3, <1>6, <3>3, <3>4, <3>5, <3>6, <3>7 DEF z, w
  <2>5. CASE w.pairing_request = "no" /\ ~ (w.ack /\ w.sent_subs # w.subs_length)
             /\ ~ (Unknown(w) # {}) /\ w.pub_queue = <<>>
    <3> DEFINE y == [w EXCEPT !.rx_queue = <<>>]
    <3>1. z = y
      BY <1>2, <1>8, <2>5
    <3>2. /\ SameBut(y, w, {"rx_queue"}) /\ y.due = FALSE
          /\ y.pairing_request = w.pairing_request
          /\ y.pub_queue = w.pub_queue /\ y.rx_queue = <<>>
      BY <1>1 DEF Whole, SameBut, Fields, LocalFields
    <3> HIDE DEF y
    <3>3. SameBut(y, x, TaskFields)
      BY <1>1, <3>2, SameTwice, SameWider DEF TaskFields
    <3>4. Work(y, early)
      BY <2>5, <3>2 DEF Work, HasWork
    <3> QED
      BY <1>1, <1>3, <1>5, <1>6, <3>1, <3>2, <3>3, <3>4 DEF z, w
  <2>6. CASE w.pairing_request = "no" /\ ~ (w.ack /\ w.sent_subs # w.subs_length)
             /\ ~ (Unknown(w) # {}) /\ w.pub_queue # <<>>
    <3> PICK tail : tail = Tail(w.pub_queue)
      OBVIOUS
    <3> PICK item : item = Head(w.pub_queue)
      OBVIOUS
    <3> DEFINE y == [w EXCEPT !.rx_queue = <<>>, !.pub_queue = tail]
    <3>1. z = StartTx(y, item.kind, item.body)
      BY <1>2, <1>8, <2>6
    <3>2. /\ item \in Items(early) /\ tail \in Seq(Items(early)) /\ Len(tail) <= PubCapacity
      <4>1. /\ item \in Items(early) /\ tail \in Seq(Items(early))
            /\ Len(tail) = Len(w.pub_queue) - 1
        BY <1>1, <1>3, <2>6, HeadTailProperties
      <4> QED
        BY <1>1, <1>3, <4>1, LimitAssumption
    <3>3. /\ SameBut(y, w, {"rx_queue", "pub_queue"}) /\ y.due = FALSE
          /\ y.pairing_request = w.pairing_request
          /\ y.pub_queue = tail /\ y.rx_queue = <<>>
      BY <1>1 DEF Whole, SameBut, Fields, LocalFields
    <3> HIDE DEF y
    <3>4. SameBut(y, x, TaskFields)
      BY <1>1, <3>3, SameTwice, SameWider DEF TaskFields
    <3>5. /\ Loose(y, early) /\ Transceiver(y, early) /\ y.self = x.self
          /\ y.desired = x.desired
      <4>1. /\ y.pub_queue \in Seq(Items(early)) /\ Len(y.pub_queue) <= PubCapacity
            /\ y.rx_queue \in Seq(KnownFrames(early)) /\ Len(y.rx_queue) <= RxCapacity
            /\ y.due \in BOOLEAN /\ y.pairing_request \in {"no", x.pairing_request}
        BY <1>1, <1>5, <3>2, <3>3
      <4> QED
        BY <1>0, <3>4, <4>1, TaskLocal
    <3>6. item.kind \in Kinds \ {"ack"} /\ item.kind # "subreg"
      BY <3>2 DEF Items, Kinds
    <3>7. Sendable(y, item.kind, item.body, early)
      BY <1>4, <2>0, <3>2, <3>5, <3>6 DEF Sendable, Items, KnownFrames, Frames
    <3> QED
      BY <1>4, <2>0, <3>1, <3>5, <3>6, <3>7, StartTxSound DEF z, w
  <2> QED
    BY <1>1, <1>3, <2>1, <2>2, <2>3, <2>4, <2>5, <2>6
<1> QED
  BY <1>7, <1>8

-----------------------------------------------------------------------------
(***************************************************************************)
(* The initial states.                                                     *)
(***************************************************************************)
LEMMA InitialSound ==
    ASSUME scenario \in Scenarios, NEW r \in Radios, NEW early \in BOOLEAN
    PROVE  Initial(r).self = r /\ Sound(Initial(r), early)
<1>p. PICK peers, mode : peers = scenario.peers[r] /\ mode = scenario.mode[r]
  OBVIOUS
<1>s. PICK start : start = IF mode = "NODE_SLEEPING" THEN "SLEEP" ELSE "RX"
  OBVIOUS
<1>t. PICK table : table = [i \in Slots |-> [id |-> IF i < Len(peers) THEN peers[i + 1] ELSE NONE,
                                           message_id |-> 0, synced |-> FALSE]]
  OBVIOUS
<1> DEFINE x == Initial(r)
<1>1. /\ mode \in Modes /\ scenario.window[r] \in BOOLEAN /\ scenario.attempts \in Nat \ {0}
      /\ scenario.subs[r] \in Nat
      /\ peers \in Seq(Radios) /\ Len(peers) \in Nat /\ Len(peers) < MAX_DEVICES
  BY <1>p, ScenariosAssumption
<1>a. PICK window, attempts, subs : /\ window = scenario.window[r]
                                     /\ attempts = scenario.attempts /\ subs = scenario.subs[r]
  OBVIOUS
<1>b. x = [self |-> r, mode |-> mode, window_after_ack |-> window,
           TX_MAX_COUNT |-> attempts,
           subs_length |-> subs, my_id |-> NONE, state |-> start,
           message_id |-> 0, transmit_count |-> 0, ack |-> FALSE, due |-> TRUE,
           pairing_request |-> "no", pairing_mode |-> FALSE, automatic_pairing |-> FALSE,
           sent_subs |-> 0, pub_queue |-> <<>>, rx_queue |-> <<>>,
           peers |-> table, peers_length |-> Len(peers),
           tx |-> NoFrame, saved_tx |-> NoFrame, saved_count |-> 0,
           window |-> FALSE, timed |-> FALSE,
           desired |-> start, current |-> "INIT",
           driver_plan |-> "now", air |-> NONE, irq_sent |-> FALSE, rx_fifo |-> NONE,
           message |-> NoFrame, transmissions |-> 0, accepted |-> <<>>, outcome |-> <<>>,
           removed |-> {}]
  BY <1>a, <1>p, <1>s, <1>t DEF Initial
<1> HIDE DEF x
<1>c. Whole(x)
  BY <1>b DEF Whole, Fields, Settings, LocalFields, LinkFields
<1>2. /\ x.self = r /\ x.mode = mode /\ x.window_after_ack = window
      /\ x.TX_MAX_COUNT = attempts /\ x.subs_length = subs
      /\ x.my_id = NONE /\ x.state = start /\ x.message_id = 0 /\ x.transmit_count = 0
      /\ x.ack = FALSE /\ x.due = TRUE /\ x.pairing_request = "no"
      /\ x.pairing_mode = FALSE /\ x.automatic_pairing = FALSE /\ x.sent_subs = 0
      /\ x.pub_queue = <<>> /\ x.rx_queue = <<>> /\ x.peers = table
      /\ x.peers_length = Len(peers) /\ x.tx = NoFrame /\ x.saved_tx = NoFrame
      /\ x.saved_count = 0 /\ x.window = FALSE /\ x.timed = FALSE /\ x.desired = start
      /\ x.current = "INIT" /\ x.driver_plan = "now" /\ x.air = NONE /\ x.irq_sent = FALSE
      /\ x.rx_fifo = NONE /\ x.message = NoFrame /\ x.transmissions = 0
  BY <1>b
<1>3. table \in [Slots -> Peers]
  <2>1. \A i \in Slots : (IF i < Len(peers) THEN peers[i + 1] ELSE NONE) \in Radios \union {NONE}
    BY <1>1 DEF Slots
  <2>2. 0 \in Ids
    BY LimitAssumption DEF Ids
  <2> QED
    BY <1>t, <2>1, <2>2 DEF Peers
<1>4. NoFrame \in KnownFrames(early) /\ NoFrame.kind = "none"
  BY LimitAssumption DEF NoFrame, KnownFrames, Frames, Kinds, Ids
<1>5. start \in {"RX", "SLEEP"}
  BY <1>s
<1>6. Settled(x)
  BY <1>a, <1>1, <1>2 DEF Settled
<1>7. Local(x, early)
  <2>1. /\ <<>> \in Seq(Items(early)) /\ <<>> \in Seq(KnownFrames(early))
        /\ Len(<<>>) <= PubCapacity /\ Len(<<>>) <= RxCapacity
    BY LimitAssumption
  <2>2. Len(peers) \in 0 .. MAX_DEVICES - 1 /\ 0 \in 0 .. subs
    BY <1>a, <1>1, LimitAssumption
  <2> QED
    BY <1>2, <1>3, <2>1, <2>2 DEF Local
<1>8. Buffers(x, early)
  BY <1>2, <1>4, <1>5, LimitAssumption DEF Buffers, States, Ids
<1>9. Counts(x)
  BY <1>a, <1>1, <1>2, <1>5 DEF Counts
<1>10. Subs(x) /\ Agrees(x)
  BY <1>2, <1>5 DEF Subs, Agrees, Target
<1>11. Transceiver(x, early)
  BY <1>2 DEF Transceiver, DriverStates, Plans
<1>12. Work(x, early) /\ Planned(x)
  BY <1>2 DEF Work, Planned
<1> QED
  BY <1>c, <1>2, <1>6, <1>7, <1>8, <1>9, <1>10, <1>11, <1>12 DEF Sound, Core, Body, x

LEMMA EarlyBoolean == EarlyReturns \in BOOLEAN
  BY DEF EarlyReturns

THEOREM InitEstablishes == Init => IInv
<1> SUFFICES ASSUME Init PROVE IInv
  OBVIOUS
<1>1. scenario \in Scenarios
  BY DEF Init
<1>2. to_publish \in [Radios -> Seq(KnownBodies)]
  <2>1. scenario.publish \in [Radios -> Seq(Bodies)] /\ to_publish = scenario.publish
    BY <1>1, ScenariosAssumption DEF Init
  <2>2. ASSUME NEW r \in Radios
        PROVE  to_publish[r] \in Seq(KnownBodies)
    <3>1. to_publish[r] \in Seq(Bodies)
      BY <2>1
    <3>2. \A k \in 1 .. Len(to_publish[r]) : to_publish[r][k] \in KnownBodies
      BY <2>1, <3>1, ElementOfSeq DEF KnownBodies, EarlyReturns
    <3> QED
      BY <3>1, <3>2
  <2> QED
    BY <2>1, <2>2
<1>3. ASSUME NEW r \in Radios
      PROVE  radio[r].self = r /\ Sound(radio[r], EarlyReturns)
  <2>1. radio[r] = Initial(r)
    BY DEF Init
  <2> QED
    BY <1>1, <2>1, InitialSound, EarlyBoolean
<1>4. DOMAIN radio = Radios
  BY DEF Init
<1> QED
  BY <1>1, <1>2, <1>3, <1>4 DEF IInv

-----------------------------------------------------------------------------
(***************************************************************************)
(* The steps.                                                              *)
(***************************************************************************)
\* A step changes one radio.
LEMMA OneRadio ==
    ASSUME IInv, NEW r \in Radios, NEW y, radio' = [radio EXCEPT ![r] = y],
           Sound(y, EarlyReturns), y.self = r, scenario' = scenario,
           to_publish' \in [Radios -> Seq(KnownBodies)]
    PROVE  IInv'
<1>1. (EarlyReturns' <=> EarlyReturns) /\ KnownBodies' = KnownBodies
  BY DEF EarlyReturns, KnownBodies
<1>2. DOMAIN radio' = Radios
  BY DEF IInv
<1>3. ASSUME NEW q \in Radios
      PROVE  radio'[q].self = q /\ Sound(radio'[q], EarlyReturns)
  <2>1. radio'[q] = IF q = r THEN y ELSE radio[q]
    BY DEF IInv
  <2> QED
    BY <2>1 DEF IInv
<1>4. EarlyReturns' = EarlyReturns
  BY <1>1, EarlyBoolean
<1> QED
  BY <1>1, <1>2, <1>3, <1>4 DEF IInv

\* A step of one radio's application that is a quiet change.
LEMMA OneQuiet ==
    ASSUME IInv, NEW r \in Radios, NEW y, radio' = [radio EXCEPT ![r] = y],
           Quiet(y, radio[r], EarlyReturns), scenario' = scenario,
           to_publish' \in [Radios -> Seq(KnownBodies)]
    PROVE  IInv'
<1>1. Sound(y, EarlyReturns) /\ y.self = r
  BY QuietSound, EarlyBoolean DEF IInv
<1> QED
  BY <1>1, OneRadio

LEMMA RunRadioTaskPreserves ==
    ASSUME IInv, NEW r \in Radios, RunRadioTask(r)
    PROVE  IInv'
<1> PICK y : y = RadioTask([radio[r] EXCEPT !.due = FALSE])
  OBVIOUS
<1>1. radio' = [radio EXCEPT ![r] = y]
  BY DEF RunRadioTask
<1>2. Sound(y, EarlyReturns) /\ y.self = r
  BY RadioTaskSound, EarlyBoolean DEF IInv
<1> QED
  BY <1>1, <1>2, OneRadio, ZenonT(60) DEF RunRadioTask, IInv

LEMMA SerialNumberPreserves ==
    ASSUME IInv, NEW r \in Radios, SerialNumber(r)
    PROVE  IInv'
<1> PICK y : y = [radio[r] EXCEPT !.my_id = r]
  OBVIOUS
<1>1. radio' = [radio EXCEPT ![r] = y]
  BY DEF SerialNumber
<1>2. Whole(radio[r]) /\ Local(radio[r], EarlyReturns) /\ radio[r].self = r
  BY DEF IInv, Sound, Core, Body
<1>3. Quiet([radio[r] EXCEPT !.my_id = radio[r].self], radio[r], EarlyReturns)
  BY <1>2, FlagsQuiet, EarlyBoolean
<1>4. Quiet(y, radio[r], EarlyReturns)
  BY <1>2, <1>3
<1> QED
  BY <1>1, <1>4, OneQuiet DEF SerialNumber, IInv

LEMMA RunDriverTaskPreserves ==
    ASSUME IInv, NEW r \in Radios, NEW expired \in BOOLEAN, NEW late \in BOOLEAN,
           NEW open \in BOOLEAN, RunDriverTask(r, expired, late, open)
    PROVE  IInv'
<1> PICK y : y = DriverTask(radio[r], expired, late, open)
  OBVIOUS
<1>1. radio' = [radio EXCEPT ![r] = y]
  BY DEF RunDriverTask
<1>2. Sound(y, EarlyReturns) /\ y.self = r
  <2>1. \/ radio[r].driver_plan = "now" /\ (expired => CanExpire(radio[r]))
        \/ radio[r].driver_plan = "timeout" /\ expired
    BY DEF RunDriverTask
  <2> QED
    BY <2>1, DriverTaskSound, EarlyBoolean DEF IInv
<1> QED
  BY <1>1, <1>2, OneRadio, ZenonT(60) DEF RunDriverTask, IInv

\* The transceiver's events plan the driver's task.
LEMMA SentSound ==
    ASSUME NEW early \in BOOLEAN, NEW x, Sound(x, early), x.air # NONE
    PROVE  LET y == [x EXCEPT !.air = NONE, !.irq_sent = TRUE, !.driver_plan = "now"]
           IN Sound(y, early) /\ y.self = x.self
<1> DEFINE y == [x EXCEPT !.air = NONE, !.irq_sent = TRUE, !.driver_plan = "now"]
<1>0. Core(x, early) /\ Whole(x)
  BY DEF Sound, Core, Body
<1>1. /\ SameBut(y, x, DriverFields) /\ y.air = NONE /\ y.irq_sent = TRUE
      /\ y.driver_plan = "now" /\ y.rx_fifo = x.rx_fifo
  BY <1>0 DEF Whole, SameBut, Fields, LinkFields, DriverFields
<1> HIDE DEF y
<1>2. /\ y.driver_plan \in Plans /\ y.irq_sent \in BOOLEAN
      /\ y.rx_fifo \in KnownFrames(early) \union {NONE, DISCARDED}
      /\ x.current = "TX" => y.air # NONE \/ y.irq_sent
      /\ y.air # NONE => x.current = "TX" /\ y.air = x.tx /\ ~ y.irq_sent
      /\ y.rx_fifo # NONE => x.current = "RX"
      /\ y.driver_plan = "timeout" => x.current = "RX"
  BY <1>0, <1>1 DEF Core, Transceiver, Plans
<1>3. Core(y, early) /\ y.self = x.self
  BY <1>0, <1>1, <1>2, DriverCore
<1>4. Planned(y)
  BY <1>1 DEF Planned
<1> QED
  BY <1>3, <1>4 DEF Sound, y

LEMMA ReceivedSound ==
    ASSUME NEW early \in BOOLEAN, NEW x, Sound(x, early), x.current = "RX",
           NEW frame \in KnownFrames(early) \union {DISCARDED}
    PROVE  LET y == [x EXCEPT !.rx_fifo = frame, !.driver_plan = "now"]
           IN Sound(y, early) /\ y.self = x.self
<1> DEFINE y == [x EXCEPT !.rx_fifo = frame, !.driver_plan = "now"]
<1>0. Core(x, early) /\ Whole(x)
  BY DEF Sound, Core, Body
<1>1. /\ SameBut(y, x, DriverFields) /\ y.air = x.air /\ y.irq_sent = x.irq_sent
      /\ y.driver_plan = "now" /\ y.rx_fifo = frame
  BY <1>0 DEF Whole, SameBut, Fields, LinkFields, DriverFields
<1> HIDE DEF y
<1>2. /\ y.driver_plan \in Plans /\ y.irq_sent \in BOOLEAN
      /\ y.rx_fifo \in KnownFrames(early) \union {NONE, DISCARDED}
      /\ x.current = "TX" => y.air # NONE \/ y.irq_sent
      /\ y.air # NONE => x.current = "TX" /\ y.air = x.tx /\ ~ y.irq_sent
      /\ y.rx_fifo # NONE => x.current = "RX"
      /\ y.driver_plan = "timeout" => x.current = "RX"
  BY <1>0, <1>1 DEF Core, Transceiver, Plans
<1>3. Core(y, early) /\ y.self = x.self
  BY <1>0, <1>1, <1>2, DriverCore
<1>4. Planned(y)
  BY <1>1 DEF Planned
<1> QED
  BY <1>3, <1>4 DEF Sound, y

LEMMA TransmittedPreserves ==
    ASSUME IInv, NEW r \in Radios,
           NEW hear \in SUBSET {q \in Radios \ {r} : Listening(q)},
           NEW garbled \in SUBSET {q \in Radios \ {r} : Listening(q)},
           Transmitted(r, hear, garbled)
    PROVE  IInv'
<1>1. radio[r].air # NONE /\ radio[r].air \in KnownFrames(EarlyReturns)
  BY DEF Transmitted, IInv, Sound, Core, Transceiver, Body, Buffers
<1>2. ASSUME NEW q \in Radios
      PROVE  radio'[q].self = q /\ Sound(radio'[q], EarlyReturns)
  <2>1. radio'[q] =
         IF q = r
         THEN [radio[q] EXCEPT !.air = NONE, !.irq_sent = TRUE, !.driver_plan = "now"]
         ELSE IF q \in hear
         THEN [radio[q] EXCEPT !.rx_fifo = radio[r].air, !.driver_plan = "now"]
         ELSE IF q \in garbled
         THEN [radio[q] EXCEPT !.rx_fifo = DISCARDED, !.driver_plan = "now"]
         ELSE radio[q]
    BY DEF Transmitted
  <2>2. radio[q].self = q /\ Sound(radio[q], EarlyReturns)
    BY DEF IInv
  <2>3. CASE q = r
    BY <1>1, <2>1, <2>2, <2>3, SentSound, EarlyBoolean, ZenonT(60)
  <2>4. CASE q # r /\ q \in hear
    <3>1. radio[q].current = "RX"
      BY <2>4 DEF Listening
    <3> QED
      <4> PICK y : y = [radio[q] EXCEPT !.rx_fifo = radio[r].air, !.driver_plan = "now"]
        OBVIOUS
      <4>1. Sound(y, EarlyReturns) /\ y.self = q
        BY <1>1, <2>2, <3>1, ReceivedSound, EarlyBoolean
      <4> QED
        BY <2>1, <2>4, <4>1
  <2>5. CASE q # r /\ q \notin hear /\ q \in garbled
    <3>1. radio[q].current = "RX"
      BY <2>5 DEF Listening
    <3> QED
      <4> PICK y : y = [radio[q] EXCEPT !.rx_fifo = DISCARDED, !.driver_plan = "now"]
        OBVIOUS
      <4>1. Sound(y, EarlyReturns) /\ y.self = q
        BY <2>2, <3>1, ReceivedSound, EarlyBoolean
      <4> QED
        BY <2>1, <2>5, <4>1
  <2>6. CASE q # r /\ q \notin hear /\ q \notin garbled
    BY <2>1, <2>2, <2>6
  <2> QED
    BY <2>3, <2>4, <2>5, <2>6
<1>3. (EarlyReturns' <=> EarlyReturns) /\ KnownBodies' = KnownBodies
  BY DEF Transmitted, EarlyReturns, KnownBodies
<1>4. EarlyReturns' = EarlyReturns
  BY <1>3, EarlyBoolean
<1>5. DOMAIN radio' = Radios /\ scenario' = scenario /\ to_publish' = to_publish
  BY DEF Transmitted
<1> QED
  BY <1>2, <1>3, <1>4, <1>5 DEF IInv

LEMMA PublishPreserves ==
    ASSUME IInv, NEW r \in Radios, Publish(r)
    PROVE  IInv'
<1> PICK item : item = [kind |-> "pub", body |-> Head(to_publish[r])]
  OBVIOUS
<1> PICK y : y = PubPut(radio[r], item)
  OBVIOUS
<1>1. radio' = [radio EXCEPT ![r] = y] /\ scenario' = scenario
      /\ to_publish' = [to_publish EXCEPT ![r] = Tail(@)] /\ to_publish[r] # <<>>
  BY DEF Publish
<1>2. Head(to_publish[r]) \in KnownBodies /\ Tail(to_publish[r]) \in Seq(KnownBodies)
  BY <1>1, HeadTailProperties DEF IInv
<1>3. to_publish' \in [Radios -> Seq(KnownBodies)]
  BY <1>1, <1>2 DEF IInv
<1>4. item \in Items(EarlyReturns)
  BY <1>2 DEF Items, KnownBodies
<1>5. Quiet(y, radio[r], EarlyReturns)
  BY <1>4, PubPutQuiet, EarlyBoolean DEF IInv, Sound, Core, Body
<1> QED
  BY <1>1, <1>3, <1>5, OneQuiet

LEMMA UsePreserves ==
    ASSUME IInv, NEW r \in Radios, NEW call, NEW y, Use(r, call, y),
           Quiet(y, radio[r], EarlyReturns)
    PROVE  IInv'
  BY OneQuiet DEF Use, IInv

LEMMA ApplicationPreserves ==
    ASSUME IInv, NEW r \in Radios, Application(r)
    PROVE  IInv'
<1> DEFINE x == radio[r]
<1>1. Whole(x) /\ Local(x, EarlyReturns) /\ EarlyReturns \in BOOLEAN
  BY EarlyBoolean DEF IInv, Sound, Core, Body
<1>2. CASE Publish(r)
  BY <1>2, PublishPreserves
<1>3. CASE Use(r, "pairing_request", [x EXCEPT !.pairing_request = "yes", !.due = TRUE])
  BY <1>1, <1>3, FlagsQuiet, UsePreserves
<1>4. CASE Use(r, "long_request", [x EXCEPT !.pairing_request = "long", !.due = TRUE])
  <2>1. EarlyReturns
    BY <1>4 DEF Use, EarlyReturns
  <2> QED
    BY <1>1, <1>4, <2>1, FlagsQuiet, UsePreserves
<1>5. CASE PairingMode(r)
  BY <1>1, <1>5, FlagsQuiet, UsePreserves DEF PairingMode
<1>6. CASE AutomaticPairing(r)
  BY <1>1, <1>6, FlagsQuiet, UsePreserves DEF AutomaticPairing
<1>7. CASE \E id \in Radios \ {r} : AddPeer(r, id)
  BY <1>1, <1>7, PeerDeviceAddQuiet, UsePreserves DEF AddPeer
<1>8. CASE \E id \in Radios \ {r} : RemovePeerDevice(r, id)
  BY <1>1, <1>8, PeerDeviceRemoveQuiet, UsePreserves DEF RemovePeerDevice
<1>9. CASE Listen(r)
  BY <1>1, <1>9, FlagsQuiet, UsePreserves DEF Listen
<1>10. CASE ClearPubQueue(r)
  BY <1>1, <1>10, FlagsQuiet, UsePreserves DEF ClearPubQueue
<1> QED
  BY <1>2, <1>3, <1>4, <1>5, <1>6, <1>7, <1>8, <1>9, <1>10 DEF Application, PairingRequest

THEOREM NextPreserves == IInv /\ [Next]_vars => IInv'
<1> SUFFICES ASSUME IInv, [Next]_vars PROVE IInv'
  OBVIOUS
<1>1. CASE UNCHANGED vars
  BY <1>1 DEF vars, IInv, EarlyReturns, KnownBodies
<1>2. CASE Next
  <2>1. PICK r \in Radios :
          RunRadioTask(r) \/ SerialNumber(r) \/ Driver(r) \/ Ether(r) \/ Application(r)
    BY <1>2 DEF Next
  <2>2. CASE RunRadioTask(r)
    BY <2>2, RunRadioTaskPreserves
  <2>3. CASE SerialNumber(r)
    BY <2>3, SerialNumberPreserves
  <2>4. CASE Driver(r)
    BY <2>4, RunDriverTaskPreserves DEF Driver
  <2>5. CASE Ether(r)
    <3>1. PICK hear \in SUBSET {q \in Radios \ {r} : Listening(q)},
               garbled \in SUBSET {q \in Radios \ {r} : Listening(q)} :
                 Transmitted(r, hear, garbled)
      BY <2>5 DEF Ether
    <3> QED
      BY <3>1, TransmittedPreserves
  <2>6. CASE Application(r)
    BY <2>6, ApplicationPreserves
  <2> QED
    BY <2>1, <2>2, <2>3, <2>4, <2>5, <2>6
<1> QED
  BY <1>1, <1>2

THEOREM Inductive == Spec => []IInv
  BY InitEstablishes, NextPreserves, PTL DEF Spec

-----------------------------------------------------------------------------
(***************************************************************************)
(* What the invariant says of the radios.                                  *)
(***************************************************************************)
\* Every field of every radio has its type, the attempts that are left, the
\* slots in use and the order that is being registered among them
\* (_twr_radio_task, twr_spirit1.c, the peer table).
THEOREM TypeCorrect == Spec => []TypeOK
<1>1. ASSUME IInv PROVE TypeOK
  <2> SUFFICES ASSUME NEW r \in Radios
               PROVE  LET x == radio[r] IN
         /\ x.self = r /\ x.mode \in Modes /\ x.my_id \in {NONE, r}
         /\ x.state \in States /\ x.message_id \in Ids
         /\ x.transmit_count \in 0 .. x.TX_MAX_COUNT + 2
         /\ x.saved_count \in 0 .. x.TX_MAX_COUNT
         /\ {x.ack, x.due, x.pairing_mode, x.automatic_pairing, x.window, x.timed,
             x.irq_sent} \subseteq BOOLEAN
         /\ x.pairing_request \in {"no", "yes", "long"}
         /\ x.sent_subs \in 0 .. x.subs_length
         /\ Len(x.pub_queue) <= PubCapacity /\ Len(x.rx_queue) <= RxCapacity
         /\ x.peers_length \in 0 .. MAX_DEVICES
         /\ \A i \in Slots : /\ x.peers[i].id \in Radios \union {NONE}
                             /\ x.peers[i].message_id \in Ids
                             /\ x.peers[i].synced \in BOOLEAN
         /\ {x.tx.kind, x.saved_tx.kind, x.message.kind} \subseteq Kinds
         /\ x.desired \in DriverStates /\ x.current \in DriverStates
         /\ x.driver_plan \in Plans
    BY DEF TypeOK
  <2> DEFINE x == radio[r]
  <2>1. x.self = r /\ Sound(x, EarlyReturns)
    BY <1>1 DEF IInv
  <2> HIDE DEF x
  <2>2. /\ Settled(x) /\ Local(x, EarlyReturns) /\ Buffers(x, EarlyReturns) /\ Counts(x)
        /\ Agrees(x) /\ Transceiver(x, EarlyReturns)
    BY <2>1 DEF Sound, Core, Body
  <2>3. \A i \in Slots : x.peers[i] \in Peers
    BY <2>2 DEF Local
  <2>4. \A i \in Slots : /\ x.peers[i].id \in Radios \union {NONE}
                         /\ x.peers[i].message_id \in Ids
                         /\ x.peers[i].synced \in BOOLEAN
    BY <2>3 DEF Peers
  <2>5. x.tx.kind \in Kinds /\ x.saved_tx.kind \in Kinds /\ x.message.kind \in Kinds
    BY <2>2 DEF Buffers, KnownFrames, Frames
  <2>6. x.peers_length \in 0 .. MAX_DEVICES
    BY <2>2, LimitAssumption DEF Local
  <2>7. /\ x.mode \in Modes /\ x.my_id \in {NONE, r}
        /\ x.pairing_request \in {"no", "yes", "long"}
        /\ x.sent_subs \in 0 .. x.subs_length
        /\ Len(x.pub_queue) <= PubCapacity /\ Len(x.rx_queue) <= RxCapacity
        /\ x.ack \in BOOLEAN /\ x.due \in BOOLEAN /\ x.pairing_mode \in BOOLEAN
        /\ x.automatic_pairing \in BOOLEAN /\ x.window \in BOOLEAN
    BY <2>1, <2>2 DEF Local, Settled
  <2>8. /\ x.state \in States /\ x.message_id \in Ids
        /\ x.transmit_count \in 0 .. x.TX_MAX_COUNT + 2
        /\ x.saved_count \in 0 .. x.TX_MAX_COUNT
    BY <2>2 DEF Buffers, Counts
  <2>9. /\ x.desired \in DriverStates /\ x.current \in DriverStates /\ x.driver_plan \in Plans
        /\ x.timed \in BOOLEAN /\ x.irq_sent \in BOOLEAN
    BY <2>2, <2>8 DEF Agrees, Target, Transceiver, DriverStates, States
  <2> QED
    BY <2>1, <2>4, <2>5, <2>6, <2>7, <2>8, <2>9 DEF x
<1> QED
  BY <1>1, Inductive, PTL

\* However its tasks, the frames and the application interleave, whatever a
\* radio waits for has been planned: no handler of twr_radio.c or
\* twr_spirit1.c forgets to plan the task that goes on (but for the two
\* early returns of _twr_radio_task).
THEOREM NothingIsForgotten == Spec => []NothingForgotten
<1>1. ASSUME IInv PROVE NothingForgotten
  <2>1. \A r \in Radios : Sound(radio[r], EarlyReturns)
    BY <1>1 DEF IInv
  <2>2. DriverAgrees
    BY <2>1 DEF DriverAgrees, Sound, Core, Body, Agrees, Target
  <2>3. ASSUME NEW x, Sound(x, EarlyReturns)
        PROVE  /\ x.desired # x.current => x.driver_plan = "now"
               /\ x.current = "TX" => x.air # NONE \/ (x.irq_sent /\ x.driver_plan = "now")
               /\ x.rx_fifo # NONE => x.current = "RX" /\ x.driver_plan = "now"
               /\ (x.pub_queue # <<>> \/ x.pairing_request = "yes" \/ x.rx_queue # <<>>)
                    => EarlyReturns \/ x.due \/ x.state \notin {"RX", "SLEEP"}
    BY <2>3 DEF Sound, Core, Transceiver, Planned, Work, HasWork
  <2> QED
    BY <2>1, <2>2, <2>3 DEF NothingForgotten
<1> QED
  BY <1>1, Inductive, PTL

\* What is resent after losses, timeouts and answers to others' messages is
\* the message, no message is given up unsent, and none is sent more often
\* than _TWR_RADIO_TX_MAX_COUNT, for any number of attempts and radios.
THEOREM ResentIsAsPromised == Spec => []ResentAsPromised
<1>1. ASSUME IInv PROVE ResentAsPromised
  <2>1. \A r \in Radios : Sound(radio[r], EarlyReturns)
    BY <1>1 DEF IInv
  <2>2. ASSUME NEW x, Sound(x, EarlyReturns)
        PROVE  /\ x.air # NONE /\ (x.state = "TX" \/ x.air.kind # "ack") => x.air = x.message
               /\ x.message # NoFrame /\ x.state \in {"RX", "SLEEP"} => x.transmissions > 0
               /\ x.transmissions <= x.TX_MAX_COUNT
    <3>1. /\ Buffers(x, EarlyReturns) /\ Counts(x) /\ Agrees(x) /\ Settled(x)
          /\ Transceiver(x, EarlyReturns)
      BY <2>2 DEF Sound, Core, Body
    <3>2. x.air # NONE => x.air = x.tx /\ x.state \in {"TX", "RX_SEND_ACK", "TX_SEND_ACK"}
      BY <3>1 DEF Transceiver, Agrees, Target, Buffers, States
    <3>3. x.transmissions <= x.TX_MAX_COUNT
      BY <3>1 DEF Counts, Settled
    <3>4. x.message # NoFrame /\ x.state \in {"RX", "SLEEP"} => x.transmissions > 0
      BY <3>1 DEF Counts
    <3> QED
      BY <3>1, <3>2, <3>3, <3>4 DEF Buffers
  <2> QED
    BY <2>1, <2>2 DEF ResentAsPromised, OnlyTheMessageIsResent, SentBeforeGivenUp,
                      TransmissionsBounded
<1> QED
  BY <1>1, Inductive, PTL

=============================================================================
