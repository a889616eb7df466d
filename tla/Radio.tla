------------------------------- MODULE Radio -------------------------------
(***************************************************************************)
(* One radio: the protocol of twr_radio.c on top of the transceiver driver *)
(* of twr_spirit1.c.  Both run as scheduler tasks and call each other      *)
(* synchronously, so a handler of the code is an operator from the record  *)
(* x of the radio's state to its state when the handler returns, and a     *)
(* call is an application.  RadioLink puts radios on a lossy ether.        *)
(*                                                                         *)
(* A frame is [src, id, kind, body]: the sender's id (for an ACK, the id   *)
(* of the radio acknowledged), the message id, and what the header and     *)
(* length say it is.  Time is left out: a finite receive timeout may       *)
(* expire at any moment, which the argument late or open reports to the    *)
(* handlers that compare ticks.  The peer table's EEPROM copy is module    *)
(* PeerStore's; scanning and the on_info callback only report to the       *)
(* application.                                                            *)
(***************************************************************************)
EXTENDS Integers, Sequences, FiniteSets

CONSTANTS
    Radios,         \* the ids of the radios
    Bodies,         \* the payloads that applications publish
    NONE,           \* no frame, no payload, the id 0
    DISCARDED,      \* a frame that the transceiver discards (RX_DATA_DISC)
    For,            \* body -> the node a 0x15..0x1d command is for, or NONE
    UnknownOrder,   \* bodies that are SUB_DATA with an order out of range
    MAX_DEVICES,    \* TWR_RADIO_MAX_DEVICES
    IdMod,          \* number of message ids, 2^16 in the code
    PubCapacity,    \* messages that fit in pub_queue
    RxCapacity      \* messages that fit in rx_queue

ASSUME NoneAssumption == NONE \notin Radios /\ NONE \notin Bodies
ASSUME ForAssumption == For \in [Bodies -> Radios \union {NONE}]
ASSUME OrderAssumption == UnknownOrder \subseteq Bodies
ASSUME LimitAssumption == /\ MAX_DEVICES \in Nat \ {0, 1}
                          /\ IdMod \in Nat \ {0}
                          /\ PubCapacity \in Nat /\ RxCapacity \in Nat

Modes == {"GATEWAY", "NODE_LISTENING", "NODE_SLEEPING"}
States == {"SLEEP", "TX", "RX", "TX_WAIT_ACK", "RX_SEND_ACK", "TX_SEND_ACK"}
Plans == {"now", "timeout", "never"}
DriverStates == {"INIT", "SLEEP", "TX", "RX"}
Slots == 0 .. MAX_DEVICES - 1

ACK_SUB_REQUEST == "subs"
SUB_REG(order) == <<"order", order>>

Ids == 0 .. IdMod - 1
Kinds == {"none", "pub", "pairing", "subreg", "attach", "detach", "ack"}
Frames == [src : Radios \union {NONE}, id : Ids, kind : Kinds,
           body : Bodies \union Radios \union {NONE, ACK_SUB_REQUEST} \union ({"order"} \X Nat)]

ASSUME FrameAssumption == NONE \notin Frames /\ ACK_SUB_REQUEST \notin Radios

-----------------------------------------------------------------------------
(***************************************************************************)
(* twr_spirit1.c, the part other modules call.  Each call plans the        *)
(* driver's task at once.                                                  *)
(***************************************************************************)
Desire(x, s) == [x EXCEPT !.desired = s, !.driver_plan = "now"]

SpiritTx(x) == Desire(x, "TX")
\* The timeout is finite iff timed; twr_spirit1_set_rx_timeout precedes
\* every call of twr_spirit1_rx.
SpiritRx(x, timed) == [Desire(x, "RX") EXCEPT !.timed = timed]
SpiritSleep(x) == Desire(x, "SLEEP")

-----------------------------------------------------------------------------
(***************************************************************************)
(* The peer table: slots below peers_length are in use.  A slot keeps its  *)
(* old message_id when it is released.                                     *)
(***************************************************************************)
PeerSlots(x, id) == {i \in 0 .. x.peers_length - 1 : x.peers[i].id = id}
IsPeer(x, id) == PeerSlots(x, id) # {}
PeerSlot(x, id) == CHOOSE i \in PeerSlots(x, id) : \A j \in PeerSlots(x, id) : i <= j

\* Mutant: the task is not planned.
MutPubPut(x, item) ==
    IF Len(x.pub_queue) < PubCapacity
    THEN [x EXCEPT !.pub_queue = Append(@, item)]
    ELSE x

\* twr_queue_put on pub_queue, then the task is planned.
PubPut(x, item) ==
    IF Len(x.pub_queue) < PubCapacity
    THEN [x EXCEPT !.pub_queue = Append(@, item), !.due = TRUE]
    ELSE x

\* A new peer in a slot; a message of the peer in a slot.
Joined(peers, i, id) == [peers EXCEPT ![i] = [@ EXCEPT !.id = id, !.synced = FALSE]]
Heard(peers, i, id, synced) ==
    [peers EXCEPT ![i] = [@ EXCEPT !.message_id = id, !.synced = synced]]

CanAdd(x, id) == x.peers_length + 1 # MAX_DEVICES /\ ~ IsPeer(x, id)

\* twr_radio_peer_device_add: a new peer is told with a NODE_ATTACH.
PeerDeviceAdd(x, id) ==
    IF ~ CanAdd(x, id) THEN x
    ELSE PubPut([x EXCEPT
                   !.peers = Joined(@, x.peers_length, id),
                   !.peers_length = @ + 1,
                   !.removed = @ \ {id},
                   !.due = TRUE],
                [kind |-> "attach", body |-> id])

\* _twr_radio_peer_device_remove: the last slot moves into the hole.
RemovePeer(x, id) ==
    IF ~ IsPeer(x, id) THEN x
    ELSE LET i == PeerSlot(x, id)
             last == x.peers_length - 1
         IN [x EXCEPT
               !.peers[i] = IF i # last THEN x.peers[last] ELSE [@ EXCEPT !.id = NONE],
               !.peers_length = last,
               !.removed = @ \union {id},
               !.due = TRUE]

\* twr_radio_peer_device_remove
PeerDeviceRemove(x, id) ==
    IF ~ IsPeer(x, id) THEN x
    ELSE [PubPut(RemovePeer(x, id), [kind |-> "detach", body |-> id]) EXCEPT !.due = TRUE]

-----------------------------------------------------------------------------

(***************************************************************************)
(* _twr_radio_go_to_state_rx_or_sleep.  open: the receive window of a      *)
(* sleeping node (rx_timeout_sleeping) lies in the future.                 *)
(***************************************************************************)
GoToRxOrSleep(x, open) ==
    IF x.state = "TX" THEN x
    ELSE IF x.mode = "NODE_SLEEPING" /\ ~ (x.window /\ open)
    THEN [SpiritSleep(x) EXCEPT !.state = "SLEEP", !.window = FALSE, !.due = TRUE]
    ELSE [SpiritRx(x, x.mode = "NODE_SLEEPING") EXCEPT !.state = "RX", !.due = TRUE]

\* Sending the frame of a new message.
StartTx(x, kind, body) ==
    LET id == (x.message_id + 1) % IdMod
        frame == [src |-> x.self, id |-> id, kind |-> kind, body |-> body]
    IN [SpiritTx(x) EXCEPT !.message_id = id, !.tx = frame, !.message = frame,
                           !.transmissions = 0,
                           !.transmit_count = x.TX_MAX_COUNT, !.state = "TX"]

\* The messages of rx_queue go to the application, up to the first SUB_DATA
\* of an unknown order, which ends the task's run.
Unknown(x) ==
    {k \in DOMAIN x.rx_queue :
        x.rx_queue[k].kind = "pub" /\ x.rx_queue[k].body \in UnknownOrder}

SkipUnknown(x) ==
    LET k == CHOOSE i \in Unknown(x) : \A j \in Unknown(x) : i <= j
    IN [x EXCEPT !.rx_queue = SubSeq(@, k + 1, Len(@))]

\* The task comes back until the serial number is read and the last message
\* has been dealt with.
MutTryLater(x) == x     \* Mutant: the early return forgets to plan the task.
TryLater(x) == [x EXCEPT !.due = TRUE]

(***************************************************************************)
(* _twr_radio_task.  A pairing request whose firmware and version do not   *)
(* fit a frame is "long".                                                  *)
(***************************************************************************)
RadioTask(x) ==
    IF x.my_id = NONE \/ x.state \notin {"RX", "SLEEP"}
    THEN TryLater(x)
    ELSE IF x.pairing_request = "long"
    THEN [x EXCEPT !.pairing_request = "no"]
    ELSE IF x.pairing_request = "yes"
    THEN StartTx([x EXCEPT !.pairing_request = "no"], "pairing", NONE)
    ELSE IF x.ack /\ x.sent_subs # x.subs_length
    THEN StartTx(x, "subreg", SUB_REG(x.sent_subs))
    ELSE IF Unknown(x) # {} THEN SkipUnknown(x)
    ELSE IF x.pub_queue = <<>> THEN [x EXCEPT !.rx_queue = <<>>]
    ELSE LET item == Head(x.pub_queue)
         IN StartTx([x EXCEPT !.rx_queue = <<>>, !.pub_queue = Tail(@)],
                    item.kind, item.body)

(***************************************************************************)
(* _twr_radio_send_ack, with what its callers append to the ACK.  The      *)
(* frame that waits for its own ACK is put aside in ack_tx_cache_buffer.   *)
(***************************************************************************)
SendAck(x, frame, body) ==
    LET ackFrame == [src |-> frame.src, id |-> frame.id, kind |-> "ack", body |-> body]
        ack == [SpiritTx(x) EXCEPT !.tx = ackFrame, !.transmit_count = 2]
    IN CASE x.state = "TX_WAIT_ACK" ->
              [ack EXCEPT !.state = "TX_SEND_ACK", !.saved_tx = x.tx,
                          !.saved_count = x.transmit_count]
         [] x.state = "RX" -> [ack EXCEPT !.state = "RX_SEND_ACK"]
         [] OTHER -> x

-----------------------------------------------------------------------------
(***************************************************************************)
(* _twr_radio_spirit1_event_handler, event by event.                       *)
(***************************************************************************)
\* Mutants: the message's own frame is not put back in the transmit buffer;
\* the wait for its ACK gets no timeout.
MutResumeWaiting(x) ==
    [SpiritRx(x, TRUE) EXCEPT !.state = "TX_WAIT_ACK", !.transmit_count = x.saved_count]

\* The second ACK of TX_SEND_ACK has gone: wait again for the own message's.
ResumeWaiting(x) ==
    [SpiritRx(x, TRUE) EXCEPT !.state = "TX_WAIT_ACK", !.tx = x.saved_tx,
                              !.transmit_count = x.saved_count]

TxDone(x0, open) ==
    LET n == IF x0.transmit_count > 0 THEN x0.transmit_count - 1 ELSE 0
        x == [x0 EXCEPT !.transmit_count = n]
    IN CASE x.state = "TX" ->
              [SpiritRx(x, TRUE) EXCEPT !.state = "TX_WAIT_ACK", !.ack = FALSE]
         [] x.state \in {"RX_SEND_ACK", "TX_SEND_ACK"} /\ n > 0 -> SpiritTx(x)
         [] x.state = "TX_SEND_ACK" /\ n = 0 -> ResumeWaiting(x)
         [] OTHER -> GoToRxOrSleep(x, open)

\* The event that ends a message, kept as history for published ones.
Report(x, result) ==
    IF x.message.kind = "pub"
    THEN [x EXCEPT !.outcome = Append(@, [frame |-> x.message, result |-> result])]
    ELSE x

Retransmit(x) == [SpiritTx(x) EXCEPT !.state = "TX"]

AttemptsLeft(x) == x.transmit_count > 0

RxTimeout(x, open) ==
    IF x.state # "TX_WAIT_ACK" THEN GoToRxOrSleep(x, open)
    ELSE IF AttemptsLeft(x) THEN Retransmit(x)
    ELSE GoToRxOrSleep(Report(x, "TX_ERROR"), open)

\* The ACK of a PAIRING: the gateway becomes the only peer.
Paired(x, gateway) ==
    IF x.mode # "GATEWAY" /\ x.peers[0].id # gateway
    THEN [x EXCEPT !.peers = Joined(@, 0, gateway), !.peers_length = 1,
                   !.sent_subs = 0, !.due = TRUE]
    ELSE x

\* Mutant: every ACK counts as the ACK of a SUB_REG.
MutAcked(x, frame) ==
    IF x.tx.kind = "pairing" THEN x ELSE [x EXCEPT !.sent_subs = @ + 1]

Acked(x, frame) ==
    CASE x.tx.kind = "pairing" ->
           IF frame.body \in Radios \union {NONE} THEN Paired(x, frame.body) ELSE x
      [] x.tx.kind = "subreg" -> [x EXCEPT !.sent_subs = @ + 1]
      [] OTHER -> IF frame.body = ACK_SUB_REQUEST THEN [x EXCEPT !.sent_subs = 0] ELSE x

\* Mutants: the message id, or the state, is not compared.
MutAwaitedAckAnyId(x, frame) == x.state = "TX_WAIT_ACK" /\ frame.src = x.my_id

\* Only the ACK for the message that waits for it counts.
AwaitedAck(x, frame) ==
    x.state = "TX_WAIT_ACK" /\ frame.src = x.my_id /\ frame.id = x.message_id

RxAck(x, frame, open) ==
    IF AwaitedAck(x, frame)
    THEN LET y == Acked([x EXCEPT !.transmit_count = 0, !.ack = TRUE], frame)
             window == y.window_after_ack
             z == [y EXCEPT !.window = @ \/ window]
         IN Report(GoToRxOrSleep(z, open \/ window), "TX_DONE")
    ELSE x

\* Mutant: any pairing request is acknowledged.
MutRxPairing(x, frame) ==
    LET y == IF x.pairing_mode THEN PeerDeviceAdd(x, frame.src) ELSE x
    IN SendAck(y, frame, y.my_id)

RxPairing(x, frame) ==
    LET y == IF x.pairing_mode THEN PeerDeviceAdd(x, frame.src) ELSE x
        z == SendAck(y, frame, y.my_id)
        i == PeerSlot(z, frame.src)
    IN IF IsPeer(y, frame.src)
       THEN [z EXCEPT !.peers = Heard(@, i, frame.id, TRUE)]
       ELSE y

\* NODE_ATTACH and NODE_DETACH are acknowledged whoever they are for.
RxAttach(x, frame) ==
    LET forMe == frame.body = x.my_id
        y == IF forMe THEN [x EXCEPT !.pairing_request = "yes", !.due = TRUE] ELSE x
    IN SendAck(y, frame, NONE)

RxDetach(x, frame) ==
    LET forMe == frame.body = x.my_id
        y == IF forMe THEN RemovePeer(x, frame.src) ELSE x
    IN SendAck(y, frame, NONE)

\* twr_queue_put on rx_queue: its result is not looked at.  accepted is a
\* history of the messages that got this far.
RxPut(x, frame) ==
    [x EXCEPT !.rx_queue = IF Len(@) < RxCapacity THEN Append(@, frame) ELSE @,
              !.accepted = IF frame.kind = "pub" THEN Append(@, frame) ELSE @,
              !.due = TRUE]

ForOther(x, frame) ==
    frame.body \in Bodies /\ For[frame.body] \notin {NONE, x.my_id}

MutDuplicate(peer, frame) == FALSE      \* Mutant: no test for repetitions.
Duplicate(peer, frame) == peer.message_id = frame.id

RxFromPeer(x, frame) ==
    LET i == PeerSlot(x, frame.src)
        peer == x.peers[i]
        subsRequest == x.mode = "GATEWAY" /\ (~ peer.synced \/ peer.message_id > frame.id)
        ackBody == IF subsRequest THEN ACK_SUB_REQUEST ELSE NONE
        seen == [x EXCEPT !.peers = Heard(@, i, frame.id, FALSE)]
    IN IF Duplicate(peer, frame) THEN x
       ELSE IF ForOther(x, frame) THEN seen
       ELSE SendAck([RxPut(seen, frame) EXCEPT !.peers = Heard(@, i, frame.id, TRUE)],
                    frame, ackBody)

Decode(x, frame, open) ==
    CASE frame.kind = "ack" -> RxAck(x, frame, open)
      [] frame.kind = "pairing" -> RxPairing(x, frame)
      [] frame.kind = "attach" -> RxAttach(x, frame)
      [] frame.kind = "detach" -> RxDetach(x, frame)
      [] OTHER -> IF IsPeer(x, frame.src) THEN RxFromPeer(x, frame)
                  ELSE IF x.automatic_pairing THEN PeerDeviceAdd(x, frame.src)
                  ELSE x

\* late: the tick is past a finite rx_timeout.  With attempts left the
\* frame is ignored; otherwise it is decoded in the state that follows.
RxDone(x, frame, late, open) ==
    IF ~ late THEN Decode(x, frame, open)
    ELSE IF x.state = "TX_WAIT_ACK" /\ AttemptsLeft(x) THEN Retransmit(x)
    ELSE Decode(GoToRxOrSleep(x, open), frame, open)

-----------------------------------------------------------------------------
(***************************************************************************)
(* _twr_spirit1_task.  irq_sent is IRQ_TX_DATA_SENT, rx_fifo the frame     *)
(* behind IRQ_RX_DATA_READY, air the frame being transmitted.  Leaving RX  *)
(* clears the interrupts, and the frame with them.                         *)
(***************************************************************************)
EnterTx(x) == [x EXCEPT !.current = "TX", !.air = x.tx, !.irq_sent = FALSE,
                        !.rx_fifo = NONE,
                        !.transmissions = IF x.tx.kind = "ack" THEN @ ELSE @ + 1]
PlanTimeout(x) == IF x.timed THEN "timeout" ELSE "never"

EnterRx(x) == [x EXCEPT !.current = "RX", !.driver_plan = PlanTimeout(x),
                        !.irq_sent = FALSE, !.rx_fifo = NONE]
EnterSleep(x) == [x EXCEPT !.current = "SLEEP", !.irq_sent = FALSE, !.rx_fifo = NONE]

Enter(x) == CASE x.desired = "TX" -> EnterTx(x)
              [] x.desired = "RX" -> EnterRx(x)
              [] x.desired = "SLEEP" -> EnterSleep(x)

CheckTx(x, open) ==
    IF x.irq_sent
    THEN Enter(TxDone([x EXCEPT !.irq_sent = FALSE, !.desired = "SLEEP"], open))
    ELSE x

\* The timeout is planned again only when a frame was read.
CheckRx(x, late, open) ==
    IF x.rx_fifo \in {NONE, DISCARDED} THEN [x EXCEPT !.rx_fifo = NONE]
    ELSE [RxDone([x EXCEPT !.driver_plan = PlanTimeout(x)], x.rx_fifo, late, open)
            EXCEPT !.rx_fifo = NONE]

\* expired: the tick is past rx_tick_timeout.
DriverTask(x0, expired, late, open) ==
    LET run == [x0 EXCEPT !.driver_plan = "never"]
        x == IF expired THEN RxTimeout(run, open) ELSE run
    IN IF x.desired # x.current THEN Enter(x)
       ELSE IF x.current = "TX" THEN CheckTx(x, open)
       ELSE IF x.current = "RX" THEN CheckRx(x, late /\ x.timed, open)
       ELSE x

=============================================================================
