----------------------------- MODULE RadioLink -----------------------------
(***************************************************************************)
(* Radios (module Radio) that hear each other over an ether that loses and *)
(* garbles frames, and the applications that use them.  A transceiver that *)
(* transmits hears nothing; one that listens gets a whole frame, a garbled *)
(* one that it discards, or nothing.  Each radio's two tasks run whenever  *)
(* they are planned, in any order.                                         *)
(***************************************************************************)
EXTENDS Radio

CONSTANTS
    Scenarios       \* what the radios are and what their applications do

(***************************************************************************)
(* A scenario gives, for each radio, its mode, whether a sleeping one      *)
(* opens a window after an ACK (sleeping_mode_rx_timeout), subs_length,    *)
(* the peers loaded from EEPROM, the bodies its application publishes, the *)
(* other API calls it makes and (a bound) how many; and for all of them    *)
(* _TWR_RADIO_TX_MAX_COUNT and whether frames may arrive garbled.          *)
(***************************************************************************)
ASSUME ScenariosAssumption ==
    \A s \in Scenarios :
        /\ s.mode \in [Radios -> Modes]
        /\ s.window \in [Radios -> BOOLEAN] /\ s.noise \in BOOLEAN /\ s.attempts \in Nat \ {0}
        /\ s.subs \in [Radios -> Nat] /\ s.limit \in [Radios -> Nat]
        /\ s.peers \in [Radios -> Seq(Radios)] /\ s.publish \in [Radios -> Seq(Bodies)]
        /\ \A r \in Radios : Len(s.peers[r]) < MAX_DEVICES

VARIABLES
    radio,
    to_publish,     \* radio -> the bodies its application has yet to publish
    uses,           \* radio -> API calls made
    scenario        \* which one, it never changes

vars == <<radio, to_publish, uses, scenario>>

NoFrame == [src |-> NONE, id |-> 0, kind |-> "none", body |-> NONE]

\* twr_radio_init, with the peers that twr_radio_load_peer_devices found.
Initial(r) ==
    LET mode == scenario.mode[r]
        peers == scenario.peers[r]
        start == IF mode = "NODE_SLEEPING" THEN "SLEEP" ELSE "RX"
    IN
    [self |-> r, mode |-> mode, window_after_ack |-> scenario.window[r],
     TX_MAX_COUNT |-> scenario.attempts,
     subs_length |-> scenario.subs[r], my_id |-> NONE, state |-> start,
     message_id |-> 0, transmit_count |-> 0, ack |-> FALSE, due |-> TRUE,
     pairing_request |-> "no", pairing_mode |-> FALSE, automatic_pairing |-> FALSE,
     sent_subs |-> 0, pub_queue |-> <<>>, rx_queue |-> <<>>,
     peers |-> [i \in Slots |-> [id |-> IF i < Len(peers) THEN peers[i + 1] ELSE NONE,
                                 message_id |-> 0, synced |-> FALSE]],
     peers_length |-> Len(peers),
     tx |-> NoFrame, saved_tx |-> NoFrame, saved_count |-> 0,
     window |-> FALSE, timed |-> FALSE,
     desired |-> start, current |-> "INIT",
     driver_plan |-> "now", air |-> NONE, irq_sent |-> FALSE, rx_fifo |-> NONE,
     message |-> NoFrame, transmissions |-> 0, accepted |-> <<>>, outcome |-> <<>>,
     removed |-> {}]

Init ==
    /\ scenario \in Scenarios
    /\ radio = [r \in Radios |-> Initial(r)]
    /\ to_publish = scenario.publish
    /\ uses = [r \in Radios |-> 0]

-----------------------------------------------------------------------------
(***************************************************************************)
(* The tasks and the transceivers.                                         *)
(***************************************************************************)
RunRadioTask(r) ==
    /\ radio[r].due
    /\ radio' = [radio EXCEPT ![r] = RadioTask([@ EXCEPT !.due = FALSE])]
    /\ UNCHANGED <<to_publish, uses, scenario>>

\* _twr_radio_atsha204_event_handler: the serial number has been read.
SerialNumber(r) ==
    /\ radio[r].my_id = NONE
    /\ radio' = [radio EXCEPT ![r] = [@ EXCEPT !.my_id = r]]
    /\ UNCHANGED <<to_publish, uses, scenario>>

CanExpire(x) == x.current = "RX" /\ x.timed

RunDriverTask(r, expired, late, open) ==
    /\ \/ radio[r].driver_plan = "now" /\ (expired => CanExpire(radio[r]))
       \/ radio[r].driver_plan = "timeout" /\ expired
    /\ radio' = [radio EXCEPT ![r] = DriverTask(@, expired, late, open)]
    /\ UNCHANGED <<to_publish, uses, scenario>>

Listening(q) == radio[q].current = "RX" /\ radio[q].rx_fifo = NONE

\* The last bit of r's frame has left.  Both ends get their interrupt.
Transmitted(r, hear, garbled) ==
    /\ radio[r].air # NONE
    /\ radio' = [q \in Radios |->
         IF q = r
         THEN [radio[q] EXCEPT !.air = NONE, !.irq_sent = TRUE, !.driver_plan = "now"]
         ELSE IF q \in hear
         THEN [radio[q] EXCEPT !.rx_fifo = radio[r].air, !.driver_plan = "now"]
         ELSE IF q \in garbled
         THEN [radio[q] EXCEPT !.rx_fifo = DISCARDED, !.driver_plan = "now"]
         ELSE radio[q]]
    /\ UNCHANGED <<to_publish, uses, scenario>>

-----------------------------------------------------------------------------
(***************************************************************************)
(* The applications.                                                       *)
(***************************************************************************)
\* twr_radio_pub_queue_put
Publish(r) ==
    /\ to_publish[r] # <<>>
    /\ radio' = [radio EXCEPT ![r] =
                   PubPut(@, [kind |-> "pub", body |-> Head(to_publish[r])])]
    /\ to_publish' = [to_publish EXCEPT ![r] = Tail(@)]
    /\ UNCHANGED <<uses, scenario>>

Use(r, call, x) ==
    /\ call \in scenario.uses[r]
    /\ uses[r] < scenario.limit[r]
    /\ uses' = [uses EXCEPT ![r] = @ + 1]
    /\ radio' = [radio EXCEPT ![r] = x]
    /\ UNCHANGED <<to_publish, scenario>>

PairingRequest(r) ==
    \/ Use(r, "pairing_request", [radio[r] EXCEPT !.pairing_request = "yes", !.due = TRUE])
    \/ Use(r, "long_request", [radio[r] EXCEPT !.pairing_request = "long", !.due = TRUE])

PairingMode(r) ==
    Use(r, "pairing_mode", [radio[r] EXCEPT !.pairing_mode = ~ @])

AutomaticPairing(r) ==
    Use(r, "automatic_pairing", [radio[r] EXCEPT !.automatic_pairing = ~ @])

AddPeer(r, id) == Use(r, "peer_device_add", PeerDeviceAdd(radio[r], id))

RemovePeerDevice(r, id) ==
    Use(r, "peer_device_remove", PeerDeviceRemove(radio[r], id))

\* twr_radio_listen moves the end of the window and plans the task.
Listen(r) == Use(r, "listen", [radio[r] EXCEPT !.window = TRUE, !.due = TRUE])

ClearPubQueue(r) == Use(r, "pub_queue_clear", [radio[r] EXCEPT !.pub_queue = <<>>])

Application(r) ==
    \/ Publish(r)
    \/ PairingRequest(r) \/ PairingMode(r) \/ AutomaticPairing(r)
    \/ \E id \in Radios \ {r} : AddPeer(r, id) \/ RemovePeerDevice(r, id)
    \/ Listen(r) \/ ClearPubQueue(r)

-----------------------------------------------------------------------------
Driver(r) == \E expired, late, open \in BOOLEAN : RunDriverTask(r, expired, late, open)

Ether(r) ==
    \E hear \in SUBSET {q \in Radios \ {r} : Listening(q)} :
    \E garbled \in IF scenario.noise THEN SUBSET {q \in Radios \ {r} : Listening(q) /\ q \notin hear}
                                     ELSE {{}} :
        Transmitted(r, hear, garbled)

Next ==
    \E r \in Radios :
        RunRadioTask(r) \/ SerialNumber(r) \/ Driver(r) \/ Ether(r) \/ Application(r)

Spec == Init /\ [][Next]_vars

(***************************************************************************)
(* The scheduler runs planned tasks (Scheduler!DueTaskServed), a started   *)
(* transmission ends, and the serial number is read.                       *)
(***************************************************************************)
FairSpec ==
    /\ Spec
    /\ \A r \in Radios : /\ WF_vars(RunRadioTask(r)) /\ WF_vars(SerialNumber(r))
                         /\ WF_vars(Driver(r)) /\ WF_vars(Ether(r))

-----------------------------------------------------------------------------
TypeOK ==
    /\ \A r \in Radios :
         LET x == radio[r] IN
         /\ x.self = r /\ x.mode \in Modes /\ x.my_id \in {NONE, r}
         /\ x.state \in States /\ x.message_id \in Ids
         /\ x.transmit_count \in 0 .. x.TX_MAX_COUNT + 2
         /\ x.saved_count \in 0 .. x.TX_MAX_COUNT
         /\ {x.ack, x.due, x.pairing_mode, x.automatic_pairing, x.window, x.timed,
             x.irq_sent} \subseteq BOOLEAN
         /\ x.pairing_request \in {"no", "yes", "long"}
         /\ x.sent_subs \in 0 .. x.subs_length
         /\ Len(x.pub_queue) <= PubCapacity /\ Len(x.rx_queue) <= RxCapacity
         /\ x.peers_length \in 0 .. MAX_DEVICES
         /\ \A i \in Slots : /\ x.peers[i].id \in Radios \union {NONE}
                             /\ x.peers[i].message_id \in Ids
                             /\ x.peers[i].synced \in BOOLEAN
         /\ {x.tx.kind, x.saved_tx.kind, x.message.kind} \subseteq Kinds
         /\ x.desired \in DriverStates /\ x.current \in DriverStates
         /\ x.driver_plan \in Plans

\* The protocol and the driver never drift apart: the driver is on its way
\* to the state that the protocol's state waits in.  The protocol changes
\* state in three places (its own task, and two kinds of driver events), of
\* which one runs while another's change has not been carried out yet.
DriverAgrees ==
    \A r \in Radios :
        LET x == radio[r] IN
        x.desired = CASE x.state \in {"TX", "RX_SEND_ACK", "TX_SEND_ACK"} -> "TX"
                      [] x.state \in {"RX", "TX_WAIT_ACK"} -> "RX"
                      [] x.state = "SLEEP" -> "SLEEP"

\* The radio's task has two early returns that leave other work behind: for
\* a subscription message with an unknown order, and for a pairing request
\* that does not fit a frame.
EarlyReturns ==
    \E r \in Radios :
        \/ "long_request" \in scenario.uses[r]
        \/ \E k \in DOMAIN scenario.publish[r] : scenario.publish[r][k] \in UnknownOrder

\* Whatever the radio waits for is under way: the driver is on its way to the
\* state that the protocol waits in, a change of the driver's state
\* is planned, a transmission is on air or its interrupt has planned the
\* task, a received frame has planned it too, and work for the protocol's
\* task has planned that one.
NothingForgotten ==
    DriverAgrees /\ \A r \in Radios :
        LET x == radio[r] IN
        /\ x.desired # x.current => x.driver_plan = "now"
        /\ x.current = "TX" => x.air # NONE \/ (x.irq_sent /\ x.driver_plan = "now")
        /\ x.rx_fifo # NONE => x.current = "RX" /\ x.driver_plan = "now"
        /\ (x.pub_queue # <<>> \/ x.pairing_request = "yes" \/ x.rx_queue # <<>>)
             => EarlyReturns \/ x.due \/ x.state \notin {"RX", "SLEEP"}

\* What is sent again, after any number of losses and after answering
\* others' messages in between (_twr_radio_send_ack overwrites the transmit
\* buffer), is the message itself.
OnlyTheMessageIsResent ==
    \A r \in Radios :
        LET x == radio[r] IN
        x.air # NONE /\ (x.state = "TX" \/ x.air.kind # "ack") => x.air = x.message

\* A message taken from the queue has been on air before the radio gives it
\* up, also when a receive window closes between twr_spirit1_tx and the
\* driver's next run (the early return of _twr_radio_go_to_state_rx_or_sleep).
SentBeforeGivenUp ==
    \A r \in Radios :
        LET x == radio[r] IN
        x.message # NoFrame /\ x.state \in {"RX", "SLEEP"} => x.transmissions > 0

\* However RX_TIMEOUT, late frames and ACKs for others interleave, a message
\* is transmitted at most TX_MAX_COUNT times (transmit_count is put aside
\* in ack_transmit_count while an ACK is sent).
TransmissionsBounded == \A r \in Radios : radio[r].transmissions <= radio[r].TX_MAX_COUNT

\* TWR_RADIO_EVENT_TX_DONE is true: another radio has put the message in its
\* rx_queue (or dropped it there, see RxPut).  The ACK may be the second copy
\* of an earlier one, or the ACK of a message from another radio.
DoneMeansAccepted ==
    \A r \in Radios : \A k \in DOMAIN radio[r].outcome :
        LET o == radio[r].outcome[k] IN
        o.result = "TX_DONE" =>
             \E q \in Radios \ {r} : \E j \in DOMAIN radio[q].accepted :
                 radio[q].accepted[j] = o.frame

\* The peer table's message_id makes retransmissions harmless: a radio takes
\* a message once, and takes a sender's messages in the order of sending.
AcceptedOnceInOrder ==
    \A q \in Radios : \A j, k \in DOMAIN radio[q].accepted :
        (j < k /\ radio[q].accepted[j].src = radio[q].accepted[k].src)
          => radio[q].accepted[j].id < radio[q].accepted[k].id

\* The application hears at most one TX_DONE or TX_ERROR of a message, though
\* every ACK is sent twice and may cross with the timeout.
OneOutcome ==
    \A r \in Radios : \A j, k \in DOMAIN radio[r].outcome :
        j # k => radio[r].outcome[j].frame # radio[r].outcome[k].frame

\* The two sides of the pairing handshake (PAIRING, its ACK, and removals by
\* either side) agree: a node is paired only with a gateway that took it as a
\* peer and has not removed it since.  A gateway that does not know its
\* serial number yet pairs under the id 0.  A node may have other peers only
\* from its EEPROM, from its application, or by pairing others itself.
PairsOnly(r) ==
    /\ scenario.mode[r] # "GATEWAY" /\ scenario.peers[r] = <<>>
    /\ scenario.uses[r] \intersect {"peer_device_add", "pairing_mode", "automatic_pairing"} = {}

PairedIsMutual ==
    \A gw, r \in Radios :
        radio[gw].mode = "GATEWAY" /\ PairsOnly(r) /\ IsPeer(radio[r], gw)
          => IsPeer(radio[gw], r) \/ r \in radio[gw].removed

\* The timeout given to twr_spirit1_set_rx_timeout is the longest that a
\* reception may last.
TimedReceptionsEnd ==
    \A r \in Radios : [](CanExpire(radio[r]) => <> ~ CanExpire(radio[r]))

\* The state machine of twr_radio.c never waits for ever for an ACK or for
\* the end of a transmission, and no path through the handlers leaves the task
\* unplanned with work to do: it gets back to where the task does its work,
\* with what is in pub_queue sent and what is in rx_queue handled.
EverythingDone ==
    \A r \in Radios :
        []<> (/\ radio[r].state \in {"RX", "SLEEP"}
              /\ radio[r].pub_queue = <<>> /\ radio[r].rx_queue = <<>>)

\* What is sent again after losses and answers to others is the message, it
\* was sent before it is given up, and not more often than was set.
ResentAsPromised == OnlyTheMessageIsResent /\ SentBeforeGivenUp /\ TransmissionsBounded

\* What the application is told of a message is true, and told once.
OutcomeIsTrue == DoneMeansAccepted /\ OneOutcome

=============================================================================
