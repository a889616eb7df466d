----------------------------- MODULE LinkProofs ------------------------------
(***************************************************************************)
(* What the radios may believe of each other, in every interleaving and    *)
(* with any losses: who is paired with whom, which messages were taken,    *)
(* and in which order.                                                     *)
(*                                                                         *)
(* A step changes one radio, or lets others hear its frame.  The first is  *)
(* summed up by Moves: the radio says nothing new, or starts a message, or *)
(* decodes a frame that it heard, and then its table, log, outcomes and    *)
(* answer are as that frame allows.  Every handler is shown to be a move,  *)
(* call by call, and the invariants between radios need nothing else.      *)
(***************************************************************************)
EXTENDS RadioProofs

-----------------------------------------------------------------------------
(***************************************************************************)
(* The peer table: whom a radio took for a peer, and the message it heard  *)
(* last of each.                                                           *)
(***************************************************************************)
Took(x, id) == IsPeer(x, id) \/ id \in x.removed
Mid(x, id) == x.peers[PeerSlot(x, id)].message_id
Fresh(x) == \A i \in Slots : i >= x.peers_length => x.peers[i].message_id = 0

TableTyped(x) ==
    Whole(x) /\ x.peers_length \in 0 .. MAX_DEVICES - 1 /\ x.peers \in [Slots -> Peers]

\* Nobody is forgotten, and a message id in use is the old one, that of an
\* unused slot, or that of the frame heard.
Mids(y, x, frame) ==
    /\ Fresh(x) => Fresh(y)
    /\ \A r \in Radios : IsPeer(x, r) => IsPeer(y, r)
    /\ \A r \in Radios : IsPeer(y, r) =>
          \/ IsPeer(x, r) /\ Mid(y, r) = Mid(x, r)
          \/ ~ IsPeer(x, r) /\ (Fresh(x) => Mid(y, r) = 0)
          \/ frame.kind # "ack" /\ frame.src = r /\ Mid(y, r) = frame.id

LEMMA SlotOf ==
    ASSUME NEW x, x.peers_length \in Nat, NEW id, IsPeer(x, id)
    PROVE  /\ PeerSlot(x, id) \in 0 .. x.peers_length - 1
           /\ x.peers[PeerSlot(x, id)].id = id
           /\ \A j \in 0 .. x.peers_length - 1 : x.peers[j].id = id => PeerSlot(x, id) <= j
<1>1. PeerSlots(x, id) \subseteq Nat /\ PeerSlots(x, id) # {}
  BY DEF IsPeer, PeerSlots
<1>2. \E i \in PeerSlots(x, id) : \A j \in PeerSlots(x, id) : i <= j
  BY <1>1, LeastNatural
<1>3. /\ PeerSlot(x, id) \in PeerSlots(x, id)
      /\ \A j \in PeerSlots(x, id) : PeerSlot(x, id) <= j
  BY <1>2 DEF PeerSlot
<1> QED
  BY <1>3 DEF PeerSlots

\* The least slot of a peer is where it was if the slots in use keep their
\* peers.
LEMMA SlotKept ==
    ASSUME NEW x, NEW y, x.peers_length \in Nat, y.peers_length \in Nat,
           x.peers_length <= y.peers_length,
           \A i \in 0 .. x.peers_length - 1 : y.peers[i].id = x.peers[i].id,
           NEW id, IsPeer(x, id)
    PROVE  IsPeer(y, id) /\ PeerSlot(y, id) = PeerSlot(x, id)
<1>1. /\ PeerSlot(x, id) \in 0 .. x.peers_length - 1
      /\ x.peers[PeerSlot(x, id)].id = id
      /\ \A j \in 0 .. x.peers_length - 1 : x.peers[j].id = id => PeerSlot(x, id) <= j
  BY SlotOf
<1>2. PeerSlot(x, id) \in PeerSlots(y, id)
  BY <1>1 DEF PeerSlots
<1>3. IsPeer(y, id)
  BY <1>2 DEF IsPeer
<1>4. /\ PeerSlot(y, id) \in 0 .. y.peers_length - 1
      /\ y.peers[PeerSlot(y, id)].id = id
      /\ \A j \in 0 .. y.peers_length - 1 : y.peers[j].id = id => PeerSlot(y, id) <= j
  BY <1>3, SlotOf
<1>5. PeerSlot(y, id) <= PeerSlot(x, id)
  BY <1>1, <1>2, <1>4 DEF PeerSlots
<1>6. PeerSlot(x, id) <= PeerSlot(y, id)
  BY <1>1, <1>4, <1>5
<1> QED
  BY <1>1, <1>3, <1>4, <1>5, <1>6

LEMMA MidsTwice ==
    ASSUME NEW x, NEW y, NEW z, NEW frame, Mids(y, x, frame), Mids(z, y, frame)
    PROVE  Mids(z, x, frame)
  BY DEF Mids

\* A table that is the same.
LEMMA SameTable ==
    ASSUME NEW x, NEW y, y.peers = x.peers, y.peers_length = x.peers_length
    PROVE  /\ \A id : IsPeer(y, id) <=> IsPeer(x, id)
           /\ \A id : PeerSlot(y, id) = PeerSlot(x, id) /\ Mid(y, id) = Mid(x, id)
           /\ Fresh(x) => Fresh(y)
           /\ \A frame : Mids(y, x, frame)
<1>1. \A id : PeerSlots(y, id) = PeerSlots(x, id)
  BY DEF PeerSlots
<1>2. \A id : IsPeer(y, id) <=> IsPeer(x, id)
  BY <1>1 DEF IsPeer
<1>3. ASSUME NEW id PROVE PeerSlot(y, id) = PeerSlot(x, id) /\ Mid(y, id) = Mid(x, id)
  <2> DEFINE Least(S) == CHOOSE i \in S : \A j \in S : i <= j
  <2>1. PeerSlot(y, id) = Least(PeerSlots(y, id)) /\ PeerSlot(x, id) = Least(PeerSlots(x, id))
    BY DEF PeerSlot
  <2> HIDE DEF Least
  <2>2. PeerSlot(y, id) = PeerSlot(x, id)
    BY <1>1, <2>1
  <2> QED
    BY <2>2 DEF Mid
<1>4. Fresh(x) => Fresh(y)
  BY DEF Fresh
<1> QED
  BY <1>2, <1>3, <1>4 DEF Mids

LEMMA SlotHeard ==
    ASSUME NEW x, TableTyped(x), NEW y, NEW src, IsPeer(x, src), NEW id \in Ids,
           NEW synced,
           y.peers = Heard(x.peers, PeerSlot(x, src), id, synced),
           y.peers_length = x.peers_length
    PROVE  /\ \A r : IsPeer(y, r) <=> IsPeer(x, r)
           /\ \A r : IsPeer(x, r) => PeerSlot(y, r) = PeerSlot(x, r)
           /\ \A j \in Slots : y.peers[j].id = x.peers[j].id
           /\ Mid(y, src) = id
           /\ \A frame : frame.kind # "ack" /\ frame.src = src /\ frame.id = id => Mids(y, x, frame)
<1> DEFINE i == PeerSlot(x, src)
<1>0. x.peers_length \in Nat /\ x.peers_length - 1 <= MAX_DEVICES - 1 /\ MAX_DEVICES \in Nat
  BY LimitAssumption DEF TableTyped
<1>1. i \in 0 .. x.peers_length - 1 /\ x.peers[i].id = src
  BY <1>0, SlotOf
<1>2. i \in Slots
  BY <1>0, <1>1 DEF Slots
<1> HIDE DEF i
<1>3. \A j \in Slots : /\ y.peers[j].id = x.peers[j].id
                       /\ j # i => y.peers[j].message_id = x.peers[j].message_id
  BY <1>2 DEF TableTyped, Heard, Peers, i
<1>4. y.peers[i].message_id = id
  BY <1>2 DEF TableTyped, Heard, Peers, i
<1>5. \A j \in 0 .. x.peers_length - 1 : j \in Slots
  BY <1>0 DEF Slots
<1>6. ASSUME NEW r, IsPeer(x, r) PROVE IsPeer(y, r) /\ PeerSlot(y, r) = PeerSlot(x, r)
  BY <1>0, <1>3, <1>5, <1>6, SlotKept
<1>7. ASSUME NEW r, IsPeer(y, r) PROVE IsPeer(x, r)
  BY <1>0, <1>3, <1>5, <1>7, SlotKept
<1>8. Mid(y, src) = id
  BY <1>4, <1>6 DEF Mid, i
<1>9. ASSUME NEW r, IsPeer(x, r), r # src PROVE Mid(y, r) = Mid(x, r)
  <2>1. PeerSlot(x, r) \in 0 .. x.peers_length - 1 /\ x.peers[PeerSlot(x, r)].id = r
    BY <1>0, <1>9, SlotOf
  <2>2. PeerSlot(x, r) # i /\ PeerSlot(x, r) \in Slots
    BY <1>1, <1>5, <1>9, <2>1
  <2> QED
    BY <1>3, <1>6, <1>9, <2>2 DEF Mid
<1>10. Fresh(x) => Fresh(y)
  <2> SUFFICES ASSUME Fresh(x), NEW j \in Slots, j >= y.peers_length
               PROVE  y.peers[j].message_id = 0
    BY DEF Fresh
  <2>1. j # i
    BY <1>0, <1>1 DEF Slots
  <2> QED
    BY <1>3, <2>1 DEF Fresh
<1> QED
  BY <1>3, <1>6, <1>7, <1>8, <1>9, <1>10 DEF Mids

AddFields == {"peers", "peers_length", "removed", "due", "pub_queue"}

LEMMA AddTable ==
    ASSUME NEW x, TableTyped(x), NEW id \in Radios
    PROVE  LET y == PeerDeviceAdd(x, id) IN
           /\ SameBut(y, x, AddFields) /\ TableTyped(y)
           /\ \A q : Took(x, q) => Took(y, q)
           /\ \A q : IsPeer(y, q) => IsPeer(x, q) \/ q = id
           /\ \A frame : Mids(y, x, frame)
<1> DEFINE y == PeerDeviceAdd(x, id)
           n == x.peers_length
<1>0. n \in 0 .. MAX_DEVICES - 1 /\ MAX_DEVICES \in Nat /\ Whole(x) /\ x.peers \in [Slots -> Peers]
  BY LimitAssumption DEF TableTyped
<1>1. CASE ~ CanAdd(x, id)
  <2>1. y = x
    BY <1>1 DEF PeerDeviceAdd
  <2>2. SameBut(y, x, AddFields)
    BY <1>0, <2>1, SameSelf
  <2> QED
    BY <2>1, <2>2, SameTable
<1>2. CASE CanAdd(x, id)
  <2> DEFINE w == [x EXCEPT !.peers = Joined(@, x.peers_length, id), !.peers_length = @ + 1,
                            !.removed = @ \ {id}, !.due = TRUE]
             item == [kind |-> "attach", body |-> id]
             v == [w EXCEPT !.pub_queue = Append(@, item), !.due = TRUE]
  <2>1. y = PubPut(w, item)
    BY <1>2 DEF PeerDeviceAdd
  <2>2. /\ SameBut(w, x, AddFields) /\ w.peers = Joined(x.peers, n, id)
        /\ w.peers_length = n + 1 /\ w.removed = x.removed \ {id}
    BY <1>0 DEF Whole, SameBut, Fields, LocalFields, AddFields
  <2> HIDE DEF w
  <2>3. /\ SameBut(v, w, AddFields) /\ v.peers = w.peers /\ v.peers_length = w.peers_length
        /\ v.removed = w.removed
    BY <2>2 DEF Whole, SameBut, Fields, LocalFields, AddFields
  <2> HIDE DEF v
  <2>4. y = v \/ y = w
    BY <2>1 DEF PubPut, v
  <2> HIDE DEF y
  <2>5. SameBut(y, x, AddFields)
    <3>1. SameBut(v, x, AddFields \union AddFields)
      BY <2>2, <2>3, SameTwice
    <3> QED
      BY <2>2, <2>4, <3>1
  <2>6. /\ y.peers = Joined(x.peers, n, id) /\ y.peers_length = n + 1
        /\ y.removed = x.removed \ {id}
    BY <2>2, <2>3, <2>4
  <2>7. n + 1 \in 0 .. MAX_DEVICES - 1 /\ n \in Slots /\ n \in Nat
    BY <1>0, <1>2 DEF CanAdd, Slots
  <2>8. TableTyped(y)
    BY <1>0, <2>5, <2>6, <2>7, JoinedTable DEF TableTyped, SameBut
  <2>9. \A j \in Slots : /\ y.peers[j].message_id = x.peers[j].message_id
                         /\ j # n => y.peers[j].id = x.peers[j].id
    BY <1>0, <2>6, <2>7 DEF Joined, Peers
  <2>10. y.peers[n].id = id
    BY <1>0, <2>6, <2>7 DEF Joined, Peers
  <2>11. \A j \in 0 .. n - 1 : j \in Slots /\ j # n
    BY <1>0 DEF Slots
  <2>12. ASSUME NEW q, IsPeer(x, q) PROVE IsPeer(y, q) /\ PeerSlot(y, q) = PeerSlot(x, q)
    BY <2>6, <2>7, <2>9, <2>11, <2>12, SlotKept
  <2>13. ASSUME NEW q, IsPeer(x, q) PROVE Mid(y, q) = Mid(x, q)
    <3>1. PeerSlot(x, q) \in Slots
      BY <2>7, <2>11, <2>13, SlotOf
    <3> QED
      BY <2>9, <2>12, <2>13, <3>1 DEF Mid
  <2>14. ASSUME NEW q, IsPeer(y, q), ~ IsPeer(x, q) PROVE q = id /\ PeerSlot(y, q) = n
    <3>1. PeerSlot(y, q) \in 0 .. n /\ y.peers[PeerSlot(y, q)].id = q
      BY <2>6, <2>7, <2>14, SlotOf
    <3>2. \A j \in 0 .. n - 1 : x.peers[j].id # q
      BY <2>14 DEF IsPeer, PeerSlots
    <3> QED
      BY <2>7, <2>9, <2>10, <2>11, <3>1, <3>2
  <2>15. \A q : Took(x, q) => Took(y, q)
    <3>1. n \in PeerSlots(y, id)
      BY <2>6, <2>7, <2>10 DEF PeerSlots
    <3>2. IsPeer(y, id)
      BY <3>1 DEF IsPeer
    <3> QED
      BY <2>6, <2>12, <3>2 DEF Took
  <2>16. Fresh(x) => Fresh(y)
    BY <2>6, <2>7, <2>9 DEF Fresh, Slots
  <2>17. ASSUME NEW q, IsPeer(y, q), ~ IsPeer(x, q), Fresh(x) PROVE Mid(y, q) = 0
    <3>1. Mid(y, q) = x.peers[n].message_id
      BY <2>7, <2>9, <2>14, <2>17 DEF Mid
    <3> QED
      BY <2>7, <2>17, <3>1 DEF Fresh
  <2> QED
    BY <2>5, <2>8, <2>12, <2>13, <2>14, <2>15, <2>16, <2>17 DEF Mids, y
<1> QED
  BY <1>1, <1>2

\* The slots in use keep their peers.
StaysPeer(y, x) ==
    \A i \in Slots : i < x.peers_length => i < y.peers_length /\ y.peers[i].id = x.peers[i].id

LEMMA RemoveTable ==
    ASSUME NEW x, TableTyped(x), NEW id
    PROVE  LET y == RemovePeer(x, id) IN
           /\ SameBut(y, x, AddFields) /\ TableTyped(y)
           /\ \A q : Took(x, q) => Took(y, q)
           /\ \A q : IsPeer(y, q) => IsPeer(x, q)
           /\ y = x \/ y.peers_length < x.peers_length
<1> DEFINE y == RemovePeer(x, id)
           last == x.peers_length - 1
           i == PeerSlot(x, id)
<1>0. /\ x.peers_length \in 0 .. MAX_DEVICES - 1 /\ MAX_DEVICES \in Nat /\ Whole(x)
      /\ x.peers \in [Slots -> Peers]
  BY LimitAssumption DEF TableTyped
<1>1. CASE ~ IsPeer(x, id)
  BY <1>0, <1>1, SameSelf DEF RemovePeer
<1>2. CASE IsPeer(x, id)
  <2> DEFINE peer == IF i # last THEN x.peers[last] ELSE [x.peers[i] EXCEPT !.id = NONE]
             peers == [x.peers EXCEPT ![i] = peer]
  <2>1. i \in 0 .. last /\ x.peers[i].id = id
    BY <1>0, <1>2, SlotOf
  <2>2. i \in Slots /\ last \in Slots /\ last \in Nat
    BY <1>0, <2>1 DEF Slots
  <2>3. peer \in Peers
    BY <1>0, <2>2 DEF Peers
  <2>4. i # last => peer = x.peers[last]
    OBVIOUS
  <2>5. y = [x EXCEPT !.peers = peers, !.peers_length = last, !.removed = @ \union {id},
                      !.due = TRUE]
    BY <1>2 DEF RemovePeer
  <2> HIDE DEF peer, i
  <2>6. peers \in [Slots -> Peers]
    BY <1>0, <2>3
  <2>7. \A j \in Slots : peers[j] = IF j = i THEN peer ELSE x.peers[j]
    BY <1>0
  <2> HIDE DEF peers
  <2>8. /\ SameBut(y, x, AddFields) /\ y.peers = peers /\ y.peers_length = last
        /\ y.removed = x.removed \union {id}
    BY <1>0, <2>5 DEF Whole, SameBut, Fields, LocalFields, AddFields
  <2> HIDE DEF y
  <2>9. TableTyped(y)
    BY <1>0, <2>2, <2>6, <2>8 DEF TableTyped, SameBut
  <2>10. ASSUME NEW q, IsPeer(y, q) PROVE IsPeer(x, q)
    <3>1. PICK j \in 0 .. last - 1 : peers[j].id = q
      BY <2>8, <2>10 DEF IsPeer, PeerSlots
    <3>2. j \in Slots /\ j \in 0 .. x.peers_length - 1 /\ last \in 0 .. x.peers_length - 1
      BY <1>0, <2>2, <3>1 DEF Slots
    <3>3. x.peers[j].id = q \/ x.peers[last].id = q
      BY <2>1, <2>4, <2>7, <3>1, <3>2
    <3> QED
      BY <3>2, <3>3 DEF IsPeer, PeerSlots
  <2>11. ASSUME NEW q, IsPeer(x, q), q # id PROVE IsPeer(y, q)
    <3>1. PICK j \in 0 .. last : x.peers[j].id = q
      BY <2>11 DEF IsPeer, PeerSlots
    <3>2. j # i /\ j \in Slots
      BY <1>0, <2>1, <2>11, <3>1 DEF Slots
    <3>3. CASE j # last
      <4>1. j \in 0 .. last - 1 /\ y.peers[j].id = q
        BY <2>2, <2>7, <2>8, <3>1, <3>2, <3>3
      <4> QED
        BY <2>8, <4>1 DEF IsPeer, PeerSlots
    <3>4. CASE j = last
      <4>1. i \in 0 .. last - 1 /\ y.peers[i].id = q
        BY <2>1, <2>2, <2>4, <2>7, <2>8, <3>1, <3>2, <3>4
      <4> QED
        BY <2>8, <4>1 DEF IsPeer, PeerSlots
    <3> QED
      BY <3>3, <3>4
  <2>12. y.peers_length < x.peers_length
    BY <1>0, <2>8
  <2> QED
    BY <2>8, <2>9, <2>10, <2>11, <2>12 DEF Took, y
<1> QED
  BY <1>1, <1>2

LEMMA PeerRemoveTable ==
    ASSUME NEW x, TableTyped(x), NEW id
    PROVE  LET y == PeerDeviceRemove(x, id) IN
           /\ SameBut(y, x, AddFields) /\ TableTyped(y)
           /\ \A q : Took(x, q) => Took(y, q)
           /\ \A q : IsPeer(y, q) => IsPeer(x, q)
           /\ y = x \/ y.peers_length < x.peers_length
<1> DEFINE y == PeerDeviceRemove(x, id)
           item == [kind |-> "detach", body |-> id]
<1>0. Whole(x)
  BY DEF TableTyped
<1>1. CASE ~ IsPeer(x, id)
  BY <1>0, <1>1, SameSelf DEF PeerDeviceRemove
<1>2. CASE IsPeer(x, id)
  <2> PICK w : w = RemovePeer(x, id)
    OBVIOUS
  <2>1. /\ SameBut(w, x, AddFields) /\ TableTyped(w)
        /\ \A q : Took(x, q) => Took(w, q)
        /\ \A q : IsPeer(w, q) => IsPeer(x, q)
        /\ w = x \/ w.peers_length < x.peers_length
    BY RemoveTable
  <2> DEFINE v == [w EXCEPT !.pub_queue = Append(@, item), !.due = TRUE]
             a == [v EXCEPT !.due = TRUE]
             b == [w EXCEPT !.due = TRUE]
  <2>2. SameBut(v, w, {"pub_queue", "due"}) /\ SameBut(b, w, {"pub_queue", "due"})
    BY <2>1 DEF TableTyped, Whole, SameBut, Fields, LocalFields
  <2>3. y = IF Len(w.pub_queue) < PubCapacity THEN a ELSE b
    BY <1>2 DEF PeerDeviceRemove, PubPut
  <2> HIDE DEF v
  <2>4. SameBut(a, v, {"pub_queue", "due"})
    BY <2>2 DEF Whole, SameBut, Fields, LocalFields
  <2> HIDE DEF a, b
  <2>5. SameBut(a, w, {"pub_queue", "due"})
    BY <2>2, <2>4, SameTwice, SameWider
  <2>6. SameBut(y, w, {"pub_queue", "due"})
    BY <2>2, <2>3, <2>5
  <2> HIDE DEF y
  <2>7. SameBut(y, x, AddFields)
    BY <2>1, <2>6, SameTwice, SameWider DEF AddFields
  <2>8. y.peers = w.peers /\ y.peers_length = w.peers_length /\ y.removed = w.removed /\ Whole(y)
    BY <2>6 DEF SameBut, Fields, LocalFields
  <2>9. TableTyped(y)
    BY <2>1, <2>8 DEF TableTyped
  <2>10. /\ \A q : Took(x, q) => Took(y, q)
         /\ \A q : IsPeer(y, q) => IsPeer(x, q)
    BY <2>1, <2>8, SameTable DEF Took
  <2>11. y.peers_length < x.peers_length
    <3>1. w # x
      <4>1. w.peers_length = x.peers_length - 1
        BY <1>0, <1>2 DEF RemovePeer, Whole, Fields, LocalFields
      <4> QED
        BY <4>1 DEF TableTyped
    <3> QED
      BY <2>1, <2>8, <3>1
  <2> QED
    BY <2>7, <2>9, <2>10, <2>11 DEF y
<1> QED
  BY <1>1, <1>2

PairedFields == {"peers", "peers_length", "sent_subs", "due"}

LEMMA PairedTable ==
    ASSUME NEW x, TableTyped(x), NEW gateway \in Radios \union {NONE}
    PROVE  LET y == Paired(x, gateway) IN
           /\ SameBut(y, x, PairedFields) /\ TableTyped(y)
           /\ x.mode = "GATEWAY" => y = x
           /\ \A q : IsPeer(y, q) => IsPeer(x, q) \/ q = gateway
           /\ \A frame : StaysPeer(y, x) => Mids(y, x, frame)
<1> DEFINE y == Paired(x, gateway)
<1>0. /\ x.peers_length \in 0 .. MAX_DEVICES - 1 /\ MAX_DEVICES \in Nat \ {0, 1} /\ Whole(x)
      /\ x.peers \in [Slots -> Peers] /\ 0 \in Slots
  BY LimitAssumption DEF TableTyped, Slots
<1>1. CASE ~ (x.mode # "GATEWAY" /\ x.peers[0].id # gateway)
  <2>1. y = x
    BY <1>1 DEF Paired
  <2> QED
    BY <1>0, <2>1, SameSelf, SameTable
<1>2. CASE x.mode # "GATEWAY" /\ x.peers[0].id # gateway
  <2>1. y = [x EXCEPT !.peers = Joined(@, 0, gateway), !.peers_length = 1,
                      !.sent_subs = 0, !.due = TRUE]
    BY <1>2 DEF Paired
  <2>2. /\ SameBut(y, x, PairedFields) /\ y.peers = Joined(x.peers, 0, gateway)
        /\ y.peers_length = 1
    BY <1>0, <2>1 DEF Whole, SameBut, Fields, LocalFields, PairedFields
  <2> HIDE DEF y
  <2>3. TableTyped(y)
    <3>1. 1 \in 0 .. MAX_DEVICES - 1
      BY <1>0
    <3> QED
      BY <1>0, <2>2, <3>1, JoinedTable DEF TableTyped, SameBut
  <2>4. \A j \in Slots : y.peers[j].message_id = x.peers[j].message_id
    BY <1>0, <2>2 DEF Joined, Peers
  <2>5. y.peers[0].id = gateway
    BY <1>0, <2>2 DEF Joined, Peers
  <2>6. ASSUME NEW q, IsPeer(y, q) PROVE q = gateway /\ PeerSlot(y, q) = 0
    <3>1. PeerSlot(y, q) \in 0 .. 0 /\ y.peers[PeerSlot(y, q)].id = q
      BY <2>2, <2>6, SlotOf
    <3> QED
      BY <2>5, <3>1
  <2>7. ASSUME NEW frame, StaysPeer(y, x) PROVE Mids(y, x, frame)
    <3>1. x.peers_length = 0
      BY <1>0, <1>2, <2>5, <2>7 DEF StaysPeer
    <3>2. \A q : ~ IsPeer(x, q)
      BY <3>1 DEF IsPeer, PeerSlots
    <3>3. Fresh(x) => Fresh(y)
      BY <1>0, <2>2, <2>4, <3>1 DEF Fresh, Slots
    <3>4. ASSUME NEW q, IsPeer(y, q), Fresh(x) PROVE Mid(y, q) = 0
      BY <1>0, <2>4, <2>6, <3>1, <3>4 DEF Fresh, Mid
    <3> QED
      BY <3>2, <3>3, <3>4 DEF Mids
  <2> QED
    BY <1>2, <2>2, <2>3, <2>6, <2>7 DEF y
<1> QED
  BY <1>1, <1>2

-----------------------------------------------------------------------------
(***************************************************************************)
(* What a radio says of its own messages, in the middle of a task: the     *)
(* message is the last one that it gave an id, what it sends is that       *)
(* message or an ACK, and the application has heard of earlier ones.       *)
(***************************************************************************)
Busy == {"TX", "TX_WAIT_ACK", "TX_SEND_ACK"}
Goals == {"TX", "RX", "SLEEP"}
Outcome == [frame : Frames, result : {"TX_DONE", "TX_ERROR"}]

Outcomes(x, once) ==
    /\ x.outcome \in Seq(Outcome)
    /\ once =>
         /\ \A k \in 1 .. Len(x.outcome) :
               x.outcome[k].frame.src = x.self /\ x.outcome[k].frame.id <= x.message_id
         /\ x.state \in Busy =>
               \A k \in 1 .. Len(x.outcome) : x.outcome[k].frame.id < x.message_id
         /\ \A j, k \in 1 .. Len(x.outcome) :
               j < k => x.outcome[j].frame.id < x.outcome[k].frame.id

Own(x, once) ==
    /\ Whole(x) /\ x.self \in Radios /\ x.my_id \in {NONE, x.self} /\ x.message_id \in Ids
    /\ x.window \in BOOLEAN /\ x.timed \in BOOLEAN /\ x.desired \in Goals
    /\ x.accepted \in Seq(Frames)
    /\ x.message \in Frames /\ x.message.kind # "ack"
    /\ x.message = NoFrame \/ (x.message.src = x.self /\ x.message.id = x.message_id)
    /\ x.state \in Busy => x.message.src = x.self
    /\ x.tx.kind # "ack" => x.tx = x.message
    /\ x.state \in {"TX", "TX_WAIT_ACK"} => x.tx = x.message
    /\ x.state = "TX_SEND_ACK" => x.saved_tx = x.message
    /\ Outcomes(x, once)

StaysFields == RestFields \union {"tx", "saved_tx", "saved_count", "transmit_count", "ack", "outcome",
                                  "current", "air", "irq_sent", "rx_fifo", "transmissions"}

\* A change that hears nothing from others.
Stays(y, x, once) ==
    /\ Own(y, once) /\ SameBut(y, x, StaysFields)
    /\ y.rx_fifo \in {x.rx_fifo, NONE}
    /\ y.tx = x.tx \/ y.tx = x.message
    /\ \A k \in 1 .. Len(y.outcome) : y.outcome[k].result = "TX_DONE" =>
          k \in 1 .. Len(x.outcome) /\ y.outcome[k] = x.outcome[k]

LEMMA StaysSame ==
    ASSUME NEW x, NEW y, SameBut(y, x, StaysFields)
    PROVE  /\ Whole(y) /\ y.self = x.self /\ y.mode = x.mode /\ y.my_id = x.my_id
           /\ y.pairing_mode = x.pairing_mode /\ y.automatic_pairing = x.automatic_pairing
           /\ y.peers = x.peers /\ y.peers_length = x.peers_length /\ y.removed = x.removed
           /\ y.accepted = x.accepted /\ y.message = x.message /\ y.message_id = x.message_id
  BY DEF SameBut, Fields, Settings, LocalFields, LinkFields, StaysFields, RestFields

LEMMA StaysTwice ==
    ASSUME NEW once \in BOOLEAN, NEW x, NEW y, NEW z, Stays(y, x, once), Stays(z, y, once)
    PROVE  Stays(z, x, once)
<1>1. SameBut(z, x, StaysFields)
  BY SameTwice, SameWider DEF Stays
<1>2. y.message = x.message
  BY StaysSame DEF Stays
<1> QED
  BY <1>1, <1>2 DEF Stays

LEMMA StaysSelf == ASSUME NEW once \in BOOLEAN, NEW x, Own(x, once) PROVE Stays(x, x, once)
  BY SameSelf DEF Stays, Own

LEMMA OwnKept ==
    ASSUME NEW once \in BOOLEAN, NEW x, Own(x, once), NEW y, SameBut(y, x, StaysFields \ {"outcome"}),
           y.window \in BOOLEAN, y.timed \in BOOLEAN, y.desired \in Goals, y.rx_fifo \in {x.rx_fifo, NONE},
           y.tx = x.tx \/ y.tx = x.message,
           y.state \in {"TX", "TX_WAIT_ACK"} => y.tx = x.message,
           y.state = "TX_SEND_ACK" => y.saved_tx = x.message,
           y.state \in Busy => x.state \in Busy
    PROVE  Stays(y, x, once)
<1>1. SameBut(y, x, StaysFields)
  BY SameWider
<1>2. y.outcome = x.outcome /\ y.my_id = x.my_id /\ y.accepted = x.accepted
  BY DEF SameBut, Fields, LocalFields, StaysFields, RestFields
<1>3. /\ Whole(y) /\ y.self = x.self /\ y.message = x.message /\ y.message_id = x.message_id
  BY <1>1, StaysSame
<1>4. Outcomes(y, once)
  BY <1>2, <1>3 DEF Own, Outcomes
<1>5. Own(y, once)
  BY <1>2, <1>3, <1>4 DEF Own
<1> QED
  BY <1>1, <1>2, <1>5 DEF Stays

LEMMA GoToStays ==
    ASSUME NEW once \in BOOLEAN, NEW x, Own(x, once), NEW open
    PROVE  LET y == GoToRxOrSleep(x, open) IN
           /\ Stays(y, x, once) /\ SameBut(y, x, RestFields)
           /\ x.state # "TX" => y.state \in {"RX", "SLEEP"}
<1> DEFINE y == GoToRxOrSleep(x, open)
<1>1. CASE x.state = "TX"
  <2>1. y = x
    BY <1>1 DEF GoToRxOrSleep
  <2> QED
    BY <1>1, <2>1, StaysSelf, SameSelf DEF Own
<1>2. CASE x.state # "TX"
  <2>1. /\ SameBut(y, x, RestFields) /\ y.state \in {"RX", "SLEEP"}
        /\ y.desired = y.state /\ y.window \in BOOLEAN /\ y.timed \in BOOLEAN
    BY <1>2, GoToRests DEF Own
  <2> HIDE DEF y
  <2>2. SameBut(y, x, StaysFields \ {"outcome"})
    BY <2>1, SameWider DEF StaysFields, RestFields
  <2>3. y.rx_fifo = x.rx_fifo /\ y.tx = x.tx
    BY <2>1 DEF SameBut, RestFields, Fields, LinkFields
  <2>4. Stays(y, x, once)
    BY <2>1, <2>2, <2>3, OwnKept DEF Busy, Goals
  <2> QED
    BY <2>1, <2>4 DEF y
<1> QED
  BY <1>1, <1>2

\* The event that ends a message, in whatever order it comes with the change
\* of the state.
LEMMA ReportOwn ==
    ASSUME NEW once \in BOOLEAN, NEW x, Own(x, once), x.state \in Busy, NEW y, SameBut(y, x, StaysFields),
           y.state \notin Busy, y.window \in BOOLEAN, y.timed \in BOOLEAN, y.desired \in Goals,
           y.tx = x.tx,
           NEW result \in {"TX_DONE", "TX_ERROR"},
           y.outcome = x.outcome \/ y.outcome = Append(x.outcome, [frame |-> x.message, result |-> result])
    PROVE  Own(y, once)
<1>1. /\ Whole(y) /\ y.self = x.self /\ y.message = x.message /\ y.message_id = x.message_id
      /\ y.my_id = x.my_id /\ y.accepted = x.accepted
  BY StaysSame
<1>2. x.message_id \in Int /\ x.message_id <= x.message_id
  BY LimitAssumption DEF Own, Ids
<1>3. x.message \in Frames /\ x.message.src = x.self /\ x.message.id = x.message_id
  BY FrameAssumption, NoneAssumption DEF Own, NoFrame
<1>4. Outcomes(y, once)
  <2>1. CASE y.outcome = x.outcome
    BY <1>1, <2>1 DEF Own, Outcomes
  <2>2. CASE y.outcome = Append(x.outcome, [frame |-> x.message, result |-> result])
    <3> PICK o \in Outcome : o = [frame |-> x.message, result |-> result]
      BY <1>3 DEF Outcome
    <3>1. o.frame = x.message
      OBVIOUS
    <3>2. /\ x.outcome \in Seq(Outcome) /\ Len(x.outcome) \in Nat
          /\ once =>
               /\ \A k \in 1 .. Len(x.outcome) :
                    x.outcome[k].frame.src = x.self /\ x.outcome[k].frame.id < x.message_id
               /\ \A j, k \in 1 .. Len(x.outcome) :
                    j < k => x.outcome[j].frame.id < x.outcome[k].frame.id
      BY DEF Own, Outcomes
    <3>3. /\ y.outcome \in Seq(Outcome) /\ Len(y.outcome) = Len(x.outcome) + 1
          /\ \A k \in 1 .. Len(x.outcome) : y.outcome[k] = x.outcome[k]
          /\ y.outcome[Len(x.outcome) + 1] = o
      BY <2>2, <3>2, AppendProperties
    <3>4. \A k \in 1 .. Len(y.outcome) : k \in 1 .. Len(x.outcome) \/ k = Len(x.outcome) + 1
      BY <3>2, <3>3
    <3>5. ASSUME NEW k \in 1 .. Len(x.outcome) PROVE x.outcome[k].frame.id \in Int
      <4>1. x.outcome[k] \in Outcome
        BY <3>2, ElementOfSeq
      <4>2. \A e \in Outcome : e.frame.id \in Ids
        BY DEF Outcome, Frames
      <4> QED
        BY <4>1, <4>2, LimitAssumption DEF Ids
    <3>6. ASSUME once, NEW k \in 1 .. Len(y.outcome)
          PROVE  y.outcome[k].frame.src = y.self /\ y.outcome[k].frame.id <= y.message_id
      <4>1. CASE k \in 1 .. Len(x.outcome)
        <5>1. y.outcome[k] = x.outcome[k] /\ x.outcome[k].frame.src = x.self
              /\ x.outcome[k].frame.id < x.message_id
          BY <3>2, <3>3, <3>6, <4>1
        <5>2. x.outcome[k].frame.id \in Int
          BY <3>5, <4>1
        <5> QED
          BY <1>1, <1>2, <5>1, <5>2
      <4>2. CASE k = Len(x.outcome) + 1
        <5>1. y.outcome[k].frame = x.message
          BY <3>1, <3>3, <4>2
        <5> QED
          BY <1>1, <1>2, <1>3, <5>1
      <4> QED
        BY <3>4, <4>1, <4>2
    <3>7. ASSUME once, NEW j \in 1 .. Len(y.outcome), NEW k \in 1 .. Len(y.outcome), j < k
          PROVE  y.outcome[j].frame.id < y.outcome[k].frame.id
      <4>1. j \in 1 .. Len(x.outcome)
        BY <3>2, <3>3, <3>7
      <4>2. CASE k \in 1 .. Len(x.outcome)
        BY <3>2, <3>3, <3>7, <4>1, <4>2
      <4>3. CASE k = Len(x.outcome) + 1
        BY <1>3, <3>7, <3>1, <3>2, <3>3, <4>1, <4>3
      <4> QED
        BY <3>4, <4>2, <4>3
    <3> QED
      BY <3>3, <3>6, <3>7 DEF Outcomes
  <2> QED
    BY <2>1, <2>2
<1> QED
  BY <1>1, <1>4 DEF Own, Busy

LEMMA RetransmitStays ==
    ASSUME NEW once \in BOOLEAN, NEW x, Own(x, once), x.state = "TX_WAIT_ACK"
    PROVE  Stays(Retransmit(x), x, once)
<1> DEFINE y == Retransmit(x)
<1>1. /\ SameBut(y, x, {"desired", "driver_plan", "state"}) /\ y.state = "TX"
      /\ y.desired = "TX" /\ y.window = x.window /\ y.timed = x.timed /\ y.rx_fifo = x.rx_fifo /\ y.tx = x.tx
  BY DEF Own, Whole, SameBut, Fields, LinkFields, LocalFields, Retransmit, SpiritTx, Desire
<1> HIDE DEF y
<1>2. SameBut(y, x, StaysFields \ {"outcome"})
  BY <1>1, SameWider DEF StaysFields, RestFields
<1>3. Stays(y, x, once)
  BY <1>1, <1>2, OwnKept DEF Own, Busy, Goals
<1> QED
  BY <1>3 DEF y

LEMMA ReportIs ==
    ASSUME NEW x, Whole(x), NEW result
    PROVE  LET y == Report(x, result) IN
           /\ SameBut(y, x, {"outcome"})
           /\ \/ y.outcome = x.outcome
              \/ y.outcome = Append(x.outcome, [frame |-> x.message, result |-> result])
<1>1. CASE x.message.kind = "pub"
  BY <1>1 DEF Report, Whole, SameBut, Fields, LocalFields
<1>2. CASE x.message.kind # "pub"
  BY <1>2, SameSelf DEF Report
<1> QED
  BY <1>1, <1>2

LEMMA RxTimeoutStays ==
    ASSUME NEW once \in BOOLEAN, NEW x, Own(x, once), NEW open
    PROVE  Stays(RxTimeout(x, open), x, once)
<1>1. CASE x.state # "TX_WAIT_ACK"
  BY <1>1, GoToStays DEF RxTimeout
<1>2. CASE x.state = "TX_WAIT_ACK" /\ AttemptsLeft(x)
  BY <1>2, RetransmitStays DEF RxTimeout
<1>3. CASE x.state = "TX_WAIT_ACK" /\ ~ AttemptsLeft(x)
  <2> PICK w : w = Report(x, "TX_ERROR")
    OBVIOUS
  <2> PICK y : y = GoToRxOrSleep(w, open)
    OBVIOUS
  <2>1. RxTimeout(x, open) = y
    BY <1>3 DEF RxTimeout
  <2>2. SameBut(w, x, {"outcome"})
        /\ (\/ w.outcome = x.outcome
            \/ w.outcome = Append(x.outcome, [frame |-> x.message, result |-> "TX_ERROR"]))
    BY ReportIs DEF Own
  <2>3. Whole(w) /\ w.state = x.state /\ w.window = x.window /\ w.timed = x.timed
        /\ w.tx = x.tx /\ w.rx_fifo = x.rx_fifo
    BY <2>2 DEF SameBut, Fields, LinkFields, LocalFields
  <2>4. /\ SameBut(y, w, RestFields) /\ y.state \in {"RX", "SLEEP"} /\ y.desired = y.state
        /\ y.window \in BOOLEAN /\ y.timed \in BOOLEAN
    BY <1>3, <2>3, GoToRests DEF Own
  <2>5. y.outcome = w.outcome /\ y.tx = x.tx /\ y.rx_fifo = x.rx_fifo
    BY <2>3, <2>4 DEF SameBut, RestFields, Fields, LinkFields, LocalFields
  <2>6. SameBut(y, x, StaysFields)
    <3>1. SameBut(y, x, {"outcome"} \union RestFields)
      BY <2>2, <2>4, SameTwice
    <3> QED
      BY <3>1, SameWider DEF StaysFields
  <2>7. Own(y, once)
    BY <1>3, <2>2, <2>4, <2>5, <2>6, ReportOwn, ZenonT(60) DEF Busy, Goals
  <2>8. ASSUME NEW k \in 1 .. Len(y.outcome), y.outcome[k].result = "TX_DONE"
        PROVE  k \in 1 .. Len(x.outcome) /\ y.outcome[k] = x.outcome[k]
    <3>1. CASE w.outcome = x.outcome
      BY <2>5, <2>8, <3>1
    <3>2. CASE w.outcome = Append(x.outcome, [frame |-> x.message, result |-> "TX_ERROR"])
      <4> PICK o : o = [frame |-> x.message, result |-> "TX_ERROR"]
        OBVIOUS
      <4>1. o \in Outcome /\ o.result = "TX_ERROR"
        BY DEF Own, Outcome
      <4>2. x.outcome \in Seq(Outcome) /\ y.outcome = Append(x.outcome, o)
        BY <2>5, <3>2 DEF Own, Outcomes
      <4>3. /\ Len(y.outcome) = Len(x.outcome) + 1 /\ Len(x.outcome) \in Nat
            /\ \A j \in 1 .. Len(x.outcome) : y.outcome[j] = x.outcome[j]
            /\ y.outcome[Len(x.outcome) + 1] = o
        BY <4>1, <4>2, AppendProperties
      <4> QED
        BY <2>8, <4>1, <4>3
    <3> QED
      BY <2>2, <3>1, <3>2
  <2> QED
    BY <2>1, <2>5, <2>6, <2>7, <2>8 DEF Stays
<1> QED
  BY <1>1, <1>2, <1>3

LEMMA EnterStays ==
    ASSUME NEW once \in BOOLEAN, NEW x, Own(x, once)
    PROVE  Stays(Enter(x), x, once)
<1> DEFINE S == {"current", "air", "irq_sent", "rx_fifo", "transmissions", "driver_plan"}
<1>1. ASSUME NEW y, SameBut(y, x, S), y.rx_fifo = NONE
      PROVE  Stays(y, x, once)
  <2>1. SameBut(y, x, StaysFields \ {"outcome"})
    BY <1>1, SameWider DEF StaysFields, RestFields
  <2>2. /\ y.window = x.window /\ y.timed = x.timed /\ y.desired = x.desired /\ y.tx = x.tx
        /\ y.state = x.state /\ y.saved_tx = x.saved_tx
    BY <1>1 DEF SameBut, Fields, LinkFields, LocalFields
  <2> QED
    BY <1>1, <2>1, <2>2, OwnKept DEF Own
<1>2. Whole(x)
  BY DEF Own
<1>3. CASE x.desired = "TX"
  <2> PICK n : n = IF x.tx.kind = "ack" THEN x.transmissions ELSE x.transmissions + 1
    OBVIOUS
  <2> PICK y : y = [x EXCEPT !.current = "TX", !.air = x.tx, !.irq_sent = FALSE,
                             !.rx_fifo = NONE, !.transmissions = n]
    OBVIOUS
  <2>1. Enter(x) = y
    BY <1>3 DEF Enter, EnterTx
  <2>2. SameBut(y, x, S) /\ y.rx_fifo = NONE
    BY <1>2 DEF Whole, SameBut, Fields, LinkFields
  <2> QED
    BY <1>1, <2>1, <2>2
<1>4. CASE x.desired = "RX"
  <2> PICK plan : plan = PlanTimeout(x)
    OBVIOUS
  <2> PICK y : y = [x EXCEPT !.current = "RX", !.driver_plan = plan, !.irq_sent = FALSE,
                             !.rx_fifo = NONE]
    OBVIOUS
  <2>1. Enter(x) = y
    BY <1>4 DEF Enter, EnterRx
  <2>2. SameBut(y, x, S) /\ y.rx_fifo = NONE
    BY <1>2 DEF Whole, SameBut, Fields, LinkFields
  <2> QED
    BY <1>1, <2>1, <2>2
<1>5. CASE x.desired = "SLEEP"
  <2> PICK y : y = [x EXCEPT !.current = "SLEEP", !.irq_sent = FALSE, !.rx_fifo = NONE]
    OBVIOUS
  <2>1. Enter(x) = y
    BY <1>5 DEF Enter, EnterSleep
  <2>2. SameBut(y, x, S) /\ y.rx_fifo = NONE
    BY <1>2 DEF Whole, SameBut, Fields, LinkFields
  <2> QED
    BY <1>1, <2>1, <2>2
<1> QED
  BY <1>3, <1>4, <1>5 DEF Own, Goals

LEMMA ResumeIs ==
    ASSUME NEW x, Whole(x)
    PROVE  LET y == ResumeWaiting(x) IN
           /\ SameBut(y, x, {"desired", "driver_plan", "timed", "state", "tx", "transmit_count"})
           /\ y.timed = TRUE /\ y.desired = "RX" /\ y.tx = x.saved_tx /\ y.state = "TX_WAIT_ACK"
<1> DEFINE w == [x EXCEPT !.desired = "RX", !.driver_plan = "now", !.timed = TRUE]
           y == [w EXCEPT !.state = "TX_WAIT_ACK", !.tx = x.saved_tx,
                          !.transmit_count = x.saved_count]
<1>1. ResumeWaiting(x) = y
  BY DEF ResumeWaiting, SpiritRx, Desire
<1>2. /\ SameBut(w, x, {"desired", "driver_plan", "timed"})
      /\ w.timed = TRUE /\ w.desired = "RX"
  BY DEF Whole, SameBut, Fields, LinkFields
<1> HIDE DEF w
<1>3. /\ SameBut(y, w, {"state", "tx", "transmit_count"})
      /\ y.tx = x.saved_tx /\ y.state = "TX_WAIT_ACK"
  BY <1>2 DEF Whole, SameBut, Fields, LinkFields
<1> HIDE DEF y
<1>4. y.timed = w.timed /\ y.desired = w.desired
  BY <1>3 DEF SameBut, Fields, LinkFields
<1>5. SameBut(y, x, {"desired", "driver_plan", "timed", "state", "tx", "transmit_count"})
  <2>1. SameBut(y, x, {"desired", "driver_plan", "timed"} \union {"state", "tx", "transmit_count"})
    BY <1>2, <1>3, SameTwice
  <2> QED
    BY <2>1, SameWider
<1> QED
  BY <1>1, <1>2, <1>3, <1>4, <1>5

LEMMA TxDoneStays ==
    ASSUME NEW once \in BOOLEAN, NEW x0, Own(x0, once), NEW open
    PROVE  Stays(TxDone(x0, open), x0, once)
<1> PICK n : n = IF x0.transmit_count > 0 THEN x0.transmit_count - 1 ELSE 0
  OBVIOUS
<1> PICK x : x = [x0 EXCEPT !.transmit_count = n]
  OBVIOUS
<1> DEFINE S == {"desired", "driver_plan", "timed", "state", "ack", "tx", "transmit_count"}
<1>1. SameBut(x, x0, {"transmit_count"}) /\ Whole(x)
  BY DEF Own, Whole, SameBut, Fields, LinkFields
<1>2. /\ x.window = x0.window /\ x.timed = x0.timed /\ x.desired = x0.desired /\ x.tx = x0.tx
      /\ x.state = x0.state /\ x.saved_tx = x0.saved_tx /\ x.rx_fifo = x0.rx_fifo
  BY <1>1 DEF SameBut, Fields, LinkFields, LocalFields
<1>3. SameBut(x, x0, StaysFields \ {"outcome"})
  BY <1>1, SameWider DEF StaysFields, RestFields
<1>4. Stays(x, x0, once)
  BY <1>2, <1>3, OwnKept DEF Own
<1>5. Own(x, once) /\ x.message = x0.message
  BY <1>4, StaysSame DEF Stays
<1>6. ASSUME NEW y, SameBut(y, x, S), y.timed \in BOOLEAN, y.desired \in Goals,
             y.tx = x.tx \/ y.tx = x.message,
             y.state \in {"TX", "TX_WAIT_ACK"} => y.tx = x.message,
             y.state = "TX_SEND_ACK" => x.saved_tx = x.message,
             y.state \in Busy => x.state \in Busy
      PROVE  Stays(y, x0, once)
  <2>1. SameBut(y, x, StaysFields \ {"outcome"})
    BY <1>6, SameWider DEF StaysFields, RestFields
  <2>2. y.window = x.window /\ y.rx_fifo = x.rx_fifo /\ y.saved_tx = x.saved_tx
    BY <1>6 DEF SameBut, Fields, LinkFields, LocalFields
  <2>3. Stays(y, x, once)
    BY <1>5, <1>6, <2>1, <2>2, OwnKept, ZenonT(60) DEF Own
  <2> QED
    BY <1>4, <2>3, StaysTwice
<1> HIDE DEF S
<1>7. CASE x.state = "TX"
  <2> PICK y : y = [x EXCEPT !.desired = "RX", !.driver_plan = "now", !.timed = TRUE,
                             !.state = "TX_WAIT_ACK", !.ack = FALSE]
    OBVIOUS
  <2>1. TxDone(x0, open) = y
    BY <1>7 DEF TxDone, SpiritRx, Desire
  <2>2. /\ SameBut(y, x, S) /\ y.timed = TRUE /\ y.desired = "RX" /\ y.tx = x.tx
        /\ y.state = "TX_WAIT_ACK"
    BY <1>1, ZenonT(60) DEF Whole, SameBut, Fields, LinkFields, LocalFields, S
  <2>3. y.tx = x.message /\ y.timed \in BOOLEAN /\ y.desired \in Goals /\ x.state \in Busy
    BY <1>5, <1>7, <2>2 DEF Own, Busy, Goals
  <2> QED
    BY <1>6, <2>1, <2>2, <2>3
<1>8. CASE x.state \in {"RX_SEND_ACK", "TX_SEND_ACK"} /\ n > 0
  <2> PICK y : y = [x EXCEPT !.desired = "TX", !.driver_plan = "now"]
    OBVIOUS
  <2>1. TxDone(x0, open) = y
    BY <1>8 DEF TxDone, SpiritTx, Desire
  <2>2. /\ SameBut(y, x, S) /\ y.timed = x.timed /\ y.desired = "TX" /\ y.tx = x.tx
        /\ y.state = x.state
    BY <1>1, ZenonT(60) DEF Whole, SameBut, Fields, LinkFields, LocalFields, S
  <2>3. /\ y.timed \in BOOLEAN /\ y.desired \in Goals /\ y.state \notin {"TX", "TX_WAIT_ACK"}
        /\ x.state = "TX_SEND_ACK" => x.saved_tx = x.message
    BY <1>5, <1>8, <2>2 DEF Own, Goals
  <2> QED
    BY <1>6, <2>1, <2>2, <2>3
<1>9. CASE x.state = "TX_SEND_ACK" /\ n = 0
  <2> PICK y : y = ResumeWaiting(x)
    OBVIOUS
  <2>1. TxDone(x0, open) = y
    BY <1>9 DEF TxDone
  <2>2. /\ SameBut(y, x, S) /\ y.timed = TRUE /\ y.desired = "RX" /\ y.tx = x.saved_tx
        /\ y.state = "TX_WAIT_ACK"
    <3> DEFINE T == {"desired", "driver_plan", "timed", "state", "tx", "transmit_count"}
    <3>1. T \subseteq S
      BY DEF S
    <3>2. /\ SameBut(y, x, T) /\ y.timed = TRUE /\ y.desired = "RX" /\ y.tx = x.saved_tx
          /\ y.state = "TX_WAIT_ACK"
      BY <1>1, ResumeIs
    <3> HIDE DEF T
    <3> QED
      BY <3>1, <3>2, SameWider
  <2>3. y.tx = x.message /\ y.timed \in BOOLEAN /\ y.desired \in Goals /\ x.state \in Busy
    BY <1>5, <1>9, <2>2 DEF Own, Busy, Goals
  <2> QED
    BY <1>6, <2>1, <2>2, <2>3
<1>10. CASE ~ (x.state = "TX") /\ ~ (x.state \in {"RX_SEND_ACK", "TX_SEND_ACK"} /\ n > 0)
            /\ ~ (x.state = "TX_SEND_ACK" /\ n = 0)
  <2>1. TxDone(x0, open) = GoToRxOrSleep(x, open)
    BY <1>10 DEF TxDone
  <2> QED
    BY <1>4, <1>5, <2>1, GoToStays, StaysTwice
<1> QED
  BY <1>7, <1>8, <1>9, <1>10

-----------------------------------------------------------------------------
(***************************************************************************)
(* What a radio learns from a frame that it hears.                         *)
(***************************************************************************)
LearnFields == {"peers", "peers_length", "removed", "due", "pub_queue", "pairing_request",
                "rx_queue", "accepted", "sent_subs"}
AnswerFields == {"desired", "driver_plan", "tx", "transmit_count", "state", "saved_tx",
                 "saved_count"}
HearFields == LearnFields \union AnswerFields \union {"timed", "window", "ack", "outcome"}

\* A message of a peer is taken at most once: the peer's slot tells.
Takes(y, x, frame) ==
    \/ y.accepted = x.accepted
    \/ /\ y.accepted = Append(x.accepted, frame) /\ frame.kind = "pub"
       /\ IsPeer(x, frame.src) /\ Mid(x, frame.src) # frame.id
       /\ IsPeer(y, frame.src) /\ Mid(y, frame.src) = frame.id

\* A gateway that took a peer remembers it; a node that pairs nobody gets a
\* peer from the ACK of its pairing request only.
Table(y, x, frame) ==
    /\ x.mode = "GATEWAY" => \A q \in Radios : Took(x, q) => Took(y, q)
    /\ x.mode # "GATEWAY" /\ ~ x.pairing_mode /\ ~ x.automatic_pairing =>
          \A q \in Radios : IsPeer(y, q) =>
              IsPeer(x, q) \/ (frame.kind = "ack" /\ frame.src = x.self /\ frame.body = q)
    /\ StaysPeer(y, x) => Mids(y, x, frame)

\* An ACK of a message says that it was taken, one with a radio's id that the
\* sender is its peer.
Answers(y, x, frame) ==
    /\ frame.kind # "ack"
    /\ y.tx.kind = "ack" /\ y.tx.src = frame.src /\ y.tx.id = frame.id
    /\ frame.kind = "pub" => y.accepted = Append(x.accepted, frame)
    /\ y.tx.body \in Radios => y.tx.body = x.self /\ IsPeer(y, frame.src)

Told(y, x, frame) ==
    /\ frame.kind = "ack" /\ frame.src = x.self /\ frame.id = x.message_id
    /\ x.message.kind = "pub"
    /\ y.outcome = Append(x.outcome, [frame |-> x.message, result |-> "TX_DONE"])

Learns(y, x, frame, once) ==
    /\ Own(y, once) /\ TableTyped(y) /\ SameBut(y, x, HearFields)
    /\ y.outcome = x.outcome \/ Told(y, x, frame)
    /\ y.tx = x.tx \/ Answers(y, x, frame)
    /\ Takes(y, x, frame) /\ Table(y, x, frame)

\* Before the answer.
Notes(y, x, frame) ==
    /\ TableTyped(y) /\ SameBut(y, x, LearnFields) /\ y.accepted \in Seq(Frames)
    /\ Takes(y, x, frame) /\ Table(y, x, frame)

LEMMA LearnSame ==
    ASSUME NEW x, NEW y, SameBut(y, x, LearnFields)
    PROVE  /\ Whole(y) /\ y.self = x.self /\ y.mode = x.mode /\ y.my_id = x.my_id
           /\ y.pairing_mode = x.pairing_mode /\ y.automatic_pairing = x.automatic_pairing
           /\ y.message = x.message /\ y.message_id = x.message_id /\ y.outcome = x.outcome
           /\ y.tx = x.tx /\ y.saved_tx = x.saved_tx /\ y.state = x.state
           /\ y.desired = x.desired /\ y.timed = x.timed /\ y.window = x.window
           /\ y.rx_fifo = x.rx_fifo
  BY DEF SameBut, Fields, Settings, LocalFields, LinkFields, LearnFields

LEMMA NotesOwn ==
    ASSUME NEW once \in BOOLEAN, NEW x, Own(x, once), NEW y, SameBut(y, x, LearnFields),
           y.accepted \in Seq(Frames)
    PROVE  Own(y, once)
<1>1. Outcomes(y, once)
  BY LearnSame, SMTT(30) DEF Own, Outcomes
<1> QED
  BY <1>1, LearnSame DEF Own

LEMMA NotesLearns ==
    ASSUME NEW once \in BOOLEAN, NEW x, Own(x, once), NEW y, NEW frame, Notes(y, x, frame)
    PROVE  Learns(y, x, frame, once)
<1>1. SameBut(y, x, HearFields)
  BY SameWider DEF Notes, HearFields
<1>2. Own(y, once)
  BY NotesOwn DEF Notes
<1> QED
  BY <1>1, <1>2, LearnSame DEF Notes, Learns

LEMMA TableSelf == ASSUME NEW x, NEW frame PROVE Table(x, x, frame)
  BY SameTable DEF Table

LEMMA NotesSelf ==
    ASSUME NEW once \in BOOLEAN, NEW x, Own(x, once), TableTyped(x), NEW frame
    PROVE  Notes(x, x, frame)
  BY TableSelf, SameSelf DEF Own, Notes, Takes

LEMMA AnswerIs ==
    ASSUME NEW once \in BOOLEAN, NEW x, Own(x, once), NEW frame \in Frames, NEW body \in AckBodies
    PROVE  LET z == SendAck(x, frame, body) IN
           /\ SameBut(z, x, AnswerFields) /\ Own(z, once)
           /\ \/ z.tx = x.tx
              \/ z.tx.kind = "ack" /\ z.tx.src = frame.src /\ z.tx.id = frame.id /\ z.tx.body = body
<1> DEFINE ackFrame == [src |-> frame.src, id |-> frame.id, kind |-> "ack", body |-> body]
           d == [x EXCEPT !.desired = "TX", !.driver_plan = "now"]
           ack == [d EXCEPT !.tx = ackFrame, !.transmit_count = 2]
           z == SendAck(x, frame, body)
<1>1. /\ ackFrame.kind = "ack" /\ ackFrame.src = frame.src
      /\ ackFrame.id = frame.id /\ ackFrame.body = body
  OBVIOUS
<1> HIDE DEF ackFrame
<1>2. SameBut(d, x, {"desired", "driver_plan"}) /\ d.desired = "TX"
  BY DEF Own, Whole, SameBut, Fields, LinkFields
<1> HIDE DEF d
<1>3. SameBut(ack, d, {"tx", "transmit_count"}) /\ ack.desired = "TX" /\ ack.tx = ackFrame
  BY <1>2 DEF Whole, SameBut, Fields, LinkFields
<1> HIDE DEF ack
<1>4. SameBut(ack, x, {"desired", "driver_plan", "tx", "transmit_count"})
  BY <1>2, <1>3, SameTwice, SameWider
<1>5. ASSUME NEW y, SameBut(y, x, AnswerFields), y.desired = "TX", y.tx = ackFrame,
             \/ y.state = "RX_SEND_ACK"
             \/ y.state = "TX_SEND_ACK" /\ y.saved_tx = x.tx /\ x.state = "TX_WAIT_ACK"
      PROVE  Own(y, once)
  <2>1. /\ Whole(y) /\ y.self = x.self /\ y.my_id = x.my_id
        /\ y.message = x.message /\ y.message_id = x.message_id /\ y.outcome = x.outcome
        /\ y.timed = x.timed /\ y.window = x.window /\ y.accepted = x.accepted
    BY <1>5 DEF SameBut, Fields, Settings, LocalFields, LinkFields, AnswerFields
  <2>2. Outcomes(y, once)
    BY <1>5, <2>1 DEF Own, Outcomes, Busy
  <2> QED
    BY <1>1, <1>5, <2>1, <2>2 DEF Own, Busy, Goals
<1>6. CASE x.state = "TX_WAIT_ACK"
  <2> PICK y : y = [ack EXCEPT !.state = "TX_SEND_ACK", !.saved_tx = x.tx,
                               !.saved_count = x.transmit_count]
    OBVIOUS
  <2>1. /\ SameBut(y, ack, {"state", "saved_tx", "saved_count"}) /\ y.state = "TX_SEND_ACK"
        /\ y.saved_tx = x.tx /\ y.desired = "TX" /\ y.tx = ackFrame
    BY <1>3 DEF Whole, SameBut, Fields, LinkFields
  <2>2. SameBut(y, x, AnswerFields)
    BY <1>4, <2>1, SameTwice, SameWider DEF AnswerFields
  <2>3. z = y
    BY <1>6 DEF SendAck, SpiritTx, Desire, ack, d, ackFrame
  <2> QED
    BY <1>1, <1>5, <1>6, <2>1, <2>2, <2>3
<1>7. CASE x.state = "RX"
  <2> PICK y : y = [ack EXCEPT !.state = "RX_SEND_ACK"]
    OBVIOUS
  <2>1. /\ SameBut(y, ack, {"state", "saved_tx", "saved_count"}) /\ y.state = "RX_SEND_ACK"
        /\ y.desired = "TX" /\ y.tx = ackFrame
    BY <1>3 DEF Whole, SameBut, Fields, LinkFields
  <2>2. SameBut(y, x, AnswerFields)
    BY <1>4, <2>1, SameTwice, SameWider DEF AnswerFields
  <2>3. z = y
    BY <1>7 DEF SendAck, SpiritTx, Desire, ack, d, ackFrame
  <2> QED
    BY <1>1, <1>5, <1>7, <2>1, <2>2, <2>3
<1>8. CASE x.state \notin {"TX_WAIT_ACK", "RX"}
  <2>1. z = x
    BY <1>8 DEF SendAck
  <2> QED
    BY <2>1, SameSelf DEF Own
<1> QED
  BY <1>6, <1>7, <1>8

LEMMA AnswerLearns ==
    ASSUME NEW once \in BOOLEAN, NEW x, Own(x, once), NEW frame \in Frames, frame.kind # "ack",
           NEW y, Notes(y, x, frame), frame.kind = "pub" => y.accepted = Append(x.accepted, frame),
           NEW body \in AckBodies, body \in Radios => body = x.self /\ IsPeer(y, frame.src)
    PROVE  Learns(SendAck(y, frame, body), x, frame, once)
<1> PICK z : z = SendAck(y, frame, body)
  OBVIOUS
<1>1. Own(y, once) /\ y.tx = x.tx /\ y.outcome = x.outcome
  BY NotesOwn, LearnSame DEF Notes
<1>2. /\ SameBut(z, y, AnswerFields) /\ Own(z, once)
      /\ \/ z.tx = x.tx
         \/ z.tx.kind = "ack" /\ z.tx.src = frame.src /\ z.tx.id = frame.id /\ z.tx.body = body
  BY <1>1, AnswerIs
<1>3. /\ Whole(z) /\ z.peers = y.peers /\ z.peers_length = y.peers_length
      /\ z.removed = y.removed /\ z.accepted = y.accepted /\ z.outcome = y.outcome
  BY <1>2 DEF SameBut, Fields, LocalFields, AnswerFields
<1>4. TableTyped(z)
  BY <1>3 DEF Notes, TableTyped
<1>5. SameBut(z, x, HearFields)
  <2>1. SameBut(z, x, LearnFields \union AnswerFields)
    BY <1>2, SameTwice DEF Notes
  <2>2. LearnFields \union AnswerFields \subseteq HearFields
    BY DEF HearFields
  <2> QED
    BY <2>1, <2>2, SameWider
<1>6. /\ \A q : IsPeer(z, q) <=> IsPeer(y, q)
      /\ \A q : Mid(z, q) = Mid(y, q)
      /\ Mids(z, y, frame)
  BY <1>3, SameTable
<1>7. Takes(z, x, frame)
  BY <1>3, <1>6 DEF Notes, Takes
<1>8. StaysPeer(z, x) => StaysPeer(y, x)
  BY <1>3 DEF StaysPeer
<1>9. Table(z, x, frame)
  <2>1. Table(y, x, frame)
    BY DEF Notes
  <2>2. StaysPeer(z, x) => Mids(z, x, frame)
    BY <1>6, <1>8, <2>1, MidsTwice DEF Table
  <2>3. \A q \in Radios : Took(y, q) => Took(z, q)
    BY <1>3, <1>6 DEF Took
  <2> QED
    BY <1>6, <2>1, <2>2, <2>3 DEF Table
<1>10. z.tx = x.tx \/ Answers(z, x, frame)
  BY <1>2, <1>3, <1>6 DEF Answers
<1> QED
  BY <1>1, <1>2, <1>3, <1>4, <1>5, <1>7, <1>9, <1>10 DEF Learns

LEMMA AddNotes ==
    ASSUME NEW once \in BOOLEAN, NEW x, Own(x, once), TableTyped(x), NEW frame \in Frames,
           frame.src \in Radios, x.pairing_mode \/ x.automatic_pairing
    PROVE  Notes(PeerDeviceAdd(x, frame.src), x, frame)
<1> PICK y : y = PeerDeviceAdd(x, frame.src)
  OBVIOUS
<1>1. /\ SameBut(y, x, AddFields) /\ TableTyped(y)
      /\ \A q : Took(x, q) => Took(y, q)
      /\ \A f : Mids(y, x, f)
  BY AddTable
<1>2. y.accepted = x.accepted
  BY <1>1 DEF SameBut, Fields, LocalFields, AddFields
<1>3. SameBut(y, x, LearnFields)
  BY <1>1, SameWider DEF AddFields, LearnFields
<1>4. Table(y, x, frame)
  BY <1>1 DEF Table
<1> QED
  BY <1>1, <1>2, <1>3, <1>4 DEF Notes, Takes, Own

\* The slot of a peer gets the id of its message.
Marks(y, x, src, id) ==
    /\ SameBut(y, x, {"peers"}) /\ TableTyped(y)
    /\ \A r : IsPeer(y, r) <=> IsPeer(x, r)
    /\ \A r : IsPeer(x, r) => PeerSlot(y, r) = PeerSlot(x, r)
    /\ \A j \in Slots : y.peers[j].id = x.peers[j].id
    /\ Mid(y, src) = id
    /\ \A frame : frame.kind # "ack" /\ frame.src = src /\ frame.id = id => Mids(y, x, frame)

LEMMA HeardIs ==
    ASSUME NEW x, TableTyped(x), NEW src, IsPeer(x, src), NEW i, i = PeerSlot(x, src),
           NEW id \in Ids, NEW synced \in BOOLEAN
    PROVE  Marks([x EXCEPT !.peers = Heard(@, i, id, synced)], x, src, id)
<1> DEFINE y == [x EXCEPT !.peers = Heard(@, i, id, synced)]
<1>1. /\ SameBut(y, x, {"peers"}) /\ y.peers_length = x.peers_length
      /\ y.peers = Heard(x.peers, i, id, synced)
  BY DEF TableTyped, Whole, SameBut, Fields, LocalFields
<1> HIDE DEF y
<1>2. TableTyped(y)
  <2>1. Heard(x.peers, i, id, synced) \in [Slots -> Peers]
    BY HeardTable DEF TableTyped
  <2> QED
    BY <1>1, <2>1 DEF TableTyped, SameBut
<1>3. /\ \A r : IsPeer(y, r) <=> IsPeer(x, r)
      /\ \A r : IsPeer(x, r) => PeerSlot(y, r) = PeerSlot(x, r)
      /\ \A j \in Slots : y.peers[j].id = x.peers[j].id
      /\ Mid(y, src) = id
      /\ \A frame : frame.kind # "ack" /\ frame.src = src /\ frame.id = id => Mids(y, x, frame)
  BY <1>1, SlotHeard
<1> QED
  BY <1>1, <1>2, <1>3 DEF y, Marks

LEMMA PairingLearns ==
    ASSUME NEW once \in BOOLEAN, NEW x, Own(x, once), TableTyped(x), x.pairing_mode \in BOOLEAN,
           NEW frame \in Frames, frame.src \in Radios, frame.kind = "pairing"
    PROVE  Learns(RxPairing(x, frame), x, frame, once)
<1> PICK y : y = IF x.pairing_mode THEN PeerDeviceAdd(x, frame.src) ELSE x
  OBVIOUS
<1>1. Notes(y, x, frame)
  BY AddNotes, NotesSelf
<1>2. CASE ~ IsPeer(y, frame.src)
  <2>1. RxPairing(x, frame) = y
    BY <1>2 DEF RxPairing
  <2> QED
    BY <1>1, <2>1, NotesLearns
<1>3. CASE IsPeer(y, frame.src)
  <2> PICK body : body = y.my_id
    OBVIOUS
  <2> PICK z : z = SendAck(y, frame, body)
    OBVIOUS
  <2> DEFINE i == PeerSlot(z, frame.src)
             w == [z EXCEPT !.peers = Heard(@, i, frame.id, TRUE)]
  <2>1. RxPairing(x, frame) = w
    BY <1>3 DEF RxPairing
  <2>2. /\ body \in AckBodies /\ (body \in Radios => body = x.self)
        /\ frame.id \in Ids /\ frame.kind # "ack"
    BY <1>1, LearnSame, NoneAssumption DEF Notes, Own, AckBodies, Frames
  <2>3. Learns(z, x, frame, once)
    <3>1. body \in Radios => body = x.self /\ IsPeer(y, frame.src)
      BY <1>3, <2>2
    <3> QED
      BY <1>1, <2>2, <3>1, AnswerLearns
  <2>4. IsPeer(z, frame.src)
    <3> Own(y, once)
      BY <1>1, NotesOwn DEF Notes
    <3>1. SameBut(z, y, AnswerFields)
      BY <2>2, AnswerIs
    <3>2. z.peers = y.peers /\ z.peers_length = y.peers_length
      BY <3>1 DEF SameBut, Fields, LocalFields, AnswerFields
    <3> QED
      BY <1>3, <3>2, SameTable
  <2>5. TableTyped(z) /\ Whole(z) /\ Own(z, once)
    BY <2>3 DEF Learns, TableTyped
  <2> HIDE DEF i
  <2>6. /\ SameBut(w, z, {"peers"}) /\ TableTyped(w)
        /\ \A r : IsPeer(w, r) <=> IsPeer(z, r)
        /\ \A j \in Slots : w.peers[j].id = z.peers[j].id
        /\ Mid(w, frame.src) = frame.id
        /\ \A f : f.kind # "ack" /\ f.src = frame.src /\ f.id = frame.id => Mids(w, z, f)
    <3>1. i = PeerSlot(z, frame.src)
      BY DEF i
    <3>2. Marks(w, z, frame.src, frame.id)
      BY <2>2, <2>4, <2>5, <3>1, HeardIs
    <3> HIDE DEF w
    <3> QED
      BY <3>2 DEF Marks
  <2> HIDE DEF w
  <2>7. Mids(w, z, frame)
    BY <2>2, <2>6
  <2>8. /\ w.peers_length = z.peers_length /\ w.removed = z.removed
        /\ w.accepted = z.accepted /\ w.outcome = z.outcome /\ w.tx = z.tx
    BY <2>6 DEF SameBut, Fields, LocalFields, LinkFields
  <2>9. Own(w, once)
    <3>1. SameBut(w, z, LearnFields)
      BY <2>6, SameWider DEF LearnFields
    <3>2. w.accepted \in Seq(Frames)
      BY <2>5, <2>8 DEF Own
    <3> QED
      BY <2>5, <3>1, <3>2, NotesOwn
  <2>10. SameBut(w, x, HearFields)
    <3>1. SameBut(w, x, HearFields \union {"peers"})
      BY <2>3, <2>6, SameTwice DEF Learns
    <3>2. HearFields \union {"peers"} \subseteq HearFields
      BY DEF HearFields, LearnFields
    <3> QED
      BY <3>1, <3>2, SameWider
  <2>11. Table(w, x, frame)
    <3>1. Table(z, x, frame)
      BY <2>3 DEF Learns
    <3>2. StaysPeer(w, x) => StaysPeer(z, x)
      BY <2>6, <2>8 DEF StaysPeer
    <3>3. StaysPeer(w, x) => Mids(w, x, frame)
      BY <2>7, <3>1, <3>2, MidsTwice DEF Table
    <3>4. \A q \in Radios : Took(z, q) => Took(w, q)
      BY <2>6, <2>8 DEF Took
    <3> QED
      BY <2>6, <3>1, <3>3, <3>4 DEF Table
  <2>12. Takes(w, x, frame)
    <3>1. z.accepted = x.accepted
      BY <2>3 DEF Learns, Takes
    <3> QED
      BY <2>8, <3>1 DEF Takes
  <2>13. w.tx = x.tx \/ Answers(w, x, frame)
    BY <2>3, <2>6, <2>8 DEF Learns, Answers
  <2>14. w.outcome = x.outcome
    BY <2>3, <2>8 DEF Learns, Told
  <2> QED
    BY <2>1, <2>6, <2>9, <2>10, <2>11, <2>12, <2>13, <2>14 DEF Learns
<1> QED
  BY <1>2, <1>3

LEMMA AttachLearns ==
    ASSUME NEW once \in BOOLEAN, NEW x, Own(x, once), TableTyped(x),
           NEW frame \in Frames, frame.src \in Radios, frame.kind \in {"attach", "detach"}
    PROVE  /\ Learns(RxAttach(x, frame), x, frame, once)
           /\ Learns(RxDetach(x, frame), x, frame, once)
<1>1. NONE \in AckBodies /\ NONE \notin Radios
  BY NoneAssumption DEF AckBodies
<1>2. Notes(x, x, frame)
  BY NotesSelf
<1> PICK a : a = [x EXCEPT !.pairing_request = "yes", !.due = TRUE]
  OBVIOUS
<1>3. Notes(a, x, frame)
  <2>1. SameBut(a, x, {"pairing_request", "due"})
    BY DEF Own, Whole, SameBut, Fields, LocalFields
  <2>2. SameBut(a, x, LearnFields)
    BY <2>1, SameWider DEF LearnFields
  <2>3. /\ Whole(a) /\ a.peers = x.peers /\ a.peers_length = x.peers_length
        /\ a.removed = x.removed /\ a.accepted = x.accepted
    BY <2>1 DEF SameBut, Fields, LocalFields
  <2>4. TableTyped(a)
    BY <2>3 DEF TableTyped
  <2>5. Table(a, x, frame)
    BY <2>3, SameTable DEF Table, Took
  <2> QED
    BY <2>2, <2>3, <2>4, <2>5 DEF Notes, Takes, Own
<1> PICK d : d = RemovePeer(x, frame.src)
  OBVIOUS
<1>4. Notes(d, x, frame)
  <2>1. /\ SameBut(d, x, AddFields) /\ TableTyped(d)
        /\ \A q : Took(x, q) => Took(d, q)
        /\ \A q : IsPeer(d, q) => IsPeer(x, q)
        /\ d = x \/ d.peers_length < x.peers_length
    BY RemoveTable
  <2>2. SameBut(d, x, LearnFields) /\ d.accepted = x.accepted
    <3>1. d.accepted = x.accepted
      BY <2>1 DEF SameBut, Fields, LocalFields, AddFields
    <3>2. AddFields \subseteq LearnFields
      BY DEF AddFields, LearnFields
    <3> QED
      BY <2>1, <3>1, <3>2, SameWider
  <2>3. StaysPeer(d, x) => d = x
    <3>1. CASE d.peers_length < x.peers_length
      <4>1. d.peers_length \in Slots
        BY <2>1, LimitAssumption DEF TableTyped, Slots
      <4>2. ~ (d.peers_length < d.peers_length)
        BY <2>1 DEF TableTyped
      <4> QED
        BY <3>1, <4>1, <4>2 DEF StaysPeer
    <3> QED
      BY <2>1, <3>1
  <2>4. StaysPeer(d, x) => Mids(d, x, frame)
    BY <2>3, SameTable
  <2> QED
    BY <2>1, <2>2, <2>4 DEF Notes, Takes, Own, Table
<1>5. \A y : Notes(y, x, frame) => Learns(SendAck(y, frame, NONE), x, frame, once)
  BY <1>1, AnswerLearns
<1>6. Learns(RxAttach(x, frame), x, frame, once)
  BY <1>2, <1>3, <1>5 DEF RxAttach
<1>7. Learns(RxDetach(x, frame), x, frame, once)
  BY <1>2, <1>4, <1>5 DEF RxDetach
<1> QED
  BY <1>6, <1>7

LEMMA MarksNotes ==
    ASSUME NEW x, NEW y, NEW frame, frame.kind # "ack", Marks(y, x, frame.src, frame.id)
    PROVE  /\ TableTyped(y) /\ SameBut(y, x, LearnFields) /\ Table(y, x, frame)
           /\ y.accepted = x.accepted /\ y.removed = x.removed
           /\ y.peers_length = x.peers_length
<1>1. SameBut(y, x, {"peers"}) /\ TableTyped(y)
  BY DEF Marks
<1>2. SameBut(y, x, LearnFields)
  BY <1>1, SameWider DEF LearnFields
<1>3. y.accepted = x.accepted /\ y.removed = x.removed /\ y.peers_length = x.peers_length
  BY <1>1 DEF SameBut, Fields, LocalFields
<1>4. Table(y, x, frame)
  BY <1>3 DEF Marks, Table, Took
<1> QED
  BY <1>1, <1>2, <1>3, <1>4

LEMMA RxPutIs ==
    ASSUME NEW x, Whole(x), NEW frame
    PROVE  LET y == RxPut(x, frame) IN
           /\ SameBut(y, x, {"rx_queue", "accepted", "due"})
           /\ y.accepted = IF frame.kind = "pub" THEN Append(x.accepted, frame) ELSE x.accepted
<1> PICK queue : queue = IF Len(x.rx_queue) < RxCapacity THEN Append(x.rx_queue, frame)
                         ELSE x.rx_queue
  OBVIOUS
<1> PICK log : log = IF frame.kind = "pub" THEN Append(x.accepted, frame) ELSE x.accepted
  OBVIOUS
<1> PICK y : y = [x EXCEPT !.rx_queue = queue, !.accepted = log, !.due = TRUE]
  OBVIOUS
<1>1. RxPut(x, frame) = y
  BY DEF RxPut
<1>2. SameBut(y, x, {"rx_queue", "accepted", "due"}) /\ y.accepted = log
  BY DEF Whole, SameBut, Fields, LocalFields
<1> QED
  BY <1>1, <1>2

LEMMA PeerLearns ==
    ASSUME NEW once \in BOOLEAN, NEW x, Own(x, once), TableTyped(x),
           NEW frame \in Frames, frame.src \in Radios,
           frame.kind \notin {"ack", "pairing", "attach", "detach"}, IsPeer(x, frame.src)
    PROVE  Learns(RxFromPeer(x, frame), x, frame, once)
<1> DEFINE i == PeerSlot(x, frame.src)
           seen == [x EXCEPT !.peers = Heard(@, i, frame.id, FALSE)]
           put == RxPut(seen, frame)
           heard == [put EXCEPT !.peers = Heard(@, i, frame.id, TRUE)]
           subsRequest == x.mode = "GATEWAY" /\ (~ x.peers[i].synced
                                                 \/ x.peers[i].message_id > frame.id)
           body == IF subsRequest THEN ACK_SUB_REQUEST ELSE NONE
<1> HIDE DEF i
<1>1. i = PeerSlot(x, frame.src) /\ frame.id \in Ids /\ frame.kind # "ack"
  BY DEF i, Frames
<1>2. Marks(seen, x, frame.src, frame.id)
  BY <1>1, HeardIs
<1>3. CASE Duplicate(x.peers[i], frame)
  <2>1. RxFromPeer(x, frame) = x
    BY <1>3 DEF RxFromPeer, i
  <2> QED
    BY <2>1, NotesSelf, NotesLearns
<1>4. CASE ~ Duplicate(x.peers[i], frame) /\ ForOther(x, frame)
  <2>1. RxFromPeer(x, frame) = seen
    BY <1>4 DEF RxFromPeer, i
  <2> HIDE DEF seen
  <2>2. Notes(seen, x, frame)
    BY <1>1, <1>2, MarksNotes DEF Notes, Takes, Own
  <2> QED
    BY <2>1, <2>2, NotesLearns
<1>5. CASE ~ Duplicate(x.peers[i], frame) /\ ~ ForOther(x, frame)
  <2>1. RxFromPeer(x, frame) = SendAck(heard, frame, body)
    BY <1>5 DEF RxFromPeer, i
  <2>2. body \in AckBodies /\ body \notin Radios
    BY FrameAssumption, NoneAssumption DEF AckBodies
  <2> HIDE DEF body, seen
  <2>3. /\ TableTyped(seen) /\ SameBut(seen, x, LearnFields) /\ Table(seen, x, frame)
        /\ seen.accepted = x.accepted /\ seen.removed = x.removed
        /\ seen.peers_length = x.peers_length
    BY <1>1, <1>2, MarksNotes
  <2>4. IsPeer(seen, frame.src) /\ i = PeerSlot(seen, frame.src)
    BY <1>1, <1>2 DEF Marks
  <2>5. /\ SameBut(put, seen, {"rx_queue", "accepted", "due"})
        /\ put.accepted = IF frame.kind = "pub" THEN Append(x.accepted, frame) ELSE x.accepted
    BY <2>3, RxPutIs DEF TableTyped
  <2> HIDE DEF put
  <2>6. /\ put.peers = seen.peers /\ put.peers_length = seen.peers_length
        /\ put.removed = seen.removed /\ Whole(put)
    BY <2>5 DEF SameBut, Fields, LocalFields
  <2>7. TableTyped(put) /\ IsPeer(put, frame.src) /\ i = PeerSlot(put, frame.src)
    BY <2>3, <2>4, <2>6, SameTable DEF TableTyped
  <2>8. Marks(heard, put, frame.src, frame.id)
    BY <1>1, <2>7, HeardIs
  <2> HIDE DEF heard
  <2>9. /\ TableTyped(heard) /\ SameBut(heard, put, LearnFields)
        /\ heard.accepted = put.accepted /\ heard.removed = put.removed
        /\ heard.peers_length = put.peers_length
    BY <1>1, <2>8, MarksNotes
  <2>10. SameBut(heard, x, LearnFields)
    <3>1. SameBut(put, seen, LearnFields)
      BY <2>5, SameWider DEF LearnFields
    <3>2. SameBut(put, x, LearnFields \union LearnFields)
      BY <2>3, <3>1, SameTwice
    <3>3. SameBut(heard, x, (LearnFields \union LearnFields) \union LearnFields)
      BY <2>9, <3>2, SameTwice
    <3> QED
      BY <3>3, SameWider
  <2>11. /\ \A q : IsPeer(put, q) <=> IsPeer(seen, q)
         /\ Mids(put, seen, frame) /\ Mids(seen, x, frame) /\ Mids(heard, put, frame)
         /\ \A q : IsPeer(seen, q) <=> IsPeer(x, q)
         /\ \A q : IsPeer(heard, q) <=> IsPeer(put, q)
    BY <1>1, <1>2, <2>6, <2>8, SameTable DEF Marks
  <2>12. Mids(heard, x, frame)
    BY <2>11, MidsTwice
  <2>13. Table(heard, x, frame)
    BY <2>3, <2>6, <2>9, <2>11, <2>12 DEF Table, Took
  <2>14. Mid(x, frame.src) # frame.id
    BY <1>1, <1>5 DEF Duplicate, Mid
  <2>15. IsPeer(heard, frame.src) /\ Mid(heard, frame.src) = frame.id
    BY <2>8, <2>11 DEF Marks
  <2>16. Takes(heard, x, frame)
    BY <2>5, <2>9, <2>14, <2>15 DEF Takes
  <2>17. heard.accepted \in Seq(Frames)
    <3>1. x.accepted \in Seq(Frames)
      BY DEF Own
    <3>2. Append(x.accepted, frame) \in Seq(Frames)
      BY <3>1, AppendProperties
    <3> QED
      BY <2>5, <2>9, <3>1, <3>2
  <2>18. Notes(heard, x, frame)
    BY <2>9, <2>10, <2>13, <2>16, <2>17 DEF Notes
  <2>19. frame.kind = "pub" => heard.accepted = Append(x.accepted, frame)
    BY <2>5, <2>9
  <2>20. Learns(SendAck(heard, frame, body), x, frame, once)
    BY <1>1, <2>2, <2>18, <2>19, AnswerLearns
  <2> QED
    BY <2>1, <2>20
<1> QED
  BY <1>3, <1>4, <1>5

LEMMA AckedTable ==
    ASSUME NEW x, TableTyped(x), NEW frame
    PROVE  LET y == Acked(x, frame) IN
           /\ SameBut(y, x, PairedFields) /\ TableTyped(y)
           /\ x.mode = "GATEWAY" => y.peers = x.peers /\ y.peers_length = x.peers_length
           /\ \A q : IsPeer(y, q) => IsPeer(x, q) \/ q = frame.body
           /\ StaysPeer(y, x) => Mids(y, x, frame)
<1>1. /\ SameBut(x, x, PairedFields)
      /\ \A f : Mids(x, x, f)
  BY SameSelf, SameTable DEF TableTyped
<1>2. ASSUME NEW n
      PROVE  LET z == [x EXCEPT !.sent_subs = n] IN
             /\ SameBut(z, x, PairedFields) /\ TableTyped(z)
             /\ z.peers = x.peers /\ z.peers_length = x.peers_length
             /\ \A q : IsPeer(z, q) => IsPeer(x, q)
             /\ Mids(z, x, frame)
  <2> DEFINE z == [x EXCEPT !.sent_subs = n]
  <2>1. SameBut(z, x, {"sent_subs"}) /\ z.peers = x.peers /\ z.peers_length = x.peers_length
    BY DEF TableTyped, Whole, SameBut, Fields, LocalFields
  <2> HIDE DEF z
  <2>2. SameBut(z, x, PairedFields)
    BY <2>1, SameWider DEF PairedFields
  <2>3. TableTyped(z) /\ Mids(z, x, frame) /\ \A q : IsPeer(z, q) => IsPeer(x, q)
    BY <2>1, SameTable DEF TableTyped, SameBut
  <2> QED
    BY <2>1, <2>2, <2>3 DEF z
<1>3. CASE x.tx.kind = "pairing" /\ frame.body \in Radios \union {NONE}
  <2> PICK gateway \in Radios \union {NONE} : gateway = frame.body
    BY <1>3
  <2>1. Acked(x, frame) = Paired(x, gateway)
    BY <1>3 DEF Acked
  <2> PICK y : y = Paired(x, gateway)
    OBVIOUS
  <2>2. /\ SameBut(y, x, PairedFields) /\ TableTyped(y)
        /\ x.mode = "GATEWAY" => y = x
        /\ \A q : IsPeer(y, q) => IsPeer(x, q) \/ q = gateway
        /\ \A f : StaysPeer(y, x) => Mids(y, x, f)
    BY PairedTable
  <2> QED
    BY <2>1, <2>2
<1>4. CASE x.tx.kind = "subreg"
  <2>1. Acked(x, frame) = [x EXCEPT !.sent_subs = x.sent_subs + 1]
    BY <1>4 DEF Acked
  <2> QED
    BY <1>2, <2>1
<1>5. CASE x.tx.kind \notin {"pairing", "subreg"} /\ frame.body = ACK_SUB_REQUEST
  <2>1. Acked(x, frame) = [x EXCEPT !.sent_subs = 0]
    BY <1>5 DEF Acked
  <2> QED
    BY <1>2, <2>1
<1>6. CASE \/ x.tx.kind = "pairing" /\ frame.body \notin Radios \union {NONE}
           \/ x.tx.kind \notin {"pairing", "subreg"} /\ frame.body # ACK_SUB_REQUEST
  <2>1. Acked(x, frame) = x
    BY <1>6 DEF Acked
  <2> QED
    BY <1>1, <2>1
<1> QED
  BY <1>3, <1>4, <1>5, <1>6

LEMMA AckLearns ==
    ASSUME NEW once \in BOOLEAN, NEW x, Own(x, once), TableTyped(x),
           NEW frame \in Frames, frame.src \in Radios, frame.kind = "ack", NEW open
    PROVE  Learns(RxAck(x, frame, open), x, frame, once)
<1>1. CASE ~ AwaitedAck(x, frame)
  <2>1. RxAck(x, frame, open) = x
    BY <1>1 DEF RxAck
  <2> QED
    BY <2>1, NotesSelf, NotesLearns
<1>2. CASE AwaitedAck(x, frame)
  <2> DEFINE v == [x EXCEPT !.transmit_count = 0, !.ack = TRUE]
             y == Acked(v, frame)
             z == [y EXCEPT !.window = @ \/ y.window_after_ack]
             g == GoToRxOrSleep(z, open \/ y.window_after_ack)
             w == Report(g, "TX_DONE")
  <2>1. RxAck(x, frame, open) = w
    BY <1>2 DEF RxAck
  <2>2. x.state = "TX_WAIT_ACK" /\ frame.src = x.my_id /\ frame.id = x.message_id
        /\ frame.src = x.self
    BY <1>2, NoneAssumption DEF AwaitedAck, Own
  <2>3. SameBut(v, x, {"transmit_count", "ack"})
    BY DEF Own, Whole, SameBut, Fields, LocalFields, LinkFields
  <2> HIDE DEF v
  <2>4. /\ Whole(v) /\ v.self = x.self /\ v.mode = x.mode /\ v.my_id = x.my_id
        /\ v.message = x.message /\ v.message_id = x.message_id /\ v.outcome = x.outcome
        /\ v.tx = x.tx /\ v.saved_tx = x.saved_tx /\ v.state = x.state
        /\ v.desired = x.desired /\ v.timed = x.timed /\ v.window = x.window
        /\ v.peers = x.peers /\ v.peers_length = x.peers_length
        /\ v.accepted = x.accepted
    BY <2>3 DEF SameBut, Fields, Settings, LocalFields, LinkFields
  <2>5. Own(v, once)
    <3>1. Outcomes(v, once)
      BY <2>4 DEF Own, Outcomes
    <3> QED
      BY <2>4, <3>1 DEF Own
  <2>6. TableTyped(v)
    BY <2>4 DEF TableTyped
  <2>7. /\ SameBut(y, v, PairedFields) /\ TableTyped(y)
        /\ v.mode = "GATEWAY" => y.peers = v.peers /\ y.peers_length = v.peers_length
        /\ \A q : IsPeer(y, q) => IsPeer(v, q) \/ q = frame.body
        /\ StaysPeer(y, v) => Mids(y, v, frame)
    BY <2>6, AckedTable
  <2> HIDE DEF y
  <2>8. SameBut(y, v, LearnFields)
    BY <2>7, SameWider DEF PairedFields, LearnFields
  <2>9. y.accepted = v.accepted /\ y.removed = v.removed
    BY <2>7 DEF SameBut, PairedFields, Fields, LocalFields
  <2>10. Own(y, once)
    <3>1. y.accepted \in Seq(Frames)
      BY <2>5, <2>9 DEF Own
    <3> QED
      BY <2>5, <2>8, <3>1, NotesOwn
  <2>11. y.state = "TX_WAIT_ACK" /\ y.message = x.message /\ y.outcome = x.outcome /\ y.tx = x.tx
    <3>1. y.state = v.state /\ y.message = v.message /\ y.outcome = v.outcome /\ y.tx = v.tx
      BY <2>8, LearnSame
    <3> QED
      BY <2>2, <2>4, <3>1
  <2>12. SameBut(z, y, {"window"}) /\ z.window \in BOOLEAN
    <3> PICK window \in BOOLEAN : window = (y.window \/ y.window_after_ack)
      OBVIOUS
    <3>1. z = [y EXCEPT !.window = window]
      OBVIOUS
    <3> HIDE DEF z
    <3> QED
      BY <2>7, <3>1 DEF TableTyped, Whole, SameBut, Fields, LocalFields
  <2> HIDE DEF z
  <2>13. Whole(z) /\ z.state = y.state /\ z.timed \in BOOLEAN /\ z.window \in BOOLEAN
    BY <2>10, <2>12 DEF SameBut, Fields, LinkFields, Own
  <2>14. /\ SameBut(g, z, RestFields) /\ g.state \in {"RX", "SLEEP"} /\ g.desired = g.state
         /\ g.window \in BOOLEAN /\ g.timed \in BOOLEAN
    <3>1. z.state # "TX"
      BY <2>11, <2>13
    <3> QED
      BY <2>13, <3>1, GoToRests, ZenonT(60)
  <2> HIDE DEF g
  <2>15. /\ SameBut(w, g, {"outcome"})
         /\ \/ w.outcome = g.outcome
            \/ w.outcome = Append(g.outcome, [frame |-> g.message, result |-> "TX_DONE"])
                 /\ g.message.kind = "pub"
    <3>1. Whole(g)
      BY <2>14 DEF SameBut
    <3>2. CASE g.message.kind = "pub"
      BY <3>1, <3>2 DEF Report, Whole, SameBut, Fields, LocalFields
    <3>3. CASE g.message.kind # "pub"
      BY <3>1, <3>3, SameSelf DEF Report
    <3> QED
      BY <3>2, <3>3
  <2> HIDE DEF w
  <2>16. SameBut(w, y, StaysFields) /\ SameBut(w, y, RestFields \union {"outcome"})
    <3>1. SameBut(g, y, {"window"} \union RestFields)
      BY <2>12, <2>14, SameTwice
    <3>2. SameBut(w, y, ({"window"} \union RestFields) \union {"outcome"})
      BY <2>15, <3>1, SameTwice
    <3>3. ({"window"} \union RestFields) \union {"outcome"} \subseteq RestFields \union {"outcome"}
      BY DEF RestFields
    <3>4. SameBut(w, y, RestFields \union {"outcome"})
      BY <3>2, <3>3, SameWider
    <3> QED
      BY <3>4, SameWider DEF StaysFields
  <2>17. /\ w.state = g.state /\ w.window = g.window /\ w.timed = g.timed
         /\ w.desired = g.desired
    BY <2>15 DEF SameBut, Fields, LinkFields, LocalFields
  <2>18. /\ g.outcome = x.outcome /\ g.message = x.message
    <3>1. SameBut(g, y, {"window"} \union RestFields)
      BY <2>12, <2>14, SameTwice
    <3> QED
      BY <2>11, <3>1 DEF SameBut, RestFields, Fields, LinkFields, LocalFields
  <2>19. /\ Whole(w) /\ w.tx = x.tx /\ w.peers = y.peers /\ w.peers_length = y.peers_length
         /\ w.removed = y.removed /\ w.accepted = y.accepted
    BY <2>11, <2>16 DEF SameBut, RestFields, Fields, LinkFields, LocalFields
  <2>20. Own(w, once)
    <3>1. y.state \in Busy /\ w.state \notin Busy /\ w.desired \in Goals
      BY <2>11, <2>14, <2>17 DEF Busy, Goals
    <3>2. w.window \in BOOLEAN /\ w.timed \in BOOLEAN /\ w.tx = y.tx
      BY <2>11, <2>14, <2>17, <2>19
    <3>3. \/ w.outcome = y.outcome
          \/ w.outcome = Append(y.outcome, [frame |-> y.message, result |-> "TX_DONE"])
      BY <2>11, <2>15, <2>18
    <3> PICK result \in {"TX_DONE", "TX_ERROR"} : result = "TX_DONE"
      OBVIOUS
    <3>4. \/ w.outcome = y.outcome
          \/ w.outcome = Append(y.outcome, [frame |-> y.message, result |-> result])
      BY <3>3
    <3> QED
      BY <2>10, <2>16, <3>1, <3>2, <3>4, ReportOwn
  <2>21. w.outcome = x.outcome \/ Told(w, x, frame)
    BY <2>2, <2>15, <2>18 DEF Told
  <2>22. SameBut(w, x, HearFields)
    <3>1. SameBut(y, x, {"transmit_count", "ack"} \union LearnFields)
      BY <2>3, <2>8, SameTwice
    <3>2. SameBut(w, x, ({"transmit_count", "ack"} \union LearnFields)
                           \union (RestFields \union {"outcome"}))
      BY <2>16, <3>1, SameTwice
    <3>3. ({"transmit_count", "ack"} \union LearnFields) \union (RestFields \union {"outcome"})
            \subseteq HearFields
      BY DEF HearFields, LearnFields, AnswerFields, RestFields
    <3> QED
      BY <3>2, <3>3, SameWider
  <2>23. TableTyped(w)
    BY <2>7, <2>19 DEF TableTyped
  <2>24. Takes(w, x, frame)
    BY <2>4, <2>9, <2>19 DEF Takes
  <2>25. Table(w, x, frame)
    <3>1. /\ \A q : IsPeer(w, q) <=> IsPeer(y, q)
          /\ \A q : IsPeer(v, q) <=> IsPeer(x, q)
          /\ Mids(w, y, frame) /\ Mids(v, x, frame)
      <4>1. (\A q : IsPeer(w, q) <=> IsPeer(y, q)) /\ Mids(w, y, frame)
        BY <2>19, SameTable
      <4>2. (\A q : IsPeer(v, q) <=> IsPeer(x, q)) /\ Mids(v, x, frame)
        BY <2>4, SameTable
      <4> QED
        BY <4>1, <4>2
    <3>2. StaysPeer(w, x) => StaysPeer(y, v)
      BY <2>4, <2>19 DEF StaysPeer
    <3>3. StaysPeer(w, x) => Mids(w, x, frame)
      BY <2>7, <3>1, <3>2, MidsTwice
    <3>4. v.removed = x.removed
      BY <2>3 DEF SameBut, Fields, LocalFields
    <3>5. x.mode = "GATEWAY" => \A q : IsPeer(y, q) <=> IsPeer(v, q)
      <4> SUFFICES ASSUME x.mode = "GATEWAY" PROVE \A q : IsPeer(y, q) <=> IsPeer(v, q)
        OBVIOUS
      <4>1. y.peers = v.peers /\ y.peers_length = v.peers_length
        BY <2>4, <2>7
      <4> QED
        BY <4>1, SameTable
    <3>6. x.mode = "GATEWAY" => \A q \in Radios : Took(x, q) => Took(w, q)
      BY <2>9, <2>19, <3>1, <3>4, <3>5 DEF Took
    <3> QED
      BY <2>2, <2>7, <3>1, <3>3, <3>6 DEF Table
  <2> QED
    BY <2>1, <2>19, <2>20, <2>21, <2>22, <2>23, <2>24, <2>25 DEF Learns
<1> QED
  BY <1>1, <1>2

LEMMA DecodeLearns ==
    ASSUME NEW once \in BOOLEAN, NEW x, Own(x, once), TableTyped(x), x.pairing_mode \in BOOLEAN,
           NEW frame \in Frames, frame.src \in Radios, NEW open
    PROVE  Learns(Decode(x, frame, open), x, frame, once)
<1>1. CASE frame.kind = "ack"
  BY <1>1, AckLearns DEF Decode
<1>2. CASE frame.kind = "pairing"
  BY <1>2, PairingLearns DEF Decode
<1>3. CASE frame.kind \in {"attach", "detach"}
  BY <1>3, AttachLearns DEF Decode
<1>4. CASE frame.kind \notin {"ack", "pairing", "attach", "detach"}
  <2>1. CASE IsPeer(x, frame.src)
    BY <1>4, <2>1, PeerLearns DEF Decode
  <2>2. CASE ~ IsPeer(x, frame.src) /\ x.automatic_pairing
    <3>1. Decode(x, frame, open) = PeerDeviceAdd(x, frame.src)
      BY <1>4, <2>2 DEF Decode
    <3> QED
      BY <2>2, <3>1, AddNotes, NotesLearns
  <2>3. CASE ~ IsPeer(x, frame.src) /\ ~ x.automatic_pairing
    <3>1. Decode(x, frame, open) = x
      BY <1>4, <2>3 DEF Decode
    <3> QED
      BY <3>1, NotesSelf, NotesLearns
  <2> QED
    BY <2>1, <2>2, <2>3
<1> QED
  BY <1>1, <1>2, <1>3, <1>4

-----------------------------------------------------------------------------
(***************************************************************************)
(* What a step does with one radio, as far as the others are concerned:    *)
(* it says nothing new, or it starts a message, or it decodes a frame.     *)
(***************************************************************************)
Got(x) == x.rx_fifo \notin {NONE, DISCARDED}

\* The radio told its application of no message that it was taken.
NoNews(y, x) ==
    \A k \in 1 .. Len(y.outcome) : y.outcome[k].result = "TX_DONE" =>
        k \in 1 .. Len(x.outcome) /\ y.outcome[k] = x.outcome[k]

News(y, x, frame) ==
    \A k \in 1 .. Len(y.outcome) : y.outcome[k].result = "TX_DONE" =>
        \/ k \in 1 .. Len(x.outcome) /\ y.outcome[k] = x.outcome[k]
        \/ /\ frame.kind = "ack" /\ frame.src = x.self /\ frame.id = x.message_id
           /\ x.message.kind = "pub" /\ y.outcome[k].frame = x.message

Silent(y, x, only) ==
    /\ y.message = x.message /\ y.message_id = x.message_id /\ y.accepted = x.accepted
    /\ y.rx_fifo \in {x.rx_fifo, NONE} /\ (y.tx = x.tx \/ y.tx = x.message)
    /\ NoNews(y, x)
    /\ \A q \in Radios : Took(x, q) => Took(y, q)
    /\ only => \A q \in Radios : IsPeer(y, q) => IsPeer(x, q)
    /\ StaysPeer(y, x) => \A frame : Mids(y, x, frame)

Starting(y, x, once) ==
    /\ y.accepted = x.accepted /\ y.rx_fifo = x.rx_fifo /\ y.outcome = x.outcome
    /\ y.peers = x.peers /\ y.peers_length = x.peers_length /\ y.removed = x.removed
    /\ y.tx = y.message /\ y.message.src = x.self /\ y.message.id = y.message_id
    /\ once => y.message_id = x.message_id + 1

Learning(y, x, frame) ==
    /\ Got(x) /\ y.rx_fifo = NONE
    /\ y.message = x.message /\ y.message_id = x.message_id
    /\ y.tx = x.tx \/ y.tx = x.message \/ Answers(y, x, frame)
    /\ News(y, x, frame) /\ Takes(y, x, frame) /\ Table(y, x, frame)

\* only: the radio gets its peers by pairing only; once: no message id comes
\* round.
Moves(y, x, only, once) ==
    /\ Own(y, once) /\ TableTyped(y) /\ y.self = x.self /\ y.mode = x.mode
    /\ only /\ ~ x.pairing_mode /\ ~ x.automatic_pairing =>
          ~ y.pairing_mode /\ ~ y.automatic_pairing
    /\ Silent(y, x, only) \/ Starting(y, x, once) \/ Learning(y, x, x.rx_fifo)

LEMMA StaysMoves ==
    ASSUME NEW once \in BOOLEAN, NEW only \in BOOLEAN, NEW x, NEW y, TableTyped(x),
           Stays(y, x, once)
    PROVE  Moves(y, x, only, once)
<1>1. /\ Whole(y) /\ y.self = x.self /\ y.mode = x.mode
      /\ y.pairing_mode = x.pairing_mode /\ y.automatic_pairing = x.automatic_pairing
      /\ y.peers = x.peers /\ y.peers_length = x.peers_length /\ y.removed = x.removed
      /\ y.accepted = x.accepted /\ y.message = x.message /\ y.message_id = x.message_id
  BY StaysSame DEF Stays
<1>2. TableTyped(y)
  BY <1>1 DEF TableTyped
<1>3. /\ \A q : IsPeer(y, q) <=> IsPeer(x, q)
      /\ \A frame : Mids(y, x, frame)
  BY <1>1, SameTable
<1>4. \A q \in Radios : Took(x, q) => Took(y, q)
  BY <1>1, <1>3 DEF Took
<1>5. Silent(y, x, only)
  BY <1>1, <1>3, <1>4 DEF Stays, Silent, NoNews
<1> QED
  BY <1>1, <1>2, <1>5 DEF Moves, Stays

LEMMA HearSame ==
    ASSUME NEW x, NEW y, SameBut(y, x, HearFields)
    PROVE  /\ Whole(y) /\ y.self = x.self /\ y.mode = x.mode
           /\ y.pairing_mode = x.pairing_mode /\ y.automatic_pairing = x.automatic_pairing
           /\ y.message = x.message /\ y.message_id = x.message_id /\ y.rx_fifo = x.rx_fifo
  BY DEF SameBut, Fields, Settings, LocalFields, LinkFields, HearFields, LearnFields, AnswerFields

LEMMA ClearStays ==
    ASSUME NEW once \in BOOLEAN, NEW x, Own(x, once)
    PROVE  LET y == [x EXCEPT !.rx_fifo = NONE] IN
           /\ Stays(y, x, once) /\ y.rx_fifo = NONE /\ y.tx = x.tx /\ y.outcome = x.outcome
<1> DEFINE y == [x EXCEPT !.rx_fifo = NONE]
<1>1. /\ SameBut(y, x, {"rx_fifo"}) /\ y.rx_fifo = NONE
  BY DEF Own, Whole, SameBut, Fields, LinkFields
<1> HIDE DEF y
<1>2. /\ y.window = x.window /\ y.timed = x.timed /\ y.desired = x.desired /\ y.tx = x.tx
      /\ y.state = x.state /\ y.saved_tx = x.saved_tx /\ y.outcome = x.outcome
  BY <1>1 DEF SameBut, Fields, LinkFields, LocalFields
<1>3. SameBut(y, x, StaysFields \ {"outcome"})
  BY <1>1, SameWider DEF StaysFields, RestFields
<1>4. Stays(y, x, once)
  BY <1>1, <1>2, <1>3, OwnKept DEF Own
<1> QED
  BY <1>1, <1>2, <1>4 DEF y

\* What was heard of others, after what the timeout did.
LEMMA LearnsMoves ==
    ASSUME NEW once \in BOOLEAN, NEW only \in BOOLEAN, NEW x, NEW a, NEW b, NEW frame,
           TableTyped(x), Stays(a, x, once), x.rx_fifo = frame, Got(x),
           Learns(b, a, frame, once)
    PROVE  Moves([b EXCEPT !.rx_fifo = NONE], x, only, once)
<1> DEFINE y == [b EXCEPT !.rx_fifo = NONE]
<1>1. Own(b, once) /\ TableTyped(b) /\ SameBut(b, a, HearFields)
  BY DEF Learns
<1>2. /\ Stays(y, b, once) /\ y.rx_fifo = NONE /\ y.tx = b.tx /\ y.outcome = b.outcome
  BY <1>1, ClearStays
<1> HIDE DEF y
<1>3. /\ a.self = x.self /\ a.mode = x.mode
      /\ a.pairing_mode = x.pairing_mode /\ a.automatic_pairing = x.automatic_pairing
      /\ a.peers = x.peers /\ a.peers_length = x.peers_length /\ a.removed = x.removed
      /\ a.accepted = x.accepted /\ a.message = x.message /\ a.message_id = x.message_id
  BY StaysSame DEF Stays
<1>4. /\ b.self = a.self /\ b.mode = a.mode
      /\ b.pairing_mode = a.pairing_mode /\ b.automatic_pairing = a.automatic_pairing
      /\ b.message = a.message /\ b.message_id = a.message_id
  BY <1>1, HearSame
<1>5. /\ Whole(y) /\ y.self = b.self /\ y.mode = b.mode
      /\ y.pairing_mode = b.pairing_mode /\ y.automatic_pairing = b.automatic_pairing
      /\ y.peers = b.peers /\ y.peers_length = b.peers_length /\ y.removed = b.removed
      /\ y.accepted = b.accepted /\ y.message = b.message /\ y.message_id = b.message_id
  BY <1>2, StaysSame DEF Stays
<1>6. TableTyped(y)
  BY <1>1, <1>5 DEF TableTyped
<1>7. /\ \A q : IsPeer(y, q) <=> IsPeer(b, q)
      /\ \A q : Mid(y, q) = Mid(b, q)
      /\ Mids(y, b, frame)
  BY <1>5, SameTable
<1>8. /\ \A q : IsPeer(a, q) <=> IsPeer(x, q)
      /\ \A q : Mid(a, q) = Mid(x, q)
      /\ Mids(a, x, frame)
  BY <1>3, SameTable
<1>9. Takes(y, x, frame)
  BY <1>3, <1>5, <1>7, <1>8 DEF Learns, Takes
<1>10. Table(y, x, frame)
  <2>1. Table(b, a, frame)
    BY DEF Learns
  <2>2. StaysPeer(y, x) => StaysPeer(b, a)
    BY <1>3, <1>5 DEF StaysPeer
  <2>3. StaysPeer(y, x) => Mids(y, x, frame)
    BY <1>7, <1>8, <2>1, <2>2, MidsTwice DEF Table
  <2>4. x.mode = "GATEWAY" => \A q \in Radios : Took(x, q) => Took(y, q)
    BY <1>3, <1>5, <1>7, <1>8, <2>1 DEF Table, Took
  <2>5. x.mode # "GATEWAY" /\ ~ x.pairing_mode /\ ~ x.automatic_pairing =>
          \A q \in Radios : IsPeer(y, q) =>
              IsPeer(x, q) \/ (frame.kind = "ack" /\ frame.src = x.self /\ frame.body = q)
    BY <1>3, <1>7, <1>8, <2>1 DEF Table
  <2> QED
    BY <2>3, <2>4, <2>5 DEF Table
<1>11. y.tx = x.tx \/ y.tx = x.message \/ Answers(y, x, frame)
  <2>1. a.tx = x.tx \/ a.tx = x.message
    BY DEF Stays
  <2>2. b.tx = a.tx \/ Answers(b, a, frame)
    BY DEF Learns
  <2>3. Answers(b, a, frame) => Answers(y, x, frame)
    BY <1>2, <1>3, <1>5, <1>7 DEF Answers
  <2> QED
    BY <1>2, <2>1, <2>2, <2>3
<1>12. News(y, x, frame)
  <2>1. \A k \in 1 .. Len(a.outcome) : a.outcome[k].result = "TX_DONE" =>
            k \in 1 .. Len(x.outcome) /\ a.outcome[k] = x.outcome[k]
    BY DEF Stays
  <2>2. b.outcome = a.outcome \/ Told(b, a, frame)
    BY DEF Learns
  <2>3. CASE b.outcome = a.outcome
    BY <1>2, <2>1, <2>3 DEF News
  <2>4. CASE Told(b, a, frame)
    <3> PICK o : o = [frame |-> a.message, result |-> "TX_DONE"]
      OBVIOUS
    <3>1. o \in Outcome /\ o.frame = a.message
      BY DEF Stays, Own, Outcome
    <3>2. a.outcome \in Seq(Outcome) /\ b.outcome = Append(a.outcome, o)
      BY <2>4 DEF Told, Stays, Own, Outcomes
    <3>3. /\ Len(b.outcome) = Len(a.outcome) + 1 /\ Len(a.outcome) \in Nat
          /\ \A j \in 1 .. Len(a.outcome) : b.outcome[j] = a.outcome[j]
          /\ b.outcome[Len(a.outcome) + 1] = o
      BY <3>1, <3>2, AppendProperties
    <3>4. /\ frame.kind = "ack" /\ frame.src = x.self /\ frame.id = x.message_id
          /\ x.message.kind = "pub" /\ o.frame = x.message
      BY <1>3, <2>4, <3>1 DEF Told
    <3>5. ASSUME NEW k \in 1 .. Len(b.outcome), b.outcome[k].result = "TX_DONE"
          PROVE  \/ k \in 1 .. Len(x.outcome) /\ b.outcome[k] = x.outcome[k]
                 \/ b.outcome[k].frame = x.message
      <4>1. k \in 1 .. Len(a.outcome) \/ k = Len(a.outcome) + 1
        BY <3>3
      <4>2. CASE k \in 1 .. Len(a.outcome)
        <5>1. b.outcome[k] = a.outcome[k]
          BY <3>3, <4>2
        <5> QED
          BY <2>1, <3>5, <4>2, <5>1
      <4>3. CASE k = Len(a.outcome) + 1
        BY <3>3, <3>4, <4>3
      <4> QED
        BY <4>1, <4>2, <4>3
    <3> QED
      BY <1>2, <3>4, <3>5 DEF News
  <2> QED
    BY <2>2, <2>3, <2>4
<1>13. Learning(y, x, frame)
  BY <1>2, <1>3, <1>4, <1>5, <1>9, <1>10, <1>11, <1>12 DEF Learning
<1>14. Own(y, once)
  BY <1>2 DEF Stays
<1>15. /\ y.self = x.self /\ y.mode = x.mode
       /\ y.pairing_mode = x.pairing_mode /\ y.automatic_pairing = x.automatic_pairing
  BY <1>3, <1>4, <1>5
<1> QED
  BY <1>6, <1>13, <1>14, <1>15 DEF Moves, y

LEMMA CheckTxStays ==
    ASSUME NEW once \in BOOLEAN, NEW x, Own(x, once), NEW open
    PROVE  Stays(CheckTx(x, open), x, once)
<1>1. CASE x.irq_sent
  <2> DEFINE s == [x EXCEPT !.irq_sent = FALSE, !.desired = "SLEEP"]
             t == TxDone(s, open)
  <2>1. CheckTx(x, open) = Enter(t)
    BY <1>1 DEF CheckTx
  <2>2. SameBut(s, x, {"irq_sent", "desired"}) /\ s.desired = "SLEEP"
    BY DEF Own, Whole, SameBut, Fields, LinkFields
  <2> HIDE DEF s
  <2>3. /\ s.window = x.window /\ s.timed = x.timed /\ s.tx = x.tx
        /\ s.state = x.state /\ s.saved_tx = x.saved_tx /\ s.rx_fifo = x.rx_fifo
    BY <2>2 DEF SameBut, Fields, LinkFields, LocalFields
  <2>4. SameBut(s, x, StaysFields \ {"outcome"})
    BY <2>2, SameWider DEF StaysFields, RestFields
  <2>5. Stays(s, x, once)
    BY <2>2, <2>3, <2>4, OwnKept DEF Own, Goals
  <2>6. Own(s, once)
    BY <2>5 DEF Stays
  <2>7. Stays(t, s, once)
    BY <2>6, TxDoneStays
  <2> HIDE DEF t
  <2>8. Own(t, once)
    BY <2>7 DEF Stays
  <2>9. Stays(Enter(t), t, once)
    BY <2>8, EnterStays
  <2> QED
    BY <2>1, <2>5, <2>7, <2>9, StaysTwice
<1>2. CASE ~ x.irq_sent
  <2>1. CheckTx(x, open) = x
    BY <1>2 DEF CheckTx
  <2> QED
    BY <2>1, StaysSelf
<1> QED
  BY <1>1, <1>2

LEMMA StaysTyped ==
    ASSUME NEW once \in BOOLEAN, NEW x, NEW y, TableTyped(x), Stays(y, x, once)
    PROVE  /\ TableTyped(y) /\ y.pairing_mode = x.pairing_mode /\ Own(y, once)
<1>1. /\ Whole(y) /\ y.peers = x.peers /\ y.peers_length = x.peers_length
      /\ y.pairing_mode = x.pairing_mode
  BY StaysSame DEF Stays
<1> QED
  BY <1>1 DEF TableTyped, Stays

\* The task's record x, after its start x0 and a timeout.
LEMMA CheckRxMoves ==
    ASSUME NEW once \in BOOLEAN, NEW only \in BOOLEAN, NEW x0, NEW x, TableTyped(x0),
           Stays(x, x0, once), x0.pairing_mode \in BOOLEAN,
           Got(x0) => x0.rx_fifo \in Frames /\ x0.rx_fifo.src \in Radios,
           NEW late, NEW open
    PROVE  Moves(CheckRx(x, late, open), x0, only, once)
<1>1. Own(x, once)
  BY DEF Stays
<1>2. CASE x.rx_fifo \in {NONE, DISCARDED}
  <2>1. CheckRx(x, late, open) = [x EXCEPT !.rx_fifo = NONE]
    BY <1>2 DEF CheckRx
  <2> PICK y : y = [x EXCEPT !.rx_fifo = NONE]
    OBVIOUS
  <2>2. Stays(y, x, once)
    BY <1>1, ClearStays
  <2>3. Stays(y, x0, once)
    BY <2>2, StaysTwice
  <2> QED
    BY <2>1, <2>3, StaysMoves
<1>3. CASE x.rx_fifo \notin {NONE, DISCARDED}
  <2> PICK frame : frame = x.rx_fifo
    OBVIOUS
  <2>1. x0.rx_fifo = frame /\ Got(x0) /\ frame \in Frames /\ frame.src \in Radios
    BY <1>3 DEF Stays, Got
  <2> DEFINE w == [x EXCEPT !.driver_plan = PlanTimeout(x)]
             z == RxDone(w, frame, late, open)
             y == [z EXCEPT !.rx_fifo = NONE]
  <2>2. CheckRx(x, late, open) = y
    BY <1>3 DEF CheckRx
  <2>3. SameBut(w, x, {"driver_plan"})
    BY <1>1 DEF Own, Whole, SameBut, Fields, LinkFields
  <2> HIDE DEF w
  <2>4. /\ w.window = x.window /\ w.timed = x.timed /\ w.tx = x.tx /\ w.desired = x.desired
        /\ w.state = x.state /\ w.saved_tx = x.saved_tx /\ w.rx_fifo = x.rx_fifo
    BY <2>3 DEF SameBut, Fields, LinkFields, LocalFields
  <2>5. SameBut(w, x, StaysFields \ {"outcome"})
    BY <2>3, SameWider DEF StaysFields, RestFields
  <2>6. Stays(w, x, once)
    BY <1>1, <2>4, <2>5, OwnKept DEF Own
  <2>7. Stays(w, x0, once)
    BY <2>6, StaysTwice
  <2>8. Own(w, once) /\ TableTyped(w) /\ w.pairing_mode \in BOOLEAN
    BY <2>7, StaysTyped
  <2>9. ASSUME NEW a, Stays(a, x0, once)
        PROVE  Moves([Decode(a, frame, open) EXCEPT !.rx_fifo = NONE], x0, only, once)
    <3>1. Own(a, once) /\ TableTyped(a) /\ a.pairing_mode \in BOOLEAN
      BY <2>9, StaysTyped
    <3>2. Learns(Decode(a, frame, open), a, frame, once)
      BY <2>1, <3>1, DecodeLearns
    <3> QED
      BY <2>1, <2>9, <3>2, LearnsMoves
  <2>10. CASE ~ late
    <3>1. z = Decode(w, frame, open)
      BY <2>10 DEF RxDone
    <3> QED
      BY <2>2, <2>7, <2>9, <3>1
  <2>11. CASE late /\ w.state = "TX_WAIT_ACK" /\ AttemptsLeft(w)
    <3>1. z = Retransmit(w)
      BY <2>11 DEF RxDone
    <3>2. Stays(z, w, once)
      BY <2>8, <2>11, <3>1, RetransmitStays
    <3> HIDE DEF z
    <3>3. Own(z, once)
      BY <3>2 DEF Stays
    <3>4. Stays(y, z, once)
      BY <3>3, ClearStays
    <3>5. Stays(y, x0, once)
      BY <2>7, <3>2, <3>4, StaysTwice
    <3> QED
      BY <2>2, <3>5, StaysMoves
  <2>12. CASE late /\ ~ (w.state = "TX_WAIT_ACK" /\ AttemptsLeft(w))
    <3> PICK a : a = GoToRxOrSleep(w, open)
      OBVIOUS
    <3>1. z = Decode(a, frame, open)
      BY <2>12 DEF RxDone
    <3>2. Stays(a, w, once)
      BY <2>8, GoToStays
    <3>3. Stays(a, x0, once)
      BY <2>7, <3>2, StaysTwice
    <3> QED
      BY <2>2, <2>9, <3>1, <3>3
  <2> QED
    BY <2>10, <2>11, <2>12
<1> QED
  BY <1>2, <1>3

LEMMA DriverTaskMoves ==
    ASSUME NEW once \in BOOLEAN, NEW only \in BOOLEAN, NEW x0, TableTyped(x0), Own(x0, once),
           x0.pairing_mode \in BOOLEAN,
           Got(x0) => x0.rx_fifo \in Frames /\ x0.rx_fifo.src \in Radios,
           NEW expired, NEW late, NEW open
    PROVE  Moves(DriverTask(x0, expired, late, open), x0, only, once)
<1> DEFINE run == [x0 EXCEPT !.driver_plan = "never"]
           x == IF expired THEN RxTimeout(run, open) ELSE run
           y == DriverTask(x0, expired, late, open)
<1>1. y = IF x.desired # x.current THEN Enter(x)
          ELSE IF x.current = "TX" THEN CheckTx(x, open)
          ELSE IF x.current = "RX" THEN CheckRx(x, late /\ x.timed, open)
          ELSE x
  BY DEF DriverTask
<1> HIDE DEF y
<1>2. SameBut(run, x0, {"driver_plan"})
  BY DEF Own, Whole, SameBut, Fields, LinkFields
<1> HIDE DEF run
<1>3. Stays(run, x0, once)
  <2>1. /\ run.window = x0.window /\ run.timed = x0.timed /\ run.tx = x0.tx
        /\ run.desired = x0.desired /\ run.state = x0.state /\ run.saved_tx = x0.saved_tx
        /\ run.rx_fifo = x0.rx_fifo
    BY <1>2 DEF SameBut, Fields, LinkFields, LocalFields
  <2>2. SameBut(run, x0, StaysFields \ {"outcome"})
    BY <1>2, SameWider DEF StaysFields, RestFields
  <2> QED
    BY <2>1, <2>2, OwnKept DEF Own
<1>4. Stays(x, run, once)
  <2>1. Own(run, once)
    BY <1>3 DEF Stays
  <2>2. CASE expired
    BY <2>1, <2>2, RxTimeoutStays
  <2>3. CASE ~ expired
    BY <2>1, <2>3, StaysSelf
  <2> QED
    BY <2>2, <2>3
<1> HIDE DEF x
<1>5. Stays(x, x0, once) /\ Own(x, once)
  <2>1. Stays(x, x0, once)
    BY <1>3, <1>4, StaysTwice
  <2> QED
    BY <2>1 DEF Stays
<1>6. CASE x.desired # x.current
  <2>1. Stays(Enter(x), x, once)
    BY <1>5, EnterStays
  <2>2. Stays(Enter(x), x0, once)
    BY <1>5, <2>1, StaysTwice
  <2> QED
    BY <1>1, <1>6, <2>2, StaysMoves DEF y
<1>7. CASE x.desired = x.current /\ x.current = "TX"
  <2>1. Stays(CheckTx(x, open), x, once)
    BY <1>5, CheckTxStays
  <2>2. Stays(CheckTx(x, open), x0, once)
    BY <1>5, <2>1, StaysTwice
  <2> QED
    BY <1>1, <1>7, <2>2, StaysMoves DEF y
<1>8. CASE x.desired = x.current /\ x.current = "RX"
  <2> PICK l : l = (late /\ x.timed)
    OBVIOUS
  <2>1. y = CheckRx(x, l, open)
    BY <1>1, <1>8
  <2> QED
    BY <1>5, <2>1, CheckRxMoves DEF y
<1>9. CASE x.desired = x.current /\ x.current \notin {"TX", "RX"}
  <2>1. y = x
    BY <1>1, <1>9
  <2> QED
    BY <1>5, <2>1, StaysMoves DEF y
<1> QED
  BY <1>6, <1>7, <1>8, <1>9

OwnFields == {"my_id", "due", "pairing_request", "pairing_mode", "automatic_pairing", "window",
              "pub_queue", "rx_queue"}

\* What nobody else can see.
LEMMA OwnFieldsMove ==
    ASSUME NEW once \in BOOLEAN, NEW only \in BOOLEAN, NEW x, Own(x, once), TableTyped(x),
           NEW y, SameBut(y, x, OwnFields), y.my_id \in {NONE, x.self}, y.window \in BOOLEAN,
           only => y.pairing_mode = x.pairing_mode /\ y.automatic_pairing = x.automatic_pairing
    PROVE  Moves(y, x, only, once)
<1>1. /\ Whole(y) /\ y.self = x.self /\ y.mode = x.mode /\ y.message_id = x.message_id
      /\ y.timed = x.timed /\ y.desired = x.desired /\ y.accepted = x.accepted
      /\ y.message = x.message /\ y.tx = x.tx /\ y.state = x.state /\ y.saved_tx = x.saved_tx
      /\ y.outcome = x.outcome /\ y.rx_fifo = x.rx_fifo
  BY DEF SameBut, Fields, Settings, LocalFields, LinkFields, OwnFields
<1>2. y.peers = x.peers /\ y.peers_length = x.peers_length /\ y.removed = x.removed
  BY DEF SameBut, Fields, Settings, LocalFields, LinkFields, OwnFields
<1>3. TableTyped(y)
  BY <1>1, <1>2 DEF TableTyped
<1>4. Outcomes(y, once)
  BY <1>1 DEF Own, Outcomes
<1>5. Own(y, once)
  BY <1>1, <1>4 DEF Own
<1>6. /\ \A q : IsPeer(y, q) <=> IsPeer(x, q)
      /\ \A frame : Mids(y, x, frame)
  BY <1>2, SameTable
<1>7. \A q \in Radios : Took(x, q) => Took(y, q)
  BY <1>2, <1>6 DEF Took
<1>8. Silent(y, x, only)
  BY <1>1, <1>6, <1>7 DEF Silent, NoNews
<1> QED
  BY <1>1, <1>3, <1>5, <1>8 DEF Moves

LEMMA TableMoves ==
    ASSUME NEW once \in BOOLEAN, NEW only \in BOOLEAN, NEW x, Own(x, once), TableTyped(x),
           NEW y, SameBut(y, x, AddFields), TableTyped(y),
           \A q : Took(x, q) => Took(y, q),
           only => \A q : IsPeer(y, q) => IsPeer(x, q),
           StaysPeer(y, x) => \A frame : Mids(y, x, frame)
    PROVE  Moves(y, x, only, once)
<1>1. SameBut(y, x, LearnFields)
  BY SameWider DEF AddFields, LearnFields
<1>2. /\ y.self = x.self /\ y.mode = x.mode
      /\ y.pairing_mode = x.pairing_mode /\ y.automatic_pairing = x.automatic_pairing
      /\ y.message = x.message /\ y.message_id = x.message_id /\ y.outcome = x.outcome
      /\ y.tx = x.tx /\ y.rx_fifo = x.rx_fifo
  BY <1>1, LearnSame
<1>3. y.accepted = x.accepted
  BY DEF SameBut, Fields, LocalFields, AddFields
<1>4. y.accepted \in Seq(Frames)
  BY <1>3 DEF Own
<1>5. Own(y, once)
  BY <1>1, <1>4, NotesOwn
<1>6. Silent(y, x, only)
  BY <1>2, <1>3 DEF Silent, NoNews
<1> QED
  BY <1>2, <1>5, <1>6 DEF Moves

LEMMA PeerAddMoves ==
    ASSUME NEW once \in BOOLEAN, NEW x, Own(x, once), TableTyped(x), NEW id \in Radios
    PROVE  Moves(PeerDeviceAdd(x, id), x, FALSE, once)
<1> PICK y : y = PeerDeviceAdd(x, id)
  OBVIOUS
<1>1. /\ SameBut(y, x, AddFields) /\ TableTyped(y)
      /\ \A q : Took(x, q) => Took(y, q)
      /\ \A frame : Mids(y, x, frame)
  BY AddTable
<1>2. Moves(y, x, FALSE, once)
  BY <1>1, TableMoves
<1> QED
  BY <1>2

LEMMA PeerRemoveMoves ==
    ASSUME NEW once \in BOOLEAN, NEW only \in BOOLEAN, NEW x, Own(x, once), TableTyped(x), NEW id
    PROVE  Moves(PeerDeviceRemove(x, id), x, only, once)
<1> PICK y : y = PeerDeviceRemove(x, id)
  OBVIOUS
<1>1. /\ SameBut(y, x, AddFields) /\ TableTyped(y)
      /\ \A q : Took(x, q) => Took(y, q)
      /\ \A q : IsPeer(y, q) => IsPeer(x, q)
      /\ y = x \/ y.peers_length < x.peers_length
  BY PeerRemoveTable
<1>2. StaysPeer(y, x) => \A frame : Mids(y, x, frame)
  <2>1. CASE y = x
    BY <2>1, SameTable
  <2>2. CASE y.peers_length < x.peers_length
    <3>1. y.peers_length \in Slots
      BY <1>1, LimitAssumption DEF TableTyped, Slots
    <3>2. ~ (y.peers_length < y.peers_length)
      BY <1>1 DEF TableTyped
    <3> QED
      BY <2>2, <3>1, <3>2 DEF StaysPeer
  <2> QED
    BY <1>1, <2>1, <2>2
<1>3. Moves(y, x, only, once)
  BY <1>1, <1>2, TableMoves
<1> QED
  BY <1>3

\* The protocol's task starts at most one message.
LEMMA RadioTaskIs ==
    ASSUME NEW x, Whole(x)
    PROVE  LET y == RadioTask([x EXCEPT !.due = FALSE]) IN
           \/ SameBut(y, x, TaskFields)
           \/ \E v, kind, body : /\ SameBut(v, x, TaskFields) /\ v.state \in {"RX", "SLEEP"}
                                 /\ y = StartTx(v, kind, body)
<1> DEFINE w == [x EXCEPT !.due = FALSE]
           z == RadioTask(w)
<1>1. SameBut(w, x, {"due"}) /\ SameBut(w, x, TaskFields) /\ Whole(w)
  BY DEF Whole, SameBut, Fields, LocalFields, TaskFields
<1>2. z = IF w.my_id = NONE \/ w.state \notin {"RX", "SLEEP"}
          THEN TryLater(w)
          ELSE IF w.pairing_request = "long"
          THEN [w EXCEPT !.pairing_request = "no"]
          ELSE IF w.pairing_request = "yes"
          THEN StartTx([w EXCEPT !.pairing_request = "no"], "pairing", NONE)
          ELSE IF w.ack /\ w.sent_subs # w.subs_length
          THEN StartTx(w, "subreg", SUB_REG(w.sent_subs))
          ELSE IF Unknown(w) # {} THEN SkipUnknown(w)
          ELSE IF w.pub_queue = <<>> THEN [w EXCEPT !.rx_queue = <<>>]
          ELSE StartTx([w EXCEPT !.rx_queue = <<>>, !.pub_queue = Tail(@)],
                       Head(w.pub_queue).kind, Head(w.pub_queue).body)
  BY DEF RadioTask
<1> HIDE DEF w, z
<1>3. ASSUME NEW y, SameBut(y, w, TaskFields)
      PROVE  SameBut(y, x, TaskFields) /\ y.state = w.state
  <2>1. SameBut(y, x, TaskFields \union TaskFields)
    BY <1>1, <1>3, SameTwice
  <2>2. y.state = w.state
    BY <1>3 DEF SameBut, Fields, LinkFields, TaskFields
  <2> QED
    BY <2>1, <2>2, SameWider
<1>4. ASSUME NEW y, NEW S, SameBut(y, w, S), S \subseteq TaskFields
      PROVE  SameBut(y, x, TaskFields) /\ y.state = w.state
  BY <1>3, <1>4, SameWider
<1> HIDE DEF TaskFields
<1>5. CASE w.my_id = NONE \/ w.state \notin {"RX", "SLEEP"}
  <2> DEFINE y == [w EXCEPT !.due = TRUE]
  <2>1. z = y
    BY <1>2, <1>5 DEF TryLater
  <2>2. SameBut(y, w, {"due"})
    BY <1>1 DEF Whole, SameBut, Fields, LocalFields
  <2> HIDE DEF y
  <2>3. {"due"} \subseteq TaskFields
    BY DEF TaskFields
  <2>4. SameBut(y, x, TaskFields)
    BY <1>4, <2>2, <2>3
  <2> QED
    BY <2>1, <2>4 DEF z, w
<1>6. CASE ~ (w.my_id = NONE \/ w.state \notin {"RX", "SLEEP"}) /\ w.pairing_request \in {"long", "yes"}
  <2> DEFINE y == [w EXCEPT !.pairing_request = "no"]
  <2>1. z = y \/ z = StartTx(y, "pairing", NONE)
    BY <1>2, <1>6
  <2>2. SameBut(y, w, {"pairing_request"})
    BY <1>1 DEF Whole, SameBut, Fields, LocalFields
  <2> HIDE DEF y
  <2>3. {"pairing_request"} \subseteq TaskFields
    BY DEF TaskFields
  <2>4. SameBut(y, x, TaskFields) /\ y.state \in {"RX", "SLEEP"}
    BY <1>4, <1>6, <2>2, <2>3
  <2> QED
    BY <2>1, <2>4 DEF z, w
<1>7. CASE /\ ~ (w.my_id = NONE \/ w.state \notin {"RX", "SLEEP"})
           /\ w.pairing_request \notin {"long", "yes"} /\ w.ack /\ w.sent_subs # w.subs_length
  <2> PICK body : body = SUB_REG(w.sent_subs)
    OBVIOUS
  <2>1. z = StartTx(w, "subreg", body)
    BY <1>2, <1>7
  <2> QED
    BY <1>1, <1>7, <2>1 DEF z, w
<1>8. CASE /\ ~ (w.my_id = NONE \/ w.state \notin {"RX", "SLEEP"})
           /\ w.pairing_request \notin {"long", "yes"} /\ ~ (w.ack /\ w.sent_subs # w.subs_length)
           /\ Unknown(w) # {} \/ w.pub_queue = <<>>
  <2>1. z = SkipUnknown(w) \/ z = [w EXCEPT !.rx_queue = <<>>]
    BY <1>2, <1>8
  <2>2. \E rx : z = [w EXCEPT !.rx_queue = rx]
    BY <2>1 DEF SkipUnknown
  <2> PICK rx : z = [w EXCEPT !.rx_queue = rx]
    BY <2>2
  <2> DEFINE y == [w EXCEPT !.rx_queue = rx]
  <2>3. SameBut(y, w, {"rx_queue"})
    BY <1>1 DEF Whole, SameBut, Fields, LocalFields
  <2>4. z = y
    OBVIOUS
  <2> HIDE DEF y
  <2>5. {"rx_queue"} \subseteq TaskFields
    BY DEF TaskFields
  <2>6. SameBut(y, x, TaskFields)
    BY <1>4, <2>3, <2>5
  <2> QED
    BY <2>4, <2>6 DEF z, w
<1>9. CASE /\ ~ (w.my_id = NONE \/ w.state \notin {"RX", "SLEEP"})
           /\ w.pairing_request \notin {"long", "yes"} /\ ~ (w.ack /\ w.sent_subs # w.subs_length)
           /\ ~ (Unknown(w) # {} \/ w.pub_queue = <<>>)
  <2> PICK tail : tail = Tail(w.pub_queue)
    OBVIOUS
  <2> PICK item : item = Head(w.pub_queue)
    OBVIOUS
  <2> DEFINE y == [w EXCEPT !.rx_queue = <<>>, !.pub_queue = tail]
  <2>1. z = StartTx(y, item.kind, item.body)
    BY <1>2, <1>9
  <2>2. SameBut(y, w, {"rx_queue", "pub_queue"})
    BY <1>1 DEF Whole, SameBut, Fields, LocalFields
  <2> HIDE DEF y
  <2>3. {"rx_queue", "pub_queue"} \subseteq TaskFields
    BY DEF TaskFields
  <2>4. SameBut(y, x, TaskFields) /\ y.state \in {"RX", "SLEEP"}
    BY <1>4, <1>9, <2>2, <2>3
  <2> QED
    BY <2>1, <2>4 DEF z, w
<1> QED
  BY <1>5, <1>6, <1>7, <1>8, <1>9

LEMMA StartMoves ==
    ASSUME NEW once \in BOOLEAN, NEW only \in BOOLEAN, NEW x, Own(x, once), TableTyped(x),
           once => x.message_id < IdMod - 1,
           NEW v, SameBut(v, x, TaskFields), NEW kind, NEW body,
           NEW y, y = StartTx(v, kind, body), y.message \in Frames, y.message.kind # "ack"
    PROVE  Moves(y, x, only, once)
<1>a. PICK id : id = (v.message_id + 1) % IdMod
  OBVIOUS
<1>b. PICK frame : frame = [src |-> v.self, id |-> id, kind |-> kind, body |-> body]
  OBVIOUS
<1>c. PICK attempts : attempts = v.TX_MAX_COUNT
  OBVIOUS
<1>1. y = Started(v, id, frame, attempts)
  BY <1>a, <1>b, <1>c DEF StartTx, Started
<1>2. Whole(v) /\ v.self = x.self /\ v.message_id = x.message_id
  BY DEF SameBut, Fields, Settings, LinkFields, TaskFields
<1>3. /\ SameBut(y, v, StartFields)
      /\ y.message_id = id /\ y.tx = frame /\ y.message = frame
      /\ y.state = "TX" /\ y.desired = "TX"
  BY <1>1, <1>2, StartSame
<1>4. SameBut(y, x, TaskFields \union StartFields)
  BY <1>3, SameTwice
<1>5. /\ Whole(y) /\ y.self = x.self /\ y.mode = x.mode
      /\ y.pairing_mode = x.pairing_mode /\ y.automatic_pairing = x.automatic_pairing
      /\ y.peers = x.peers /\ y.peers_length = x.peers_length /\ y.removed = x.removed
      /\ y.accepted = x.accepted /\ y.outcome = x.outcome /\ y.rx_fifo = x.rx_fifo
      /\ y.my_id = x.my_id /\ y.window = x.window /\ y.timed = x.timed
  BY <1>4 DEF SameBut, Fields, Settings, LocalFields, LinkFields, TaskFields, StartFields
<1>6. x.message_id \in 0 .. IdMod - 1 /\ IdMod \in Nat \ {0}
  BY LimitAssumption DEF Own, Ids
<1>7. id \in Ids /\ (once => id = x.message_id + 1)
  BY <1>a, <1>2, <1>6 DEF Ids
<1>8. frame.src = x.self /\ frame.id = id
  BY <1>b, <1>2
<1>9. TableTyped(y)
  BY <1>5 DEF TableTyped
<1>10. Outcomes(y, once)
  <2>1. y.outcome \in Seq(Outcome)
    BY <1>5 DEF Own, Outcomes
  <2>2. ASSUME once
        PROVE  /\ \A k \in 1 .. Len(y.outcome) :
                     /\ y.outcome[k].frame.src = y.self
                     /\ y.outcome[k].frame.id <= y.message_id
                     /\ y.outcome[k].frame.id < y.message_id
               /\ \A j, k \in 1 .. Len(y.outcome) :
                     j < k => y.outcome[j].frame.id < y.outcome[k].frame.id
    <3>1. /\ \A k \in 1 .. Len(x.outcome) :
                x.outcome[k].frame.src = x.self /\ x.outcome[k].frame.id <= x.message_id
          /\ \A j, k \in 1 .. Len(x.outcome) : j < k => x.outcome[j].frame.id < x.outcome[k].frame.id
      BY <2>2 DEF Own, Outcomes
    <3>2. ASSUME NEW k \in 1 .. Len(y.outcome)
          PROVE  /\ y.outcome[k].frame.src = y.self
                 /\ y.outcome[k].frame.id <= y.message_id
                 /\ y.outcome[k].frame.id < y.message_id
      <4>1. y.outcome[k] \in Outcome
        BY <2>1, ElementOfSeq
      <4>2. \A e \in Outcome : e.frame.id \in Ids
        BY DEF Outcome, Frames
      <4>3. y.outcome[k].frame.id \in Int
        BY <1>6, <4>1, <4>2 DEF Ids
      <4>4. y.outcome[k].frame.id <= x.message_id /\ y.outcome[k].frame.src = x.self
        BY <1>5, <3>1
      <4>5. y.message_id = x.message_id + 1
        BY <1>3, <1>7, <2>2
      <4> QED
        BY <1>5, <1>6, <4>3, <4>4, <4>5
    <3> QED
      BY <1>5, <3>1, <3>2
  <2> QED
    BY <2>1, <2>2 DEF Outcomes
<1>11. Own(y, once)
  <2>1. y.message_id \in Ids /\ y.desired \in Goals /\ y.tx = y.message
    BY <1>3, <1>7 DEF Goals
  <2>2. y.message.src = y.self /\ y.message.id = y.message_id
    BY <1>3, <1>5, <1>8
  <2> QED
    BY <1>3, <1>5, <1>10, <2>1, <2>2 DEF Own
<1>12. Starting(y, x, once)
  BY <1>3, <1>5, <1>7, <1>8 DEF Starting
<1> QED
  BY <1>5, <1>9, <1>11, <1>12 DEF Moves

LEMMA RadioTaskMoves ==
    ASSUME NEW once \in BOOLEAN, NEW only \in BOOLEAN, NEW early \in BOOLEAN, NEW x,
           Own(x, once), Sound(x, early), once => x.message_id < IdMod - 1
    PROVE  Moves(RadioTask([x EXCEPT !.due = FALSE]), x, only, once)
<1> PICK y : y = RadioTask([x EXCEPT !.due = FALSE])
  OBVIOUS
<1>1. Whole(x) /\ TableTyped(x) /\ x.window \in BOOLEAN
  BY DEF Sound, Core, Body, Local, TableTyped
<1>2. Sound(y, early)
  BY RadioTaskSound
<1>3. y.message \in Frames /\ y.message.kind # "ack"
  BY <1>2 DEF Sound, Core, Body, Buffers, KnownFrames
<1>4. \/ SameBut(y, x, TaskFields)
      \/ \E v, kind, body : /\ SameBut(v, x, TaskFields) /\ v.state \in {"RX", "SLEEP"}
                            /\ y = StartTx(v, kind, body)
  BY <1>1, RadioTaskIs
<1>5. CASE SameBut(y, x, TaskFields)
  <2>1. /\ y.my_id = x.my_id /\ y.window = x.window /\ y.pairing_mode = x.pairing_mode
        /\ y.automatic_pairing = x.automatic_pairing
    BY <1>5 DEF SameBut, Fields, LocalFields, TaskFields
  <2>2. SameBut(y, x, OwnFields)
    BY <1>5, SameWider DEF OwnFields, TaskFields
  <2>3. Moves(y, x, only, once)
    BY <1>1, <2>1, <2>2, OwnFieldsMove DEF Own
  <2> QED
    BY <2>3
<1>6. CASE \E v, kind, body : /\ SameBut(v, x, TaskFields) /\ v.state \in {"RX", "SLEEP"}
                              /\ y = StartTx(v, kind, body)
  <2>1. Moves(y, x, only, once)
    BY <1>1, <1>3, <1>6, StartMoves
  <2> QED
    BY <2>1
<1> QED
  BY <1>4, <1>5, <1>6

-----------------------------------------------------------------------------
(***************************************************************************)
(* All the radios: each is as Own says, and what is on air or was heard is *)
(* of a radio.                                                             *)
(***************************************************************************)
IdsLeft == \A r \in Radios : radio[r].message_id < IdMod - 1

OwnInv(once) ==
    /\ IInv
    /\ \A r \in Radios :
         /\ Own(radio[r], once) /\ radio[r].mode = scenario.mode[r]
         /\ radio[r].tx.kind = "ack" => radio[r].tx.src \in Radios
         /\ Got(radio[r]) => radio[r].rx_fifo.src \in Radios

\* A step of one radio.
MoveOf(r, once) ==
    /\ DOMAIN radio' = Radios /\ scenario' = scenario
    /\ Moves(radio'[r], radio[r], PairsOnly(r), once)
    /\ \A q \in Radios \ {r} : radio'[q] = radio[q]

LEMMA OwnInvGives ==
    ASSUME NEW once \in BOOLEAN, OwnInv(once), NEW r \in Radios
    PROVE  /\ Own(radio[r], once) /\ TableTyped(radio[r]) /\ radio[r].self = r
           /\ Sound(radio[r], EarlyReturns) /\ radio[r].pairing_mode \in BOOLEAN
           /\ Got(radio[r]) => radio[r].rx_fifo \in Frames /\ radio[r].rx_fifo.src \in Radios
           /\ PairsOnly(r) \in BOOLEAN
<1>1. Sound(radio[r], EarlyReturns) /\ radio[r].self = r /\ Own(radio[r], once)
  BY DEF OwnInv, IInv
<1>2. TableTyped(radio[r]) /\ radio[r].pairing_mode \in BOOLEAN
  BY <1>1 DEF Sound, Core, Body, Local, TableTyped
<1>3. Got(radio[r]) => radio[r].rx_fifo \in Frames
  BY <1>1 DEF Sound, Core, Transceiver, Got, KnownFrames
<1>4. Got(radio[r]) => radio[r].rx_fifo.src \in Radios
  BY DEF OwnInv
<1>5. PairsOnly(r) \in BOOLEAN
  BY DEF PairsOnly
<1> QED
  BY <1>1, <1>2, <1>3, <1>4, <1>5

LEMMA MoveOfOne ==
    ASSUME NEW once \in BOOLEAN, OwnInv(once), NEW r \in Radios, NEW y,
           radio' = [radio EXCEPT ![r] = y], scenario' = scenario,
           Moves(y, radio[r], PairsOnly(r), once)
    PROVE  MoveOf(r, once)
<1>1. DOMAIN radio = Radios
  BY DEF OwnInv, IInv
<1>2. radio'[r] = y /\ DOMAIN radio' = Radios /\ \A q \in Radios \ {r} : radio'[q] = radio[q]
  BY <1>1
<1> QED
  BY <1>2 DEF MoveOf

LEMMA PubPutMoves ==
    ASSUME NEW once \in BOOLEAN, NEW only \in BOOLEAN, NEW x, Own(x, once), TableTyped(x), NEW item
    PROVE  Moves(PubPut(x, item), x, only, once)
<1> PICK y : y = PubPut(x, item)
  OBVIOUS
<1>1. Whole(x) /\ x.window \in BOOLEAN /\ x.my_id \in {NONE, x.self}
  BY DEF Own
<1>2. SameBut(y, x, {"pub_queue", "due"})
  BY <1>1, SameSelf DEF PubPut, Whole, SameBut, Fields, LocalFields
<1>3. SameBut(y, x, OwnFields)
  BY <1>2, SameWider DEF OwnFields
<1>4. /\ y.my_id = x.my_id /\ y.window = x.window /\ y.pairing_mode = x.pairing_mode
      /\ y.automatic_pairing = x.automatic_pairing
  BY <1>2 DEF SameBut, Fields, LocalFields
<1>5. Moves(y, x, only, once)
  BY <1>1, <1>3, <1>4, OwnFieldsMove
<1> QED
  BY <1>5

LEMMA FlagsMove ==
    ASSUME NEW once \in BOOLEAN, NEW only \in BOOLEAN, NEW x, Own(x, once), TableTyped(x)
    PROVE  /\ Moves([x EXCEPT !.pairing_request = "yes", !.due = TRUE], x, only, once)
           /\ Moves([x EXCEPT !.pairing_request = "long", !.due = TRUE], x, only, once)
           /\ Moves([x EXCEPT !.pairing_mode = ~ @], x, FALSE, once)
           /\ Moves([x EXCEPT !.automatic_pairing = ~ @], x, FALSE, once)
           /\ Moves([x EXCEPT !.window = TRUE, !.due = TRUE], x, only, once)
           /\ Moves([x EXCEPT !.pub_queue = <<>>], x, only, once)
           /\ Moves([x EXCEPT !.my_id = x.self], x, only, once)
<1>1. Whole(x) /\ x.window \in BOOLEAN /\ x.my_id \in {NONE, x.self}
  BY DEF Own
<1> DEFINE Kept(y) == /\ SameBut(y, x, OwnFields) /\ y.my_id \in {NONE, x.self}
                      /\ y.window \in BOOLEAN
           Flags(y) == /\ y.pairing_mode = x.pairing_mode
                       /\ y.automatic_pairing = x.automatic_pairing
<1>2. ASSUME NEW value
      PROVE  /\ Kept([x EXCEPT !.pairing_request = value, !.due = TRUE])
             /\ Flags([x EXCEPT !.pairing_request = value, !.due = TRUE])
  BY <1>1 DEF Whole, SameBut, Fields, LocalFields, OwnFields
<1>3. ASSUME NEW value
      PROVE  /\ Kept([x EXCEPT !.pairing_mode = value])
             /\ Kept([x EXCEPT !.automatic_pairing = value])
  BY <1>1 DEF Whole, SameBut, Fields, LocalFields, OwnFields
<1>4. /\ Kept([x EXCEPT !.window = TRUE, !.due = TRUE])
      /\ Flags([x EXCEPT !.window = TRUE, !.due = TRUE])
  BY <1>1 DEF Whole, SameBut, Fields, LocalFields, OwnFields
<1>5. /\ Kept([x EXCEPT !.pub_queue = <<>>]) /\ Flags([x EXCEPT !.pub_queue = <<>>])
  BY <1>1 DEF Whole, SameBut, Fields, LocalFields, OwnFields
<1>6. /\ Kept([x EXCEPT !.my_id = x.self]) /\ Flags([x EXCEPT !.my_id = x.self])
  <2> PICK self : self = x.self
    OBVIOUS
  <2>1. Kept([x EXCEPT !.my_id = self]) /\ Flags([x EXCEPT !.my_id = self])
    BY <1>1 DEF Whole, SameBut, Fields, LocalFields, OwnFields
  <2> QED
    BY <2>1
<1>7. ASSUME NEW y, Kept(y) PROVE Moves(y, x, FALSE, once)
  BY <1>7, OwnFieldsMove
<1>8. ASSUME NEW y, Kept(y), Flags(y) PROVE Moves(y, x, only, once)
  BY <1>8, OwnFieldsMove
<1> HIDE DEF Kept, Flags
<1>9. Kept([x EXCEPT !.pairing_mode = ~ @]) /\ Kept([x EXCEPT !.automatic_pairing = ~ @])
  BY <1>3
<1> QED
  BY <1>2, <1>4, <1>5, <1>6, <1>7, <1>8, <1>9

LEMMA UseMoves ==
    ASSUME NEW once \in BOOLEAN, OwnInv(once), NEW r \in Radios, NEW call, NEW y, Use(r, call, y),
           Moves(y, radio[r], PairsOnly(r), once)
    PROVE  MoveOf(r, once)
  BY MoveOfOne DEF Use

LEMMA ApplicationMoves ==
    ASSUME NEW once \in BOOLEAN, OwnInv(once), NEW r \in Radios, Application(r)
    PROVE  MoveOf(r, once)
<1> PICK x : x = radio[r]
  OBVIOUS
<1> PICK only \in BOOLEAN : only <=> PairsOnly(r)
  OBVIOUS
<1>1. Own(x, once) /\ TableTyped(x) /\ (PairsOnly(r) = only)
  BY OwnInvGives
<1>2. ASSUME NEW call, call \in {"peer_device_add", "pairing_mode", "automatic_pairing"}, NEW y,
             Use(r, call, y)
      PROVE  PairsOnly(r) = FALSE
  BY <1>2 DEF Use, PairsOnly
<1>3. CASE Publish(r)
  <2> PICK item : item = [kind |-> "pub", body |-> Head(to_publish[r])]
    OBVIOUS
  <2>1. radio' = [radio EXCEPT ![r] = PubPut(x, item)] /\ scenario' = scenario
    BY <1>3 DEF Publish
  <2>2. Moves(PubPut(x, item), x, PairsOnly(r), once)
    BY <1>1, PubPutMoves
  <2> QED
    BY <2>1, <2>2, MoveOfOne
<1>4. CASE PairingRequest(r)
  <2>1. \/ Use(r, "pairing_request", [x EXCEPT !.pairing_request = "yes", !.due = TRUE])
        \/ Use(r, "long_request", [x EXCEPT !.pairing_request = "long", !.due = TRUE])
    BY <1>4 DEF PairingRequest
  <2> QED
    BY <1>1, <2>1, FlagsMove, UseMoves
<1>5. CASE PairingMode(r)
  <2>1. Use(r, "pairing_mode", [x EXCEPT !.pairing_mode = ~ @])
    BY <1>5 DEF PairingMode
  <2>2. PairsOnly(r) = FALSE
    BY <1>2, <2>1
  <2> QED
    BY <1>1, <2>1, <2>2, FlagsMove, UseMoves
<1>6. CASE AutomaticPairing(r)
  <2>1. Use(r, "automatic_pairing", [x EXCEPT !.automatic_pairing = ~ @])
    BY <1>6 DEF AutomaticPairing
  <2>2. PairsOnly(r) = FALSE
    BY <1>2, <2>1
  <2> QED
    BY <1>1, <2>1, <2>2, FlagsMove, UseMoves
<1>7. CASE \E id \in Radios \ {r} : AddPeer(r, id)
  <2>1. PICK id \in Radios \ {r} : Use(r, "peer_device_add", PeerDeviceAdd(x, id))
    BY <1>7 DEF AddPeer
  <2>2. PairsOnly(r) = FALSE
    BY <1>2, <2>1
  <2> QED
    BY <1>1, <2>1, <2>2, PeerAddMoves, UseMoves
<1>8. CASE \E id \in Radios \ {r} : RemovePeerDevice(r, id)
  <2>1. PICK id \in Radios \ {r} : Use(r, "peer_device_remove", PeerDeviceRemove(x, id))
    BY <1>8 DEF RemovePeerDevice
  <2> QED
    BY <1>1, <2>1, PeerRemoveMoves, UseMoves
<1>9. CASE Listen(r)
  <2>1. Use(r, "listen", [x EXCEPT !.window = TRUE, !.due = TRUE])
    BY <1>9 DEF Listen
  <2> QED
    BY <1>1, <2>1, FlagsMove, UseMoves
<1>10. CASE ClearPubQueue(r)
  <2>1. Use(r, "pub_queue_clear", [x EXCEPT !.pub_queue = <<>>])
    BY <1>10 DEF ClearPubQueue
  <2> QED
    BY <1>1, <2>1, FlagsMove, UseMoves
<1> QED
  BY <1>3, <1>4, <1>5, <1>6, <1>7, <1>8, <1>9, <1>10 DEF Application

\* The end of a transmission: r's frame is heard, or garbled, or lost.
Sends(r) ==
    /\ DOMAIN radio' = Radios /\ scenario' = scenario
    /\ radio[r].air # NONE
    /\ \A q \in Radios :
         /\ SameBut(radio'[q], radio[q], DriverFields)
         /\ Got(radio'[q]) => \/ radio'[q].rx_fifo = radio[q].rx_fifo
                              \/ q # r /\ radio'[q].rx_fifo = radio[r].air

LEMMA TransmittedSends ==
    ASSUME NEW once \in BOOLEAN, OwnInv(once), NEW r \in Radios,
           NEW hear \in SUBSET {q \in Radios \ {r} : Listening(q)},
           NEW garbled \in SUBSET {q \in Radios \ {r} : Listening(q)},
           Transmitted(r, hear, garbled)
    PROVE  Sends(r)
<1>1. ASSUME NEW q \in Radios
      PROVE  /\ SameBut(radio'[q], radio[q], DriverFields)
             /\ Got(radio'[q]) => \/ radio'[q].rx_fifo = radio[q].rx_fifo
                                  \/ q # r /\ radio'[q].rx_fifo = radio[r].air
  <2> PICK x : x = radio[q]
    OBVIOUS
  <2> PICK frame : frame = radio[r].air
    OBVIOUS
  <2>1. radio'[q] =
         IF q = r
         THEN [x EXCEPT !.air = NONE, !.irq_sent = TRUE, !.driver_plan = "now"]
         ELSE IF q \in hear
         THEN [x EXCEPT !.rx_fifo = frame, !.driver_plan = "now"]
         ELSE IF q \in garbled
         THEN [x EXCEPT !.rx_fifo = DISCARDED, !.driver_plan = "now"]
         ELSE x
    BY DEF Transmitted
  <2>2. Whole(x)
    BY DEF OwnInv, Own
  <2>3. CASE q = r
    BY <2>1, <2>2, <2>3 DEF Whole, SameBut, Fields, LinkFields, DriverFields
  <2>4. CASE q # r /\ q \in hear
    BY <2>1, <2>2, <2>4 DEF Whole, SameBut, Fields, LinkFields, DriverFields
  <2>5. CASE q # r /\ q \notin hear /\ q \in garbled
    BY <2>1, <2>2, <2>5 DEF Whole, SameBut, Fields, LinkFields, DriverFields, Got
  <2>6. CASE q # r /\ q \notin hear /\ q \notin garbled
    BY <2>1, <2>2, <2>6, SameSelf
  <2> QED
    BY <2>3, <2>4, <2>5, <2>6
<1> QED
  BY <1>1 DEF Transmitted, Sends

\* Every step is one of these.
LEMMA StepIs ==
    ASSUME NEW once \in BOOLEAN, OwnInv(once), once => IdsLeft, [Next]_vars
    PROVE  \/ radio' = radio /\ scenario' = scenario
           \/ \E r \in Radios : MoveOf(r, once) \/ Sends(r)
<1>1. CASE UNCHANGED vars
  BY <1>1 DEF vars
<1>2. ASSUME NEW r \in Radios,
             RunRadioTask(r) \/ SerialNumber(r) \/ Driver(r) \/ Ether(r) \/ Application(r)
      PROVE  MoveOf(r, once) \/ Sends(r)
  <2> PICK x : x = radio[r]
    OBVIOUS
  <2> PICK only \in BOOLEAN : only <=> PairsOnly(r)
    OBVIOUS
  <2>1. /\ Own(x, once) /\ TableTyped(x) /\ PairsOnly(r) = only
        /\ x.self = r /\ Sound(x, EarlyReturns) /\ x.pairing_mode \in BOOLEAN
        /\ Got(x) => x.rx_fifo \in Frames /\ x.rx_fifo.src \in Radios
    BY OwnInvGives
  <2>2. CASE RunRadioTask(r)
    <3>1. /\ radio' = [radio EXCEPT ![r] = RadioTask([x EXCEPT !.due = FALSE])]
          /\ scenario' = scenario
      BY <2>2 DEF RunRadioTask
    <3>2. once => x.message_id < IdMod - 1
      BY DEF IdsLeft
    <3>3. Moves(RadioTask([x EXCEPT !.due = FALSE]), x, only, once)
      BY <2>1, <3>2, RadioTaskMoves, EarlyBoolean
    <3> QED
      BY <2>1, <3>1, <3>3, MoveOfOne
  <2>3. CASE SerialNumber(r)
    <3>1. radio' = [radio EXCEPT ![r] = [x EXCEPT !.my_id = x.self]] /\ scenario' = scenario
      BY <2>1, <2>3 DEF SerialNumber
    <3>2. Moves([x EXCEPT !.my_id = x.self], x, only, once)
      BY <2>1, FlagsMove
    <3> QED
      BY <2>1, <3>1, <3>2, MoveOfOne
  <2>4. CASE Driver(r)
    <3>1. PICK expired, late, open \in BOOLEAN : RunDriverTask(r, expired, late, open)
      BY <2>4 DEF Driver
    <3>2. /\ radio' = [radio EXCEPT ![r] = DriverTask(x, expired, late, open)]
          /\ scenario' = scenario
      BY <3>1 DEF RunDriverTask
    <3>3. Moves(DriverTask(x, expired, late, open), x, only, once)
      BY <2>1, DriverTaskMoves
    <3> QED
      BY <2>1, <3>2, <3>3, MoveOfOne
  <2>5. CASE Ether(r)
    <3>1. PICK hear \in SUBSET {q \in Radios \ {r} : Listening(q)},
               garbled \in SUBSET {q \in Radios \ {r} : Listening(q)} :
                 Transmitted(r, hear, garbled)
      BY <2>5 DEF Ether
    <3> QED
      BY <3>1, TransmittedSends
  <2>6. CASE Application(r)
    BY <2>6, ApplicationMoves
  <2> QED
    BY <1>2, <2>2, <2>3, <2>4, <2>5, <2>6
<1> QED
  BY <1>1, <1>2 DEF Next

\* What another radio sees of a move.
LEMMA MovesKeep ==
    ASSUME NEW only, NEW once, NEW x, NEW y, Moves(y, x, only, once)
    PROVE  /\ y.self = x.self /\ y.mode = x.mode /\ Own(y, once)
           /\ Got(y) => Got(x) /\ y.rx_fifo = x.rx_fifo
           /\ \/ y.tx = x.tx \/ y.tx = y.message
              \/ Got(x) /\ Answers(y, x, x.rx_fifo)
           /\ (y.message = x.message /\ y.message_id = x.message_id) \/ Starting(y, x, once)
  BY DEF Moves, Silent, Starting, Learning, Got

LEMMA SendsKeep ==
    ASSUME NEW r \in Radios, Sends(r), NEW q \in Radios
    PROVE  /\ Whole(radio'[q]) /\ radio'[q].self = radio[q].self /\ radio'[q].mode = radio[q].mode
           /\ radio'[q].pairing_mode = radio[q].pairing_mode
           /\ radio'[q].automatic_pairing = radio[q].automatic_pairing
           /\ radio'[q].peers = radio[q].peers /\ radio'[q].peers_length = radio[q].peers_length
           /\ radio'[q].removed = radio[q].removed /\ radio'[q].tx = radio[q].tx
           /\ radio'[q].accepted = radio[q].accepted /\ radio'[q].outcome = radio[q].outcome
           /\ radio'[q].message = radio[q].message /\ radio'[q].message_id = radio[q].message_id
<1> PICK x : x = radio[q]
  OBVIOUS
<1> PICK y : y = radio'[q]
  OBVIOUS
<1>1. SameBut(y, x, DriverFields)
  BY DEF Sends
<1>2. /\ Whole(y) /\ y.self = x.self /\ y.mode = x.mode
      /\ y.pairing_mode = x.pairing_mode /\ y.automatic_pairing = x.automatic_pairing
      /\ y.peers = x.peers /\ y.peers_length = x.peers_length /\ y.removed = x.removed
      /\ y.tx = x.tx /\ y.accepted = x.accepted /\ y.outcome = x.outcome
      /\ y.message = x.message /\ y.message_id = x.message_id
  BY <1>1 DEF SameBut, Fields, Settings, LocalFields, LinkFields, DriverFields
<1> QED
  BY <1>2

\* What is on air is in the transmit buffer: a radio's own message, or an ACK.
LEMMA AirIs ==
    ASSUME NEW once \in BOOLEAN, OwnInv(once), NEW r \in Radios, radio[r].air # NONE
    PROVE  /\ radio[r].air = radio[r].tx /\ radio[r].tx \in Frames /\ radio[r].tx.src \in Radios
           /\ radio[r].tx.kind # "ack" => radio[r].tx = radio[r].message /\ radio[r].tx.src = r
<1> PICK x : x = radio[r]
  OBVIOUS
<1>1. /\ Own(x, once) /\ x.self = r /\ (x.tx.kind = "ack" => x.tx.src \in Radios)
      /\ Transceiver(x, EarlyReturns) /\ Agrees(x) /\ Buffers(x, EarlyReturns)
  BY DEF OwnInv, IInv, Sound, Core, Body
<1>2. /\ x.air = x.tx /\ x.state \in {"TX", "RX_SEND_ACK", "TX_SEND_ACK"} /\ x.tx \in Frames
  BY <1>1 DEF Transceiver, Agrees, Target, Buffers, States, KnownFrames
<1>3. x.tx.kind # "ack" => x.tx = x.message /\ x.tx.src = r
  BY <1>1, <1>2 DEF Own, Buffers, Busy
<1> QED
  BY <1>1, <1>2, <1>3

LEMMA OwnInvInit ==
    ASSUME NEW once \in BOOLEAN, Init
    PROVE  OwnInv(once)
<1>1. IInv
  BY InitEstablishes
<1>2. ASSUME NEW r \in Radios
      PROVE  /\ Own(radio[r], once) /\ radio[r].mode = scenario.mode[r]
             /\ radio[r].tx.kind = "ack" => radio[r].tx.src \in Radios
             /\ Got(radio[r]) => radio[r].rx_fifo.src \in Radios
  <2> PICK x : x = radio[r]
    OBVIOUS
  <2>1. x = Initial(r)
    BY DEF Init
  <2>2. /\ x.self = r /\ x.mode = scenario.mode[r] /\ x.my_id = NONE /\ x.message_id = 0
        /\ x.state \in {"SLEEP", "RX"} /\ x.desired \in {"SLEEP", "RX"}
        /\ x.window = FALSE /\ x.timed = FALSE /\ x.accepted = <<>> /\ x.outcome = <<>>
        /\ x.tx = NoFrame /\ x.message = NoFrame /\ x.rx_fifo = NONE
    BY <2>1 DEF Initial
  <2>3. Whole(x) /\ x.message \in Frames /\ x.message_id \in Ids
    BY <1>1 DEF IInv, Sound, Core, Body, Buffers, KnownFrames
  <2>4. NoFrame.kind # "ack"
    BY DEF NoFrame
  <2>5. Outcomes(x, once)
    BY <2>2 DEF Outcomes, Outcome
  <2>a. /\ x.message.kind # "ack" /\ x.desired \in Goals
        /\ x.window \in BOOLEAN /\ x.timed \in BOOLEAN
    BY <2>2, <2>4 DEF Goals
  <2>c. x.accepted \in Seq(Frames)
    BY <2>2
  <2>b. /\ x.state \notin Busy /\ x.state \notin {"TX", "TX_WAIT_ACK"}
        /\ x.state # "TX_SEND_ACK" /\ x.tx = x.message
    BY <2>2 DEF Busy
  <2>6. Own(x, once)
    BY <2>2, <2>3, <2>5, <2>a, <2>b, <2>c DEF Own
  <2>7. ~ Got(x)
    BY <2>2 DEF Got
  <2> QED
    BY <2>2, <2>4, <2>6, <2>7
<1> QED
  BY <1>1, <1>2 DEF OwnInv

LEMMA OwnInvNext ==
    ASSUME NEW once \in BOOLEAN, OwnInv(once), once => IdsLeft, [Next]_vars
    PROVE  OwnInv(once)'
<1>1. IInv'
  BY NextPreserves DEF OwnInv
<1>2. ASSUME NEW r \in Radios
      PROVE  /\ Own(radio'[r], once) /\ radio'[r].mode = scenario'.mode[r]
             /\ radio'[r].tx.kind = "ack" => radio'[r].tx.src \in Radios
             /\ Got(radio'[r]) => radio'[r].rx_fifo.src \in Radios
  <2> PICK x : x = radio[r]
    OBVIOUS
  <2> PICK y : y = radio'[r]
    OBVIOUS
  <2>1. /\ Own(x, once) /\ x.mode = scenario.mode[r] /\ (x.tx.kind = "ack" => x.tx.src \in Radios)
        /\ Got(x) => x.rx_fifo.src \in Radios
    BY DEF OwnInv
  <2>2. CASE y = x /\ scenario' = scenario
    BY <2>1, <2>2
  <2>3. CASE MoveOf(r, once)
    <3>1. Moves(y, x, PairsOnly(r), once) /\ scenario' = scenario
      BY <2>3 DEF MoveOf
    <3>2. /\ y.mode = x.mode /\ Own(y, once)
          /\ Got(y) => Got(x) /\ y.rx_fifo = x.rx_fifo
          /\ y.tx = x.tx \/ y.tx = y.message \/ (Got(x) /\ Answers(y, x, x.rx_fifo))
      BY <3>1, MovesKeep
    <3>3. y.message.kind # "ack"
      BY <3>2 DEF Own
    <3> QED
      BY <2>1, <3>1, <3>2, <3>3 DEF Answers
  <2>4. ASSUME NEW s \in Radios, Sends(s)
        PROVE  /\ Own(y, once) /\ y.mode = scenario'.mode[r]
               /\ y.tx.kind = "ack" => y.tx.src \in Radios
               /\ Got(y) => y.rx_fifo.src \in Radios
    <3>1. /\ SameBut(y, x, DriverFields) /\ scenario' = scenario
          /\ Got(y) => y.rx_fifo = x.rx_fifo \/ y.rx_fifo = radio[s].air
      BY <2>4 DEF Sends
    <3>2. /\ Whole(y) /\ y.self = x.self /\ y.mode = x.mode /\ y.my_id = x.my_id
          /\ y.message_id = x.message_id /\ y.window = x.window /\ y.timed = x.timed
          /\ y.desired = x.desired /\ y.accepted = x.accepted /\ y.message = x.message
          /\ y.state = x.state /\ y.tx = x.tx /\ y.saved_tx = x.saved_tx /\ y.outcome = x.outcome
      BY <3>1 DEF SameBut, Fields, Settings, LocalFields, LinkFields, DriverFields
    <3>3. Outcomes(y, once)
      BY <2>1, <3>2 DEF Own, Outcomes
    <3>4. Own(y, once)
      BY <2>1, <3>2, <3>3 DEF Own
    <3>5. Got(y) => y.rx_fifo.src \in Radios
      <4> SUFFICES ASSUME Got(y) PROVE y.rx_fifo.src \in Radios
        OBVIOUS
      <4>1. CASE y.rx_fifo = x.rx_fifo
        BY <2>1, <4>1 DEF Got
      <4>2. CASE y.rx_fifo = radio[s].air
        <5>1. radio[s].air # NONE
          BY <2>4 DEF Sends
        <5> QED
          BY <4>2, <5>1, AirIs
      <4> QED
        BY <3>1, <4>1, <4>2
    <3> QED
      BY <2>1, <3>1, <3>2, <3>4, <3>5
  <2>5. \/ y = x /\ scenario' = scenario
        \/ MoveOf(r, once)
        \/ \E s \in Radios : Sends(s)
    <3>1. \/ radio' = radio /\ scenario' = scenario
          \/ \E s \in Radios : MoveOf(s, once) \/ Sends(s)
      BY StepIs
    <3>2. ASSUME NEW s \in Radios \ {r}, MoveOf(s, once) PROVE y = x /\ scenario' = scenario
      BY <3>2 DEF MoveOf
    <3> QED
      BY <3>1, <3>2
  <2> QED
    BY <2>2, <2>3, <2>4, <2>5
<1> QED
  BY <1>1, <1>2 DEF OwnInv

-----------------------------------------------------------------------------
(***************************************************************************)
(* Who is paired with whom.                                                *)
(***************************************************************************)
\* An ACK with the id of a gateway says that the gateway took its addressee.
Granted(x, frame) ==
    frame.kind = "ack" /\ frame.body \in Radios /\ x[frame.body].mode = "GATEWAY"
        => Took(x[frame.body], frame.src)

GrantInv ==
    /\ \A r \in Radios : PairsOnly(r) => ~ radio[r].pairing_mode /\ ~ radio[r].automatic_pairing
    /\ \A r \in Radios : /\ Granted(radio, radio[r].tx)
                         /\ Got(radio[r]) => Granted(radio, radio[r].rx_fifo)
    /\ PairedIsMutual

LEMMA GrantInvInit == ASSUME Init PROVE GrantInv
<1>1. ASSUME NEW r \in Radios
      PROVE  /\ ~ radio[r].pairing_mode /\ ~ radio[r].automatic_pairing
             /\ radio[r].tx.kind = "none" /\ ~ Got(radio[r])
             /\ radio[r].peers_length = Len(scenario.peers[r])
  BY DEF Init, Initial, NoFrame, Got
<1>2. ASSUME NEW r \in Radios, PairsOnly(r), NEW q PROVE ~ IsPeer(radio[r], q)
  <2>1. radio[r].peers_length = 0
    BY <1>1, <1>2 DEF PairsOnly
  <2> QED
    BY <2>1 DEF IsPeer, PeerSlots
<1> QED
  BY <1>1, <1>2 DEF GrantInv, Granted, PairedIsMutual

\* A gateway forgets nobody.
LEMMA GatewayRemembers ==
    ASSUME NEW only, NEW once, NEW x, NEW y, Moves(y, x, only, once), x.mode = "GATEWAY",
           NEW q \in Radios, Took(x, q)
    PROVE  Took(y, q)
<1>1. CASE Silent(y, x, only)
  BY <1>1 DEF Silent
<1>2. CASE Starting(y, x, once)
  <2>1. IsPeer(y, q) <=> IsPeer(x, q)
    BY <1>2, SameTable DEF Starting
  <2> QED
    BY <1>2, <2>1 DEF Starting, Took
<1>3. CASE Learning(y, x, x.rx_fifo)
  BY <1>3 DEF Learning, Table
<1> QED
  BY <1>1, <1>2, <1>3 DEF Moves

\* A node that pairs nobody gets its peer from an ACK.
NodeTold(y, x) ==
    x.mode # "GATEWAY" /\ ~ x.pairing_mode /\ ~ x.automatic_pairing =>
        \A q \in Radios : IsPeer(y, q) =>
            \/ IsPeer(x, q)
            \/ /\ Got(x) /\ x.rx_fifo.kind = "ack"
               /\ x.rx_fifo.src = x.self /\ x.rx_fifo.body = q

LEMMA NodeIsTold ==
    ASSUME NEW once \in BOOLEAN, NEW only \in BOOLEAN, NEW x, NEW y, Moves(y, x, only, once), only
    PROVE  NodeTold(y, x)
<1>1. CASE Silent(y, x, only)
  BY <1>1 DEF Silent, NodeTold
<1>2. CASE Starting(y, x, once)
  BY <1>2, SameTable DEF Starting, NodeTold
<1>3. CASE Learning(y, x, x.rx_fifo)
  BY <1>3 DEF Learning, Table, NodeTold
<1> QED
  BY <1>1, <1>2, <1>3 DEF Moves

LEMMA GrantInvMove ==
    ASSUME NEW once \in BOOLEAN, OwnInv(once), GrantInv, NEW r \in Radios, MoveOf(r, once)
    PROVE  GrantInv'
<1> PICK x : x = radio[r]
  OBVIOUS
<1> PICK y : y = radio'[r]
  OBVIOUS
<1>1. /\ Moves(y, x, PairsOnly(r), once) /\ scenario' = scenario
      /\ \A q \in Radios \ {r} : radio'[q] = radio[q]
  BY DEF MoveOf
<1>2. \A q \in Radios : PairsOnly(q)' <=> PairsOnly(q)
  BY <1>1 DEF PairsOnly
<1>3. /\ y.self = x.self /\ y.mode = x.mode /\ Own(y, once)
      /\ Got(y) => Got(x) /\ y.rx_fifo = x.rx_fifo
      /\ y.tx = x.tx \/ y.tx = y.message \/ (Got(x) /\ Answers(y, x, x.rx_fifo))
  BY <1>1, MovesKeep
<1>4. x.self = r /\ \A q \in Radios : radio[q].mode = scenario.mode[q]
  BY DEF OwnInv, IInv
<1>m. \A q \in Radios : radio'[q].mode = radio[q].mode
  BY <1>1, <1>3
<1>5. PairsOnly(r) => ~ y.pairing_mode /\ ~ y.automatic_pairing
  BY <1>1 DEF GrantInv, Moves
<1>6. ASSUME NEW g \in Radios, radio[g].mode = "GATEWAY", NEW q \in Radios, Took(radio[g], q)
      PROVE  Took(radio'[g], q)
  <2>1. CASE g = r
    BY <1>1, <1>4, <1>6, <2>1, GatewayRemembers
  <2>2. CASE g # r
    BY <1>1, <1>6, <2>2
  <2> QED
    BY <2>1, <2>2
<1>7. ASSUME NEW frame, Granted(radio, frame), frame.kind = "ack" => frame.src \in Radios
      PROVE  Granted(radio', frame)
  BY <1>6, <1>7, <1>m DEF Granted
<1>8. \A q \in Radios : /\ Granted(radio, radio[q].tx)
                        /\ radio[q].tx.kind = "ack" => radio[q].tx.src \in Radios
                        /\ Got(radio[q]) => /\ Granted(radio, radio[q].rx_fifo)
                                            /\ radio[q].rx_fifo.src \in Radios
  BY DEF GrantInv, OwnInv
<1>9. Granted(radio', y.tx)
  <2>1. CASE y.tx = x.tx
    BY <1>7, <1>8, <2>1
  <2>2. CASE y.tx = y.message
    BY <1>3, <2>2 DEF Own, Granted
  <2>3. CASE Got(x) /\ Answers(y, x, x.rx_fifo)
    BY <1>4, <2>3 DEF Answers, Granted, Took
  <2> QED
    BY <1>3, <2>1, <2>2, <2>3
<1>10. ASSUME NEW q \in Radios
       PROVE  /\ Granted(radio', radio'[q].tx)
              /\ Got(radio'[q]) => Granted(radio', radio'[q].rx_fifo)
  <2>1. CASE q = r
    <3>1. Got(y) => Granted(radio', y.rx_fifo)
      BY <1>3, <1>7, <1>8
    <3> QED
      BY <1>9, <2>1, <3>1
  <2>2. CASE q # r
    BY <1>1, <1>7, <1>8, <2>2
  <2> QED
    BY <2>1, <2>2
<1>11. ASSUME NEW gw \in Radios, NEW q \in Radios, radio'[gw].mode = "GATEWAY", PairsOnly(q),
              IsPeer(radio'[q], gw)
       PROVE  Took(radio'[gw], q)
  <2>1. radio[gw].mode = "GATEWAY"
    BY <1>11, <1>m
  <2>2. CASE IsPeer(radio[q], gw)
    <3>1. Took(radio[gw], q)
      BY <1>11, <2>1, <2>2 DEF GrantInv, PairedIsMutual, Took
    <3> QED
      BY <1>6, <2>1, <3>1
  <2>3. CASE ~ IsPeer(radio[q], gw)
    <3>1. q = r
      BY <1>1, <1>11, <2>3
    <3>2. PairsOnly(r) = TRUE /\ x.mode # "GATEWAY"
      BY <1>4, <1>11, <3>1 DEF PairsOnly
    <3>3. ~ x.pairing_mode /\ ~ x.automatic_pairing
      BY <3>2 DEF GrantInv
    <3> PICK only \in BOOLEAN : only <=> PairsOnly(r)
      OBVIOUS
    <3>c. only = PairsOnly(r)
      BY DEF PairsOnly
    <3>d. only
      BY <3>2
    <3>a. Moves(y, x, only, once) /\ IsPeer(y, gw) /\ ~ IsPeer(x, gw)
      BY <1>1, <1>11, <2>3, <3>1, <3>c
    <3>e. NodeTold(y, x)
      BY <3>a, <3>d, NodeIsTold
    <3>b. \/ IsPeer(x, gw)
          \/ /\ Got(x) /\ x.rx_fifo.kind = "ack"
             /\ x.rx_fifo.src = x.self /\ x.rx_fifo.body = gw
      BY <3>2, <3>3, <3>a, <3>e DEF NodeTold
    <3>4. Got(x) /\ x.rx_fifo.kind = "ack" /\ x.rx_fifo.src = r /\ x.rx_fifo.body = gw
      BY <1>4, <3>a, <3>b
    <3>5. Took(radio[gw], r)
      BY <1>8, <2>1, <3>4 DEF Granted
    <3> QED
      BY <1>6, <2>1, <3>1, <3>5
  <2> QED
    BY <2>2, <2>3
<1>12. PairedIsMutual'
  BY <1>2, <1>11 DEF PairedIsMutual, Took
<1>13. \A q \in Radios : PairsOnly(q)' => ~ radio'[q].pairing_mode /\ ~ radio'[q].automatic_pairing
  BY <1>1, <1>2, <1>5 DEF GrantInv
<1> QED
  BY <1>10, <1>12, <1>13 DEF GrantInv

LEMMA GrantInvSends ==
    ASSUME NEW once \in BOOLEAN, OwnInv(once), GrantInv, NEW r \in Radios, Sends(r)
    PROVE  GrantInv'
<1>1. scenario' = scenario
  BY DEF Sends
<1>2. \A q \in Radios : PairsOnly(q)' <=> PairsOnly(q)
  BY <1>1 DEF PairsOnly
<1>3. ASSUME NEW q \in Radios
      PROVE  /\ radio'[q].mode = radio[q].mode /\ radio'[q].tx = radio[q].tx
             /\ radio'[q].pairing_mode = radio[q].pairing_mode
             /\ radio'[q].automatic_pairing = radio[q].automatic_pairing
             /\ radio'[q].removed = radio[q].removed
             /\ radio'[q].peers = radio[q].peers
             /\ radio'[q].peers_length = radio[q].peers_length
  BY SendsKeep
<1>4. ASSUME NEW q \in Radios, NEW id PROVE IsPeer(radio'[q], id) <=> IsPeer(radio[q], id)
  BY <1>3, SameTable
<1>5. ASSUME NEW q \in Radios, NEW id PROVE Took(radio'[q], id) <=> Took(radio[q], id)
  BY <1>3, <1>4 DEF Took
<1>6. ASSUME NEW frame, Granted(radio, frame) PROVE Granted(radio', frame)
  BY <1>3, <1>5, <1>6 DEF Granted
<1>7. Granted(radio, radio[r].air)
  <2>1. radio[r].air = radio[r].tx
    BY AirIs DEF Sends
  <2> QED
    BY <2>1 DEF GrantInv
<1>8. ASSUME NEW q \in Radios
      PROVE  Granted(radio', radio'[q].tx) /\ (Got(radio'[q]) => Granted(radio', radio'[q].rx_fifo))
  <2>1. Granted(radio', radio'[q].tx)
    BY <1>3, <1>6 DEF GrantInv
  <2>2. ASSUME Got(radio'[q]) PROVE Granted(radio', radio'[q].rx_fifo)
    <3>1. radio'[q].rx_fifo = radio[q].rx_fifo \/ radio'[q].rx_fifo = radio[r].air
      BY <2>2 DEF Sends
    <3>2. radio'[q].rx_fifo = radio[q].rx_fifo => Granted(radio, radio[q].rx_fifo)
      BY <2>2 DEF GrantInv, Got
    <3> QED
      BY <1>6, <1>7, <3>1, <3>2
  <2> QED
    BY <2>1, <2>2
<1>9. PairedIsMutual'
  BY <1>2, <1>3, <1>4 DEF GrantInv, PairedIsMutual
<1>10. \A q \in Radios : PairsOnly(q)' => ~ radio'[q].pairing_mode /\ ~ radio'[q].automatic_pairing
  BY <1>2, <1>3 DEF GrantInv
<1> QED
  BY <1>8, <1>9, <1>10 DEF GrantInv

LEMMA GrantInvNext == ASSUME OwnInv(FALSE), GrantInv, [Next]_vars PROVE GrantInv'
<1>1. \/ radio' = radio /\ scenario' = scenario
      \/ \E r \in Radios : MoveOf(r, FALSE) \/ Sends(r)
  BY StepIs
<1>2. CASE radio' = radio /\ scenario' = scenario
  BY <1>2 DEF GrantInv, Granted, PairsOnly, PairedIsMutual
<1> QED
  BY <1>1, <1>2, GrantInvMove, GrantInvSends

\* A node that only pairs is paired with a gateway only if the gateway took it
\* for a peer and has not removed it since (_twr_radio_decode's PAIRING and
\* ACK, twr_radio_peer_device_remove), for any number of radios and peers, and
\* though ACKs are lost, repeated, or heard by others.
THEOREM PairingAgrees == Spec => []PairedIsMutual
<1>1. Init => OwnInv(FALSE) /\ GrantInv
  BY OwnInvInit, GrantInvInit
<1>2. OwnInv(FALSE) /\ GrantInv /\ [Next]_vars => (OwnInv(FALSE) /\ GrantInv)'
  BY OwnInvNext, GrantInvNext
<1>3. GrantInv => PairedIsMutual
  BY DEF GrantInv
<1> QED
  BY <1>1, <1>2, <1>3, PTL DEF Spec

-----------------------------------------------------------------------------
(***************************************************************************)
(* Which message a frame is of, while the message ids do not come round.   *)
(***************************************************************************)
\* A message that another radio than its sender accepted.
Accepted(all, message, sender) ==
    \E q \in Radios \ {sender} : \E j \in 1 .. Len(all[q].accepted) : all[q].accepted[j] = message

\* A frame is of its sender's message or of an older one, and so is an ACK;
\* that of the message says that it was accepted.
Fits(all, frame) ==
    frame.src \in Radios =>
        /\ frame.id <= all[frame.src].message_id
        /\ frame.id = all[frame.src].message_id =>
             /\ frame.kind # "ack" => frame = all[frame.src].message
             /\ frame.kind = "ack" /\ all[frame.src].message.kind = "pub" =>
                   Accepted(all, all[frame.src].message, frame.src)

Truth(all, r) ==
    \A k \in 1 .. Len(all[r].outcome) :
        all[r].outcome[k].result = "TX_DONE" => Accepted(all, all[r].outcome[k].frame, r)

IdInv ==
    /\ \A r \in Radios : Fits(radio, radio[r].tx)
    /\ \A r \in Radios :
         Got(radio[r]) => /\ Fits(radio, radio[r].rx_fifo)
                          /\ radio[r].rx_fifo.kind # "ack" => radio[r].rx_fifo.src # r
    /\ \A r \in Radios : Truth(radio, r)

LEMMA IdInvInit == ASSUME Init PROVE IdInv
<1>1. ASSUME NEW r \in Radios
      PROVE  /\ radio[r].tx = NoFrame /\ radio[r].rx_fifo = NONE /\ radio[r].outcome = <<>>
  BY DEF Init, Initial
<1>2. NoFrame.src \notin Radios
  BY NoneAssumption DEF NoFrame
<1>3. ASSUME NEW r \in Radios
      PROVE  Fits(radio, radio[r].tx) /\ ~ Got(radio[r]) /\ Truth(radio, r)
  <2>1. Truth(radio, r)
    BY <1>1 DEF Truth
  <2> QED
    BY <1>1, <1>2, <2>1 DEF Fits, Got
<1> QED
  BY <1>3 DEF IdInv

\* What is accepted stays accepted.
Extended(y, x) ==
    /\ x.accepted \in Seq(Frames)
    /\ \A j \in 1 .. Len(x.accepted) :
          j \in 1 .. Len(y.accepted) /\ y.accepted[j] = x.accepted[j]
    /\ y.accepted = x.accepted \/ (Got(x) /\ y.accepted = Append(x.accepted, x.rx_fifo))

LEMMA AcceptedStays ==
    ASSUME NEW only, NEW once \in BOOLEAN, NEW x, NEW y, Own(x, once), Moves(y, x, only, once)
    PROVE  Extended(y, x)
<1>1. x.accepted \in Seq(Frames)
  BY DEF Own
<1>2. y.accepted = x.accepted \/ (Got(x) /\ y.accepted = Append(x.accepted, x.rx_fifo))
  BY DEF Moves, Silent, Starting, Learning, Takes
<1>3. CASE y.accepted = x.accepted
  BY <1>1, <1>3 DEF Extended
<1>4. CASE Got(x) /\ y.accepted = Append(x.accepted, x.rx_fifo)
  <2> PICK s \in Seq(Frames) : s = x.accepted
    BY <1>1
  <2> PICK frame : frame = x.rx_fifo
    OBVIOUS
  <2>1. /\ Len(Append(s, frame)) = Len(s) + 1 /\ Len(s) \in Nat
        /\ \A j \in 1 .. Len(s) : Append(s, frame)[j] = s[j]
    OBVIOUS
  <2> QED
    BY <1>1, <1>4, <2>1 DEF Extended
<1> QED
  BY <1>2, <1>3, <1>4

LEMMA AcceptedGrows ==
    ASSUME NEW once \in BOOLEAN, OwnInv(once), NEW r \in Radios, MoveOf(r, once),
           NEW message, NEW sender, Accepted(radio, message, sender)
    PROVE  Accepted(radio', message, sender)
<1> PICK x : x = radio[r]
  OBVIOUS
<1> PICK y : y = radio'[r]
  OBVIOUS
<1>1. /\ Own(x, once) /\ Moves(y, x, PairsOnly(r), once)
      /\ \A q \in Radios \ {r} : radio'[q] = radio[q]
  BY DEF MoveOf, OwnInv
<1>2. PICK q \in Radios \ {sender} :
         \E j \in 1 .. Len(radio[q].accepted) : radio[q].accepted[j] = message
  BY DEF Accepted
<1>3. PICK j \in 1 .. Len(radio[q].accepted) : radio[q].accepted[j] = message
  BY <1>2
<1>4. CASE q = r
  <2>1. Extended(y, x)
    BY <1>1, AcceptedStays
  <2>2. j \in 1 .. Len(x.accepted) /\ x.accepted[j] = message
    BY <1>3, <1>4
  <2>3. j \in 1 .. Len(y.accepted) /\ y.accepted[j] = message
    BY <2>1, <2>2 DEF Extended
  <2> QED
    BY <1>4, <2>3 DEF Accepted
<1>5. CASE q # r
  <2>1. radio'[q].accepted = radio[q].accepted
    BY <1>1, <1>5
  <2> QED
    BY <1>2, <1>3, <2>1 DEF Accepted
<1> QED
  BY <1>4, <1>5

LEMMA FitsStays ==
    ASSUME OwnInv(TRUE), NEW r \in Radios, MoveOf(r, TRUE),
           NEW frame \in Frames, Fits(radio, frame)
    PROVE  Fits(radio', frame)
<1> SUFFICES ASSUME frame.src \in Radios PROVE Fits(radio', frame)
  BY DEF Fits
<1> PICK s \in Radios : s = frame.src
  OBVIOUS
<1> PICK x : x = radio[s]
  OBVIOUS
<1> PICK y : y = radio'[s]
  OBVIOUS
<1>1. Own(x, TRUE) /\ (s = r => Moves(y, x, PairsOnly(r), TRUE)) /\ (s # r => y = x)
  BY DEF MoveOf, OwnInv
<1>2. frame.id \in Nat /\ x.message_id \in Nat
  BY <1>1 DEF Own, Ids, Frames
<1>3. \/ y.message = x.message /\ y.message_id = x.message_id
      \/ y.message_id = x.message_id + 1
  <2>1. CASE s = r
    <3>1. (y.message = x.message /\ y.message_id = x.message_id) \/ Starting(y, x, TRUE)
      BY <1>1, <2>1, MovesKeep
    <3> QED
      BY <3>1 DEF Starting
  <2> QED
    BY <1>1, <2>1
<1>4. /\ frame.id <= x.message_id
      /\ frame.id = x.message_id =>
           /\ frame.kind # "ack" => frame = x.message
           /\ frame.kind = "ack" /\ x.message.kind = "pub" => Accepted(radio, x.message, s)
  BY DEF Fits
<1>5. CASE y.message = x.message /\ y.message_id = x.message_id
  <2>1. Accepted(radio, x.message, s) => Accepted(radio', x.message, s)
    BY AcceptedGrows
  <2> QED
    BY <1>4, <1>5, <2>1 DEF Fits
<1>6. CASE y.message_id = x.message_id + 1
  <2>1. frame.id <= y.message_id /\ frame.id # y.message_id
    BY <1>2, <1>4, <1>6
  <2> QED
    BY <2>1 DEF Fits
<1> QED
  BY <1>3, <1>5, <1>6

\* A radio's own message, in its transmit buffer.
LEMMA OwnFits ==
    ASSUME NEW all, NEW r \in Radios, Own(all[r], TRUE), all[r].self = r
    PROVE  Fits(all, all[r].message)
<1> PICK x : x = all[r]
  OBVIOUS
<1>1. /\ x.message_id \in Nat /\ x.message.kind # "ack"
      /\ x.message = NoFrame \/ (x.message.src = r /\ x.message.id = x.message_id)
  BY DEF Own, Ids
<1>2. CASE x.message = NoFrame
  <2>1. x.message.src \notin Radios
    BY <1>2, NoneAssumption DEF NoFrame
  <2> QED
    BY <2>1 DEF Fits
<1>3. CASE x.message.src = r /\ x.message.id = x.message_id
  BY <1>1, <1>3 DEF Fits
<1> QED
  BY <1>1, <1>2, <1>3

LEMMA AnswerFits ==
    ASSUME OwnInv(TRUE), IdInv, NEW r \in Radios, MoveOf(r, TRUE), Got(radio[r]),
           Answers(radio'[r], radio[r], radio[r].rx_fifo)
    PROVE  Fits(radio', radio'[r].tx)
<1> PICK x : x = radio[r]
  OBVIOUS
<1> PICK y : y = radio'[r]
  OBVIOUS
<1> PICK frame : frame = x.rx_fifo
  OBVIOUS
<1>1. /\ frame.kind # "ack" /\ y.tx.kind = "ack" /\ y.tx.src = frame.src /\ y.tx.id = frame.id
      /\ frame.kind = "pub" => y.accepted = Append(x.accepted, frame)
  BY DEF Answers
<1>2. /\ Own(x, TRUE) /\ frame \in Frames /\ frame.src \in Radios
      /\ \A q \in Radios \ {r} : radio'[q] = radio[q]
  BY OwnInvGives DEF MoveOf
<1>3. Fits(radio, frame) /\ frame.src # r
  BY <1>1 DEF IdInv
<1> PICK s \in Radios : s = frame.src
  BY <1>2
<1>4. radio'[s] = radio[s]
  BY <1>2, <1>3
<1>5. /\ frame.id <= radio[s].message_id
      /\ frame.id = radio[s].message_id => frame = radio[s].message
  BY <1>1, <1>3 DEF Fits
<1>6. ASSUME frame = radio[s].message, frame.kind = "pub" PROVE Accepted(radio', frame, s)
  <2> PICK log \in Seq(Frames) : log = x.accepted
    BY <1>2 DEF Own
  <2>1. y.accepted = Append(log, frame)
    BY <1>1, <1>6
  <2>2. /\ Len(log) + 1 \in 1 .. Len(Append(log, frame))
        /\ Append(log, frame)[Len(log) + 1] = frame
    BY <1>2
  <2>3. \E j \in 1 .. Len(radio'[r].accepted) : radio'[r].accepted[j] = frame
    BY <2>1, <2>2
  <2> QED
    BY <1>3, <2>3 DEF Accepted
<1>7. /\ y.tx.id <= radio'[s].message_id
      /\ y.tx.id = radio'[s].message_id => frame = radio'[s].message
      /\ y.tx.src = s /\ y.tx.kind = "ack"
  BY <1>1, <1>4, <1>5
<1>8. y.tx.id = radio'[s].message_id /\ radio'[s].message.kind = "pub" =>
        Accepted(radio', radio'[s].message, s)
  BY <1>4, <1>6, <1>7
<1> QED
  BY <1>7, <1>8 DEF Fits

LEMMA TruthMove ==
    ASSUME OwnInv(TRUE), IdInv, NEW r \in Radios, MoveOf(r, TRUE)
    PROVE  Truth(radio', r)
<1> PICK x : x = radio[r]
  OBVIOUS
<1> PICK y : y = radio'[r]
  OBVIOUS
<1>1. Moves(y, x, PairsOnly(r), TRUE) /\ Own(x, TRUE) /\ x.self = r /\ Truth(radio, r)
  BY DEF MoveOf, OwnInv, IInv, IdInv
<1>2. ASSUME NEW k \in 1 .. Len(y.outcome), y.outcome[k].result = "TX_DONE",
             k \in 1 .. Len(x.outcome), y.outcome[k] = x.outcome[k]
      PROVE  Accepted(radio', y.outcome[k].frame, r)
  <2>1. Accepted(radio, y.outcome[k].frame, r)
    BY <1>1, <1>2 DEF Truth
  <2> QED
    BY <2>1, AcceptedGrows
<1>3. CASE Silent(y, x, PairsOnly(r))
  BY <1>2, <1>3 DEF Silent, NoNews, Truth
<1>4. CASE Starting(y, x, TRUE)
  BY <1>2, <1>4 DEF Starting, Truth
<1>5. CASE Learning(y, x, x.rx_fifo)
  <2> PICK frame : frame = x.rx_fifo
    OBVIOUS
  <2>1. News(y, x, frame) /\ Got(x)
    BY <1>5 DEF Learning
  <2>2. Fits(radio, frame)
    BY <2>1 DEF IdInv
  <2>3. ASSUME frame.kind = "ack", frame.src = r, frame.id = x.message_id, x.message.kind = "pub"
        PROVE  Accepted(radio', x.message, r)
    <3>1. Accepted(radio, x.message, r)
      BY <2>2, <2>3 DEF Fits
    <3> QED
      BY <3>1, AcceptedGrows
  <2>4. ASSUME NEW k \in 1 .. Len(y.outcome), y.outcome[k].result = "TX_DONE"
        PROVE  Accepted(radio', y.outcome[k].frame, r)
    BY <1>1, <1>2, <2>1, <2>3, <2>4 DEF News
  <2> QED
    BY <2>4 DEF Truth
<1> QED
  BY <1>1, <1>3, <1>4, <1>5 DEF Moves

LEMMA IdInvMove ==
    ASSUME OwnInv(TRUE), IdInv, NEW r \in Radios, MoveOf(r, TRUE)
    PROVE  IdInv'
<1> PICK x : x = radio[r]
  OBVIOUS
<1> PICK y : y = radio'[r]
  OBVIOUS
<1>1. /\ Moves(y, x, PairsOnly(r), TRUE) /\ Own(x, TRUE) /\ x.self = r
      /\ \A q \in Radios \ {r} : radio'[q] = radio[q]
  BY DEF MoveOf, OwnInv, IInv
<1>a. PICK once \in BOOLEAN : once = TRUE
  OBVIOUS
<1>b. Moves(y, x, PairsOnly(r), once)
  BY <1>1, <1>a
<1>c. /\ y.self = x.self /\ Own(y, once)
      /\ Got(y) => Got(x) /\ y.rx_fifo = x.rx_fifo
      /\ y.tx = x.tx \/ y.tx = y.message \/ (Got(x) /\ Answers(y, x, x.rx_fifo))
  BY <1>b, MovesKeep
<1>2. /\ y.self = x.self /\ Own(y, TRUE)
      /\ Got(y) => Got(x) /\ y.rx_fifo = x.rx_fifo
      /\ y.tx = x.tx \/ y.tx = y.message \/ (Got(x) /\ Answers(y, x, x.rx_fifo))
  BY <1>a, <1>c
<1>3. ASSUME NEW q \in Radios
      PROVE  /\ Fits(radio', radio[q].tx)
             /\ Got(radio[q]) => /\ Fits(radio', radio[q].rx_fifo)
                                 /\ radio[q].rx_fifo.kind # "ack" => radio[q].rx_fifo.src # q
  <2>1. radio[q].tx \in Frames /\ (Got(radio[q]) => radio[q].rx_fifo \in Frames)
    BY OwnInvGives DEF Sound, Core, Body, Buffers, KnownFrames
  <2> QED
    BY <2>1, FitsStays DEF IdInv
<1>4. Fits(radio', y.tx)
  <2>1. CASE y.tx = x.tx
    BY <1>3, <2>1
  <2>2. CASE y.tx = y.message
    BY <1>1, <1>2, <2>2, OwnFits
  <2>3. CASE Got(x) /\ Answers(y, x, x.rx_fifo)
    BY <2>3, AnswerFits
  <2> QED
    BY <1>2, <2>1, <2>2, <2>3
<1>5. ASSUME NEW q \in Radios PROVE Fits(radio', radio'[q].tx)
  BY <1>1, <1>3, <1>4
<1>6. ASSUME NEW q \in Radios, Got(radio'[q])
      PROVE  /\ Fits(radio', radio'[q].rx_fifo)
             /\ radio'[q].rx_fifo.kind # "ack" => radio'[q].rx_fifo.src # q
  BY <1>1, <1>2, <1>3, <1>6
<1>7. ASSUME NEW q \in Radios PROVE Truth(radio', q)
  <2>1. CASE q = r
    BY <2>1, TruthMove
  <2>2. CASE q # r
    <3>1. radio'[q] = radio[q] /\ Truth(radio, q)
      BY <1>1, <2>2 DEF IdInv
    <3> QED
      BY <3>1, AcceptedGrows DEF Truth
  <2> QED
    BY <2>1, <2>2
<1> QED
  BY <1>5, <1>6, <1>7 DEF IdInv

LEMMA IdInvSends ==
    ASSUME OwnInv(TRUE), IdInv, NEW r \in Radios, Sends(r)
    PROVE  IdInv'
<1>1. ASSUME NEW q \in Radios
      PROVE  /\ radio'[q].tx = radio[q].tx /\ radio'[q].accepted = radio[q].accepted
             /\ radio'[q].outcome = radio[q].outcome /\ radio'[q].message = radio[q].message
             /\ radio'[q].message_id = radio[q].message_id
  BY SendsKeep
<1>2. ASSUME NEW message, NEW sender, Accepted(radio, message, sender)
      PROVE  Accepted(radio', message, sender)
  BY <1>1, <1>2 DEF Accepted
<1>3. ASSUME NEW frame, Fits(radio, frame) PROVE Fits(radio', frame)
  BY <1>1, <1>2, <1>3 DEF Fits
<1>4. ASSUME NEW q \in Radios PROVE Fits(radio', radio'[q].tx)
  BY <1>1, <1>3 DEF IdInv
<1>5. ASSUME NEW q \in Radios PROVE Truth(radio', q)
  BY <1>1, <1>2 DEF IdInv, Truth
<1>6. ASSUME NEW q \in Radios, Got(radio'[q])
      PROVE  /\ Fits(radio', radio'[q].rx_fifo)
             /\ radio'[q].rx_fifo.kind # "ack" => radio'[q].rx_fifo.src # q
  <2>1. \/ radio'[q].rx_fifo = radio[q].rx_fifo
        \/ q # r /\ radio'[q].rx_fifo = radio[r].air
    BY <1>6 DEF Sends
  <2>2. CASE radio'[q].rx_fifo = radio[q].rx_fifo
    BY <1>3, <1>6, <2>2 DEF IdInv, Got
  <2>3. CASE q # r /\ radio'[q].rx_fifo = radio[r].air
    <3>1. radio[r].air = radio[r].tx /\ (radio[r].tx.kind # "ack" => radio[r].tx.src = r)
      BY AirIs DEF Sends
    <3> QED
      BY <1>3, <2>3, <3>1 DEF IdInv
  <2> QED
    BY <2>1, <2>2, <2>3
<1> QED
  BY <1>4, <1>5, <1>6 DEF IdInv

LEMMA IdInvNext == ASSUME OwnInv(TRUE), IdInv, IdsLeft, [Next]_vars PROVE IdInv'
<1>1. \/ radio' = radio /\ scenario' = scenario
      \/ \E r \in Radios : MoveOf(r, TRUE) \/ Sends(r)
  BY StepIs
<1>2. CASE radio' = radio /\ scenario' = scenario
  BY <1>2 DEF IdInv
<1> QED
  BY <1>1, <1>2, IdInvMove, IdInvSends

LEMMA IdInvGives == ASSUME OwnInv(TRUE), IdInv PROVE OutcomeIsTrue
<1>1. ASSUME NEW r \in Radios
      PROVE  /\ radio[r].outcome \in Seq(Outcome) /\ radio[r].accepted \in Seq(Frames)
             /\ \A j, k \in 1 .. Len(radio[r].outcome) :
                  j < k => radio[r].outcome[j].frame.id < radio[r].outcome[k].frame.id
  <2>1. Own(radio[r], TRUE)
    BY DEF OwnInv
  <2> QED
    BY <2>1 DEF Own, Outcomes
<1>2. ASSUME NEW r \in Radios
      PROVE  /\ DOMAIN radio[r].outcome = 1 .. Len(radio[r].outcome)
             /\ DOMAIN radio[r].accepted = 1 .. Len(radio[r].accepted)
  BY <1>1, LenProperties
<1>3. DoneMeansAccepted
  <2> SUFFICES ASSUME NEW r \in Radios, NEW k \in DOMAIN radio[r].outcome,
                      radio[r].outcome[k].result = "TX_DONE"
               PROVE  \E q \in Radios \ {r} : \E j \in DOMAIN radio[q].accepted :
                          radio[q].accepted[j] = radio[r].outcome[k].frame
    BY DEF DoneMeansAccepted
  <2>1. k \in 1 .. Len(radio[r].outcome)
    BY <1>2
  <2>2. Accepted(radio, radio[r].outcome[k].frame, r)
    BY <2>1 DEF IdInv, Truth
  <2> QED
    BY <1>2, <2>2 DEF Accepted
<1>4. OneOutcome
  <2> SUFFICES ASSUME NEW r \in Radios, NEW j \in DOMAIN radio[r].outcome,
                      NEW k \in DOMAIN radio[r].outcome, j # k
               PROVE  radio[r].outcome[j].frame # radio[r].outcome[k].frame
    BY DEF OneOutcome
  <2>1. j \in 1 .. Len(radio[r].outcome) /\ k \in 1 .. Len(radio[r].outcome)
    BY <1>2
  <2>2. /\ radio[r].outcome[j] \in Outcome /\ radio[r].outcome[k] \in Outcome
        /\ Len(radio[r].outcome) \in Nat
    BY <1>1, <2>1, ElementOfSeq, LenProperties
  <2>3. radio[r].outcome[j].frame.id \in Nat /\ radio[r].outcome[k].frame.id \in Nat
    BY <2>2 DEF Outcome, Frames, Ids
  <2>4. j < k \/ k < j
    BY <2>1, <2>2
  <2>5. \/ radio[r].outcome[j].frame.id < radio[r].outcome[k].frame.id
        \/ radio[r].outcome[k].frame.id < radio[r].outcome[j].frame.id
    BY <1>1, <2>1, <2>4
  <2> QED
    BY <2>3, <2>5
<1> QED
  BY <1>3, <1>4 DEF OutcomeIsTrue

\* As long as no message id comes round (a radio sent fewer than 2^16
\* messages), TX_DONE is true of a message and an application is told once:
\* _twr_radio_ack's comparison of ids and the saved buffers suffice, for any
\* number of radios, messages, losses, copies of ACKs and late answers.
THEOREM OutcomesAreTrue == Spec /\ []IdsLeft => []OutcomeIsTrue
<1>1. Init => OwnInv(TRUE) /\ IdInv
  BY OwnInvInit, IdInvInit
<1>2. OwnInv(TRUE) /\ IdInv /\ IdsLeft /\ [Next]_vars => (OwnInv(TRUE) /\ IdInv)'
  BY OwnInvNext, IdInvNext
<1>3. OwnInv(TRUE) /\ IdInv => OutcomeIsTrue
  BY IdInvGives
<1> QED
  BY <1>1, <1>2, <1>3, PTL DEF Spec

-----------------------------------------------------------------------------
(***************************************************************************)
(* Which messages a radio has accepted, while the slots in use keep their  *)
(* peers: those up to the id in the sender's slot.                         *)
(***************************************************************************)
Logged(x) ==
    /\ Fresh(x)
    /\ \A k \in 1 .. Len(x.accepted) :
         /\ x.accepted[k].src \in Radios /\ IsPeer(x, x.accepted[k].src)
         /\ x.accepted[k].id <= Mid(x, x.accepted[k].src)
    /\ \A j, k \in 1 .. Len(x.accepted) :
         j < k /\ x.accepted[j].src = x.accepted[k].src => x.accepted[j].id < x.accepted[k].id

\* The slot of a peer is never ahead of the peer, or of what was heard of it.
Behind(all, q) ==
    \A s \in Radios : IsPeer(all[q], s) =>
        /\ Mid(all[q], s) <= all[s].message_id
        /\ Got(all[q]) /\ all[q].rx_fifo.kind # "ack" /\ all[q].rx_fifo.src = s =>
              Mid(all[q], s) <= all[q].rx_fifo.id

LogInv == \A q \in Radios : Logged(radio[q]) /\ Behind(radio, q)

\* What a move does to the table.
Grows(y, x) ==
    /\ Fresh(y)
    /\ \A s \in Radios : IsPeer(x, s) => IsPeer(y, s)
    /\ \A s \in Radios : IsPeer(y, s) =>
         \/ IsPeer(x, s) /\ Mid(y, s) = Mid(x, s)
         \/ ~ IsPeer(x, s) /\ Mid(y, s) = 0
         \/ /\ Got(x) /\ ~ Got(y) /\ x.rx_fifo.kind # "ack"
            /\ x.rx_fifo.src = s /\ Mid(y, s) = x.rx_fifo.id

LEMMA MovesGrow ==
    ASSUME NEW only, NEW once, NEW x, NEW y, Moves(y, x, only, once), StaysPeer(y, x), Fresh(x)
    PROVE  Grows(y, x)
<1>1. ASSUME NEW frame, frame.kind = "ack", Mids(y, x, frame) PROVE Grows(y, x)
  BY <1>1 DEF Mids, Grows
<1>2. CASE Silent(y, x, only)
  <2> PICK frame : frame = [kind |-> "ack"]
    OBVIOUS
  <2>1. Mids(y, x, frame)
    BY <1>2 DEF Silent
  <2> QED
    BY <1>1, <2>1
<1>3. CASE Starting(y, x, once)
  <2> PICK frame : frame = [kind |-> "ack"]
    OBVIOUS
  <2>1. Mids(y, x, frame)
    BY <1>3, SameTable DEF Starting
  <2> QED
    BY <1>1, <2>1
<1>4. CASE Learning(y, x, x.rx_fifo)
  <2>1. Mids(y, x, x.rx_fifo) /\ Got(x) /\ ~ Got(y)
    BY <1>4 DEF Learning, Table, Got
  <2> QED
    BY <2>1 DEF Mids, Grows
<1> QED
  BY <1>2, <1>3, <1>4 DEF Moves

LEMMA MidTyped ==
    ASSUME NEW x, TableTyped(x), NEW s, IsPeer(x, s)
    PROVE  Mid(x, s) \in Nat
<1>1. x.peers_length \in Nat /\ x.peers_length <= MAX_DEVICES - 1 /\ MAX_DEVICES \in Nat
  BY LimitAssumption DEF TableTyped
<1>2. PeerSlot(x, s) \in 0 .. x.peers_length - 1
  BY <1>1, SlotOf
<1>3. PeerSlot(x, s) \in Slots
  BY <1>1, <1>2 DEF Slots
<1> QED
  BY <1>3 DEF TableTyped, Peers, Ids, Mid

\* A radio that hears nothing older than its table takes messages in order.
LEMMA LoggedMoves ==
    ASSUME NEW only, NEW once \in BOOLEAN, NEW x, NEW y, Moves(y, x, only, once),
           Own(x, once), TableTyped(x), StaysPeer(y, x), Logged(x),
           Got(x) => /\ x.rx_fifo \in Frames /\ x.rx_fifo.src \in Radios
                     /\ x.rx_fifo.kind # "ack" /\ IsPeer(x, x.rx_fifo.src) =>
                           Mid(x, x.rx_fifo.src) <= x.rx_fifo.id
    PROVE  Logged(y)
<1> PICK log : log = x.accepted
  OBVIOUS
<1> PICK frame : frame = x.rx_fifo
  OBVIOUS
<1>1. /\ log \in Seq(Frames) /\ Fresh(x) /\ TableTyped(y)
      /\ \A k \in 1 .. Len(log) : /\ log[k].src \in Radios /\ IsPeer(x, log[k].src)
                                  /\ log[k].id <= Mid(x, log[k].src)
      /\ \A j, k \in 1 .. Len(log) : j < k /\ log[j].src = log[k].src => log[j].id < log[k].id
  BY DEF Own, Logged, Moves
<1>2. Grows(y, x)
  BY <1>1, MovesGrow
<1>3. ASSUME NEW k \in 1 .. Len(log)
      PROVE  /\ log[k].id \in Nat /\ IsPeer(y, log[k].src)
             /\ Mid(x, log[k].src) \in Nat /\ log[k].id <= Mid(y, log[k].src)
  <2> PICK s \in Radios : s = log[k].src
    BY <1>1
  <2>1. log[k] \in Frames
    BY <1>1, ElementOfSeq
  <2>2. log[k].id \in Nat
    BY <2>1 DEF Frames, Ids
  <2>3. IsPeer(x, s) /\ IsPeer(y, s) /\ log[k].id <= Mid(x, s)
    BY <1>1, <1>2 DEF Grows
  <2>4. Mid(x, s) \in Nat /\ Mid(y, s) \in Nat
    BY <1>1, <2>3, MidTyped
  <2>5. Mid(x, s) <= Mid(y, s)
    <3>1. \/ Mid(y, s) = Mid(x, s)
          \/ Got(x) /\ frame.kind # "ack" /\ frame.src = s /\ Mid(y, s) = frame.id
      BY <1>2, <2>3 DEF Grows
    <3> QED
      BY <2>3, <2>4, <3>1
  <2> QED
    BY <2>2, <2>3, <2>4, <2>5
<1>4. CASE y.accepted = log
  BY <1>1, <1>2, <1>3, <1>4 DEF Logged, Grows
<1>5. CASE y.accepted # log
  <2>1. /\ Got(x) /\ y.accepted = Append(log, frame) /\ frame.kind = "pub"
        /\ IsPeer(x, frame.src) /\ Mid(x, frame.src) # frame.id
        /\ IsPeer(y, frame.src) /\ Mid(y, frame.src) = frame.id
    BY <1>5 DEF Moves, Silent, Starting, Learning, Takes
  <2>2. frame \in Frames /\ frame.src \in Radios /\ Mid(x, frame.src) <= frame.id
    BY <2>1
  <2>3. frame.id \in Nat /\ Mid(x, frame.src) \in Nat
    BY <2>1, <2>2, MidTyped DEF Frames, Ids
  <2>4. Mid(x, frame.src) < frame.id
    BY <2>1, <2>2, <2>3
  <2> PICK new : new = Append(log, frame)
    OBVIOUS
  <2>5. /\ Len(new) = Len(log) + 1 /\ Len(log) \in Nat
        /\ \A k \in 1 .. Len(log) : new[k] = log[k]
        /\ new[Len(log) + 1] = frame
    BY <1>1, <2>2
  <2>6. ASSUME NEW k \in 1 .. Len(new)
        PROVE  /\ new[k].src \in Radios /\ IsPeer(y, new[k].src)
               /\ new[k].id <= Mid(y, new[k].src)
    <3>1. CASE k \in 1 .. Len(log)
      BY <1>1, <1>3, <2>5, <3>1
    <3>2. CASE k = Len(log) + 1
      BY <2>1, <2>2, <2>3, <2>5, <3>2
    <3> QED
      BY <2>5, <3>1, <3>2
  <2>7. ASSUME NEW j \in 1 .. Len(new), NEW k \in 1 .. Len(new), j < k, new[j].src = new[k].src
        PROVE  new[j].id < new[k].id
    <3>1. CASE k \in 1 .. Len(log)
      <4>1. j \in 1 .. Len(log)
        BY <2>5, <2>7, <3>1
      <4> QED
        BY <1>1, <2>5, <2>7, <3>1, <4>1
    <3>2. CASE k = Len(log) + 1
      <4>1. j \in 1 .. Len(log) /\ new[j] = log[j] /\ new[k] = frame
        BY <2>5, <2>7, <3>2
      <4>2. log[j].id <= Mid(x, frame.src) /\ log[j].id \in Nat
        BY <1>1, <1>3, <2>7, <4>1
      <4> QED
        BY <2>3, <2>4, <4>1, <4>2
    <3> QED
      BY <2>5, <3>1, <3>2
  <2>8. y.accepted = new /\ Fresh(y)
    BY <1>2, <2>1 DEF Grows
  <2> QED
    BY <2>6, <2>7, <2>8 DEF Logged
<1> QED
  BY <1>4, <1>5

PeersStay == [][\A q \in Radios : StaysPeer(radio'[q], radio[q])]_radio

LEMMA LogInvInit == ASSUME Init PROVE LogInv
<1>1. ASSUME NEW q \in Radios
      PROVE  /\ radio[q].accepted = <<>> /\ ~ Got(radio[q])
             /\ \A i \in Slots : radio[q].peers[i].message_id = 0
  BY DEF Init, Initial, Got
<1>2. ASSUME NEW q \in Radios PROVE Logged(radio[q])
  BY <1>1 DEF Logged, Fresh
<1>3. ASSUME NEW q \in Radios, NEW s \in Radios, IsPeer(radio[q], s)
      PROVE  Mid(radio[q], s) <= radio[s].message_id
  <2>1. TableTyped(radio[q])
    BY OwnInvInit, OwnInvGives
  <2>2. radio[q].peers_length \in Nat /\ radio[q].peers_length <= MAX_DEVICES - 1
        /\ MAX_DEVICES \in Nat
    BY <2>1, LimitAssumption DEF TableTyped
  <2>3. PeerSlot(radio[q], s) \in 0 .. radio[q].peers_length - 1
    BY <1>3, <2>2, SlotOf
  <2>4. PeerSlot(radio[q], s) \in Slots
    BY <2>2, <2>3 DEF Slots
  <2>5. Mid(radio[q], s) = 0
    BY <1>1, <2>4 DEF Mid
  <2>6. radio[s].message_id = 0
    BY DEF Init, Initial
  <2> QED
    BY <2>5, <2>6
<1> QED
  BY <1>1, <1>2, <1>3 DEF LogInv, Behind

LEMMA LogInvMove ==
    ASSUME OwnInv(TRUE), IdInv, LogInv, NEW r \in Radios, MoveOf(r, TRUE),
           \A q \in Radios : StaysPeer(radio'[q], radio[q])
    PROVE  LogInv'
<1> PICK x : x = radio[r]
  OBVIOUS
<1> PICK y : y = radio'[r]
  OBVIOUS
<1> PICK frame : frame = x.rx_fifo
  OBVIOUS
<1>a. PICK once \in BOOLEAN : once = TRUE
  OBVIOUS
<1>1. /\ Moves(y, x, PairsOnly(r), once) /\ Own(x, once) /\ TableTyped(x) /\ TableTyped(y)
      /\ StaysPeer(y, x) /\ Logged(x) /\ Fresh(x) /\ Behind(radio, r)
      /\ \A q \in Radios \ {r} : radio'[q] = radio[q]
  BY <1>a, OwnInvGives DEF MoveOf, OwnInv, LogInv, Logged, Moves
<1>2. Grows(y, x)
  BY <1>1, MovesGrow
<1>3. Got(x) => frame \in Frames /\ frame.src \in Radios /\ Fits(radio, frame)
  BY OwnInvGives DEF IdInv
<1>4. Got(x) /\ frame.kind # "ack" /\ IsPeer(x, frame.src) => Mid(x, frame.src) <= frame.id
  BY <1>1, <1>3 DEF Behind
<1>5. Logged(y)
  BY <1>1, <1>3, <1>4, LoggedMoves
<1>6. ASSUME NEW s \in Radios
      PROVE  /\ radio[s].message_id \in Nat /\ radio'[s].message_id \in Nat
             /\ radio[s].message_id <= radio'[s].message_id
  <2> PICK z : z = radio[s]
    OBVIOUS
  <2>a. Own(z, TRUE)
    BY DEF OwnInv
  <2>1. z.message_id \in Nat
    BY <2>a DEF Own, Ids
  <2>2. (y.message = x.message /\ y.message_id = x.message_id) \/ Starting(y, x, once)
    BY <1>1, MovesKeep
  <2>3. y.message_id = x.message_id \/ y.message_id = x.message_id + 1
    BY <1>a, <2>2 DEF Starting
  <2> QED
    BY <1>1, <2>1, <2>3
<1>7. ASSUME NEW s \in Radios, IsPeer(y, s)
      PROVE  /\ Mid(y, s) <= radio'[s].message_id
             /\ Got(y) /\ y.rx_fifo.kind # "ack" /\ y.rx_fifo.src = s => Mid(y, s) <= y.rx_fifo.id
  <2>1. Got(y) => Got(x) /\ y.rx_fifo = frame
    BY <1>1, MovesKeep
  <2>2. Got(x) => frame.id \in Nat
    BY <1>3 DEF Frames, Ids
  <2>3. CASE IsPeer(x, s) /\ Mid(y, s) = Mid(x, s)
    <3>1. /\ Mid(x, s) <= radio[s].message_id
          /\ Got(x) /\ frame.kind # "ack" /\ frame.src = s => Mid(x, s) <= frame.id
      BY <1>1, <2>3 DEF Behind
    <3>2. Mid(x, s) \in Nat
      BY <1>1, <2>3, MidTyped
    <3> QED
      BY <1>6, <2>1, <2>3, <3>1, <3>2
  <2>4. CASE Mid(y, s) = 0
    BY <1>6, <2>1, <2>2, <2>4
  <2>5. CASE Got(x) /\ ~ Got(y) /\ frame.src = s /\ Mid(y, s) = frame.id
    <3>1. frame.id <= radio[s].message_id
      BY <1>3, <2>5 DEF Fits
    <3> QED
      BY <1>6, <2>2, <2>5, <3>1
  <2> QED
    BY <1>2, <1>7, <2>3, <2>4, <2>5 DEF Grows
<1>8. ASSUME NEW q \in Radios
      PROVE  Logged(radio'[q]) /\ Behind(radio', q)
  <2>1. CASE q = r
    BY <1>5, <1>7, <2>1 DEF Behind
  <2>2. CASE q # r
    <3>1. radio'[q] = radio[q] /\ Logged(radio[q]) /\ Behind(radio, q) /\ TableTyped(radio[q])
      BY <1>1, <2>2, OwnInvGives DEF LogInv
    <3>2. ASSUME NEW s \in Radios, IsPeer(radio[q], s)
          PROVE  /\ Mid(radio[q], s) <= radio'[s].message_id
                 /\ Got(radio[q]) /\ radio[q].rx_fifo.kind # "ack" /\ radio[q].rx_fifo.src = s =>
                       Mid(radio[q], s) <= radio[q].rx_fifo.id
      <4>1. Mid(radio[q], s) \in Nat
        BY <3>1, <3>2, MidTyped
      <4>2. /\ Mid(radio[q], s) <= radio[s].message_id
            /\ Got(radio[q]) /\ radio[q].rx_fifo.kind # "ack" /\ radio[q].rx_fifo.src = s =>
                  Mid(radio[q], s) <= radio[q].rx_fifo.id
        BY <3>1, <3>2 DEF Behind
      <4> QED
        BY <1>6, <4>1, <4>2
    <3> QED
      BY <3>1, <3>2 DEF Behind
  <2> QED
    BY <2>1, <2>2
<1> QED
  BY <1>8 DEF LogInv

LEMMA LogInvSends ==
    ASSUME OwnInv(TRUE), IdInv, LogInv, NEW r \in Radios, Sends(r)
    PROVE  LogInv'
<1>1. ASSUME NEW q \in Radios
      PROVE  /\ radio'[q].accepted = radio[q].accepted
             /\ radio'[q].peers = radio[q].peers
             /\ radio'[q].peers_length = radio[q].peers_length
             /\ radio'[q].message_id = radio[q].message_id
  BY SendsKeep
<1>2. ASSUME NEW q \in Radios, NEW s
      PROVE  (IsPeer(radio'[q], s) <=> IsPeer(radio[q], s)) /\ Mid(radio'[q], s) = Mid(radio[q], s)
  BY <1>1, SameTable
<1>3. ASSUME NEW q \in Radios PROVE Logged(radio'[q])
  <2>1. Logged(radio[q])
    BY DEF LogInv
  <2>2. Fresh(radio'[q])
    BY <1>1, <2>1 DEF Logged, Fresh
  <2> QED
    BY <1>1, <1>2, <2>1, <2>2 DEF Logged
<1>4. ASSUME NEW q \in Radios, NEW s \in Radios, IsPeer(radio[q], s)
      PROVE  /\ Mid(radio[q], s) <= radio[s].message_id
             /\ Got(radio'[q]) /\ radio'[q].rx_fifo.kind # "ack" /\ radio'[q].rx_fifo.src = s =>
                   Mid(radio[q], s) <= radio'[q].rx_fifo.id
  <2>1. Mid(radio[q], s) <= radio[s].message_id
    BY <1>4 DEF LogInv, Behind
  <2>2. ASSUME Got(radio'[q]), radio'[q].rx_fifo.kind # "ack", radio'[q].rx_fifo.src = s
        PROVE  Mid(radio[q], s) <= radio'[q].rx_fifo.id
    <3>1. radio'[q].rx_fifo = radio[q].rx_fifo \/ radio'[q].rx_fifo = radio[r].air
      BY <2>2 DEF Sends
    <3>2. CASE radio'[q].rx_fifo = radio[q].rx_fifo
      BY <1>4, <2>2, <3>2 DEF LogInv, Behind, Got
    <3>3. CASE radio'[q].rx_fifo = radio[r].air
      <4>1. /\ radio[r].air = radio[r].tx
            /\ radio[r].tx.kind # "ack" => radio[r].tx = radio[r].message /\ radio[r].tx.src = r
        BY AirIs DEF Sends
      <4>2. radio[r].tx = radio[r].message /\ r = s
        BY <2>2, <3>3, <4>1
      <4>3. radio[r].message = NoFrame \/ radio[r].message.id = radio[r].message_id
        BY DEF OwnInv, Own
      <4>4. radio[r].message # NoFrame
        BY <2>2, <3>3, <4>1, <4>2, NoneAssumption DEF NoFrame
      <4> QED
        BY <2>1, <3>3, <4>1, <4>2, <4>3, <4>4
    <3> QED
      BY <3>1, <3>2, <3>3
  <2> QED
    BY <2>1, <2>2
<1>5. ASSUME NEW q \in Radios PROVE Behind(radio', q)
  BY <1>1, <1>2, <1>4 DEF Behind
<1> QED
  BY <1>3, <1>5 DEF LogInv

LEMMA LogInvNext ==
    ASSUME OwnInv(TRUE), IdInv, LogInv, IdsLeft, [Next]_vars,
           [\A q \in Radios : StaysPeer(radio'[q], radio[q])]_radio
    PROVE  LogInv'
<1>1. \/ radio' = radio /\ scenario' = scenario
      \/ \E r \in Radios : MoveOf(r, TRUE) \/ Sends(r)
  BY StepIs
<1>2. CASE radio' = radio
  BY <1>2 DEF LogInv
<1>3. \A q \in Radios : StaysPeer(radio'[q], radio[q])
  <2>1. ASSUME radio' = radio, NEW q \in Radios PROVE StaysPeer(radio'[q], radio[q])
    BY <2>1 DEF StaysPeer
  <2> QED
    BY <2>1
<1> QED
  BY <1>1, <1>2, <1>3, LogInvMove, LogInvSends

LEMMA LogInvGives == ASSUME OwnInv(TRUE), LogInv PROVE AcceptedOnceInOrder
<1>1. ASSUME NEW q \in Radios
      PROVE  /\ DOMAIN radio[q].accepted = 1 .. Len(radio[q].accepted)
             /\ \A j, k \in 1 .. Len(radio[q].accepted) :
                  j < k /\ radio[q].accepted[j].src = radio[q].accepted[k].src =>
                     radio[q].accepted[j].id < radio[q].accepted[k].id
  <2>1. radio[q].accepted \in Seq(Frames)
    BY DEF OwnInv, Own
  <2> QED
    BY <2>1, LenProperties DEF LogInv, Logged
<1> QED
  BY <1>1 DEF AcceptedOnceInOrder

\* As long as no message id comes round and the slots in use keep their peers
\* (none is removed, or moved into the hole of another), a radio takes every
\* message of a peer once and in the order of sending (the message_id of the
\* peer's slot), however often messages are sent again, late or out of turn.
THEOREM AcceptedInOrder == Spec /\ []IdsLeft /\ PeersStay => []AcceptedOnceInOrder
<1>1. Init => OwnInv(TRUE) /\ IdInv /\ LogInv
  BY OwnInvInit, IdInvInit, LogInvInit
<1>2. OwnInv(TRUE) /\ IdInv /\ LogInv /\ IdsLeft /\ [Next]_vars
      /\ [\A q \in Radios : StaysPeer(radio'[q], radio[q])]_radio
        => (OwnInv(TRUE) /\ IdInv /\ LogInv)'
  BY OwnInvNext, IdInvNext, LogInvNext
<1>3. OwnInv(TRUE) /\ LogInv => AcceptedOnceInOrder
  BY LogInvGives
<1> QED
  BY <1>1, <1>2, <1>3, PTL DEF Spec, PeersStay

==============================================================================
