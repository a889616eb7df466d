---------------------------- MODULE StoreProofs -----------------------------
(***************************************************************************)
(* What a reset makes of what the EEPROM keeps, wherever the save was cut  *)
(* short: of the list of peers, whatever ids there are and however long it *)
(* is, and, in the second part, of the configuration of the application.   *)
(*                                                                         *)
(* A record is judged by its copies: two that agree outvote the third.     *)
(* Of a record that is being rewritten at most one copy is neither the old *)
(* id nor the new one, and the records are rewritten in the order in which *)
(* the list was condensed, so a device that moved is stored in its new     *)
(* place before its old one is touched.                                    *)
(***************************************************************************)
EXTENDS PeerStore, ConfigStore, WellFoundedInduction, SequenceTheorems, TLAPS

Ids == Words \X Words
Records == [Positions -> Words]

-----------------------------------------------------------------------------
LEMMA LeastNatural ==
    ASSUME NEW T \in SUBSET Nat, T # {}
    PROVE  \E x \in T : \A y \in T : x <= y
<1> DEFINE R == OpToRel(<, Nat)
<1>1. IsWellFoundedOn(R, Nat)
    BY NatLessThanWellFounded
<1>2. PICK x \in T : \A y \in T : ~ (<<y, x>> \in R)
    <2> HIDE DEF R
    <2> QED
        BY <1>1, WFMin
<1>3. \A y \in T : ~ (y < x)
    BY <1>2 DEF OpToRel
<1> QED
    BY <1>3

LEMMA MinOfNaturals ==
    ASSUME NEW T \in SUBSET Nat, T # {}
    PROVE  Min(T) \in T /\ \A y \in T : Min(T) <= y
BY LeastNatural DEF Min

-----------------------------------------------------------------------------
(***************************************************************************)
(* Records and their copies.                                               *)
(***************************************************************************)
LEMMA InvertTwice ==
    ASSUME NEW w \in Words
    PROVE  Invert(w) \in Words /\ Invert(Invert(w)) = w
BY SizeAssumption DEF Words, Invert

LEMMA StoredTwice ==
    ASSUME NEW p \in Positions, NEW w \in Words
    PROVE  Stored(p, w) \in Words /\ Stored(p, Stored(p, w)) = w
BY InvertTwice DEF Stored

LEMMA EncodeTyped ==
    ASSUME NEW id \in Ids
    PROVE  /\ Encode(id) \in Records
           /\ \A p \in Positions : Encode(id)[p] = Stored(p, IF p \in {0, 2, 4} THEN id[1] ELSE id[2])
<1>1. \A p \in Positions : id[1 + (p % 2)] = IF p \in {0, 2, 4} THEN id[1] ELSE id[2]
    BY DEF Positions
<1>2. id[1] \in Words /\ id[2] \in Words
    BY DEF Ids
<1>3. Encode(id) = [p \in Positions |-> Stored(p, IF p \in {0, 2, 4} THEN id[1] ELSE id[2])]
    BY <1>1 DEF Encode
<1> QED
    BY <1>2, <1>3, StoredTwice DEF Records

\* A word of a copy.
LEMMA CopyWords ==
    ASSUME NEW r \in Records, NEW c \in {0, 1, 2}
    PROVE  /\ Copy(r, c) \in Ids
           /\ Copy(r, c)[1] = Stored(2 * c, r[2 * c])
           /\ Copy(r, c)[2] = Stored(2 * c + 1, r[2 * c + 1])
<1>1. 2 * c \in Positions /\ 2 * c + 1 \in Positions
    BY DEF Positions
<1>2. r[2 * c] \in Words /\ r[2 * c + 1] \in Words
    BY <1>1 DEF Records
<1>3. Stored(2 * c, r[2 * c]) \in Words /\ Stored(2 * c + 1, r[2 * c + 1]) \in Words
    BY <1>1, <1>2, StoredTwice
<1> QED
    BY <1>3 DEF Copy, Ids

\* A copy is an id when both its words are.
LEMMA CopyIs ==
    ASSUME NEW r \in Records, NEW c \in {0, 1, 2}, NEW id \in Ids
    PROVE  Copy(r, c) = id <=> r[2 * c] = Encode(id)[2 * c] /\ r[2 * c + 1] = Encode(id)[2 * c + 1]
<1>1. 2 * c \in Positions /\ 2 * c + 1 \in Positions /\ 2 * c \in {0, 2, 4} /\ 2 * c + 1 \notin {0, 2, 4}
    BY DEF Positions
<1>2. r[2 * c] \in Words /\ r[2 * c + 1] \in Words
    BY <1>1 DEF Records
<1>3. id[1] \in Words /\ id[2] \in Words /\ id = <<id[1], id[2]>>
    BY DEF Ids
<1>4. Encode(id)[2 * c] = Stored(2 * c, id[1]) /\ Encode(id)[2 * c + 1] = Stored(2 * c + 1, id[2])
    BY <1>1, EncodeTyped
<1>5. Stored(2 * c, r[2 * c]) = id[1] <=> r[2 * c] = Stored(2 * c, id[1])
    BY <1>1, <1>2, <1>3, StoredTwice
<1>6. Stored(2 * c + 1, r[2 * c + 1]) = id[2] <=> r[2 * c + 1] = Stored(2 * c + 1, id[2])
    BY <1>1, <1>2, <1>3, StoredTwice
<1>7. Copy(r, c) = id <=> Stored(2 * c, r[2 * c]) = id[1] /\ Stored(2 * c + 1, r[2 * c + 1]) = id[2]
    BY <1>3 DEF Copy
<1> QED
    BY <1>4, <1>5, <1>6, <1>7

\* An id wins if two copies hold it, and only then.
Agreed(r, id) == \E c, d \in {0, 1, 2} : c # d /\ Copy(r, c) = id /\ Copy(r, d) = id

LEMMA VoteIsMajority ==
    ASSUME NEW r \in Records
    PROVE  /\ Vote(r) \in Ids
           /\ Vote(r) # Zero => Agreed(r, Vote(r))
           /\ \A id \in Ids : Agreed(r, id) => Vote(r) = id
<1>1. Copy(r, 0) \in Ids /\ Copy(r, 1) \in Ids /\ Copy(r, 2) \in Ids
    BY CopyWords
<1>2. Zero \in Ids
    BY SizeAssumption DEF Zero, Ids, Words
<1>3. Vote(r) \in Ids
    BY <1>1, <1>2 DEF Vote
<1>4. Vote(r) # Zero => Agreed(r, Vote(r))
    BY DEF Vote, Outvoted, Agreed
<1>5. ASSUME NEW id \in Ids, Agreed(r, id) PROVE Vote(r) = id
    BY <1>5 DEF Vote, Outvoted, Agreed
<1> QED
    BY <1>3, <1>4, <1>5

LEMMA VoteOfEncoded ==
    ASSUME NEW id \in Ids
    PROVE  Vote(Encode(id)) = id
<1>1. Encode(id) \in Records
    BY EncodeTyped
<1>2. Copy(Encode(id), 0) = id /\ Copy(Encode(id), 1) = id
    BY <1>1, CopyIs
<1>3. Agreed(Encode(id), id)
    BY <1>2 DEF Agreed
<1> QED
    BY <1>1, <1>3, VoteIsMajority

\* A word of an id written over a record of that id changes nothing, whether it takes or not.
LEMMA VoteKept ==
    ASSUME NEW r \in Records, NEW s \in Records, NEW id \in Known, Vote(r) = id,
           \A p \in Positions : s[p] = r[p] \/ s[p] = Encode(id)[p]
    PROVE  Vote(s) = id
<1>1. id \in Ids /\ id # Zero
    BY DEF Known, Ids
<1>2. ASSUME NEW c \in {0, 1, 2}, Copy(r, c) = id PROVE Copy(s, c) = id
    <2>1. r[2 * c] = Encode(id)[2 * c] /\ r[2 * c + 1] = Encode(id)[2 * c + 1]
        BY <1>1, <1>2, CopyIs
    <2>2. 2 * c \in Positions /\ 2 * c + 1 \in Positions
        BY DEF Positions
    <2>3. s[2 * c] = Encode(id)[2 * c] /\ s[2 * c + 1] = Encode(id)[2 * c + 1]
        BY <2>1, <2>2
    <2> QED
        BY <1>1, <2>3, CopyIs
<1>3. Agreed(r, id)
    BY <1>1, VoteIsMajority
<1>4. Agreed(s, id)
    BY <1>2, <1>3 DEF Agreed
<1> QED
    BY <1>1, <1>4, VoteIsMajority

-----------------------------------------------------------------------------
(***************************************************************************)
(* The list that is loaded.                                                *)
(***************************************************************************)
\* What follows a list l of what came before the record r.
Taken(l, r) == IF Vote(r) = Zero THEN l ELSE Append(l, Vote(r))

\* The loop ends: there is a function that its definition describes.
LEMMA FoundUnfolds ==
    Found = [n \in 0 .. MAX_DEVICES |-> IF n = 0 THEN <<>> ELSE Taken(Found[n - 1], records[n - 1])]
<1> DEFINE Step(f, n) == IF n = 0 THEN <<>> ELSE Taken(f[n - 1], records[n - 1])
           Good(m) == \E f : f = [n \in 0 .. m |-> Step(f, n)]
           Bad == {m \in Nat : ~ Good(m)}
<1>1. Good(0)
    <2> DEFINE f == [n \in 0 .. 0 |-> <<>>]
    <2>1. f = [n \in 0 .. 0 |-> Step(f, n)]
        OBVIOUS
    <2> QED
        BY <2>1
<1>2. ASSUME NEW m \in Nat, m # 0, Good(m - 1) PROVE Good(m)
    <2>1. PICK f : f = [n \in 0 .. m - 1 |-> Step(f, n)]
        BY <1>2
    <2> DEFINE g == [n \in 0 .. m |-> IF n = m THEN Taken(f[m - 1], records[m - 1]) ELSE f[n]]
    <2>2. \A n \in 0 .. m : g[n] = Step(g, n)
        <3>1. TAKE n \in 0 .. m
        <3>2. CASE n = m
            <4>1. g[m - 1] = f[m - 1]
                BY <1>2
            <4> QED
                BY <1>2, <3>2, <4>1
        <3>3. CASE n # m /\ n # 0
            <4>1. n \in 0 .. m - 1 /\ n - 1 \in 0 .. m - 1
                BY <3>3
            <4>2. g[n] = f[n] /\ g[n - 1] = f[n - 1]
                BY <4>1
            <4>3. f[n] = Taken(f[n - 1], records[n - 1])
                BY <2>1, <3>3, <4>1
            <4> QED
                BY <3>3, <4>2, <4>3
        <3>4. CASE n = 0 /\ n # m
            <4>1. f[n] = <<>>
                BY <2>1, <1>2, <3>4
            <4> QED
                BY <3>4, <4>1
        <3> QED
            BY <3>2, <3>3, <3>4
    <2>3. g = [n \in 0 .. m |-> Step(g, n)]
        <3> DEFINE h == [n \in 0 .. m |-> Step(g, n)]
        <3>1. \A n \in 0 .. m : g[n] = h[n]
            BY <2>2
        <3> QED
            BY <3>1
    <2> QED
        BY <2>3
<1>3. Bad = {}
    <2> SUFFICES ASSUME Bad # {} PROVE FALSE
        OBVIOUS
    <2>1. PICK m \in Bad : \A k \in Bad : m <= k
        BY LeastNatural
    <2>2. m \in Nat /\ m # 0 /\ ~ Good(m)
        BY <1>1, <2>1
    <2>3. m - 1 \in Nat /\ m - 1 \notin Bad
        BY <2>1, <2>2
    <2> HIDE DEF Good
    <2> QED
        BY <1>2, <2>2, <2>3
<1>4. \E f : f = [n \in 0 .. MAX_DEVICES |-> Step(f, n)]
    BY <1>3, SizeAssumption
<1>5. Found = CHOOSE f : f = [n \in 0 .. MAX_DEVICES |-> Step(f, n)]
    BY DEF Found, Taken
<1> QED
    BY <1>4, <1>5

\* Each device of the list was read from a record, at its own place or behind
\* it, and no record that has an id is passed over.
Gathered(n) ==
    /\ Found[n] \in Seq(Known) /\ Len(Found[n]) <= n
    /\ \A k \in 1 .. Len(Found[n]) :
          \E p \in 0 .. n - 1 : k <= p + 1 /\ Found[n][k] = Vote(records[p])
    /\ \A p \in 0 .. n - 1 :
          Vote(records[p]) # Zero => \E k \in 1 .. Len(Found[n]) : Found[n][k] = Vote(records[p])

LEMMA FoundGathers ==
    ASSUME records \in [Slots -> Records]
    PROVE  \A n \in 0 .. MAX_DEVICES : Gathered(n)
<1> DEFINE Bad == {n \in Nat : n <= MAX_DEVICES /\ ~ Gathered(n)}
<1>1. Gathered(0)
    <2>1. Found[0] = <<>>
        BY FoundUnfolds, SizeAssumption
    <2> QED
        BY <2>1 DEF Gathered
<1>2. ASSUME NEW n \in 1 .. MAX_DEVICES, Gathered(n - 1) PROVE Gathered(n)
    <2> DEFINE r == records[n - 1]
               old == Found[n - 1]
    <2>1. n \in Nat /\ n - 1 \in Slots /\ n \in 0 .. MAX_DEVICES
        BY SizeAssumption DEF Slots
    <2>2. Found[n] = Taken(old, r)
        <3>1. n # 0
            OBVIOUS
        <3> QED
            BY FoundUnfolds, <2>1, <3>1
    <2>3. Vote(r) \in Ids
        BY <2>1, VoteIsMajority
    <2>4. old \in Seq(Known) /\ Len(old) <= n - 1 /\ Len(old) \in Nat
        BY <1>2 DEF Gathered
    <2>5. \A k \in 1 .. Len(old) : \E p \in 0 .. n - 2 : k <= p + 1 /\ old[k] = Vote(records[p])
        <3>1. (n - 1) - 1 = n - 2
            BY <2>1
        <3> QED
            BY <1>2, <3>1 DEF Gathered
    <2>6. \A p \in 0 .. n - 2 : Vote(records[p]) # Zero => \E k \in 1 .. Len(old) : old[k] = Vote(records[p])
        <3>1. (n - 1) - 1 = n - 2
            BY <2>1
        <3> QED
            BY <1>2, <3>1 DEF Gathered
    <2>7. CASE Vote(r) = Zero
        <3>1. Found[n] = old
            BY <2>2, <2>7 DEF Taken
        <3>2. \A p \in 0 .. n - 1 : p \in 0 .. n - 2 \/ p = n - 1
            BY <2>1
        <3>3. \A k \in 1 .. Len(old) : \E p \in 0 .. n - 1 : k <= p + 1 /\ old[k] = Vote(records[p])
            <4>1. 0 .. n - 2 \subseteq 0 .. n - 1
                BY <2>1
            <4> QED
                BY <2>5, <4>1
        <3>4. \A p \in 0 .. n - 1 :
                 Vote(records[p]) # Zero => \E k \in 1 .. Len(old) : old[k] = Vote(records[p])
            BY <2>6, <2>7, <3>2
        <3>5. Len(old) <= n
            BY <2>1, <2>4
        <3> HIDE DEF old, r
        <3> QED
            BY <2>4, <3>1, <3>3, <3>4, <3>5 DEF Gathered
    <2>8. CASE Vote(r) # Zero
        <3> DEFINE new == Append(old, Vote(r))
        <3>1. Found[n] = new
            BY <2>2, <2>8 DEF Taken
        <3>2. Vote(r) \in Known
            BY <2>3, <2>8 DEF Known, Ids
        <3>3. new \in Seq(Known) /\ Len(new) = Len(old) + 1
              /\ (\A k \in 1 .. Len(old) : new[k] = old[k]) /\ new[Len(old) + 1] = Vote(r)
            <4> HIDE DEF old, r
            <4> QED
                BY <2>4, <3>2
        <3>4. Len(new) <= n
            BY <2>1, <2>4, <3>3
        <3>5. \A k \in 1 .. Len(new) : \E p \in 0 .. n - 1 : k <= p + 1 /\ new[k] = Vote(records[p])
            <4>1. TAKE k \in 1 .. Len(new)
            <4>2. CASE k \in 1 .. Len(old)
                <5>1. PICK p \in 0 .. n - 2 : k <= p + 1 /\ old[k] = Vote(records[p])
                    BY <2>5, <4>2
                <5>2. p \in 0 .. n - 1
                    BY <2>1
                <5> QED
                    BY <3>3, <4>2, <5>1, <5>2
            <4>3. CASE k = Len(old) + 1
                <5>1. n - 1 \in 0 .. n - 1 /\ k <= (n - 1) + 1
                    BY <2>1, <2>4, <4>3
                <5> QED
                    BY <3>3, <4>3, <5>1
            <4>4. k \in 1 .. Len(old) \/ k = Len(old) + 1
                BY <2>4, <3>3
            <4> QED
                BY <4>2, <4>3, <4>4
        <3>6. \A p \in 0 .. n - 1 :
                 Vote(records[p]) # Zero => \E k \in 1 .. Len(new) : new[k] = Vote(records[p])
            <4>1. TAKE p \in 0 .. n - 1
            <4>2. CASE p = n - 1
                <5>1. Len(old) + 1 \in 1 .. Len(new)
                    BY <2>4, <3>3
                <5> QED
                    BY <3>3, <4>2, <5>1
            <4>3. CASE p \in 0 .. n - 2
                <5>1. 1 .. Len(old) \subseteq 1 .. Len(new)
                    BY <2>4, <3>3
                <5> QED
                    BY <2>6, <3>3, <4>3, <5>1
            <4>4. p = n - 1 \/ p \in 0 .. n - 2
                BY <2>1
            <4> QED
                BY <4>2, <4>3, <4>4
        <3> HIDE DEF new
        <3> QED
            BY <3>1, <3>3, <3>4, <3>5, <3>6 DEF Gathered
    <2> QED
        BY <2>7, <2>8
<1>3. Bad = {}
    <2> SUFFICES ASSUME Bad # {} PROVE FALSE
        OBVIOUS
    <2>1. PICK n \in Bad : \A k \in Bad : n <= k
        BY LeastNatural
    <2>2. n \in Nat /\ n # 0 /\ n <= MAX_DEVICES /\ ~ Gathered(n)
        BY <1>1, <2>1
    <2>3. n \in 1 .. MAX_DEVICES /\ n - 1 \in Nat /\ n - 1 <= MAX_DEVICES
        BY <2>2, SizeAssumption
    <2>4. n - 1 \notin Bad
        BY <2>1, <2>2
    <2> QED
        BY <1>2, <2>2, <2>3, <2>4
<1> QED
    BY <1>3, SizeAssumption

LEMMA LoadedGathers ==
    ASSUME records \in [Slots -> Records], length \in 0 .. MAX_DEVICES - 1
    PROVE  Loaded = Found[length] /\ Gathered(length)
<1>1. Min({length, MAX_DEVICES}) = length
    <2>1. {length, MAX_DEVICES} \in SUBSET Nat /\ {length, MAX_DEVICES} # {}
        BY SizeAssumption
    <2>2. length <= MAX_DEVICES /\ length # MAX_DEVICES
        BY SizeAssumption
    <2> QED
        BY <2>1, <2>2, MinOfNaturals, SizeAssumption
<1>2. length \in 0 .. MAX_DEVICES
    BY SizeAssumption
<1> QED
    BY <1>1, <1>2, FoundGathers DEF Loaded

-----------------------------------------------------------------------------
(***************************************************************************)
(* The invariant.                                                          *)
(***************************************************************************)
\* Whoever was in the list all the time is stored, at his place in the list or behind it.
Covered ==
    \A q \in 1 .. Len(peer_devices) : peer_devices[q] \in held =>
        \E p \in Slots : q <= p + 1 /\ p < length /\ Vote(records[p]) = peer_devices[q]

HeldListed == held \subseteq ToSet(peer_devices)

\* What the save has passed is stored.
Rewritten ==
    pc = "records" =>
        /\ slot <= Len(peer_devices)
        /\ \A i \in 0 .. slot - 1 : records[i] = Encode(peer_devices[i + 1])

\* A record between saves: that of an id, or after a reset of a save cut short, S
\* being the ids that it may hold.
Mix(a, r, v) == [p \in Positions |-> IF p < v THEN Encode(a)[p] ELSE r[p]]
Single(r, S) == \E id \in S : r = Encode(id)
Torn(r, S) == \E a, b \in S, v \in 0 .. 6 : r = Mix(a, Encode(b), v)
Base(r, S, n) == IF n = 0 THEN Single(r, S) ELSE Torn(r, S)

\* A record of which the words before v are rewritten.
Over(r, a, v, S, n) == \E b \in Records : Base(b, S, n) /\ r = Mix(a, b, v)

\* While every word takes, and with one reset, all that is stored comes from ids seen.
Traced ==
    bad_writes = 0 /\ resets <= 1 =>
        /\ ToSet(peer_devices) \subseteq seen
        /\ \A i \in Slots : i < length =>
              IF Saving /\ i = slot THEN Over(records[i], peer_devices[slot + 1], word, seen, resets)
              ELSE Base(records[i], seen, resets)

IInv == TypeOK /\ HeldListed /\ Covered /\ Rewritten /\ Traced

-----------------------------------------------------------------------------
LEMMA IdsKnown == IDs \subseteq Known /\ Known \subseteq Ids /\ Zero \notin Known
BY IdsAssumption DEF Known, Ids

LEMMA MixTyped ==
    ASSUME NEW a \in Ids, NEW r \in Records, NEW v \in 0 .. 6
    PROVE  /\ Mix(a, r, v) \in Records
           /\ \A p \in Positions : Mix(a, r, v)[p] = IF p < v THEN Encode(a)[p] ELSE r[p]
BY EncodeTyped DEF Mix, Records

LEMMA BaseMonotone ==
    ASSUME NEW S, NEW T, S \subseteq T, NEW n, NEW r, Base(r, S, n)
    PROVE  Base(r, T, n)
BY DEF Base, Single, Torn

LEMMA SingleIsTorn ==
    ASSUME NEW S \in SUBSET Known, NEW r, Single(r, S)
    PROVE  Torn(r, S)
<1>1. PICK id \in S : r = Encode(id)
    BY DEF Single
<1>2. r \in Records
    BY <1>1, EncodeTyped, IdsKnown
<1>3. r = Mix(id, Encode(id), 0)
    BY <1>1, <1>2 DEF Mix, Records, Positions
<1> QED
    BY <1>3 DEF Torn

LEMMA SingleIsBase ==
    ASSUME NEW S \in SUBSET Known, NEW n, NEW id \in S
    PROVE  Base(Encode(id), S, n)
BY SingleIsTorn DEF Base, Single

LEMMA BaseTyped ==
    ASSUME NEW S \in SUBSET Known, NEW n, NEW r, Base(r, S, n)
    PROVE  r \in Records
<1>1. Torn(r, S)
    BY SingleIsTorn DEF Base
<1>2. PICK a, b \in S, v \in 0 .. 6 : r = Mix(a, Encode(b), v)
    BY <1>1 DEF Torn
<1>3. a \in Ids /\ b \in Ids
    BY IdsKnown
<1> QED
    BY <1>2, <1>3, EncodeTyped, MixTyped

\* The record of which nothing is rewritten, and that of which all is.
LEMMA OverBounds ==
    ASSUME NEW S \in SUBSET Known, NEW n, NEW a \in Known
    PROVE  /\ \A r : Base(r, S, n) => Over(r, a, 0, S, n)
           /\ \A r : \A v \in 0 .. 6 :
                 Over(r, a, v, S, n) /\ (\A p \in Positions : p >= v => r[p] = Encode(a)[p])
                 => r = Encode(a)
<1>1. ASSUME NEW r, Base(r, S, n) PROVE Over(r, a, 0, S, n)
    <2>1. r \in Records
        BY <1>1, BaseTyped
    <2>2. r = Mix(a, r, 0)
        BY <2>1 DEF Mix, Records, Positions
    <2> QED
        BY <1>1, <2>1, <2>2 DEF Over
<1>2. ASSUME NEW r, NEW v \in 0 .. 6, Over(r, a, v, S, n), \A p \in Positions : p >= v => r[p] = Encode(a)[p]
      PROVE  r = Encode(a)
    <2>1. PICK b \in Records : r = Mix(a, b, v)
        BY <1>2 DEF Over
    <2>2. \A p \in Positions : r[p] = IF p < v THEN Encode(a)[p] ELSE b[p]
        BY <2>1 DEF Mix
    <2>3. \A p \in Positions : r[p] = Encode(a)[p]
        BY <1>2, <2>2 DEF Positions
    <2>4. r = [p \in Positions |-> r[p]]
        BY <2>1 DEF Mix
    <2>5. Encode(a) = [p \in Positions |-> Encode(a)[p]]
        BY DEF Encode
    <2> QED
        BY <2>3, <2>4, <2>5
<1> QED
    BY <1>1, <1>2

-----------------------------------------------------------------------------
(***************************************************************************)
(* At most one copy of a record that is rewritten twice over is mixed of   *)
(* two ids, or two are, and these differ or are the id between them.       *)
(***************************************************************************)
LEMMA VoteOfThree ==
    ASSUME NEW a \in Known, NEW b \in Known, NEW c \in Known, NEW w \in 0 .. 6, NEW v \in 0 .. 6
    PROVE  Vote(Mix(a, Mix(b, Encode(c), v), w)) \in {a, b, c, Zero}
<1> DEFINE r == Mix(a, Mix(b, Encode(c), v), w)
           Word(q) == IF q < w THEN a ELSE IF q < v THEN b ELSE c
<1>1. a \in Ids /\ b \in Ids /\ c \in Ids
    BY IdsKnown
<1>2. Encode(c) \in Records /\ Mix(b, Encode(c), v) \in Records /\ r \in Records
    BY <1>1, EncodeTyped, MixTyped
<1>3. \A p \in Positions : r[p] = Encode(Word(p))[p]
    <2>1. TAKE p \in Positions
    <2>2. r[p] = IF p < w THEN Encode(a)[p] ELSE Mix(b, Encode(c), v)[p]
        BY <1>1, <1>2, MixTyped
    <2>3. Mix(b, Encode(c), v)[p] = IF p < v THEN Encode(b)[p] ELSE Encode(c)[p]
        BY <1>1, <1>2, MixTyped
    <2> QED
        BY <2>2, <2>3
<1>4. \A k \in {0, 1, 2} : Copy(r, k) = <<Word(2 * k)[1], Word(2 * k + 1)[2]>>
    <2>1. TAKE k \in {0, 1, 2}
    <2>2. 2 * k \in Positions /\ 2 * k + 1 \in Positions /\ 2 * k \in {0, 2, 4} /\ 2 * k + 1 \notin {0, 2, 4}
        BY DEF Positions
    <2>3. \A p \in Positions : Word(p) \in Ids
        BY <1>1
    <2>4. /\ r[2 * k] = Stored(2 * k, Word(2 * k)[1])
          /\ r[2 * k + 1] = Stored(2 * k + 1, Word(2 * k + 1)[2])
        <3> HIDE DEF Word, r
        <3> QED
            BY <1>3, <2>2, <2>3, EncodeTyped
    <2>5. Word(2 * k)[1] \in Words /\ Word(2 * k + 1)[2] \in Words
        <3> HIDE DEF Word
        <3> QED
            BY <2>2, <2>3 DEF Ids
    <2> HIDE DEF Word, r
    <2> QED
        BY <2>2, <2>4, <2>5, StoredTwice DEF Copy
<1>5. /\ Copy(r, 0) = <<Word(0)[1], Word(1)[2]>>
      /\ Copy(r, 1) = <<Word(2)[1], Word(3)[2]>>
      /\ Copy(r, 2) = <<Word(4)[1], Word(5)[2]>>
    <2> HIDE DEF r, Word
    <2> QED
        BY <1>4
<1>6. a = <<a[1], a[2]>> /\ b = <<b[1], b[2]>> /\ c = <<c[1], c[2]>>
    BY <1>1 DEF Ids
<1>7. ASSUME NEW k \in {0, 1, 2}, NEW l \in {0, 1, 2}, k < l, Copy(r, k) = Copy(r, l)
      PROVE  Copy(r, k) \in {a, b, c}
    <2>1. CASE k = 0 /\ l = 1
        <3>1. Word(0)[1] = Word(2)[1] /\ Word(1)[2] = Word(3)[2]
            BY <1>5, <1>7, <2>1
        <3> QED
            BY <1>5, <1>6, <2>1, <3>1
    <2>2. CASE k = 0 /\ l = 2
        <3>1. Word(0)[1] = Word(4)[1] /\ Word(1)[2] = Word(5)[2]
            BY <1>5, <1>7, <2>2
        <3> QED
            BY <1>5, <1>6, <2>2, <3>1
    <2>3. CASE k = 1 /\ l = 2
        <3>1. Word(2)[1] = Word(4)[1] /\ Word(3)[2] = Word(5)[2]
            BY <1>5, <1>7, <2>3
        <3> QED
            BY <1>5, <1>6, <2>3, <3>1
    <2> QED
        BY <1>7, <2>1, <2>2, <2>3
<1>8. Vote(r) # Zero => Agreed(r, Vote(r))
    BY <1>2, VoteIsMajority
<1>9. ASSUME Agreed(r, Vote(r)) PROVE Vote(r) \in {a, b, c}
    <2>1. PICK k, l \in {0, 1, 2} : k # l /\ Copy(r, k) = Vote(r) /\ Copy(r, l) = Vote(r)
        BY <1>9 DEF Agreed
    <2>2. k < l \/ l < k
        BY <2>1
    <2> QED
        BY <1>7, <2>1, <2>2
<1> QED
    BY <1>8, <1>9

-----------------------------------------------------------------------------
(***************************************************************************)
(* The invariant holds at first, and shows that a reset does no harm.      *)
(***************************************************************************)
LEMMA InitHolds == Init => IInv
<1>1. SUFFICES ASSUME Init PROVE IInv
    OBVIOUS
<1>2. peer_devices \in Seq(IDs) /\ Len(peer_devices) <= MAX_DEVICES - 1
    <2>1. PICK m \in 0 .. MAX_DEVICES - 1 : peer_devices \in [1 .. m -> IDs]
        BY <1>1 DEF Init, Lists, BoundedSeq, SeqOf
    <2>2. Len(peer_devices) = m
        BY <2>1
    <2> QED
        BY <2>1, <2>2
<1>3. peer_devices \in Seq(Known)
    BY <1>2, IdsKnown
<1>4. /\ \A i \in Slots : i < Len(peer_devices) =>
             /\ peer_devices[i + 1] \in Known
             /\ records[i] = Encode(peer_devices[i + 1])
      /\ \A i \in Slots : i >= Len(peer_devices) => records[i] = [p \in Positions |-> 0]
    BY <1>1, <1>3 DEF Init, Slots
<1>5. 0 \in Words
    BY SizeAssumption DEF Words
<1>6. records \in [Slots -> Records]
    <2>1. records = [i \in Slots |-> records[i]]
        BY <1>1 DEF Init
    <2>2. \A i \in Slots : records[i] \in Records
        <3>1. TAKE i \in Slots
        <3>2. i < Len(peer_devices) \/ i >= Len(peer_devices)
            BY <1>3 DEF Slots
        <3> QED
            BY <1>4, <1>5, <3>2, EncodeTyped, IdsKnown DEF Records
    <2> QED
        BY <2>1, <2>2
<1>7. ToSet(peer_devices) \subseteq Known
    BY <1>3 DEF ToSet
<1>8. TypeOK
    <2>1. length \in 0 .. MAX_DEVICES - 1
        BY <1>1, <1>2, <1>3 DEF Init
    <2>2. 0 \in 0 .. MAX_DEVICES - 1 /\ Len(peer_devices) < MAX_DEVICES
        BY <1>2, <1>3, SizeAssumption
    <2>3. 0 \in 0 .. MaxChanges /\ 0 \in 0 .. MaxResets /\ 0 \in 0 .. MaxBadWrites
        BY BoundAssumption
    <2>4. /\ save_peer_devices = FALSE /\ planned = FALSE /\ pc = "idle" /\ slot = 0 /\ word = 0
          /\ changes = 0 /\ resets = 0 /\ bad_writes = 0
          /\ held = ToSet(peer_devices) /\ seen = ToSet(peer_devices)
        BY <1>1 DEF Init
    <2>5. records \in [Slots -> [Positions -> Words]]
        BY <1>6 DEF Records
    <2>6. /\ save_peer_devices \in BOOLEAN /\ planned \in BOOLEAN /\ pc \in {"idle", "records"}
          /\ slot \in 0 .. MAX_DEVICES - 1 /\ word \in 0 .. 6
        <3>1. save_peer_devices \in BOOLEAN /\ planned \in BOOLEAN /\ pc \in {"idle", "records"}
            BY <2>4
        <3>2. 0 \in 0 .. 6
            OBVIOUS
        <3>3. slot \in 0 .. MAX_DEVICES - 1 /\ word \in 0 .. 6
            BY <2>2, <2>4, <3>2
        <3> QED
            BY <3>1, <3>3
    <2>7. changes \in 0 .. MaxChanges /\ resets \in 0 .. MaxResets /\ bad_writes \in 0 .. MaxBadWrites
        BY <2>3, <2>4
    <2>8. held \subseteq Known /\ seen \subseteq Known
        BY <1>7, <2>4
    <2> QED
        BY <1>3, <2>1, <2>2, <2>5, <2>6, <2>7, <2>8 DEF TypeOK
<1>9. HeldListed
    BY <1>1 DEF Init, HeldListed
<1>10. Covered
    <2>1. SUFFICES ASSUME NEW q \in 1 .. Len(peer_devices)
                   PROVE  \E p \in Slots : q <= p + 1 /\ p < length /\ Vote(records[p]) = peer_devices[q]
        BY DEF Covered
    <2>2. q - 1 \in Slots /\ q - 1 < Len(peer_devices) /\ (q - 1) + 1 = q
        BY <1>2, <1>3, SizeAssumption DEF Slots
    <2>3. peer_devices[q] \in Ids /\ records[q - 1] = Encode(peer_devices[q])
        BY <1>4, <2>2, IdsKnown
    <2>4. length = Len(peer_devices)
        BY <1>1 DEF Init
    <2> QED
        BY <2>2, <2>3, <2>4, VoteOfEncoded
<1>11. Rewritten
    BY <1>1 DEF Init, Rewritten
<1>12. Traced
    <2>1. ~ Saving /\ seen = ToSet(peer_devices) /\ length = Len(peer_devices)
        BY <1>1 DEF Init, Saving
    <2>2. ASSUME NEW i \in Slots, i < length PROVE Base(records[i], seen, resets)
        <3>1. peer_devices[i + 1] \in seen
            BY <1>3, <2>1, <2>2 DEF ToSet, Slots
        <3> QED
            BY <1>4, <1>7, <2>1, <2>2, <3>1, SingleIsBase
    <2> QED
        BY <2>1, <2>2 DEF Traced
<1> QED
    BY <1>8, <1>9, <1>10, <1>11, <1>12 DEF IInv

\* Types, as the lemmas want them.
LEMMA Types ==
    ASSUME TypeOK
    PROVE  /\ records \in [Slots -> Records] /\ length \in 0 .. MAX_DEVICES - 1
           /\ peer_devices \in Seq(Known) /\ Len(peer_devices) \in 0 .. MAX_DEVICES - 1
           /\ \A q \in 1 .. Len(peer_devices) : peer_devices[q] \in Known /\ peer_devices[q] \in Ids
           /\ slot \in Nat /\ word \in 0 .. 6 /\ seen \in SUBSET Known /\ resets \in Nat /\ bad_writes \in Nat
<1>1. peer_devices \in Seq(Known) /\ Len(peer_devices) < MAX_DEVICES
    BY DEF TypeOK
<1>2. \A q \in 1 .. Len(peer_devices) : peer_devices[q] \in Known
    BY <1>1
<1>3. Len(peer_devices) \in 0 .. MAX_DEVICES - 1
    BY <1>1, SizeAssumption
<1>4. records \in [Slots -> Records] /\ length \in 0 .. MAX_DEVICES - 1
    BY DEF TypeOK, Records
<1> QED
    BY <1>1, <1>2, <1>3, <1>4, IdsKnown DEF TypeOK

LEMMA LoadedIs ==
    ASSUME TypeOK
    PROVE  /\ Loaded \in Seq(Known) /\ Len(Loaded) \in 0 .. length
           /\ \A k \in 1 .. Len(Loaded) :
                 \E p \in Slots : k <= p + 1 /\ p < length /\ Loaded[k] = Vote(records[p])
           /\ \A p \in Slots : p < length /\ Vote(records[p]) # Zero => Vote(records[p]) \in ToSet(Loaded)
<1>1. length \in 0 .. MAX_DEVICES - 1 /\ \A p : p \in 0 .. length - 1 <=> p \in Slots /\ p < length
    BY Types, SizeAssumption DEF Slots
<1>2. Gathered(length) /\ Loaded = Found[length]
    BY Types, LoadedGathers
<1>3. Loaded \in Seq(Known) /\ Len(Loaded) <= length
    BY <1>2 DEF Gathered
<1>4. \A k \in 1 .. Len(Loaded) :
         \E p \in Slots : k <= p + 1 /\ p < length /\ Loaded[k] = Vote(records[p])
    BY <1>1, <1>2 DEF Gathered
<1>5. \A p \in Slots : p < length /\ Vote(records[p]) # Zero => Vote(records[p]) \in ToSet(Loaded)
    <2>1. ASSUME NEW p \in Slots, p < length, Vote(records[p]) # Zero
          PROVE  \E k \in 1 .. Len(Loaded) : Loaded[k] = Vote(records[p])
        BY <1>1, <1>2, <2>1 DEF Gathered
    <2> QED
        BY <1>3, <2>1 DEF ToSet
<1> QED
    BY <1>1, <1>3, <1>4, <1>5

\* Whoever is held is somewhere in the list, and there he is stored.
LEMMA HeldLoaded == IInv => PeersSurviveReset
<1>1. SUFFICES ASSUME IInv, NEW id \in held PROVE id \in ToSet(Loaded)
    BY DEF PeersSurviveReset
<1>2. TypeOK /\ HeldListed /\ Covered
    BY <1>1 DEF IInv
<1>3. PICK q \in 1 .. Len(peer_devices) : peer_devices[q] = id
    BY <1>1, <1>2, Types DEF HeldListed, ToSet
<1>4. PICK p \in Slots : p < length /\ Vote(records[p]) = id
    BY <1>1, <1>2, <1>3 DEF Covered
<1>5. id # Zero
    BY <1>2, <1>3, Types, IdsKnown
<1> QED
    BY <1>2, <1>4, <1>5, LoadedIs

\* The id of a record, one that is being rewritten too, is one that was seen.
LEMMA VoteSeen ==
    ASSUME IInv, bad_writes = 0, resets <= 1, NEW p \in Slots, p < length
    PROVE  Vote(records[p]) \in seen \cup {Zero}
<1>1. TypeOK /\ ToSet(peer_devices) \subseteq seen /\ seen \in SUBSET Known
    BY Types DEF IInv, Traced
<1>2. ASSUME NEW r, Torn(r, seen) PROVE \E b, c \in seen, v \in 0 .. 6 : r = Mix(b, Encode(c), v)
    BY <1>2 DEF Torn
<1>3. CASE Base(records[p], seen, resets)
    <2>1. Torn(records[p], seen)
        BY <1>1, <1>3, SingleIsTorn DEF Base
    <2>2. PICK b, c \in seen, v \in 0 .. 6 : records[p] = Mix(b, Encode(c), v)
        BY <1>2, <2>1
    <2>3. Mix(b, Mix(b, Encode(c), v), 0) = Mix(b, Encode(c), v)
        BY DEF Mix, Positions
    <2> QED
        BY <1>1, <2>2, <2>3, VoteOfThree
<1>4. CASE Saving /\ p = slot /\ Over(records[p], peer_devices[slot + 1], word, seen, resets)
    <2> DEFINE a == peer_devices[slot + 1]
    <2>1. a \in seen
        BY <1>1, <1>4, Types DEF Saving, ToSet
    <2>2. PICK r \in Records : Base(r, seen, resets) /\ records[p] = Mix(a, r, word)
        BY <1>4 DEF Over
    <2>3. Torn(r, seen)
        BY <1>1, <2>2, SingleIsTorn DEF Base
    <2>4. PICK b, c \in seen, v \in 0 .. 6 : r = Mix(b, Encode(c), v)
        BY <1>2, <2>3
    <2>5. word \in 0 .. 6
        BY <1>1, Types
    <2> HIDE DEF a
    <2> QED
        BY <1>1, <2>1, <2>2, <2>4, <2>5, VoteOfThree
<1> QED
    BY <1>3, <1>4 DEF IInv, Traced

LEMMA LoadedSeen == IInv => NobodyRevived
<1>1. SUFFICES ASSUME IInv, bad_writes = 0, resets <= 1, NEW id \in ToSet(Loaded) PROVE id \in seen
    BY DEF NobodyRevived
<1>2. TypeOK
    BY <1>1 DEF IInv
<1>3. PICK k \in 1 .. Len(Loaded) : id = Loaded[k]
    BY <1>1, <1>2, LoadedIs DEF ToSet
<1>4. PICK p \in Slots : p < length /\ id = Vote(records[p])
    BY <1>2, <1>3, LoadedIs
<1>5. id # Zero
    BY <1>2, <1>3, LoadedIs, IdsKnown
<1> QED
    BY <1>1, <1>4, <1>5, VoteSeen

-----------------------------------------------------------------------------
(***************************************************************************)
(* Every step preserves it.  The list changes only while nothing is saved, *)
(* and nobody who is held moves towards its end.                           *)
(***************************************************************************)
LEMMA ChangePreserves ==
    ASSUME IInv, NEW ids \in Seq(Known), Len(ids) < MAX_DEVICES, Change(ids),
           \A q \in 1 .. Len(ids) : ids[q] \in held =>
               \E k \in 1 .. Len(peer_devices) : q <= k /\ peer_devices[k] = ids[q]
    PROVE  IInv'
<1>1. TypeOK /\ Covered /\ Traced
    BY DEF IInv
<1>2. /\ peer_devices' = ids /\ pc = "idle" /\ pc' = "idle" /\ records' = records /\ length' = length
      /\ held' = held \cap ToSet(ids) /\ seen' = seen \cup ToSet(ids)
      /\ slot' = slot /\ word' = word /\ resets' = resets /\ bad_writes' = bad_writes
    BY DEF Change, eeprom
<1>3. ToSet(ids) \subseteq Known
    BY DEF ToSet
<1>4. TypeOK'
    <2>1. changes' \in 0 .. MaxChanges
        BY <1>1, BoundAssumption DEF Change, TypeOK
    <2>2. save_peer_devices' = TRUE /\ planned' = TRUE
        BY DEF Change
    <2>3. held' \subseteq Known /\ seen' \subseteq Known
        BY <1>1, <1>2, <1>3 DEF TypeOK
    <2> QED
        BY <1>1, <1>2, <2>1, <2>2, <2>3 DEF TypeOK
<1>5. HeldListed'
    BY <1>2 DEF HeldListed
<1>6. Covered'
    <2>1. SUFFICES ASSUME NEW q \in 1 .. Len(ids), ids[q] \in held
                   PROVE  \E p \in Slots : q <= p + 1 /\ p < length /\ Vote(records[p]) = ids[q]
        BY <1>2 DEF Covered
    <2>2. PICK k \in 1 .. Len(peer_devices) : q <= k /\ peer_devices[k] = ids[q]
        BY <2>1
    <2>3. PICK p \in Slots : k <= p + 1 /\ p < length /\ Vote(records[p]) = ids[q]
        BY <1>1, <2>1, <2>2 DEF Covered
    <2>4. q <= p + 1
        BY <2>2, <2>3, Types, <1>1 DEF Slots
    <2> QED
        BY <2>3, <2>4
<1>7. Rewritten'
    BY <1>2 DEF Rewritten
<1>8. Traced'
    <2>1. ~ Saving /\ ~ Saving'
        BY <1>2 DEF Saving
    <2>2. ASSUME bad_writes = 0, resets <= 1, NEW i \in Slots, i < length
          PROVE  Base(records[i], seen', resets)
        <3>1. Base(records[i], seen, resets)
            BY <1>1, <2>1, <2>2 DEF Traced
        <3> QED
            BY <1>2, <3>1, BaseMonotone
    <2>3. ToSet(ids) \subseteq seen'
        BY <1>2
    <2> QED
        BY <1>2, <2>1, <2>2, <2>3 DEF Traced
<1> QED
    BY <1>4, <1>5, <1>6, <1>7, <1>8 DEF IInv

LEMMA PeerDeviceAddPreserves ==
    ASSUME IInv, NEW id \in IDs, PeerDeviceAdd(id)
    PROVE  IInv'
<1> DEFINE ids == Append(peer_devices, id)
<1>1. TypeOK /\ HeldListed
    BY DEF IInv
<1>2. peer_devices \in Seq(Known) /\ Len(peer_devices) \in 0 .. MAX_DEVICES - 1 /\ id \in Known
    BY <1>1, Types, IdsKnown
<1>3. /\ ids \in Seq(Known) /\ Len(ids) = Len(peer_devices) + 1
      /\ \A q \in 1 .. Len(peer_devices) : ids[q] = peer_devices[q]
      /\ ids[Len(peer_devices) + 1] = id
    BY <1>2
<1>4. Len(ids) < MAX_DEVICES
    <2>1. Len(peer_devices) + 1 # MAX_DEVICES
        BY DEF PeerDeviceAdd
    <2> QED
        BY <1>2, <1>3, <2>1, SizeAssumption
<1>5. id \notin held
    <2>1. ~ \E q \in 1 .. Len(peer_devices) : peer_devices[q] = id
        BY DEF PeerDeviceAdd, Contains
    <2> QED
        BY <1>1, <1>2, <2>1 DEF HeldListed, ToSet
<1>6. ASSUME NEW q \in 1 .. Len(ids), ids[q] \in held
      PROVE  \E k \in 1 .. Len(peer_devices) : q <= k /\ peer_devices[k] = ids[q]
    <2>1. q \in 1 .. Len(peer_devices) \/ q = Len(peer_devices) + 1
        BY <1>2, <1>3
    <2> QED
        BY <1>3, <1>5, <1>6, <2>1
<1>7. Change(ids)
    BY DEF PeerDeviceAdd
<1> HIDE DEF ids
<1> QED
    BY <1>3, <1>4, <1>6, <1>7, ChangePreserves

LEMMA PeerDeviceRemovePreserves ==
    ASSUME IInv, NEW id \in IDs, PeerDeviceRemove(id)
    PROVE  IInv'
<1> DEFINE places == {k \in 1 .. Len(peer_devices) : peer_devices[k] = id}
           i == Min(places)
           ids == Front(ReplaceAt(peer_devices, i, Last(peer_devices)))
<1>1. TypeOK
    BY DEF IInv
<1>2. peer_devices \in Seq(Known) /\ Len(peer_devices) \in 0 .. MAX_DEVICES - 1
    BY <1>1, Types
<1>3. places # {} /\ places \in SUBSET Nat
    BY DEF PeerDeviceRemove, Contains
<1>4. i \in 1 .. Len(peer_devices)
    <2> HIDE DEF places
    <2>1. i \in places
        BY <1>3, MinOfNaturals
    <2> USE DEF places
    <2> HIDE DEF i
    <2> QED
        BY <2>1
<1>5. Change(ids)
    BY <1>3 DEF PeerDeviceRemove, SelectInSeq
<1>6. /\ ids \in Seq(Known) /\ Len(ids) = Len(peer_devices) - 1
      /\ \A q \in 1 .. Len(ids) :
            ids[q] = IF q = i THEN peer_devices[Len(peer_devices)] ELSE peer_devices[q]
    <2> DEFINE s == ReplaceAt(peer_devices, i, Last(peer_devices))
    <2> HIDE DEF i
    <2>1. Last(peer_devices) = peer_devices[Len(peer_devices)] /\ Last(peer_devices) \in Known
        BY <1>2, <1>4 DEF Last
    <2>2. /\ s \in Seq(Known) /\ Len(s) = Len(peer_devices)
          /\ \A q \in 1 .. Len(s) : s[q] = IF q = i THEN Last(peer_devices) ELSE peer_devices[q]
        BY <1>2, <1>4, <2>1 DEF ReplaceAt
    <2>3. ids = SubSeq(s, 1, Len(s) - 1)
        BY DEF Front
    <2> HIDE DEF s, ids
    <2>4. /\ ids \in Seq(Known) /\ Len(ids) = Len(s) - 1
          /\ \A q \in 1 .. Len(ids) : ids[q] = s[q]
        BY <1>2, <1>4, <2>2, <2>3
    <2> QED
        BY <1>2, <1>4, <2>1, <2>2, <2>4
<1>7. Len(ids) < MAX_DEVICES
    <2> HIDE DEF ids
    <2> QED
        BY <1>2, <1>6, SizeAssumption
<1>8. ASSUME NEW q \in 1 .. Len(ids), ids[q] \in held
      PROVE  \E k \in 1 .. Len(peer_devices) : q <= k /\ peer_devices[k] = ids[q]
    <2> HIDE DEF ids, i
    <2>1. q \in 1 .. Len(peer_devices) /\ q <= Len(peer_devices) /\ Len(peer_devices) \in 1 .. Len(peer_devices)
        BY <1>2, <1>6
    <2> QED
        BY <1>6, <2>1
<1> HIDE DEF ids
<1> QED
    BY <1>5, <1>6, <1>7, <1>8, ChangePreserves

LEMMA PairedToPreserves ==
    ASSUME IInv, NEW id \in IDs, PairedTo(id)
    PROVE  IInv'
<1>1. TypeOK /\ HeldListed
    BY DEF IInv
<1>2. id \in Known /\ peer_devices \in Seq(Known)
    BY <1>1, Types, IdsKnown
<1>3. <<id>> \in Seq(Known) /\ Len(<<id>>) = 1 /\ <<id>>[1] = id
    BY <1>2
<1>4. Len(<<id>>) < MAX_DEVICES
    BY <1>3, SizeAssumption
<1>5. ASSUME NEW q \in 1 .. Len(<<id>>), <<id>>[q] \in held
      PROVE  \E k \in 1 .. Len(peer_devices) : q <= k /\ peer_devices[k] = <<id>>[q]
    <2>1. q = 1
        BY <1>3
    <2>2. id \in ToSet(peer_devices)
        BY <1>1, <1>5, <2>1 DEF HeldListed
    <2> QED
        BY <1>2, <2>1, <2>2 DEF ToSet
<1>6. Change(<<id>>)
    BY DEF PairedTo
<1> QED
    BY <1>3, <1>4, <1>5, <1>6, ChangePreserves

-----------------------------------------------------------------------------
(***************************************************************************)
(* The save.                                                               *)
(***************************************************************************)
\* Where it is: a record in front of it, of the id of a device.
LEMMA SavingIs ==
    ASSUME TypeOK, Saving
    PROVE  /\ slot \in Slots /\ slot + 1 \in 1 .. Len(peer_devices)
           /\ peer_devices[slot + 1] \in Known /\ peer_devices[slot + 1] \in Ids
           /\ Wanted \in Records /\ records[slot] \in Records
           /\ Differing # {} =>
                 /\ Min(Differing) \in word .. 5 /\ Min(Differing) \in Positions
                 /\ \A p \in Positions : word <= p /\ p < Min(Differing) => records[slot][p] = Wanted[p]
<1>1. /\ records \in [Slots -> Records] /\ Len(peer_devices) \in 0 .. MAX_DEVICES - 1
      /\ \A q \in 1 .. Len(peer_devices) : peer_devices[q] \in Known /\ peer_devices[q] \in Ids
      /\ slot \in Nat /\ word \in 0 .. 6
    BY Types
<1>2. slot \in Slots /\ slot + 1 \in 1 .. Len(peer_devices)
    BY <1>1, SizeAssumption DEF Saving, Slots
<1>3. Wanted \in Records
    BY <1>1, <1>2, EncodeTyped DEF Wanted
<1>4. ASSUME Differing # {}
      PROVE  /\ Min(Differing) \in word .. 5 /\ Min(Differing) \in Positions
             /\ \A p \in Positions : word <= p /\ p < Min(Differing) => records[slot][p] = Wanted[p]
    <2>1. Differing \in SUBSET Nat /\ Differing \subseteq word .. 5
        BY <1>1 DEF Differing
    <2>2. Min(Differing) \in Differing /\ \A p \in Differing : Min(Differing) <= p
        BY <1>4, <2>1, MinOfNaturals
    <2>3. Min(Differing) \in word .. 5
        BY <2>1, <2>2
    <2>4. ASSUME NEW p \in Positions, word <= p, p < Min(Differing)
          PROVE  records[slot][p] = Wanted[p]
        <3>1. p \notin Differing /\ p \in word .. 5
            BY <1>1, <2>2, <2>3, <2>4 DEF Positions
        <3> QED
            BY <3>1 DEF Differing
    <2> QED
        BY <1>1, <2>3, <2>4 DEF Positions
<1> QED
    BY <1>1, <1>2, <1>3, <1>4

LEMMA StartSavePreserves ==
    ASSUME IInv, StartSave
    PROVE  IInv'
<1>1. TypeOK /\ HeldListed /\ Covered /\ Traced
    BY DEF IInv
<1>2. /\ pc = "idle" /\ pc' = "records" /\ slot' = 0 /\ word' = 0
      /\ planned' = FALSE /\ save_peer_devices' = FALSE
      /\ UNCHANGED <<peer_devices, records, length, held, seen, changes, resets, bad_writes>>
    BY DEF StartSave, eeprom, bounds
<1>3. TypeOK'
    <2>1. 0 \in 0 .. MAX_DEVICES - 1 /\ 0 \in 0 .. 6
        BY SizeAssumption
    <2> QED
        BY <1>1, <1>2, <2>1 DEF TypeOK
<1>4. HeldListed' /\ Covered'
    BY <1>1, <1>2 DEF HeldListed, Covered
<1>5. Rewritten'
    BY <1>1, <1>2, Types DEF Rewritten
<1>6. Traced'
    <2>1. ~ Saving
        BY <1>2 DEF Saving
    <2>2. SUFFICES ASSUME bad_writes = 0, resets <= 1
                   PROVE  /\ ToSet(peer_devices) \subseteq seen
                          /\ \A i \in Slots : i < length =>
                                IF Saving' /\ i = slot'
                                THEN Over(records[i], peer_devices[slot' + 1], word', seen, resets)
                                ELSE Base(records[i], seen, resets)
        BY <1>2 DEF Traced
    <2>3. /\ ToSet(peer_devices) \subseteq seen
          /\ \A i \in Slots : i < length => Base(records[i], seen, resets)
        BY <1>1, <2>1, <2>2 DEF Traced
    <2>4. ASSUME NEW i \in Slots, i < length, Saving', i = slot'
          PROVE  Over(records[i], peer_devices[slot' + 1], word', seen, resets)
        <3>1. peer_devices[slot' + 1] \in Known
            BY <1>1, <1>2, <2>4, Types DEF Saving
        <3> QED
            BY <1>1, <1>2, <2>3, <2>4, <3>1, OverBounds, Types
    <2> QED
        BY <2>3, <2>4
<1> QED
    BY <1>3, <1>4, <1>5, <1>6 DEF IInv

\* A run of the task for something else, or a plan of it.
LEMMA OthersPreserve ==
    ASSUME IInv, NothingToSave \/ OtherWork \/ UNCHANGED vars
    PROVE  IInv'
<1>1. TypeOK
    BY DEF IInv
<1>2. /\ UNCHANGED <<peer_devices, save_peer_devices, records, length, pc, slot, word, held, seen,
                     changes, resets, bad_writes>>
      /\ planned' \in BOOLEAN
    BY <1>1 DEF NothingToSave, OtherWork, vars, list, eeprom, bounds, TypeOK
<1>3. TypeOK'
    BY <1>1, <1>2 DEF TypeOK
<1>4. HeldListed' /\ Covered' /\ Rewritten'
    BY <1>2 DEF IInv, HeldListed, Covered, Rewritten
<1>5. Traced'
    BY <1>2 DEF IInv, Traced, Saving
<1> QED
    BY <1>3, <1>4, <1>5 DEF IInv

\* A word of the record, or a worn cell that keeps what it held.
LEMMA WordPreserves ==
    ASSUME IInv, WriteWord \/ BadWord
    PROVE  IInv'
<1> DEFINE w == Min(Differing)
           id == peer_devices[slot + 1]
<1>1. TypeOK /\ HeldListed /\ Covered /\ Rewritten /\ Traced
    BY DEF IInv
<1>2. Saving /\ Differing # {} /\ word' = w + 1
    BY DEF WriteWord, BadWord
<1>3. /\ slot \in Slots /\ slot + 1 \in 1 .. Len(peer_devices) /\ id \in Known /\ id \in Ids
      /\ Wanted \in Records /\ records[slot] \in Records /\ Wanted = Encode(id)
      /\ w \in word .. 5 /\ w \in Positions
      /\ \A p \in Positions : word <= p /\ p < w => records[slot][p] = Wanted[p]
    BY <1>1, <1>2, SavingIs DEF Wanted
<1>4. /\ UNCHANGED <<peer_devices, save_peer_devices, planned, length, pc, slot, held, seen, changes, resets>>
      /\ \/ bad_writes' = bad_writes /\ records' = [records EXCEPT ![slot][w] = Wanted[w]]
         \/ bad_writes' = bad_writes + 1 /\ bad_writes < MaxBadWrites /\ records' = records
    BY DEF WriteWord, BadWord, list, eeprom, bounds
<1> HIDE DEF w, id
<1>5. /\ records' \in [Slots -> Records]
      /\ \A i \in Slots : i # slot => records'[i] = records[i]
      /\ \A p \in Positions : records'[slot][p] = records[slot][p] \/ records'[slot][p] = Encode(id)[p]
    BY <1>1, <1>3, <1>4, Types, SMTT(60) DEF Records
<1>6. TypeOK'
    <2>1. word' \in 0 .. 6
        BY <1>1, <1>2, <1>3, Types
    <2>2. bad_writes' \in 0 .. MaxBadWrites
        BY <1>1, <1>4, BoundAssumption DEF TypeOK
    <2> QED
        BY <1>1, <1>4, <1>5, <2>1, <2>2 DEF TypeOK, Records
<1>7. HeldListed'
    BY <1>1, <1>4 DEF HeldListed
<1>8. Rewritten'
    <2>1. \A i \in 0 .. slot - 1 : i \in Slots /\ i # slot
        BY <1>3, SizeAssumption DEF Slots
    <2> QED
        BY <1>1, <1>2, <1>4, <1>5, <2>1 DEF Rewritten
<1>9. Covered'
    <2>1. SUFFICES ASSUME NEW q \in 1 .. Len(peer_devices), peer_devices[q] \in held
                   PROVE  \E p \in Slots : q <= p + 1 /\ p < length /\ Vote(records'[p]) = peer_devices[q]
        BY <1>4 DEF Covered
    <2>2. PICK p \in Slots : q <= p + 1 /\ p < length /\ Vote(records[p]) = peer_devices[q]
        BY <1>1, <2>1 DEF Covered
    <2>3. CASE p # slot
        BY <1>5, <2>2, <2>3
    <2>4. CASE p = slot /\ q = slot + 1
        <3>1. Vote(records[slot]) = id
            BY <2>2, <2>4 DEF id
        <3>2. records'[slot] \in Records
            BY <1>3, <1>5
        <3>3. Vote(records'[slot]) = id
            BY <1>3, <1>5, <3>1, <3>2, VoteKept
        <3> QED
            BY <2>2, <2>4, <3>1, <3>3
    \* It was rewritten before, in a place that the save has passed.
    <2>5. CASE p = slot /\ q # slot + 1
        <3>1. q - 1 \in 0 .. slot - 1 /\ q - 1 \in Slots /\ q - 1 # slot /\ q - 1 < length /\ (q - 1) + 1 = q
            <4>1. q \in Nat /\ q >= 1 /\ slot \in Nat /\ length \in Nat /\ q <= slot + 1 /\ slot < length
                BY <1>1, <2>2, <2>5, Types
            <4>2. q - 1 \in 0 .. slot - 1 /\ (q - 1) + 1 = q /\ q - 1 < length
                BY <2>5, <4>1
            <4> QED
                BY <1>3, <4>1, <4>2, SizeAssumption DEF Slots
        <3>2. records'[q - 1] = Encode(peer_devices[q])
            BY <1>1, <1>2, <1>5, <3>1 DEF Rewritten, Saving
        <3>3. Vote(records'[q - 1]) = peer_devices[q]
            BY <1>1, <3>2, VoteOfEncoded, Types
        <3>4. q <= (q - 1) + 1
            BY <3>1
        <3> QED
            BY <3>1, <3>3, <3>4
    <2> QED
        BY <2>3, <2>4, <2>5
<1>10. Traced'
    <2>1. SUFFICES ASSUME bad_writes' = 0, resets <= 1
                   PROVE  /\ ToSet(peer_devices) \subseteq seen
                          /\ \A i \in Slots : i < length =>
                                IF Saving' /\ i = slot
                                THEN Over(records'[i], id, word', seen, resets)
                                ELSE Base(records'[i], seen, resets)
        BY <1>4 DEF Traced, id
    <2>2. bad_writes = 0 /\ records' = [records EXCEPT ![slot][w] = Wanted[w]]
        BY <1>1, <1>4, <2>1, Types
    <2>3. /\ ToSet(peer_devices) \subseteq seen
          /\ \A i \in Slots : i < length =>
                IF i = slot THEN Over(records[i], id, word, seen, resets) ELSE Base(records[i], seen, resets)
        BY <1>1, <1>2, <2>1, <2>2 DEF Traced, id
    <2>4. Saving'
        BY <1>2, <1>4 DEF Saving
    <2>5. ASSUME slot < length PROVE Over(records'[slot], id, word', seen, resets)
        <3>1. PICK b \in Records : Base(b, seen, resets) /\ records[slot] = Mix(id, b, word)
            BY <1>3, <2>3, <2>5 DEF Over
        <3>2. word \in 0 .. 6 /\ word' \in 0 .. 6 /\ word <= w /\ word' = w + 1
            BY <1>1, <1>2, <1>3, Types
        <3>3. records'[slot] \in Records /\ Mix(id, b, word') \in Records
            BY <1>3, <1>5, <3>2, MixTyped
        <3>4. ASSUME NEW p \in Positions PROVE records'[slot][p] = Mix(id, b, word')[p]
            <4>1. Mix(id, b, word')[p] = IF p < word' THEN Encode(id)[p] ELSE b[p]
                BY <1>3, <3>2, MixTyped
            <4>2. records[slot][p] = IF p < word THEN Encode(id)[p] ELSE b[p]
                BY <1>3, <3>1, <3>2, MixTyped
            <4>3. records'[slot][p] = IF p = w THEN Encode(id)[p] ELSE records[slot][p]
                BY <1>1, <1>3, <2>2, Types DEF Records
            <4>4. p < w \/ p = w \/ p > w
                BY <1>3 DEF Positions
            <4>5. CASE p < w
                <5>1. records[slot][p] = Encode(id)[p]
                    BY <1>3, <3>2, <4>2, <4>5 DEF Positions
                <5> QED
                    BY <1>3, <3>2, <4>1, <4>3, <4>5, <5>1 DEF Positions
            <4>6. CASE p = w
                BY <1>3, <3>2, <4>1, <4>3, <4>6 DEF Positions
            <4>7. CASE p > w
                BY <1>3, <3>2, <4>1, <4>2, <4>3, <4>7 DEF Positions
            <4> QED
                BY <4>4, <4>5, <4>6, <4>7
        <3>5. records'[slot] = Mix(id, b, word')
            BY <3>3, <3>4 DEF Records
        <3> QED
            BY <3>1, <3>5 DEF Over
    <2>6. \A i \in Slots : i < length /\ i # slot => Base(records'[i], seen, resets)
        BY <1>5, <2>3
    <2> QED
        BY <2>3, <2>4, <2>5, <2>6
<1> QED
    BY <1>6, <1>7, <1>8, <1>9, <1>10 DEF IInv

LEMMA NextPlace ==
    ASSUME NEW n \in Nat, NEW m \in Nat, n < m
    PROVE  n + 1 \in 1 .. m
OBVIOUS

\* The record is stored, or the save begins again.
LEMMA CompareRecordPreserves ==
    ASSUME IInv, CompareRecord
    PROVE  IInv'
<1> DEFINE id == peer_devices[slot + 1]
<1>1. TypeOK /\ HeldListed /\ Covered /\ Rewritten /\ Traced
    BY DEF IInv
<1>2. Saving /\ Differing = {} /\ word' = 0
    BY DEF CompareRecord
<1>3. /\ slot \in Slots /\ slot + 1 \in 1 .. Len(peer_devices) /\ id \in Known /\ id \in Ids
      /\ Wanted = Encode(id)
    BY <1>1, <1>2, SavingIs DEF Wanted
<1>4. UNCHANGED <<peer_devices, records, length, held, seen, changes, resets, bad_writes>>
    BY DEF CompareRecord, eeprom, bounds
<1>5. \/ /\ records[slot] = Wanted
         /\ slot' = slot + 1
         /\ UNCHANGED <<save_peer_devices, planned, pc>>
      \/ /\ save_peer_devices' = TRUE /\ planned' = TRUE /\ pc' = "idle"
         /\ slot' = slot
    BY DEF CompareRecord, SaveAgain
<1>6. TypeOK'
    <2>1. slot + 1 \in 0 .. MAX_DEVICES - 1 /\ 0 \in 0 .. 6
        BY <1>1, <1>3, Types, SizeAssumption
    <2> QED
        BY <1>1, <1>2, <1>4, <1>5, <2>1 DEF TypeOK
<1>7. HeldListed' /\ Covered'
    BY <1>1, <1>4 DEF HeldListed, Covered
<1>8. Rewritten'
    <2>1. CASE records[slot] = Wanted /\ slot' = slot + 1
        <3>1. \A i \in 0 .. (slot + 1) - 1 : i \in 0 .. slot - 1 \/ i = slot
            BY <1>1, Types
        <3>2. \A i \in 0 .. slot - 1 : records[i] = Encode(peer_devices[i + 1])
            BY <1>1, <1>2 DEF Rewritten, Saving
        <3>3. slot + 1 <= Len(peer_devices)
            BY <1>1, <1>3, Types
        <3> QED
            BY <1>3, <1>4, <2>1, <3>1, <3>2, <3>3 DEF Rewritten
    <2>2. CASE pc' = "idle"
        BY <2>2 DEF Rewritten
    <2> QED
        BY <1>5, <2>1, <2>2
<1>9. Traced'
    <2>1. SUFFICES ASSUME bad_writes = 0, resets <= 1
                   PROVE  /\ ToSet(peer_devices) \subseteq seen
                          /\ \A i \in Slots : i < length =>
                                IF Saving' /\ i = slot'
                                THEN Over(records[i], peer_devices[slot' + 1], 0, seen, resets)
                                ELSE Base(records[i], seen, resets)
        BY <1>2, <1>4 DEF Traced
    <2>2. /\ ToSet(peer_devices) \subseteq seen
          /\ \A i \in Slots : i < length =>
                IF i = slot THEN Over(records[i], id, word, seen, resets) ELSE Base(records[i], seen, resets)
        BY <1>1, <1>2, <2>1 DEF Traced
    <2>3. ASSUME slot < length PROVE Base(records[slot], seen, resets)
        <3>1. \A p \in Positions : p >= word => records[slot][p] = Encode(id)[p]
            <4>1. \A p \in Positions : p >= word => p \in word .. 5
                BY <1>1, Types DEF Positions
            <4> QED
                BY <1>2, <1>3, <4>1 DEF Differing
        <3>2. word \in 0 .. 6 /\ seen \in SUBSET Known
            BY <1>1, Types
        <3>3. Over(records[slot], id, word, seen, resets)
            BY <1>3, <2>2, <2>3
        <3>4. records[slot] = Encode(id)
            <4>1. \A r : \A v \in 0 .. 6 :
                     Over(r, id, v, seen, resets) /\ (\A p \in Positions : p >= v => r[p] = Encode(id)[p])
                     => r = Encode(id)
                <5> HIDE DEF id
                <5> QED
                    BY <1>3, <3>2, OverBounds
            <4> HIDE DEF id
            <4> QED
                BY <3>1, <3>2, <3>3, <4>1
        <3>5. id \in seen
            BY <1>1, <1>3, <2>2, Types DEF ToSet
        <3> QED
            BY <3>2, <3>4, <3>5, SingleIsBase
    <2>4. \A i \in Slots : i < length => Base(records[i], seen, resets)
        BY <2>2, <2>3
    <2>5. ASSUME NEW i \in Slots, i < length, Saving', i = slot'
          PROVE  Over(records[i], peer_devices[slot' + 1], 0, seen, resets)
        <3>1. slot' + 1 \in 1 .. Len(peer_devices)
            <4>1. slot' < Len(peer_devices)
                BY <1>4, <2>5 DEF Saving
            <4>2. slot' \in Nat /\ Len(peer_devices) \in Nat
                <5>1. slot \in Nat /\ Len(peer_devices) \in Nat
                    BY <1>1, Types
                <5>2. slot' = slot \/ slot' = slot + 1
                    BY <1>5
                <5> QED
                    BY <5>1, <5>2
            <4> QED
                BY <4>1, <4>2, NextPlace
        <3>2. peer_devices[slot' + 1] \in Known /\ seen \in SUBSET Known
            BY <1>1, <3>1, Types
        <3> QED
            BY <2>4, <2>5, <3>2, OverBounds
    <2> QED
        BY <2>2, <2>4, <2>5
<1> QED
    BY <1>6, <1>7, <1>8, <1>9 DEF IInv

\* Every record of the list is stored: now they count.
LEMMA WriteLengthPreserves ==
    ASSUME IInv, WriteLength
    PROVE  IInv'
<1>1. TypeOK /\ Rewritten
    BY DEF IInv
<1>2. /\ pc = "records" /\ slot = Len(peer_devices) /\ pc' = "idle"
      /\ length' = Len(peer_devices) /\ held' = ToSet(peer_devices) /\ seen' = ToSet(peer_devices)
      /\ UNCHANGED <<peer_devices, save_peer_devices, planned, records, slot, word, changes, resets, bad_writes>>
    BY DEF WriteLength, list, bounds
<1>3. /\ peer_devices \in Seq(Known) /\ Len(peer_devices) \in 0 .. MAX_DEVICES - 1
      /\ \A q \in 1 .. Len(peer_devices) : peer_devices[q] \in Known /\ peer_devices[q] \in Ids
    BY <1>1, Types
<1>4. ToSet(peer_devices) \in SUBSET Known
    BY <1>3 DEF ToSet
<1>5. \A i \in 0 .. Len(peer_devices) - 1 : records[i] = Encode(peer_devices[i + 1])
    BY <1>1, <1>2 DEF Rewritten
<1>6. TypeOK'
    BY <1>1, <1>2, <1>3, <1>4 DEF TypeOK
<1>7. HeldListed' /\ Rewritten'
    BY <1>2 DEF HeldListed, Rewritten
<1>8. Covered'
    <2>1. SUFFICES ASSUME NEW q \in 1 .. Len(peer_devices)
                   PROVE  \E p \in Slots : q <= p + 1 /\ p < Len(peer_devices) /\ Vote(records[p]) = peer_devices[q]
        BY <1>2 DEF Covered
    <2>2. q - 1 \in 0 .. Len(peer_devices) - 1 /\ q - 1 \in Slots /\ (q - 1) + 1 = q
        BY <1>3, SizeAssumption DEF Slots
    <2>3. Vote(records[q - 1]) = peer_devices[q]
        BY <1>3, <1>5, <2>2, VoteOfEncoded
    <2>4. q <= (q - 1) + 1 /\ q - 1 < Len(peer_devices)
        BY <1>3, <2>2
    <2> QED
        BY <2>2, <2>3, <2>4
<1>9. Traced'
    <2>1. ~ Saving'
        BY <1>2 DEF Saving
    <2>2. ASSUME NEW i \in Slots, i < Len(peer_devices) PROVE Base(records[i], ToSet(peer_devices), resets)
        <3>1. i \in 0 .. Len(peer_devices) - 1 /\ i + 1 \in 1 .. Len(peer_devices)
            BY <1>3, <2>2, SizeAssumption DEF Slots
        <3>2. peer_devices[i + 1] \in ToSet(peer_devices)
            BY <1>3, <3>1 DEF ToSet
        <3> QED
            BY <1>4, <1>5, <3>1, <3>2, SingleIsBase
    <2> QED
        BY <1>2, <2>1, <2>2 DEF Traced
<1> QED
    BY <1>6, <1>7, <1>8, <1>9 DEF IInv

LEMMA BadLengthPreserves ==
    ASSUME IInv, BadLength
    PROVE  IInv'
<1>1. TypeOK /\ HeldListed /\ Covered
    BY DEF IInv
<1>2. /\ pc' = "idle" /\ save_peer_devices' = TRUE /\ planned' = TRUE
      /\ bad_writes < MaxBadWrites /\ bad_writes' = bad_writes + 1
      /\ UNCHANGED <<peer_devices, records, length, slot, word, held, seen, changes, resets>>
    BY DEF BadLength, SaveAgain, eeprom
<1>3. bad_writes' \in 0 .. MaxBadWrites /\ bad_writes' # 0
    BY <1>1, <1>2, BoundAssumption DEF TypeOK
<1>4. TypeOK'
    BY <1>1, <1>2, <1>3 DEF TypeOK
<1>5. HeldListed' /\ Covered' /\ Rewritten'
    BY <1>1, <1>2 DEF HeldListed, Covered, Rewritten
<1>6. Traced'
    BY <1>3 DEF Traced
<1> QED
    BY <1>4, <1>5, <1>6 DEF IInv

\* The first save that is cut short leaves one record of two ids.
LEMMA ResetPreserves ==
    ASSUME IInv, Reset
    PROVE  IInv'
<1>1. TypeOK
    BY DEF IInv
<1>2. /\ resets < MaxResets /\ resets' = resets + 1 /\ peer_devices' = Loaded
      /\ save_peer_devices' = Repairs /\ planned' = FALSE /\ pc' = "idle" /\ slot' = 0 /\ word' = 0
      /\ UNCHANGED <<records, length, held, seen, changes, bad_writes>>
    BY DEF Reset, eeprom
<1>3. /\ Loaded \in Seq(Known) /\ Len(Loaded) \in 0 .. length /\ length \in 0 .. MAX_DEVICES - 1
      /\ \A k \in 1 .. Len(Loaded) :
            \E p \in Slots : k <= p + 1 /\ p < length /\ Loaded[k] = Vote(records[p])
    BY <1>1, LoadedIs, Types
<1>4. TypeOK'
    <2>1. 0 \in 0 .. MAX_DEVICES - 1 /\ 0 \in 0 .. 6 /\ Len(Loaded) < MAX_DEVICES
        BY <1>3, SizeAssumption
    <2>2. resets' \in 0 .. MaxResets
        BY <1>1, <1>2, BoundAssumption DEF TypeOK
    <2>3. Repairs \in BOOLEAN
        BY DEF Repairs
    <2> QED
        BY <1>1, <1>2, <1>3, <2>1, <2>2, <2>3 DEF TypeOK
<1>5. HeldListed'
    BY <1>2, HeldLoaded DEF HeldListed, PeersSurviveReset
<1>6. Covered'
    BY <1>2, <1>3 DEF Covered
<1>7. Rewritten'
    BY <1>2 DEF Rewritten
<1>8. Traced'
    <2>1. ~ Saving'
        BY <1>2 DEF Saving
    <2>2. SUFFICES ASSUME bad_writes = 0, resets + 1 <= 1
                   PROVE  /\ ToSet(Loaded) \subseteq seen
                          /\ \A i \in Slots : i < length => Base(records[i], seen, resets + 1)
        BY <1>2, <2>1 DEF Traced
    <2>3. resets = 0 /\ resets <= 1 /\ resets + 1 # 0 /\ seen \in SUBSET Known
        BY <1>1, <2>2, Types
    <2>4. ToSet(Loaded) \subseteq seen
        BY <2>2, <2>3, LoadedSeen DEF NobodyRevived
    <2>5. ASSUME NEW i \in Slots, i < length PROVE Torn(records[i], seen)
        <3>1. CASE Base(records[i], seen, resets)
            BY <2>3, <3>1, SingleIsTorn DEF Base
        <3>2. CASE Saving /\ i = slot /\ Over(records[i], peer_devices[slot + 1], word, seen, resets)
            <4>1. PICK b \in Records : Single(b, seen) /\ records[i] = Mix(peer_devices[slot + 1], b, word)
                BY <2>3, <3>2 DEF Over, Base
            <4>2. PICK c \in seen : b = Encode(c)
                BY <4>1 DEF Single
            <4>3. peer_devices[slot + 1] \in seen
                BY <1>1, <2>2, <2>3, <3>2, SavingIs, Types DEF IInv, Traced, ToSet
            <4>4. word \in 0 .. 6
                BY <1>1, Types
            <4> QED
                BY <4>1, <4>2, <4>3, <4>4 DEF Torn
        <3> QED
            BY <2>2, <2>3, <2>5, <3>1, <3>2 DEF IInv, Traced
    <2> QED
        BY <2>3, <2>4, <2>5 DEF Base
<1> QED
    BY <1>4, <1>5, <1>6, <1>7, <1>8 DEF IInv

-----------------------------------------------------------------------------
LEMMA NextPreserves == IInv /\ [Next]_vars => IInv'
<1>1. SUFFICES ASSUME IInv, [Next]_vars PROVE IInv'
    OBVIOUS
<1>2. ASSUME NEW id \in IDs, PeerDeviceAdd(id) PROVE IInv'
    BY <1>1, <1>2, PeerDeviceAddPreserves
<1>3. ASSUME NEW id \in IDs, PeerDeviceRemove(id) PROVE IInv'
    BY <1>1, <1>3, PeerDeviceRemovePreserves
<1>4. ASSUME NEW id \in IDs, PairedTo(id) PROVE IInv'
    BY <1>1, <1>4, PairedToPreserves
<1>5. CASE Save
    BY <1>1, <1>5, StartSavePreserves, OthersPreserve, WordPreserves, CompareRecordPreserves,
       WriteLengthPreserves, BadLengthPreserves DEF Save
<1>6. CASE OtherWork \/ UNCHANGED vars
    BY <1>1, <1>6, OthersPreserve
<1>7. CASE Reset
    BY <1>1, <1>7, ResetPreserves
<1> QED
    BY <1>1, <1>2, <1>3, <1>4, <1>5, <1>6, <1>7 DEF Next

LEMMA Inductive == Spec => []IInv
<1> QED
    BY InitHolds, NextPreserves, PTL DEF Spec

\* The list stays within its table, with the last entry free, and holds no empty id,
\* whatever the records are that a reset or a worn word leaves to be loaded.
THEOREM TypeCorrect == Spec => []TypeOK
<1>1. IInv => TypeOK
    BY DEF IInv
<1> QED
    BY <1>1, Inductive, PTL

\* Wherever _twr_radio_save_peer_devices is cut short, however often, and whichever
\* words do not take, the next load finds everybody who was paired all the time; and
\* as long as every word takes, one reset brings nobody back and makes up nobody.
THEOREM ResetsDoNoHarm == Spec => []ResetsHarmless
<1>1. IInv => ResetsHarmless
    BY HeldLoaded, LoadedSeen DEF ResetsHarmless
<1> QED
    BY <1>1, Inductive, PTL

-----------------------------------------------------------------------------
(***************************************************************************)
(* The configuration.                                                      *)
(***************************************************************************)
Bits == UNION {data[w] : data \in Configs, w \in Data}
Hashes == {"hash", "hash end"}

BanksTyped ==
    /\ bank = [b \in Banks |-> [w \in ConfigWords |-> bank[b][w]]]
    /\ \A b \in Banks : \A w \in Data : bank[b][w] \subseteq Bits

\* Every hash in a bank is that of a configuration that may be read.
HashesOffered == \A b \in Banks : \A w \in Hashes : bank[b][w] \subseteq offered

\* In a save, the banks that were found to hold their part still hold it.
SaveUnderway ==
    save # Done =>
        /\ config \in offered
        /\ \A v \in verified : Holds(v[2], v[1])

Full(b, data) == \A w \in ConfigWords : bank[b][w] = Image(data)[w]

\* What was stored is in the first two banks, word by word.
StoredHeld ==
    stored # {} =>
        /\ save = Done
        /\ \E data \in Configs : stored = {data} /\ Full("A", data) /\ Full("B", data)

ConfigInv == ConfigTypeOK /\ BanksTyped /\ HashesOffered /\ SaveUnderway /\ StoredHeld

\* The words of a configuration's image are those of the two parts of a save.
LEMMA ConfigWordsAre ==
    /\ ConfigWords = {"signature", "hash", "hash end", "data", "data end"}
    /\ Data = {"data", "data end"} /\ Hashes = {"hash", "hash end"} /\ Parts = {"header", "data"}
BY DEF ConfigWords, Data, Hashes, Parts

LEMMA Triple ==
    ASSUME NEW S, NEW a \in S, NEW b \in S, NEW c \in S
    PROVE  /\ <<a, b, c>> \in Seq(S) /\ DOMAIN <<a, b, c>> = 1 .. 3
           /\ <<a, b, c>>[1] = a /\ <<a, b, c>>[2] = b /\ <<a, b, c>>[3] = c
OBVIOUS

LEMMA Twin ==
    ASSUME NEW S, NEW a \in S, NEW b \in S
    PROVE  /\ <<a, b>> \in Seq(S) /\ DOMAIN <<a, b>> = 1 .. 2
           /\ <<a, b>>[1] = a /\ <<a, b>>[2] = b
OBVIOUS

LEMMA WordsOfParts ==
    /\ WordsOf["header"] \in Seq(ConfigWords) /\ WordsOf["data"] \in Seq(ConfigWords)
    /\ DOMAIN WordsOf["header"] = 1 .. 3 /\ DOMAIN WordsOf["data"] = 1 .. 2
    /\ WordsOf["header"][1] = "signature" /\ WordsOf["header"][2] = "hash"
    /\ WordsOf["header"][3] = "hash end"
    /\ WordsOf["data"][1] = "data" /\ WordsOf["data"][2] = "data end"
<1>1. /\ WordsOf["header"] = <<"signature", "hash", "hash end">>
      /\ WordsOf["data"] = <<"data", "data end">>
    BY DEF WordsOf
<1>2. /\ "signature" \in ConfigWords /\ "hash" \in ConfigWords /\ "hash end" \in ConfigWords
      /\ "data" \in ConfigWords /\ "data end" \in ConfigWords
    BY ConfigWordsAre
<1>3. /\ WordsOf["header"] \in Seq(ConfigWords) /\ DOMAIN WordsOf["header"] = 1 .. 3
      /\ WordsOf["header"][1] = "signature" /\ WordsOf["header"][2] = "hash"
      /\ WordsOf["header"][3] = "hash end"
    <2>1. PICK a, b, c \in ConfigWords :
              a = "signature" /\ b = "hash" /\ c = "hash end" /\ WordsOf["header"] = <<a, b, c>>
        BY <1>1, <1>2, Zenon
    <2>2. /\ <<a, b, c>> \in Seq(ConfigWords) /\ DOMAIN <<a, b, c>> = 1 .. 3
          /\ <<a, b, c>>[1] = a /\ <<a, b, c>>[2] = b /\ <<a, b, c>>[3] = c
        BY Triple
    <2> QED
        BY <2>1, <2>2, Zenon
<1>4. /\ WordsOf["data"] \in Seq(ConfigWords) /\ DOMAIN WordsOf["data"] = 1 .. 2
      /\ WordsOf["data"][1] = "data" /\ WordsOf["data"][2] = "data end"
    <2>1. PICK a, b \in ConfigWords : a = "data" /\ b = "data end" /\ WordsOf["data"] = <<a, b>>
        BY <1>1, <1>2, Zenon
    <2>2. /\ <<a, b>> \in Seq(ConfigWords) /\ DOMAIN <<a, b>> = 1 .. 2
          /\ <<a, b>>[1] = a /\ <<a, b>>[2] = b
        BY Twin
    <2> QED
        BY <2>1, <2>2, Zenon
<1> QED
    BY <1>3, <1>4

LEMMA HoldsIs ==
    ASSUME NEW b
    PROVE  /\ Holds(b, "header") <=> \A w \in {"signature", "hash", "hash end"} :
                                        bank[b][w] = Image(config)[w]
           /\ Holds(b, "data") <=> \A w \in Data : bank[b][w] = Image(config)[w]
<1>1. 1 .. 3 = {1, 2, 3} /\ 1 .. 2 = {1, 2}
    OBVIOUS
<1>2. Holds(b, "header") <=> \A k \in {1, 2, 3} :
          bank[b][WordsOf["header"][k]] = Image(config)[WordsOf["header"][k]]
    BY <1>1, WordsOfParts DEF Holds
<1>3. Holds(b, "data") <=> \A k \in {1, 2} :
          bank[b][WordsOf["data"][k]] = Image(config)[WordsOf["data"][k]]
    BY <1>1, WordsOfParts DEF Holds
<1> QED
    BY <1>2, <1>3, WordsOfParts DEF Data

LEMMA PartWords ==
    ASSUME NEW p \in Parts, NEW k \in DOMAIN WordsOf[p]
    PROVE  WordsOf[p][k] \in ConfigWords
<1>1. WordsOf[p] \in Seq(ConfigWords)
    BY WordsOfParts, ConfigWordsAre
<1>2. k \in 1 .. Len(WordsOf[p])
    BY <1>1
<1> QED
    BY <1>1, <1>2, ElementOfSeq

\* The places of a save: a part, a bank and words of the part.
Places == [part : Parts \cup {"done"}, bank : Banks, todo : Seq(ConfigWords)]

LEMMA PlacesAre == Begin \in Places /\ Done \in Places /\ NextPart \in Places
<1>1. "A" \in Banks /\ <<>> \in Seq(ConfigWords)
    BY DEF Banks
<1>2. WordsOf.header \in Seq(ConfigWords) /\ WordsOf.data \in Seq(ConfigWords)
    BY WordsOfParts
<1>3. Begin \in Places /\ Done \in Places
    BY <1>1, <1>2 DEF Places, Begin, Done, Parts
<1> QED
    BY <1>1, <1>2, <1>3 DEF Places, NextPart, Parts

LEMMA ImageIs ==
    ASSUME NEW data
    PROVE  /\ \A w \in Data : Image(data)[w] = data[w]
           /\ \A w \in Hashes : Image(data)[w] = {data}
           /\ Image(data)["signature"] = {"ours"}
BY DEF Image, ConfigWords, Data, Hashes

LEMMA ConfigsTyped ==
    ASSUME NEW data \in Configs
    PROVE  data \in [Data -> SUBSET Bits]
<1>1. data = [w \in Data |-> data[w]]
    BY ConfigAssumption
<1>2. \A w \in Data : data[w] \subseteq Bits
    BY DEF Bits
<1> QED
    BY <1>1, <1>2

\* The majority of words of some bits is a word of these bits.
LEMMA MajorityWithin ==
    ASSUME NEW S, NEW w, \A b \in Banks : bank[b][w] \subseteq S
    PROVE  Read(w) \subseteq S
BY DEF Read, Majority, Banks

LEMMA ReadDataTyped ==
    ASSUME BanksTyped
    PROVE  ReadData \in [Data -> SUBSET Bits]
<1>1. \A w \in Data : Read(w) \subseteq Bits
    BY MajorityWithin DEF BanksTyped
<1> QED
    BY <1>1 DEF ReadData

\* What starts is a configuration whose hash may be read.
LEMMA HashedIsOffered ==
    ASSUME HashesOffered, Hashed
    PROVE  ReadData \in offered
<1>1. Read("hash") \subseteq offered
    BY MajorityWithin DEF HashesOffered, Hashes
<1> QED
    BY <1>1 DEF Hashed

LEMMA ConfigInitHolds == ConfigInit => ConfigInv
<1> SUFFICES ASSUME ConfigInit PROVE ConfigInv
    OBVIOUS
<1> USE DEF ConfigInit
<1>1. ConfigTypeOK
    <2>1. config \in [Data -> SUBSET Bits]
        BY ConfigAssumption, ConfigsTyped
    <2>2. save \in Places
        BY PlacesAre
    <2> QED
        BY <2>1, <2>2, ConfigAssumption, ConfigBounds DEF ConfigTypeOK, Bits, Places
<1>2. BanksTyped /\ HashesOffered
    BY ConfigWordsAre DEF BanksTyped, HashesOffered, Erased
<1>3. SaveUnderway /\ StoredHeld
    BY DEF SaveUnderway, StoredHeld
<1> QED
    BY <1>1, <1>2, <1>3 DEF ConfigInv

LEMMA SaveOfKeeps ==
    ASSUME ConfigInv, NEW data \in Configs, SaveOf(data), config' = data, bank' = bank,
           sets' \in 0 .. MaxSets, starts' \in 0 .. MaxStarts, worn' \in 0 .. MaxWorn
    PROVE  ConfigInv'
<1> USE DEF ConfigInv, SaveOf
<1>1. ConfigTypeOK'
    <2>1. config' \in [Data -> SUBSET Bits]
        BY ConfigsTyped
    <2>2. save' \in Places
        BY PlacesAre
    <2> QED
        BY <2>1, <2>2 DEF ConfigTypeOK, Bits, Places
<1>2. BanksTyped' /\ HashesOffered'
    BY DEF BanksTyped, HashesOffered
<1>3. SaveUnderway' /\ StoredHeld'
    BY DEF SaveUnderway, StoredHeld
<1> QED
    BY <1>1, <1>2, <1>3

LEMMA SetAndSaveKeeps ==
    ASSUME ConfigInv, NEW data \in Configs, SetAndSave(data)
    PROVE  ConfigInv'
<1>1. sets' \in 0 .. MaxSets /\ starts' \in 0 .. MaxStarts /\ worn' \in 0 .. MaxWorn
    BY ConfigBounds DEF SetAndSave, ConfigInv, ConfigTypeOK
<1> QED
    BY <1>1, SaveOfKeeps DEF SetAndSave

LEMMA WriteConfigWordKeeps ==
    ASSUME ConfigInv, WriteConfigWord
    PROVE  ConfigInv'
<1> DEFINE target == Head(save.todo)
<1> USE DEF ConfigInv
<1>0. /\ save.bank \in Banks /\ save.todo \in Seq(ConfigWords) /\ save.todo # <<>>
      /\ save' = [save EXCEPT !.todo = Tail(@)]
      /\ save \in Places
    BY DEF WriteConfigWord, ConfigTypeOK, Places
<1>1. target \in ConfigWords /\ Tail(save.todo) \in Seq(ConfigWords) /\ save # Done
    BY <1>0, HeadTailProperties DEF Done
<1>2. config \in offered /\ config \in Configs
    BY <1>1 DEF SaveUnderway, ConfigTypeOK
<1>3. UNCHANGED <<config, verified, offered, stored, sets, starts>>
    BY DEF WriteConfigWord
<1>4. bank' = [bank EXCEPT ![save.bank][target] = Image(config)[target]] \/ bank' = bank
    BY DEF WriteConfigWord
<1>5. /\ bank' = [b \in Banks |-> [v \in ConfigWords |-> bank'[b][v]]]
      /\ \A b \in Banks : \A v \in ConfigWords :
            bank'[b][v] = bank[b][v] \/ bank'[b][v] = Image(config)[v]
    <2>1. bank = [b \in Banks |-> [v \in ConfigWords |-> bank[b][v]]]
        BY DEF BanksTyped
    <2>2. CASE bank' = bank
        BY <2>1, <2>2
    <2>3. CASE bank' = [bank EXCEPT ![save.bank][target] = Image(config)[target]]
        <3> HIDE DEF target
        <3>1. \A b \in Banks : bank'[b] = IF b = save.bank
                                         THEN [bank[b] EXCEPT ![target] = Image(config)[target]] ELSE bank[b]
            BY <2>1, <2>3, <1>0
        <3>2. bank' = [b \in Banks |-> bank'[b]]
            BY <2>1, <2>3, <1>0
        <3>3. ASSUME NEW b \in Banks
              PROVE  /\ bank'[b] = [v \in ConfigWords |-> bank'[b][v]]
                     /\ \A v \in ConfigWords :
                            bank'[b][v] = bank[b][v] \/ bank'[b][v] = Image(config)[v]
            <4>1. bank[b] = [v \in ConfigWords |-> bank[b][v]]
                BY <2>1
            <4>2. CASE b = save.bank
                <5>1. bank'[b] = [bank[b] EXCEPT ![target] = Image(config)[target]]
                    BY <3>1, <4>2
                <5> QED
                    BY <4>1, <5>1, <1>1
            <4>3. CASE b # save.bank
                BY <3>1, <4>1, <4>3
            <4> QED
                BY <4>2, <4>3
        <3> QED
            BY <3>2, <3>3
    <2> QED
        BY <2>2, <2>3, <1>4
<1>6. ConfigTypeOK'
    <2>1. worn' \in 0 .. MaxWorn
        BY ConfigBounds DEF WriteConfigWord, ConfigTypeOK
    <2>2. save' \in Places
        BY <1>0, <1>1 DEF Places
    <2> QED
        BY <2>1, <2>2, <1>3 DEF ConfigTypeOK, Places
<1>7. BanksTyped'
    <2>1. ASSUME NEW b \in Banks, NEW v \in Data
          PROVE  bank'[b][v] \subseteq Bits
        <3>1. Image(config)[v] \subseteq Bits
            BY <1>2, ImageIs, ConfigsTyped
        <3>2. bank[b][v] \subseteq Bits
            BY DEF BanksTyped
        <3>3. v \in ConfigWords
            BY ConfigWordsAre
        <3> QED
            BY <1>5, <3>1, <3>2, <3>3
    <2> QED
        BY <1>5, <2>1 DEF BanksTyped
<1>8. HashesOffered'
    <2> SUFFICES ASSUME NEW b \in Banks, NEW v \in Hashes PROVE bank'[b][v] \subseteq offered
        BY <1>3 DEF HashesOffered
    <2>1. bank[b][v] \subseteq offered /\ Image(config)[v] = {config}
        BY ImageIs DEF HashesOffered
    <2>2. v \in ConfigWords
        BY ConfigWordsAre
    <2> QED
        BY <2>1, <2>2, <1>2, <1>5
<1>9. SaveUnderway'
    <2>1. \A p \in Parts, b \in Banks : Holds(b, p) => Holds(b, p)'
        BY <1>3, <1>5, PartWords DEF Holds
    <2>2. verified \subseteq Parts \X Banks
        BY DEF ConfigTypeOK
    <2> QED
        BY <1>1, <1>3, <2>1, <2>2 DEF SaveUnderway
<1>10. StoredHeld'
    BY <1>1, <1>3 DEF StoredHeld
<1> QED
    BY <1>6, <1>7, <1>8, <1>9, <1>10

LEMMA VerifyKeeps ==
    ASSUME ConfigInv, Verify
    PROVE  ConfigInv'
<1> DEFINE good == Holds(save.bank, save.part)
           now == IF good THEN verified \cup {<<save.part, save.bank>>} ELSE verified
           after == IF good /\ save.bank # "C"
                    THEN [save EXCEPT !.bank = Behind(@), !.todo = WordsOf[save.part]]
                    ELSE NextPart
<1> USE DEF ConfigInv
<1>0. save \in Places
    BY DEF ConfigTypeOK, Places
<1>1. save.part \in Parts /\ save.bank \in Banks /\ save # Done
    BY <1>0 DEF Verify, Done, Parts, Places
<1>2. UNCHANGED <<config, bank, sets, starts, worn>>
    BY DEF Verify, configBounds
<1>3. /\ save' = after /\ verified' = now
      /\ stored' = IF after = Done /\ Parts \X {"A", "B"} \subseteq now THEN {config} ELSE {}
      /\ offered' = IF after = Done /\ Parts \X Banks \subseteq now THEN {config} ELSE offered
    BY DEF Verify
<1>4. config \in offered /\ config \in Configs
    BY <1>1 DEF SaveUnderway, ConfigTypeOK
<1>5. /\ now \subseteq Parts \X Banks
      /\ \A p \in Parts, b \in Banks : <<p, b>> \in now => Holds(b, p)
    <2>1. \A p \in Parts, b \in Banks : <<p, b>> \in verified => Holds(b, p)
        BY <1>1 DEF SaveUnderway
    <2> QED
        BY <2>1, <1>1 DEF ConfigTypeOK
<1>6. after \in Places
    <2>1. NextPart \in Places
        BY PlacesAre
    <2>2. Behind(save.bank) \in Banks
        BY DEF Behind, Banks
    <2>3. WordsOf[save.part] \in Seq(ConfigWords)
        BY <1>1, WordsOfParts DEF Parts
    <2> QED
        BY <1>0, <2>1, <2>2, <2>3 DEF Places
<1>7. ASSUME NEW b \in Banks, Parts \X {b} \subseteq now
      PROVE  Full(b, config)
    <2>1. \A p \in Parts : Holds(b, p)
        <3> SUFFICES ASSUME NEW p \in Parts PROVE Holds(b, p)
            OBVIOUS
        <3>1. <<p, b>> \in now
            BY <1>7
        <3> QED
            BY <3>1, <1>5
    <2> QED
        BY <2>1, HoldsIs, ConfigWordsAre DEF Full
<1> HIDE DEF now, after
<1>8. ConfigTypeOK'
    BY <1>2, <1>3, <1>4, <1>5, <1>6 DEF ConfigTypeOK, Places
<1>9. BanksTyped'
    BY <1>2 DEF BanksTyped
<1>10. HashesOffered'
    <2>1. CASE offered' = offered
        BY <2>1, <1>2 DEF HashesOffered
    <2>2. CASE offered' = {config} /\ Parts \X Banks \subseteq now
        <3>1. \A b \in Banks : Full(b, config)
            BY <2>2, <1>7
        <3> QED
            BY <3>1, <2>2, <1>2, ImageIs, ConfigWordsAre DEF Full, HashesOffered
    <2> QED
        BY <2>1, <2>2, <1>3
<1>11. SaveUnderway'
    <2>1. \A p \in Parts, b \in Banks : Holds(b, p)' = Holds(b, p)
        BY <1>2 DEF Holds
    <2>2. config' \in offered'
        BY <1>2, <1>3, <1>4
    <2> QED
        BY <2>1, <2>2, <1>3, <1>5 DEF SaveUnderway
<1>12. StoredHeld'
    <2> SUFFICES ASSUME stored' # {} PROVE StoredHeld'
        BY DEF StoredHeld
    <2>1. after = Done /\ Parts \X {"A", "B"} \subseteq now /\ stored' = {config}
        BY <1>3
    <2>2. Full("A", config) /\ Full("B", config)
        BY <2>1, <1>7 DEF Banks
    <2>3. Full("A", config)' /\ Full("B", config)'
        BY <2>2, <1>2 DEF Full
    <2> QED
        BY <2>1, <2>3, <1>2, <1>3, <1>4 DEF StoredHeld
<1> QED
    BY <1>8, <1>9, <1>10, <1>11, <1>12

LEMMA LoadKeeps ==
    ASSUME ConfigInv, Load
    PROVE  ConfigInv'
<1> USE DEF ConfigInv
<1>1. save = Done /\ UNCHANGED <<bank, save, verified, offered, stored, sets, starts, worn>>
    BY DEF Load, configBounds
<1>2. ConfigTypeOK'
    BY <1>1, ReadDataTyped DEF Load, ConfigTypeOK, Bits, Places
<1>3. BanksTyped' /\ HashesOffered' /\ SaveUnderway'
    BY <1>1 DEF BanksTyped, HashesOffered, SaveUnderway, Done
<1>4. StoredHeld'
    BY <1>1 DEF StoredHeld, Full
<1> QED
    BY <1>2, <1>3, <1>4

LEMMA StartKeeps ==
    ASSUME ConfigInv, Start
    PROVE  ConfigInv'
<1>1. sets' \in 0 .. MaxSets /\ starts' \in 0 .. MaxStarts /\ worn' \in 0 .. MaxWorn
    BY ConfigBounds DEF Start, ConfigInv, ConfigTypeOK
<1>2. CASE Ours /\ Hashed
    <2>1. /\ config' = ReadData /\ save' = Done
          /\ UNCHANGED <<verified, offered, stored, bank, sets, worn>>
        BY <1>2 DEF Start
    <2>2. ConfigTypeOK'
        BY <1>1, <2>1, PlacesAre, ReadDataTyped DEF ConfigInv, ConfigTypeOK, Bits, Places
    <2>3. BanksTyped' /\ HashesOffered' /\ SaveUnderway' /\ StoredHeld'
        BY <2>1 DEF ConfigInv, BanksTyped, HashesOffered, SaveUnderway, StoredHeld, Full, Done
    <2> QED
        BY <2>2, <2>3 DEF ConfigInv
<1>3. CASE ~ (Ours /\ Hashed)
    <2>1. config' = init_config /\ SaveOf(init_config) /\ bank' = bank
        BY <1>3 DEF Start
    <2> QED
        BY <1>1, <2>1, SaveOfKeeps, ConfigAssumption
<1> QED
    BY <1>2, <1>3

LEMMA ConfigNextKeeps == ConfigInv /\ [ConfigNext]_configVars => ConfigInv'
<1> SUFFICES ASSUME ConfigInv, [ConfigNext]_configVars PROVE ConfigInv'
    OBVIOUS
<1>1. CASE UNCHANGED configVars
    <2>1. UNCHANGED <<config, bank, save, verified, offered, stored, sets, starts, worn>>
        BY <1>1 DEF configVars, configBounds
    <2>2. ConfigTypeOK'
        BY <2>1 DEF ConfigInv, ConfigTypeOK
    <2>4. BanksTyped' /\ HashesOffered'
        BY <2>1 DEF ConfigInv, BanksTyped, HashesOffered
    <2>3. SaveUnderway' /\ StoredHeld'
        BY <2>1 DEF ConfigInv, SaveUnderway, StoredHeld, Holds, Full
    <2> QED
        BY <2>2, <2>3, <2>4 DEF ConfigInv
<1>2. CASE ConfigNext
    BY <1>2, SetAndSaveKeeps, WriteConfigWordKeeps, VerifyKeeps, LoadKeeps, StartKeeps
       DEF ConfigNext
<1> QED
    BY <1>1, <1>2

\* What two banks hold outvotes the third.
LEMMA HeldIsRead ==
    ASSUME NEW data \in Configs, Full("A", data), Full("B", data)
    PROVE  Ours /\ Hashed /\ ReadData = data
<1>1. \A w \in ConfigWords : Read(w) = Image(data)[w]
    BY DEF Full, Read, Majority
<1>2. ReadData = data
    <2>1. \A w \in Data : Read(w) = data[w]
        BY <1>1, ImageIs, ConfigWordsAre
    <2>2. data = [w \in Data |-> data[w]]
        BY ConfigAssumption
    <2> QED
        BY <2>1, <2>2 DEF ReadData
<1> QED
    BY <1>1, <1>2, ImageIs DEF Ours, Hashed, ConfigWords, Hashes

\* The state of twr_config.c is what the types of the code say.
THEOREM ConfigTyped == ConfigSpec => []ConfigTypeOK
<1>1. ConfigInv => ConfigTypeOK
    BY DEF ConfigInv
<1> QED
    BY <1>1, ConfigInitHolds, ConfigNextKeeps, PTL DEF ConfigSpec

\* Wherever resets fall in the saves of twr_config_save, however many follow one
\* another, and whichever words do not take, a device starts with its defaults or with
\* a configuration that it was given by, or since, the last save that reached all
\* banks, and not with a mixture; and what two banks took is read back.
THEOREM TheConfigIsKept == ConfigSpec => ConfigKept
<1>1. ConfigInv => StoredIsRead
    <2> SUFFICES ASSUME ConfigInv, stored # {} PROVE Ours /\ Hashed /\ stored = {ReadData}
        BY DEF StoredIsRead
    <2>1. PICK data \in Configs : stored = {data} /\ Full("A", data) /\ Full("B", data)
        BY DEF ConfigInv, StoredHeld
    <2> QED
        BY <2>1, HeldIsRead
<1>2. ConfigInv /\ [ConfigNext]_configVars => [starts' # starts => config' \in offered']_configVars
    <2> SUFFICES ASSUME ConfigInv, ConfigNext, starts' # starts PROVE config' \in offered'
        OBVIOUS
    <2>1. Start
        BY DEF ConfigNext, SetAndSave, WriteConfigWord, Verify, Load, configBounds
    <2>2. CASE Ours /\ Hashed
        BY <2>1, <2>2, HashedIsOffered DEF Start, ConfigInv
    <2>3. CASE ~ (Ours /\ Hashed)
        BY <2>1, <2>3 DEF Start, SaveOf
    <2> QED
        BY <2>2, <2>3
<1> QED
    BY <1>1, <1>2, ConfigInitHolds, ConfigNextKeeps, PTL DEF ConfigSpec, ConfigKept, NothingMixed

=============================================================================
