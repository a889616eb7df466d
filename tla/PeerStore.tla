----------------------------- MODULE PeerStore ------------------------------
(***************************************************************************)
(* The list of paired devices of twr_radio.c and its copy at the end of    *)
(* the EEPROM.  Slot i of the list is stored as a record of six words that *)
(* holds the 64-bit id three times, one word of the second copy and one of *)
(* the third inverted; a byte behind the records holds their number.  The  *)
(* program never erases a record: it rewrites the words that differ, in    *)
(* order, then the number.                                                 *)
(*                                                                         *)
(* The device may reset between any two words.  A word is programmed whole *)
(* or not at all; the cell of a worn word may keep what it held, which     *)
(* twr_eeprom_write finds when it compares what it has written.            *)
(***************************************************************************)
EXTENDS Integers, Sequences, SequencesExt, FiniteSetsExt

CONSTANTS
    WORD,           \* the number of values of a word of the EEPROM
    IDs,            \* the ids of devices, pairs of words
    MAX_DEVICES,    \* TWR_RADIO_MAX_DEVICES
    MaxChanges,     \* bound: changes of the list
    MaxResets,      \* bound: resets of the device
    MaxBadWrites    \* bound: words that do not take

Words == 0 .. WORD - 1
Zero == <<0, 0>>

ASSUME IdsAssumption == IDs \subseteq (Words \X Words) \ {Zero} /\ IsFiniteSet(IDs)
ASSUME SizeAssumption == WORD \in Nat \ {0} /\ MAX_DEVICES \in Nat \ {0, 1}
ASSUME BoundAssumption == {MaxChanges, MaxResets, MaxBadWrites} \subseteq Nat

VARIABLES
    peer_devices,      \* the ids of the list, in order
    save_peer_devices, \* the list is to be saved
    planned,           \* the scheduler will run the radio task
    records,           \* EEPROM: slot -> its six words
    length,            \* EEPROM: the number of records
    pc,                \* the radio task between its runs, or where it saves
    slot, word,        \* the record and the word that it saves
    held,              \* history: ids held ever since the list was last stored
    seen,              \* history: ids held at some time since then
    changes, resets, bad_writes

list == <<peer_devices, save_peer_devices, planned>>
eeprom == <<records, length>>
bounds == <<changes, resets, bad_writes>>
vars == <<list, eeprom, pc, slot, word, held, seen, bounds>>

Slots == 0 .. MAX_DEVICES - 1
Positions == 0 .. 5
Inverted == {2, 5}

Invert(w) == WORD - 1 - w

Stored(p, w) == IF p \in Inverted THEN Invert(w) ELSE w

\* The record of an id.
Encode(id) == [p \in Positions |-> Stored(p, id[1 + (p % 2)])]

\* One of the three copies of the id that a record holds.
Copy(record, c) == <<Stored(2 * c, record[2 * c]), Stored(2 * c + 1, record[2 * c + 1])>>

Outvoted(record) == /\ Copy(record, 0) \notin {Copy(record, 1), Copy(record, 2)}
                    /\ Copy(record, 1) = Copy(record, 2)

\* The id on which two copies of a record agree, or Zero: such a record is skipped.
Vote(record) ==
    IF Outvoted(record) THEN Copy(record, 1)
    ELSE IF Copy(record, 0) \in {Copy(record, 1), Copy(record, 2)} THEN Copy(record, 0)
    ELSE Zero

\* The list that _twr_radio_load_peer_devices has put together after n records.
Found[n \in 0 .. MAX_DEVICES] ==
    IF n = 0 THEN <<>>
    ELSE IF Vote(records[n - 1]) = Zero THEN Found[n - 1]
    ELSE Append(Found[n - 1], Vote(records[n - 1]))

\* What it makes of the EEPROM.
Loaded == Found[Min({length, MAX_DEVICES})]

Repairs == \E i \in Slots : i < length /\ Outvoted(records[i])

Lists == {ids \in BoundedSeq(IDs, MAX_DEVICES - 1) : IsInjective(ids)}

\* A device whose EEPROM was empty once starts with a list that was saved.
Init ==
    /\ peer_devices \in Lists
    /\ save_peer_devices = FALSE
    /\ planned = FALSE
    /\ records = [i \in Slots |-> IF i < Len(peer_devices) THEN Encode(peer_devices[i + 1])
                                 ELSE [p \in Positions |-> 0]]
    /\ length = Len(peer_devices)
    /\ pc = "idle"
    /\ slot = 0
    /\ word = 0
    /\ held = ToSet(peer_devices)
    /\ seen = held
    /\ changes = 0
    /\ resets = 0
    /\ bad_writes = 0

-----------------------------------------------------------------------------
(***************************************************************************)
(* Changes of the list, by tasks and by the frames that the radio task     *)
(* receives: none of them runs while the radio task saves.                 *)
(***************************************************************************)
Change(ids) ==
    /\ pc = "idle"
    /\ changes < MaxChanges
    /\ changes' = changes + 1
    /\ peer_devices' = ids
    /\ save_peer_devices' = TRUE
    /\ planned' = TRUE
    /\ held' = held \cap ToSet(ids)
    /\ seen' = seen \cup ToSet(ids)
    /\ UNCHANGED <<eeprom, pc, slot, word, resets, bad_writes>>

\* A list that is full, or holds the id, is left alone.
PeerDeviceAdd(id) ==
    /\ Len(peer_devices) + 1 # MAX_DEVICES
    /\ ~ Contains(peer_devices, id)
    /\ Change(Append(peer_devices, id))

\* Mutant: the hole is not filled.
MutPeerDeviceRemove(id) ==
    /\ Contains(peer_devices, id)
    /\ LET i == SelectInSeq(peer_devices, LAMBDA p : p = id)
       IN Change(Front(ReplaceAt(peer_devices, i, Zero)))

\* The last device takes the place of the first one with this id.
PeerDeviceRemove(id) ==
    /\ Contains(peer_devices, id)
    /\ LET i == SelectInSeq(peer_devices, LAMBDA p : p = id)
       IN Change(Front(ReplaceAt(peer_devices, i, Last(peer_devices))))

\* A node that is answered by a gateway knows that gateway only.
PairedTo(id) ==
    /\ \/ peer_devices = <<>>
       \/ peer_devices # <<>> /\ peer_devices[1] # id
    /\ Change(<<id>>)

-----------------------------------------------------------------------------
(***************************************************************************)
(* _twr_radio_save_peer_devices, word by word.                             *)
(***************************************************************************)
\* Mutant: the number of records is stored before the records.
MutStartSave ==
    /\ pc = "idle"
    /\ planned
    /\ planned' = FALSE
    /\ save_peer_devices
    /\ save_peer_devices' = FALSE
    /\ length' = Len(peer_devices)
    /\ pc' = "records"
    /\ slot' = 0
    /\ word' = 0
    /\ UNCHANGED <<peer_devices, records, held, seen, bounds>>

StartSave ==
    /\ pc = "idle"
    /\ planned
    /\ planned' = FALSE
    /\ save_peer_devices
    /\ save_peer_devices' = FALSE
    /\ pc' = "records"
    /\ slot' = 0
    /\ word' = 0
    /\ UNCHANGED <<peer_devices, eeprom, held, seen, bounds>>

NothingToSave ==
    /\ pc = "idle"
    /\ planned
    /\ planned' = FALSE
    /\ ~ save_peer_devices
    /\ UNCHANGED <<peer_devices, save_peer_devices, eeprom, pc, slot, word, held, seen, bounds>>

\* The task is planned for its other work: something to send, a frame.
OtherWork ==
    /\ pc = "idle"
    /\ ~ planned
    /\ planned' = TRUE
    /\ UNCHANGED <<peer_devices, save_peer_devices, eeprom, pc, slot, word, held, seen, bounds>>

Saving == pc = "records" /\ slot < Len(peer_devices)
Wanted == Encode(peer_devices[slot + 1])
\* The words that are still to be programmed.
Differing == {p \in word .. 5 : records[slot][p] # Wanted[p]}

WriteWord ==
    /\ Saving
    /\ Differing # {}
    /\ LET p == Min(Differing)
       IN /\ records' = [records EXCEPT ![slot][p] = Wanted[p]]
          /\ word' = p + 1
    /\ UNCHANGED <<list, length, pc, slot, held, seen, bounds>>

\* A worn cell keeps its word.
BadWord ==
    /\ Saving
    /\ Differing # {}
    /\ bad_writes < MaxBadWrites
    /\ bad_writes' = bad_writes + 1
    /\ word' = Min(Differing) + 1
    /\ UNCHANGED <<list, eeprom, pc, slot, held, seen, changes, resets>>

\* Mutant: a save that failed is not repeated.
MutSaveAgain ==
    /\ UNCHANGED <<save_peer_devices, planned>>
    /\ pc' = "idle"

SaveAgain ==
    /\ save_peer_devices' = TRUE
    /\ planned' = TRUE
    /\ pc' = "idle"

CompareRecord ==
    /\ Saving
    /\ Differing = {}
    /\ word' = 0
    /\ \/ /\ records[slot] = Wanted
          /\ slot' = slot + 1
          /\ UNCHANGED <<save_peer_devices, planned, pc>>
       \/ /\ records[slot] # Wanted
          /\ SaveAgain
          /\ UNCHANGED slot
    /\ UNCHANGED <<peer_devices, eeprom, held, seen, bounds>>

\* Now the EEPROM holds the list, and only the list.
WriteLength ==
    /\ pc = "records"
    /\ slot = Len(peer_devices)
    /\ length' = Len(peer_devices)
    /\ held' = ToSet(peer_devices)
    /\ seen' = ToSet(peer_devices)
    /\ pc' = "idle"
    /\ UNCHANGED <<list, records, slot, word, bounds>>

BadLength ==
    /\ pc = "records"
    /\ slot = Len(peer_devices)
    /\ length # Len(peer_devices)
    /\ bad_writes < MaxBadWrites
    /\ bad_writes' = bad_writes + 1
    /\ SaveAgain
    /\ UNCHANGED <<peer_devices, eeprom, slot, word, held, seen, changes, resets>>

(***************************************************************************)
(* The device starts again and loads the list.  A list that needed a       *)
(* repair is to be saved, but the task is registered after the load, for   *)
(* TWR_TICK_INFINITY: the plan made by the load goes to slot 0 of the      *)
(* scheduler, and the save waits for the task's other work.                *)
(***************************************************************************)
Reset ==
    /\ resets < MaxResets
    /\ resets' = resets + 1
    /\ peer_devices' = Loaded
    /\ save_peer_devices' = Repairs
    /\ planned' = FALSE
    /\ pc' = "idle"
    /\ slot' = 0
    /\ word' = 0
    /\ UNCHANGED <<eeprom, held, seen, changes, bad_writes>>

Save == StartSave \/ NothingToSave \/ WriteWord \/ BadWord \/ CompareRecord \/ WriteLength \/ BadLength

Next ==
    \/ \E id \in IDs : PeerDeviceAdd(id) \/ PeerDeviceRemove(id) \/ PairedTo(id)
    \/ Save
    \/ OtherWork
    \/ Reset

Spec == Init /\ [][Next]_vars

\* The scheduler runs the radio task when it is planned, and the EEPROM ends its writes.
FairSpec == Spec /\ WF_vars(Save)

-----------------------------------------------------------------------------
Known == (Words \X Words) \ {Zero}

TypeOK ==
    /\ peer_devices \in Seq(Known) /\ Len(peer_devices) < MAX_DEVICES
    /\ save_peer_devices \in BOOLEAN /\ planned \in BOOLEAN
    /\ records \in [Slots -> [Positions -> Words]]
    /\ length \in 0 .. MAX_DEVICES - 1
    /\ pc \in {"idle", "records"}
    /\ slot \in 0 .. MAX_DEVICES - 1 /\ word \in 0 .. 6
    /\ held \subseteq Known /\ seen \subseteq Known
    /\ changes \in 0 .. MaxChanges /\ resets \in 0 .. MaxResets
    /\ bad_writes \in 0 .. MaxBadWrites

\* A reset at any moment, in the middle of a save too, leaves a paired device paired:
\* whoever has been in the list ever since it was last stored is loaded.
PeersSurviveReset == held \subseteq ToSet(Loaded)

\* A reset brings nobody back who was removed before the list was last stored, and
\* makes no id of the halves of two, as long as every word takes and at most one reset
\* came before (a second save cut short over the remains of the first can make one).
NobodyRevived == bad_writes = 0 /\ resets <= 1 => ToSet(Loaded) \subseteq seen

\* The EEPROM and the list agree in the end: a save that was cut short or that failed
\* is made up for.
StoreFollowsList == <>[](Loaded = peer_devices)

\* A reset costs no peer and brings back none.
ResetsHarmless == PeersSurviveReset /\ NobodyRevived

=============================================================================
