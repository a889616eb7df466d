------------------------------- MODULE OneWire ------------------------------
(***************************************************************************)
(* The search for the devices of a 1-Wire bus (twr_onewire.c and the       *)
(* driver of a GPIO, twr_onewire_gpio.c).  A pass asks for one bit of the  *)
(* numbers after the other; all devices that are still addressed answer at *)
(* once, with their bit and its complement; the master writes the bit to   *)
(* go on with, and the devices with the other fall silent.  A pass         *)
(* remembers the last bit at which it went for 0 although there was a 1,   *)
(* and the next pass turns there.                                          *)
(*                                                                         *)
(* The numbers have FAMILY bits of a family code, Bits altogether, and the *)
(* last is their parity, in the place of a CRC of eight bits.  A device    *)
(* may be unplugged between two passes (at most MaxUnplugged are).         *)
(***************************************************************************)
EXTENDS Naturals, Sequences, FiniteSets, Functions

CONSTANTS Bits, FAMILY, MaxDevices, MaxUnplugged

ASSUME SearchAssumption ==
    /\ Bits \in Nat /\ FAMILY \in 1 .. Bits - 1 /\ MaxDevices \in Nat /\ MaxUnplugged \in Nat

VARIABLES
    devices,            \* those on the bus
    family_code,        \* what is searched for: 0 if everything
    last_rom_no, last_discrepancy, last_device_flag,
    device_list,        \* the numbers found
    searching,          \* twr_onewire_search_next has not yet said that there are no more
    unplugged           \* history: the devices that were there at the beginning

searchVars == <<devices, family_code, last_rom_no, last_discrepancy, last_device_flag,
                device_list, searching, unplugged>>

Bit == 0 .. 1

Parity(d) == Cardinality({k \in 1 .. Bits : d[k] = 1}) % 2

\* No family has the code 0.
Numbers ==
    {d \in [1 .. Bits -> Bit] : Parity(d) = 0 /\ \E k \in 1 .. FAMILY : d[k] = 1}

FamilyCodes == 1 .. 2 ^ FAMILY - 1

\* The bits of a family code, the lowest first, and zeros.
Target(code) == [k \in 1 .. Bits |-> IF k > FAMILY THEN 0 ELSE (code \div 2 ^ (k - 1)) % 2]

\* _twr_onewire_search_reset, or _twr_onewire_search_target_setup
SearchStart(code) ==
    /\ last_rom_no = Target(code)
    /\ last_discrepancy = IF code = 0 THEN 0 ELSE Bits

\* The bus when twr_onewire_search_all or twr_onewire_search_family is called.
SearchInit ==
    /\ devices \in {D \in SUBSET Numbers : Cardinality(D) <= MaxDevices}
    /\ family_code \in {0} \cup FamilyCodes
    /\ SearchStart(family_code)
    /\ last_device_flag = FALSE
    /\ device_list = <<>> /\ searching = TRUE
    /\ unplugged = {}

-----------------------------------------------------------------------------
\* Where the devices differ: as the last time before the last discrepancy,
\* the other way there, and for 0 behind it.
Direction(k, rom) ==
    IF k < last_discrepancy THEN rom[k] ELSE IF k = last_discrepancy THEN 1 ELSE 0

\* Mutant: the first place where 0 was picked is remembered.
MutLastZero(k, zero) == IF zero = 0 THEN k ELSE zero

LastZero(k, zero) == k

\* The k-th bit of a pass: all devices that are still addressed answer.
Asked(q, k) ==
    LET answers == {d[k] : d \in q.addressed}
        b == IF answers = Bit THEN Direction(k, q.rom) ELSE CHOOSE a \in answers : TRUE
    IN [addressed |-> {d \in q.addressed : d[k] = b},
        rom |-> [q.rom EXCEPT ![k] = b],
        last_zero |-> IF answers = Bit /\ b = 0 THEN LastZero(k, q.last_zero) ELSE q.last_zero]

\* A pass after its first k bits, and all of it.
Passed[k \in 0 .. Bits] ==
    IF k = 0 THEN [addressed |-> devices, rom |-> last_rom_no, last_zero |-> 0]
    ELSE Asked(Passed[k - 1], k)

Pass == Passed[Bits]

\* twr_onewire_search_next finds a device, which _twr_onewire_search_devices
\* puts on the list.
SearchNext ==
    /\ searching /\ ~ last_device_flag /\ devices # {}
    /\ last_rom_no' = Pass.rom
    /\ last_discrepancy' = Pass.last_zero
    /\ last_device_flag' = (Pass.last_zero = 0)
    /\ device_list' = Append(device_list, Pass.rom)
    /\ UNCHANGED <<devices, family_code, searching, unplugged>>

\* There are no more, or no device answers the reset.
NoMore ==
    /\ searching /\ (last_device_flag \/ devices = {})
    /\ searching' = FALSE
    /\ UNCHANGED <<devices, family_code, last_rom_no, last_discrepancy, last_device_flag,
                   device_list, unplugged>>

Unplug(d) ==
    /\ searching /\ d \in devices /\ Cardinality(unplugged) < MaxUnplugged
    /\ devices' = devices \ {d}
    /\ unplugged' = unplugged \cup {d}
    /\ UNCHANGED <<family_code, last_rom_no, last_discrepancy, last_device_flag, device_list,
                   searching>>

SearchStep == SearchNext \/ NoMore \/ \E d \in devices : Unplug(d)

SearchSpec == SearchInit /\ [][SearchStep]_searchVars

-----------------------------------------------------------------------------
SearchTypeOK ==
    /\ devices \cup unplugged \subseteq Numbers
    /\ family_code \in {0} \cup FamilyCodes
    /\ last_rom_no \in [1 .. Bits -> Bit] /\ last_discrepancy \in 0 .. Bits
    /\ {last_device_flag, searching} \subseteq BOOLEAN
    /\ Range(device_list) \subseteq devices \cup unplugged

\* The order in which a search of everything meets the devices.
Precedes(c, d) ==
    \E k \in 1 .. Bits : c[k] < d[k] /\ \A j \in 1 .. k - 1 : c[j] = d[j]

Rank(d, D) == Cardinality({c \in D : Precedes(c, d)}) + 1

\* On a bus that nobody touches, the passes of a search of everything meet
\* the devices in their order, each of them once and none left out.
EachFoundOnce ==
    family_code = 0 /\ unplugged = {} =>
        /\ \A i \in DOMAIN device_list : Rank(device_list[i], devices) = i
        /\ ~ searching => Len(device_list) = Cardinality(devices)

\* A device unplugged during a search of everything hides none of the others
\* (two may: both of those between which the next pass was to turn).
OthersFound ==
    family_code = 0 /\ Cardinality(unplugged) <= 1 /\ ~ searching =>
        devices \subseteq Range(device_list)

InFamily(d, code) == \A k \in 1 .. FAMILY : d[k] = Target(code)[k]

\* A search for a family begins with the devices of the family, all of them
\* (and goes on with others: nothing compares the code that was found).
FamilyFirst ==
    LET F == {d \in devices : InFamily(d, family_code)}
    IN family_code # 0 /\ unplugged = {} /\ (Len(device_list) >= Cardinality(F) \/ ~ searching) =>
           {device_list[i] : i \in 1 .. Cardinality(F)} = F

\* A search finds what is there.
SearchFinds == EachFoundOnce /\ OthersFound /\ FamilyFirst

=============================================================================
