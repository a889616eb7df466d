----------------------------- MODULE ConfigStore ----------------------------
(***************************************************************************)
(* The configuration of an application in the EEPROM: twr_config.c.  Three *)
(* banks hold a header, with a signature and a hash, and the data; they    *)
(* are read by the majority of their bits.  A save writes the header into  *)
(* each bank, then the data into each bank.  twr_eeprom_write compares     *)
(* what it wrote, and the first bank that differs keeps the same part from *)
(* the banks behind it; twr_config_save returns true all the same.         *)
(*                                                                         *)
(* The device may reset between any two words, and the cell of a worn word *)
(* may keep what it held.  A word is a set of bits; one of a hash is a set *)
(* with the data it is the hash of.  The hash tells any two configurations *)
(* apart: the majority of three different hashes is the hash of nothing.   *)
(***************************************************************************)
EXTENDS Integers, Sequences

CONSTANTS
    Configs,        \* configurations: data -> a set of bits
    init_config,    \* the default configuration
    MaxSets,        \* bound: changes and saves by the application
    MaxStarts,      \* bound: starts of the device
    MaxWorn         \* bound: words that do not take

\* The words of a configuration.
Data == {"data", "data end"}

ASSUME ConfigAssumption ==
    /\ init_config \in Configs
    /\ \A data \in Configs : data = [w \in Data |-> data[w]]
ASSUME ConfigBounds == {MaxSets, MaxStarts, MaxWorn} \subseteq Nat

VARIABLES
    config,         \* the configuration in RAM
    bank,           \* EEPROM: bank -> its words
    save,           \* twr_config_save: the part, the bank and the word it is at
    verified,       \* the banks that held what they should in this save
    offered,        \* history: what was saved since, and by, the last save with no worn word
    stored,         \* history: what the first two banks hold entirely
    sets, starts, worn

configBounds == <<sets, starts, worn>>
configVars == <<config, bank, save, verified, offered, stored, configBounds>>

Banks == {"A", "B", "C"}

\* The words of the header and of the data, in the order of their addresses.
WordsOf == [header |-> <<"signature", "hash", "hash end">>, data |-> <<"data", "data end">>]
ConfigWords == {"signature", "hash", "hash end"} \cup Data

Done == [part |-> "done", bank |-> "A", todo |-> <<>>]
Begin == [part |-> "header", bank |-> "A", todo |-> WordsOf.header]

\* What a save of this configuration puts into each bank.
Image(data) ==
    [w \in ConfigWords |->
        IF w = "signature" THEN {"ours"} ELSE IF w \in Data THEN data[w] ELSE {data}]

Erased == [w \in ConfigWords |-> {}]

\* The majority of the bits of three words.
Majority(a, b, c) == (a \cap b) \cup (a \cap c) \cup (b \cap c)

\* _config_eeprom_read
Read(w) == Majority(bank["A"][w], bank["B"][w], bank["C"][w])

ReadData == [w \in Data |-> Read(w)]

Ours == Read("signature") = {"ours"}

\* Mutant: our signature will do.
MutHashed == Ours

Hashed == Read("hash") = {ReadData} /\ Read("hash end") = {ReadData}

\* A device that starts for the first time.
ConfigInit ==
    /\ bank = [b \in Banks |-> Erased]
    /\ config = init_config
    /\ save = Begin
    /\ verified = {}
    /\ offered = {init_config}
    /\ stored = {}
    /\ sets = 0 /\ starts = 0 /\ worn = 0

-----------------------------------------------------------------------------
SaveOf(data) ==
    /\ save' = Begin
    /\ verified' = {}
    /\ offered' = offered \cup {data}
    /\ stored' = {}

\* The application fills the configuration in RAM and saves it.
SetAndSave(data) ==
    /\ save = Done
    /\ sets < MaxSets
    /\ sets' = sets + 1
    /\ config' = data
    /\ SaveOf(data)
    /\ UNCHANGED <<bank, starts, worn>>

Parts == {"header", "data"}

\* twr_eeprom_write programs the words of a bank's part; a worn one stays as
\* it was.
WriteConfigWord ==
    /\ save.todo # <<>>
    /\ save' = [save EXCEPT !.todo = Tail(@)]
    /\ LET w == Head(save.todo)
       IN \/ bank' = [bank EXCEPT ![save.bank][w] = Image(config)[w]] /\ UNCHANGED worn
          \/ /\ bank[save.bank][w] # Image(config)[w]
             /\ worn < MaxWorn
             /\ worn' = worn + 1
             /\ UNCHANGED bank
    /\ UNCHANGED <<config, verified, offered, stored, sets, starts>>

Holds(b, part) ==
    \A k \in DOMAIN WordsOf[part] : LET w == WordsOf[part][k] IN bank[b][w] = Image(config)[w]
Behind(b) == IF b = "A" THEN "B" ELSE "C"

NextPart ==
    IF save.part = "header" THEN [part |-> "data", bank |-> "A", todo |-> WordsOf.data] ELSE Done

\* The bank is read back.  Nothing is done about a difference, except that
\* the banks behind it are left as they are.
Verify ==
    /\ save.part \in Parts
    /\ save.todo = <<>>
    /\ LET good == Holds(save.bank, save.part)
           now == IF good THEN verified \cup {<<save.part, save.bank>>} ELSE verified
           after == IF good /\ save.bank # "C"
                    THEN [save EXCEPT !.bank = Behind(@), !.todo = WordsOf[save.part]]
                    ELSE NextPart
       IN /\ save' = after
          /\ verified' = now
          /\ stored' = IF after = Done /\ Parts \X {"A", "B"} \subseteq now THEN {config} ELSE {}
          /\ offered' = IF after = Done /\ Parts \X Banks \subseteq now THEN {config} ELSE offered
    /\ UNCHANGED <<config, bank, configBounds>>

\* twr_config_load, called by the application: data whose hash is wrong
\* stays in RAM.
Load ==
    /\ save = Done
    /\ config' = IF Ours THEN ReadData ELSE config
    /\ UNCHANGED <<bank, save, verified, offered, stored, configBounds>>

\* The device starts: twr_config_init.
Start ==
    /\ starts < MaxStarts
    /\ starts' = starts + 1
    /\ IF Ours /\ Hashed
       THEN config' = ReadData /\ save' = Done /\ UNCHANGED <<verified, offered, stored>>
       ELSE config' = init_config /\ SaveOf(init_config)
    /\ UNCHANGED <<bank, sets, worn>>

ConfigNext ==
    \/ \E data \in Configs : SetAndSave(data)
    \/ WriteConfigWord \/ Verify \/ Load \/ Start

ConfigSpec == ConfigInit /\ [][ConfigNext]_configVars

-----------------------------------------------------------------------------
ConfigTypeOK ==
    /\ config \in [Data -> SUBSET UNION {data[w] : data \in Configs, w \in Data}]
    /\ save \in [part : Parts \cup {"done"}, bank : Banks, todo : Seq(ConfigWords)]
    /\ verified \subseteq Parts \X Banks
    /\ offered \subseteq Configs
    /\ stored \subseteq Configs
    /\ sets \in 0 .. MaxSets /\ starts \in 0 .. MaxStarts /\ worn \in 0 .. MaxWorn

\* Resets within saves, one after another, leave banks that agree on nothing
\* the application ever had.  A device starts with its defaults, or with a
\* configuration of the last save that reached all the banks or of a later one.
NothingMixed == [][starts' # starts => config' \in offered']_configVars

\* What two banks took entirely is read back, whatever became of the third.
StoredIsRead == stored # {} => Ours /\ Hashed /\ stored = {ReadData}

\* The configuration that a device starts with is one that it was given.
ConfigKept == NothingMixed /\ []StoredIsRead

=============================================================================
