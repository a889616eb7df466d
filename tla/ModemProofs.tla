----------------------------- MODULE ModemProofs -----------------------------
(***************************************************************************)
(* What the application is told of the modem is true, for any number of    *)
(* settings, requests and faults.                                          *)
(***************************************************************************)
EXTENDS Modem, FiniteSetTheorems, WellFoundedInduction, SequenceTheorems, TLAPS

LineNames == {"none", "OK", "VALUE", "ERR", "ERR7", "garbled", "BOOT"} \union Late
Lines == [name : LineNames, value : {0, 1}]

CommandNames == {"REBOOT", "AT", "SET", "QUERY", "CONFIG", "SEND", "JOIN", "LNCHECK", "CUSTOM",
                 "FACNEW"}
AnyCommand == [name : CommandNames, item : 0 .. ITEMS, value : {0, 1}]
Commands == {c \in AnyCommand : c.name \in {"CONFIG", "QUERY"} => c.item \in Items}

Events == {"none", "READY", "MESSAGE_RECEIVED", "MESSAGE_CONFIRMED", "MODEM_FACTORY_RESET",
           "ERROR", "SEND_MESSAGE_START", "SEND_MESSAGE_DONE", "CONFIG_SAVE_DONE",
           "JOIN_SUCCESS", "JOIN_ERROR", "LINK_CHECK_OK", "LINK_CHECK_NOK", "CUSTOM_AT"}

\* The lines and commands on their way.
WireTyped ==
    /\ response \in Lines /\ held \in BOOLEAN
    /\ rx_fifo \in Seq(Lines) /\ owed \in Seq(Lines) /\ commands \in Seq(Commands)
    /\ modem \in [baud : {9600, 19200}, stored : [Items -> {0, 1}]]
    /\ arrived \in BOOLEAN

\* The task, the states it may be in, and what it keeps.
TaskTyped ==
    /\ state \in States /\ plan \in {"never", "later", "now"}
    /\ running \in BOOLEAN /\ receiving \in BOOLEAN
    /\ handling \in Events /\ (handling # "none" => running)
    /\ init_command_index \in 0 .. Len(InitCommands) + 1
    /\ state \in {"INITIALIZE_AT_RESPONSE", "INITIALIZE_COMMAND_SEND",
                  "INITIALIZE_COMMAND_RESPONSE"} =>
           init_command_index \in 1 .. Len(InitCommands)
    /\ save_command_index \in 0 .. ITEMS
    /\ state = "CONFIG_SAVE_RESPONSE" => save_command_index \in Items
    /\ custom_command \in {"none", "CUSTOM", "FACNEW"}
    /\ state = "CUSTOM_COMMAND_SEND" => custom_command # "none"

AskedTyped ==
    /\ join_command \in BOOLEAN /\ link_check_command \in BOOLEAN
    /\ save_config_mask \subseteq Items
    /\ config \in [Items -> {0, 1}]
    /\ calls \in 0 .. MaxCalls /\ faults \in 0 .. MaxFaults
    /\ history \in [unsaved : SUBSET Items, doubtful : SUBSET Items, haste : BOOLEAN]

TypeInv == WireTyped /\ TaskTyped /\ AskedTyped

-----------------------------------------------------------------------------
(***************************************************************************)
(* Least elements, the initialization commands, and the lines.             *)
(***************************************************************************)
LEMMA LeastOf ==
    ASSUME NEW T \in SUBSET Nat, T # {}
    PROVE  Min(T) \in T /\ \A y \in T : Min(T) <= y
<1> DEFINE R == OpToRel(<, Nat)
<1>1. IsWellFoundedOn(R, Nat)
    BY NatLessThanWellFounded
<1>2. PICK x \in T : \A y \in T : ~ (<<y, x>> \in R)
    <2> HIDE DEF R
    <2> QED
        BY <1>1, WFMin
<1>3. \A y \in T : ~ (y < x)
    BY <1>2 DEF OpToRel
<1>4. \E z \in T : \A y \in T : z =< y
    BY <1>3
<1> QED
    BY <1>4 DEF Min

LEMMA InitCommandsTyped ==
    /\ InitCommands \in Seq(Commands) /\ Len(InitCommands) = 3 + ITEMS
    /\ \A k \in 1 .. 3 + ITEMS :
          InitCommands[k] = IF k = 1 THEN Command("REBOOT") ELSE IF k = 2 THEN Command("AT")
                            ELSE IF k = 3 THEN Command("SET")
                            ELSE [name |-> "QUERY", item |-> k - 3, value |-> 0]
<1> DEFINE first == <<Command("REBOOT"), Command("AT"), Command("SET")>>
           rest == [i \in Items |-> [Command("QUERY") EXCEPT !.item = i]]
<1>1. first \in Seq(Commands) /\ Len(first) = 3
    <2>1. \A n \in {"REBOOT", "AT", "SET"} : Command(n) \in Commands
        BY ModemAssumption DEF Command, Commands, AnyCommand, CommandNames
    <2> QED
        BY <2>1
<1>2. \A i \in Items : rest[i] = [name |-> "QUERY", item |-> i, value |-> 0]
    BY DEF Command
<1>3. \A i \in Items : rest[i] \in Commands
    <2>1. \A i \in Items : [name |-> "QUERY", item |-> i, value |-> 0] \in Commands
        BY ModemAssumption DEF Commands, AnyCommand, CommandNames, Items
    <2> HIDE DEF rest
    <2> QED
        BY <1>2, <2>1
<1>4. rest \in Seq(Commands) /\ Len(rest) = ITEMS
    <2>1. ITEMS \in Nat /\ DOMAIN rest = 1 .. ITEMS /\ rest \in [1 .. ITEMS -> Commands]
        BY ModemAssumption, <1>3 DEF Items
    <2> HIDE DEF rest
    <2> QED
        BY <2>1
<1>5. InitCommands = first \o rest
    BY DEF InitCommands
<1>6. ITEMS \in Nat
    BY ModemAssumption
<1>7. /\ first[1] = Command("REBOOT") /\ first[2] = Command("AT") /\ first[3] = Command("SET")
    OBVIOUS
<1> HIDE DEF first, rest
<1>8. /\ first \o rest \in Seq(Commands) /\ Len(first \o rest) = Len(first) + Len(rest)
      /\ \A k \in 1 .. Len(first) + Len(rest) :
            (first \o rest)[k] = IF k <= Len(first) THEN first[k] ELSE rest[k - Len(first)]
    BY <1>1, <1>4, ConcatProperties
<1>9. /\ InitCommands \in Seq(Commands) /\ Len(InitCommands) = 3 + ITEMS
      /\ \A k \in 1 .. 3 + ITEMS : InitCommands[k] = IF k <= 3 THEN first[k] ELSE rest[k - 3]
    BY <1>1, <1>4, <1>5, <1>8
<1>10. \A k \in 4 .. 3 + ITEMS : InitCommands[k] = [name |-> "QUERY", item |-> k - 3, value |-> 0]
    <2> SUFFICES ASSUME NEW k \in 4 .. 3 + ITEMS
                 PROVE  InitCommands[k] = [name |-> "QUERY", item |-> k - 3, value |-> 0]
        OBVIOUS
    <2>1. InitCommands[k] = rest[k - 3]
        BY <1>6, <1>9
    <2>2. k - 3 \in Items
        BY <1>6 DEF Items
    <2> QED
        BY <1>2, <2>1, <2>2
<1>11. /\ InitCommands[1] = Command("REBOOT") /\ InitCommands[2] = Command("AT")
       /\ InitCommands[3] = Command("SET")
    BY <1>6, <1>7, <1>9
<1>12. \A k \in 1 .. 3 + ITEMS : k = 1 \/ k = 2 \/ k = 3 \/ k \in 4 .. 3 + ITEMS
    BY <1>6
<1> QED
    BY <1>9, <1>10, <1>11, <1>12

\* What says yes to a command.
Yes == {"OK", "VALUE"}

LEMMA LinesTyped ==
    /\ \A name \in LineNames : Line(name) \in Lines /\ Line(name).name = name
    /\ None \in Lines /\ None.name = "none"
BY DEF Line, None, Lines, LineNames

\* A line is read from what was received, and what is left was received, too.
LEMMA ReadTyped ==
    ASSUME WireTyped
    PROVE  /\ ReadLine \in Lines /\ AfterLine \in Seq(Lines)
           /\ ReadLine.name \in Yes => \E k \in 1 .. Len(rx_fifo) : rx_fifo[k] = ReadLine
           /\ \A j \in 1 .. Len(AfterLine) : \E k \in 1 .. Len(rx_fifo) : AfterLine[j] = rx_fifo[k]
           /\ rx_fifo = <<>> => ReadLine = None /\ AfterLine = <<>>
<1>1. rx_fifo \in Seq(Lines) /\ Len(rx_fifo) \in Nat /\ DOMAIN rx_fifo = 1 .. Len(rx_fifo)
    BY DEF WireTyped
<1>2. None \in Lines /\ <<>> \in Seq(Lines) /\ None.name \notin Yes
    BY LinesTyped DEF Yes
<1>3. CASE Ends = {}
    <2>1. ReadLine = None /\ AfterLine = <<>>
        BY <1>3 DEF ReadLine, AfterLine
    <2> QED
        BY <1>2, <2>1
<1>4. CASE Ends # {}
    <2>1. Ends \in SUBSET Nat /\ Ends \subseteq 1 .. Len(rx_fifo)
        BY <1>1 DEF Ends
    <2>2. Min(Ends) \in 1 .. Len(rx_fifo)
        BY <1>4, <2>1, LeastOf
    <2> DEFINE m == Min(Ends)
               item == rx_fifo[m]
               begun == held \/ m > 1
    <2>3. item \in Lines
        BY <1>1, <2>2
    <2>4. ReadLine = Whole(item, begun) /\ AfterLine = SubSeq(rx_fifo, m + 1, Len(rx_fifo))
        BY <1>4 DEF ReadLine, AfterLine
    <2>5. rx_fifo # <<>>
        BY <2>2
    <2> HIDE DEF m, item, begun
    <2>6. Whole(item, begun) \in {Line("ACK"), Line("garbled"), item}
        BY DEF Whole
    <2>7. /\ Line("ACK") \in Lines /\ Line("garbled") \in Lines
          /\ Line("ACK").name \notin Yes /\ Line("garbled").name \notin Yes
        BY LinesTyped DEF LineNames, Late, Yes
    <2>8. /\ ReadLine \in Lines
          /\ ReadLine.name \in Yes => \E k \in 1 .. Len(rx_fifo) : rx_fifo[k] = ReadLine
        BY <2>2, <2>3, <2>4, <2>6, <2>7 DEF item, m
    <2>9. m \in 1 .. Len(rx_fifo)
        BY <2>2 DEF m
    <2>10. /\ SubSeq(rx_fifo, m + 1, Len(rx_fifo)) \in Seq(Lines)
           /\ Len(SubSeq(rx_fifo, m + 1, Len(rx_fifo))) = Len(rx_fifo) - m
           /\ \A j \in 1 .. Len(rx_fifo) - m :
                 SubSeq(rx_fifo, m + 1, Len(rx_fifo))[j] = rx_fifo[m + j]
        <3> DEFINE from == m + 1
                   length == Len(rx_fifo)
                   part == SubSeq(rx_fifo, from, length)
        <3>1. from \in 1 .. length + 1 /\ length \in from - 1 .. length
            BY <1>1, <2>9
        <3>2. /\ part \in Seq(Lines)
              /\ Len(part) = IF from <= length THEN length - from + 1 ELSE 0
              /\ \A j \in 1 .. length - from + 1 : part[j] = rx_fifo[from + j - 1]
            <4> HIDE DEF from
            <4> QED
                BY <1>1, <3>1, SubSeqProperties
        <3> HIDE DEF part
        <3>3. Len(part) = length - m
            BY <1>1, <2>9, <3>2
        <3>4. \A j \in 1 .. length - m : part[j] = rx_fifo[m + j]
            <4> TAKE j \in 1 .. length - m
            <4>1. j \in 1 .. length - from + 1 /\ from + j - 1 = m + j
                BY <1>1, <2>9
            <4> QED
                BY <3>2, <4>1
        <3> QED
            BY <3>2, <3>3, <3>4 DEF part
    <2>11. \A j \in 1 .. Len(rx_fifo) - m : m + j \in 1 .. Len(rx_fifo)
        BY <1>1, <2>9
    <2> QED
        BY <2>4, <2>5, <2>8, <2>10, <2>11
<1> QED
    BY <1>3, <1>4

\* An answer is one line or more, and only the first of them says yes.
LEMMA AnswersTyped ==
    ASSUME WireTyped, NEW c \in Commands, NEW lines \in Answers(c)
    PROVE  /\ lines \in Seq(Lines) /\ lines # <<>>
           /\ Head(lines) \in Lines /\ Tail(lines) \in Seq(Lines)
           /\ \A k \in 1 .. Len(Tail(lines)) : Tail(lines)[k].name \notin Yes
<1>1. \A name \in LineNames : Line(name) \in Lines /\ Line(name).name = name
    BY LinesTyped
<1> DEFINE No == {l \in Lines : l.name \notin Yes}
<1>2. /\ \A name \in {"OK", "ERR", "VALUE"} : Line(name) \in Lines
      /\ \A name \in {"BOOT", "ACK", "JOINED", "NOJOIN", "MAC", "NOMAC", "ANS", "RESET"} :
            Line(name) \in No
    <2>1. {"OK", "ERR", "VALUE", "BOOT", "ACK", "JOINED", "NOJOIN", "MAC", "NOMAC", "ANS",
           "RESET"} \subseteq LineNames
        BY DEF LineNames, Late
    <2> QED
        BY <1>1, <2>1 DEF Yes
<1>3. c.name \in CommandNames
    BY DEF Commands, AnyCommand
<1>4. c.name = "QUERY" => [name |-> "VALUE", value |-> modem.stored[c.item]] \in Lines
    <2>1. ASSUME c.name = "QUERY" PROVE modem.stored[c.item] \in {0, 1}
        BY <2>1 DEF Commands, WireTyped
    <2> QED
        BY <2>1 DEF Lines, LineNames
<1> HIDE DEF No
<1>5. \/ \E l \in Lines : lines = <<l>>
      \/ \E l \in Lines, m \in No : lines = <<l, m>>
      \/ \E l \in Lines, m \in No, n \in No : lines = <<l, m, n>>
    <2>1. CASE c.name \in {"AT", "CONFIG", "SET", "CUSTOM"}
        BY <1>2, <2>1 DEF Answers
    <2>2. CASE c.name \in {"REBOOT", "SEND"}
        BY <1>2, <2>2 DEF Answers
    <2>3. CASE c.name = "QUERY"
        BY <1>4, <2>3 DEF Answers
    <2>4. CASE c.name = "JOIN"
        BY <1>2, <2>4 DEF Answers
    <2>5. CASE c.name = "LNCHECK"
        BY <1>2, <2>5 DEF Answers
    <2>6. CASE c.name = "FACNEW"
        BY <1>2, <2>6 DEF Answers
    <2> QED
        BY <1>3, <2>1, <2>2, <2>3, <2>4, <2>5, <2>6 DEF CommandNames
<1>6. \A l \in No : l \in Lines /\ l.name \notin Yes
    BY DEF No
<1>7. ASSUME NEW l \in Lines, lines = <<l>>
      PROVE  lines \in Seq(Lines) /\ Head(lines) = l /\ Tail(lines) = <<>>
    BY <1>7
<1>8. ASSUME NEW l \in Lines, NEW m \in No, lines = <<l, m>>
      PROVE  lines \in Seq(Lines) /\ Head(lines) = l /\ Tail(lines) = <<m>>
    BY <1>6, <1>8
<1>9. ASSUME NEW l \in Lines, NEW m \in No, NEW n \in No, lines = <<l, m, n>>
      PROVE  lines \in Seq(Lines) /\ Head(lines) = l /\ Tail(lines) = <<m, n>>
    BY <1>6, <1>9
<1>10. lines # <<>>
    BY <1>5, SMTT(30)
<1>11. PICK rest : rest = Tail(lines)
    OBVIOUS
<1>12. \/ rest = <<>>
       \/ \E m \in No : rest = <<m>>
       \/ \E m \in No, n \in No : rest = <<m, n>>
    BY <1>5, <1>7, <1>8, <1>9, <1>11
<1>13. rest \in Seq(Lines) /\ \A k \in 1 .. Len(rest) : rest[k] \in No
    <2>1. ASSUME NEW m \in No, rest = <<m>>
          PROVE  rest \in Seq(Lines) /\ \A k \in 1 .. Len(rest) : rest[k] \in No
        BY <1>6, <2>1
    <2>2. ASSUME NEW m \in No, NEW n \in No, rest = <<m, n>>
          PROVE  rest \in Seq(Lines) /\ \A k \in 1 .. Len(rest) : rest[k] \in No
        BY <1>6, <2>2
    <2>3. ASSUME rest = <<>>
          PROVE  rest \in Seq(Lines) /\ \A k \in 1 .. Len(rest) : rest[k] \in No
        BY <2>3
    <2> QED
        BY <1>12, <2>1, <2>2, <2>3
<1> QED
    BY <1>5, <1>6, <1>7, <1>8, <1>9, <1>10, <1>11, <1>13

\* What was received and read.
ReaderTyped ==
    /\ response \in Lines /\ held \in BOOLEAN
    /\ rx_fifo \in Seq(Lines)

LEMMA ReadKeeps == WireTyped /\ Read => ReaderTyped'
BY ReadTyped DEF WireTyped, Read, ReaderTyped

LEMMA WriteKeeps ==
    ASSUME WireTyped, NEW c \in Commands, Write(c)
    PROVE  commands' \in Seq(Commands) /\ UNCHANGED <<owed, modem>>
BY DEF WireTyped, Write

LEMMA CommandsTyped ==
    /\ \A name \in CommandNames \ {"CONFIG", "QUERY"} : Command(name) \in Commands
    /\ \A i \in Items, v \in {0, 1} : [name |-> "CONFIG", item |-> i, value |-> v] \in Commands
BY ModemAssumption DEF Command, Commands, AnyCommand, CommandNames, Items

-----------------------------------------------------------------------------
(***************************************************************************)
(* Types are kept.                                                         *)
(***************************************************************************)
LEMMA TaskWireTyped == TypeInv /\ Task => WireTyped'
<1> SUFFICES ASSUME TypeInv, Task PROVE WireTyped'
    OBVIOUS
<1> USE DEF TypeInv
<1>1. ASSUME UNCHANGED <<reader, wire, arrived>> PROVE WireTyped'
    BY <1>1 DEF WireTyped, reader, wire
<1>2. ASSUME Read, UNCHANGED <<wire, arrived>> PROVE WireTyped'
    BY <1>2, ReadKeeps DEF WireTyped, ReaderTyped, wire
<1>3. ASSUME Purge, UNCHANGED <<wire, arrived>> PROVE WireTyped'
    BY <1>3 DEF WireTyped, Purge, wire
<1>4. ASSUME NEW c \in Commands, Write(c), Purge, UNCHANGED arrived PROVE WireTyped'
    BY <1>4, WriteKeeps DEF WireTyped, Purge
<1>5. CASE TaskRuns \/ Ready \/ Idle \/ Receive \/ Error \/ HandlerReturns
    BY <1>1, <1>5 DEF TaskRuns, Ready, Idle, Receive, Error, HandlerReturns, In
<1>6. CASE ReceiveLine
    <2>1. UNCHANGED <<wire, arrived>>
        BY <1>6 DEF ReceiveLine
    <2>2. CASE ReadLine.name = "RECV"
        <3>1. AfterLine \in Seq(Lines) /\ ReadLine \in Lines
            BY ReadTyped
        <3>2. response' = ReadLine /\ held' \in BOOLEAN
            BY <1>6, <2>2 DEF ReceiveLine
        <3>3. rx_fifo' \in Seq(Lines)
            <4>1. rx_fifo' = AfterLine \/ (AfterLine # <<>> /\ rx_fifo' = Tail(AfterLine))
                BY <1>6, <2>2 DEF ReceiveLine
            <4> QED
                BY <3>1, <4>1
        <3>4. UNCHANGED <<owed, commands, modem, arrived>>
            BY <2>1 DEF wire
        <3> QED
            BY <3>1, <3>2, <3>3, <3>4 DEF WireTyped
    <2>3. CASE ReadLine.name # "RECV"
        <3>1. Read
            BY <1>6, <2>3 DEF ReceiveLine
        <3> QED
            BY <1>2, <2>1, <3>1
    <2> QED
        BY <2>2, <2>3
<1>7. CASE Initialize
    <2>1. rx_fifo' = <<>> /\ UNCHANGED <<response, held, owed, modem, arrived>>
        BY <1>7 DEF Initialize, Purge, In
    <2>2. Command("AT") \in Commands
        BY CommandsTyped DEF CommandNames
    <2>3. commands' \in Seq(Commands)
        <3>1. commands' = Append(commands, Command("AT")) \/ commands' = <<Command("AT")>>
            BY <1>7 DEF Initialize
        <3>2. commands \in Seq(Commands)
            BY DEF WireTyped
        <3>3. ASSUME NEW c \in Commands
              PROVE  <<c>> \in Seq(Commands) /\ Append(commands, c) \in Seq(Commands)
            BY <3>2
        <3> QED
            BY <2>2, <3>1, <3>3
    <2> QED
        BY <2>1, <2>3 DEF WireTyped
<1>8. CASE RecoverBaudrate
    <2>1. /\ rx_fifo' = <<>> /\ UNCHANGED <<response, held>> /\ commands' = <<>>
        BY <1>8 DEF RecoverBaudrate, Purge
    <2>4. arrived' \in BOOLEAN
        <3>1. arrived' = FALSE
            BY <1>8 DEF RecoverBaudrate
        <3> QED
            BY <3>1
    <2>2. owed' \in Seq(Lines)
        <3>1. owed' = owed \/ owed' = Append(owed, Line("BOOT"))
            BY <1>8 DEF RecoverBaudrate
        <3>2. Line("BOOT") \in Lines
            BY LinesTyped DEF LineNames
        <3>3. owed \in Seq(Lines)
            BY DEF WireTyped
        <3> HIDE DEF TypeInv
        <3> QED
            BY <3>1, <3>2, <3>3
    <2>3. modem' \in [baud : {9600, 19200}, stored : [Items -> {0, 1}]]
        <3>1. modem' = [modem EXCEPT !.baud = 9600]
            BY <1>8 DEF RecoverBaudrate
        <3> QED
            BY <3>1 DEF WireTyped
    <2> QED
        BY <2>1, <2>2, <2>3, <2>4 DEF WireTyped
<1>9. CASE InitializeAtResponse \/ InitializeCommandResponse \/ SendMessageResponse
           \/ ConfigSaveResponse \/ JoinResponse \/ LinkCheckResponse \/ LinkCheckResponseAns
           \/ CustomCommandResponse
    BY <1>2, <1>9 DEF InitializeAtResponse, InitializeCommandResponse, SendMessageResponse,
        ConfigSaveResponse, JoinResponse, LinkCheckResponse, LinkCheckResponseAns,
        CustomCommandResponse, In
<1>10. CASE InitializeCommandSend
    <2>1. init_command_index \in 1 .. Len(InitCommands)
        BY <1>10 DEF InitializeCommandSend, In, TaskTyped
    <2>2. InitCommands[init_command_index] \in Commands
        BY <2>1, InitCommandsTyped
    <2> QED
        BY <1>4, <1>10, <2>2 DEF InitializeCommandSend, Ask, In
<1>11. CASE SendMessageCommand
    <2>1. Command("SEND") \in Commands
        BY CommandsTyped DEF CommandNames
    <2>2. ASSUME Write(Command("SEND")), UNCHANGED <<reader, arrived>> PROVE WireTyped'
        BY <2>1, <2>2, WriteKeeps DEF WireTyped, reader
    <2> QED
        BY <1>1, <1>11, <2>2 DEF SendMessageCommand, Unwritten, In
<1>12. CASE ConfigSaveSend
    <2>1. CASE save_config_mask = {}
        BY <1>1, <1>12, <2>1 DEF ConfigSaveSend, In
    <2>2. CASE save_config_mask # {}
        <3> DEFINE i == Min(save_config_mask)
                   c == [name |-> "CONFIG", item |-> i, value |-> config[i]]
        <3>1. i \in Items
            <4>1. save_config_mask \in SUBSET Nat /\ save_config_mask \subseteq Items
                BY DEF AskedTyped, Items
            <4> QED
                BY <2>2, <4>1, LeastOf
        <3>2. c \in Commands
            BY <3>1, CommandsTyped DEF AskedTyped
        <3>3. Write(c) /\ Purge /\ UNCHANGED arrived
            <4>1. In("CONFIG_SAVE_SEND") => UNCHANGED arrived
                BY DEF In
            <4> QED
                BY <1>12, <2>2, <4>1, Zenon DEF ConfigSaveSend
        <3> HIDE DEF c
        <3> QED
            BY <1>4, <3>2, <3>3
    <2> QED
        BY <2>1, <2>2
<1>13. CASE JoinSend \/ LinkCheckSend
    <2>1. Command("JOIN") \in Commands /\ Command("LNCHECK") \in Commands
        BY CommandsTyped DEF CommandNames
    <2> QED
        BY <1>4, <1>13, <2>1 DEF JoinSend, LinkCheckSend, In
<1>14. CASE CustomCommandSend
    <2>1. custom_command \in {"CUSTOM", "FACNEW"}
        BY <1>14 DEF CustomCommandSend, In, TaskTyped
    <2>2. Command(custom_command) \in Commands
        BY <2>1, CommandsTyped DEF CommandNames
    <2> QED
        BY <1>4, <1>14, <2>2 DEF CustomCommandSend, Ask, In
<1>15. CASE NoRoom
    BY <1>3, <1>15 DEF NoRoom, Unwritten, In
<1> QED
    BY <1>5, <1>6, <1>7, <1>8, <1>9, <1>10, <1>11, <1>12, <1>13, <1>14, <1>15 DEF Task

\* The driver's states follow on one another.
LEMMA TaskTaskTyped == TypeInv /\ Task => TaskTyped'
<1> SUFFICES ASSUME TypeInv, Task PROVE TaskTyped'
    OBVIOUS
<1>1. TaskTyped
    BY DEF TypeInv
<1>2. Len(InitCommands) = 3 + ITEMS /\ ITEMS \in Nat /\ ITEMS > 0
    BY InitCommandsTyped, ModemAssumption
<1> DEFINE Counters == <<init_command_index, save_command_index, custom_command>>
           Flags == /\ running' \in BOOLEAN /\ receiving' \in BOOLEAN
                    /\ plan' \in {"never", "later", "now"}
                    /\ handling' \in Events /\ (handling' # "none" => running')
           Plain == States \ {"INITIALIZE_AT_RESPONSE", "INITIALIZE_COMMAND_SEND",
                     "INITIALIZE_COMMAND_RESPONSE", "CONFIG_SAVE_RESPONSE", "CUSTOM_COMMAND_SEND"}
<1>3. ASSUME state' \in Plain \/ state' = state, UNCHANGED Counters, Flags
      PROVE  TaskTyped'
    BY <1>1, <1>3 DEF TaskTyped
<1>4. ASSUME NEW s, In(s)
      PROVE  /\ state = s /\ running
             /\ Continue => Flags
             /\ \A p \in {"never", "later", "now"} : Return(p) => Flags
             /\ \A e \in Events : Tell(e) => Flags
    BY <1>1, <1>4 DEF TaskTyped, In, Continue, Return, Tell, Events
<1>5. \A s : Goto(s) => state' = s /\ UNCHANGED Counters
    BY DEF Goto
<1>6. Plain = {"READY", "ERROR", "INITIALIZE", "RECOVER_BAUDRATE_UART", "IDLE", "RECEIVE",
               "SEND_MESSAGE_COMMAND", "SEND_MESSAGE_RESPONSE", "CONFIG_SAVE_SEND", "JOIN_SEND",
               "JOIN_RESPONSE", "LINK_CHECK_SEND", "LINK_CHECK_RESPONSE",
               "LINK_CHECK_RESPONSE_ANS", "CUSTOM_COMMAND_RESPONSE"}
    BY DEF States
<1>7. CASE TaskRuns
    BY <1>1, <1>3, <1>7 DEF TaskRuns, TaskTyped, driver
<1>8. CASE Ready
    <2>1. In("READY") /\ Goto("IDLE") /\ Tell("READY")
        BY <1>8 DEF Ready
    <2>2. Flags
        BY <1>4, <2>1 DEF Events
    <2> QED
        BY <1>3, <1>5, <1>6, <2>1, <2>2
<1>9. CASE Idle
    <2>1. In("IDLE") /\ (Return(plan) \/ Continue) /\ UNCHANGED Counters
        BY <1>9 DEF Idle, Goto
    <2>2. Flags
        BY <1>1, <1>4, <2>1 DEF TaskTyped
    <2>3. CASE state' = "CUSTOM_COMMAND_SEND"
        <3>1. custom_command # "none"
            BY <1>9, <2>3 DEF Idle, Goto
        <3> QED
            BY <1>1, <2>1, <2>2, <2>3, <3>1 DEF TaskTyped, States
    <2>4. CASE state' # "CUSTOM_COMMAND_SEND"
        <3>1. state' \in {"IDLE", "CONFIG_SAVE_SEND", "JOIN_SEND", "LINK_CHECK_SEND"}
            BY <1>9, <2>4 DEF Idle, Goto
        <3> QED
            BY <1>3, <1>6, <2>1, <2>2, <3>1
    <2> QED
        BY <2>3, <2>4
<1>10. CASE Receive
    <2>1. In("RECEIVE") /\ Goto("IDLE") /\ UNCHANGED <<plan, running, handling>> /\ receiving' = TRUE
        BY <1>10 DEF Receive
    <2>2. Flags
        BY <1>1, <2>1 DEF TaskTyped
    <2> QED
        BY <1>3, <1>5, <1>6, <2>1, <2>2
<1>11. CASE ReceiveLine
    <2>1. running /\ UNCHANGED Counters /\ (state' = "INITIALIZE" \/ state' = state)
        BY <1>11 DEF ReceiveLine, driver
    <2>2. \/ receiving' = FALSE /\ UNCHANGED <<plan, running, handling>>
          \/ Continue
          \/ \E e \in Events : Tell(e)
        BY <1>11 DEF ReceiveLine, Events
    <2>3. Flags
        BY <1>1, <2>1, <2>2 DEF TaskTyped, Continue, Tell
    <2> QED
        BY <1>3, <1>6, <2>1, <2>3
<1>12. CASE Error
    <2>1. In("ERROR") /\ Tell("ERROR") /\ UNCHANGED <<state, Counters>>
        BY <1>12 DEF Error
    <2>2. Flags
        BY <1>4, <2>1 DEF Events
    <2> QED
        BY <1>3, <2>1, <2>2
<1>13. CASE Initialize
    <2>1. /\ In("INITIALIZE") /\ Return("later") /\ UNCHANGED <<save_command_index, custom_command>>
          /\ state' = "INITIALIZE_AT_RESPONSE" /\ init_command_index' = 1
        BY <1>13 DEF Initialize
    <2>2. Flags
        BY <1>4, <2>1
    <2> QED
        BY <1>1, <1>2, <2>1, <2>2 DEF TaskTyped, States
<1>14. CASE InitializeAtResponse
    <2>1. /\ In("INITIALIZE_AT_RESPONSE") /\ Continue /\ UNCHANGED Counters
          /\ state' \in {"INITIALIZE_COMMAND_SEND", "RECOVER_BAUDRATE_UART"}
        BY <1>14 DEF InitializeAtResponse, Goto
    <2>2. Flags /\ state = "INITIALIZE_AT_RESPONSE"
        BY <1>4, <2>1
    <2> QED
        BY <1>1, <2>1, <2>2 DEF TaskTyped, States
<1>15. CASE RecoverBaudrate
    <2>1. Goto("INITIALIZE") /\ Return("later") /\ handling = "none"
        BY <1>15 DEF RecoverBaudrate
    <2>2. Flags
        BY <1>1, <2>1 DEF TaskTyped, Return
    <2> QED
        BY <1>3, <1>5, <1>6, <2>1, <2>2
<1>16. CASE InitializeCommandSend
    <2>1. /\ In("INITIALIZE_COMMAND_SEND") /\ Goto("INITIALIZE_COMMAND_RESPONSE") /\ Return("later")
        BY <1>16 DEF InitializeCommandSend, Ask
    <2>2. Flags /\ state = "INITIALIZE_COMMAND_SEND"
        BY <1>4, <2>1
    <2> QED
        BY <1>1, <1>5, <2>1, <2>2 DEF TaskTyped, States
<1>17. CASE InitializeCommandResponse
    <2>1. In("INITIALIZE_COMMAND_RESPONSE")
        BY <1>17 DEF InitializeCommandResponse
    <2>2. CASE ReadLine = None
        <3>1. Wait("ERROR", Answered)
            BY <1>17, <2>2 DEF InitializeCommandResponse
        <3>2. (state' = "ERROR" \/ state' = state) /\ UNCHANGED Counters /\ Return("later")
            BY <3>1 DEF Wait, Goto
        <3>3. Flags
            BY <1>4, <2>1, <3>2
        <3> QED
            BY <1>3, <1>6, <3>2, <3>3
    <2>3. CASE ReadLine # None /\ ~ Handled(ReadLine)
        <3>1. Goto("ERROR") /\ Continue
            BY <1>17, <2>3 DEF InitializeCommandResponse, Fails
        <3>2. Flags
            BY <1>4, <2>1, <3>1
        <3> QED
            BY <1>3, <1>5, <1>6, <3>1, <3>2
    <2>4. CASE ReadLine # None /\ Handled(ReadLine)
        <3>1. /\ Continue /\ custom_command' = custom_command
              /\ init_command_index' = init_command_index + 1
              /\ save_command_index' = 0 \/ save_command_index' = save_command_index
              /\ state' = IF init_command_index # Len(InitCommands) THEN "INITIALIZE_COMMAND_SEND"
                          ELSE IF save_config_mask = {} THEN "READY" ELSE "CONFIG_SAVE_SEND"
            BY <1>17, <2>4 DEF InitializeCommandResponse
        <3>2. Flags /\ state = "INITIALIZE_COMMAND_RESPONSE"
            BY <1>4, <2>1, <3>1
        <3>3. init_command_index \in 1 .. Len(InitCommands)
            BY <1>1, <3>2 DEF TaskTyped
        <3>4. init_command_index' \in 0 .. Len(InitCommands) + 1
            BY <1>2, <3>1, <3>3
        <3>5. CASE init_command_index # Len(InitCommands)
            <4>1. /\ init_command_index' \in 1 .. Len(InitCommands)
                  /\ state' = "INITIALIZE_COMMAND_SEND"
                BY <1>2, <3>1, <3>3, <3>5
            <4> QED
                BY <1>1, <1>2, <3>1, <3>2, <3>4, <4>1 DEF TaskTyped, States
        <3>6. CASE init_command_index = Len(InitCommands)
            <4>1. state' \in {"READY", "CONFIG_SAVE_SEND"}
                BY <3>1, <3>6
            <4> QED
                BY <1>1, <1>2, <3>1, <3>2, <3>4, <4>1 DEF TaskTyped, States
        <3> QED
            BY <3>5, <3>6
    <2> QED
        BY <2>2, <2>3, <2>4
\* The states from which only plain ones follow, with the same counters.
<1>18. ASSUME NEW s, In(s), state' \in Plain \/ state' = state, UNCHANGED Counters,
              \/ Continue
              \/ \E p \in {"never", "later", "now"} : Return(p)
              \/ \E e \in Events : Tell(e)
       PROVE  TaskTyped'
    BY <1>3, <1>4, <1>18
<1>19. CASE SendMessageCommand
    <2>1. In("SEND_MESSAGE_COMMAND")
        BY <1>19 DEF SendMessageCommand
    <2>2. \/ Goto("SEND_MESSAGE_RESPONSE") /\ Tell("SEND_MESSAGE_START")
          \/ Goto("ERROR") /\ Continue
        BY <1>19 DEF SendMessageCommand, Fails
    <2> QED
        BY <1>5, <1>6, <1>18, <2>1, <2>2 DEF Events
<1>20. CASE SendMessageResponse
    <2>1. In("SEND_MESSAGE_RESPONSE")
        BY <1>20 DEF SendMessageResponse
    <2>2. \/ Goto("IDLE") /\ Tell("SEND_MESSAGE_DONE")
          \/ Goto("ERROR") /\ Continue
        BY <1>20 DEF SendMessageResponse, Fails
    <2> QED
        BY <1>5, <1>6, <1>18, <2>1, <2>2 DEF Events
<1>21. CASE ConfigSaveSend
    <2>1. In("CONFIG_SAVE_SEND")
        BY <1>21 DEF ConfigSaveSend
    <2>2. CASE save_config_mask = {}
        <3>1. Goto("ERROR") /\ Tell("CONFIG_SAVE_DONE")
            BY <1>21, <2>2 DEF ConfigSaveSend
        <3> QED
            BY <1>5, <1>6, <1>18, <2>1, <3>1 DEF Events
    <2>3. CASE save_config_mask # {}
        <3>1. /\ save_command_index' = Min(save_config_mask)
              /\ state' = "CONFIG_SAVE_RESPONSE" /\ Return("later")
              /\ UNCHANGED <<init_command_index, custom_command>>
            BY <1>21, <2>3, Zenon DEF ConfigSaveSend
        <3>2. save_command_index' \in Items
            <4>1. save_config_mask \in SUBSET Nat /\ save_config_mask \subseteq Items
                BY DEF TypeInv, AskedTyped, Items
            <4> QED
                BY <2>3, <3>1, <4>1, LeastOf
        <3>3. save_command_index' \in 0 .. ITEMS
            BY <1>2, <3>2 DEF Items
        <3>4. Flags
            BY <1>4, <2>1, <3>1
        <3> QED
            BY <1>1, <3>1, <3>2, <3>3, <3>4 DEF TaskTyped, States
    <2> QED
        BY <2>2, <2>3
<1>22. CASE ConfigSaveResponse
    <2>1. In("CONFIG_SAVE_RESPONSE") /\ Continue /\ UNCHANGED Counters
          /\ state' \in {"CONFIG_SAVE_SEND", "ERROR"}
        BY <1>22 DEF ConfigSaveResponse, Fails, Goto
    <2> QED
        BY <1>6, <1>18, <2>1
<1>23. CASE JoinSend \/ LinkCheckSend
    <2>1. /\ In("JOIN_SEND") \/ In("LINK_CHECK_SEND")
          /\ Return("later") /\ UNCHANGED Counters
          /\ state' \in {"JOIN_RESPONSE", "LINK_CHECK_RESPONSE"}
        BY <1>23 DEF JoinSend, LinkCheckSend
    <2> QED
        BY <1>6, <1>18, <2>1
<1>24. CASE JoinResponse
    <2>1. In("JOIN_RESPONSE")
        BY <1>24 DEF JoinResponse
    <2>2. \/ Wait("ERROR", SaidAll)
          \/ Return("now") /\ UNCHANGED driver
          \/ Fails
          \/ Tell(IF ReadLine.name = "JOINED" THEN "JOIN_SUCCESS" ELSE "JOIN_ERROR")
             /\ UNCHANGED driver
        BY <1>24 DEF JoinResponse
    <2>3. /\ UNCHANGED Counters /\ (state' = "ERROR" \/ state' = state)
          /\ Return("later") \/ Return("now") \/ Continue \/ Tell("JOIN_SUCCESS") \/ Tell("JOIN_ERROR")
        BY <2>2 DEF Wait, Goto, Fails, driver
    <2> QED
        BY <1>6, <1>18, <2>1, <2>3 DEF Events
<1>25. CASE LinkCheckResponse
    <2>1. In("LINK_CHECK_RESPONSE")
        BY <1>25 DEF LinkCheckResponse
    <2>2. \/ Wait("ERROR", SaidAll)
          \/ Return("now") /\ UNCHANGED driver
          \/ Goto("LINK_CHECK_RESPONSE_ANS") /\ Return("later")
          \/ Goto("IDLE") /\ Tell("LINK_CHECK_NOK")
          \/ Fails
        BY <1>25 DEF LinkCheckResponse
    <2>3. /\ UNCHANGED Counters
          /\ state' \in {"ERROR", "LINK_CHECK_RESPONSE_ANS", "IDLE"} \/ state' = state
          /\ Return("later") \/ Return("now") \/ Continue \/ Tell("LINK_CHECK_NOK")
        BY <2>2 DEF Wait, Goto, Fails, driver
    <2> QED
        BY <1>6, <1>18, <2>1, <2>3 DEF Events
<1>26. CASE LinkCheckResponseAns
    <2>1. In("LINK_CHECK_RESPONSE_ANS") /\ Goto("IDLE") /\ Tell("LINK_CHECK_OK")
        BY <1>26 DEF LinkCheckResponseAns
    <2> QED
        BY <1>5, <1>6, <1>18, <2>1 DEF Events
<1>27. CASE CustomCommandSend
    <2>1. In("CUSTOM_COMMAND_SEND") /\ Goto("CUSTOM_COMMAND_RESPONSE") /\ Return("later")
        BY <1>27 DEF CustomCommandSend, Ask
    <2> QED
        BY <1>5, <1>6, <1>18, <2>1
<1>28. CASE CustomCommandResponse
    <2>1. In("CUSTOM_COMMAND_RESPONSE")
        BY <1>28 DEF CustomCommandResponse
    <2>2. CASE ReadLine.name = "none" /\ ~ Answered
        <3>1. Return("later") /\ UNCHANGED driver
            BY <1>28, <2>2 DEF CustomCommandResponse
        <3> QED
            BY <1>18, <2>1, <3>1 DEF driver
    <2>3. CASE ~ (ReadLine.name = "none" /\ ~ Answered)
        <3>1. /\ custom_command' = "none" /\ UNCHANGED <<init_command_index, save_command_index>>
              /\ state' \in {"INITIALIZE", "ERROR", "IDLE"}
              /\ \/ Return("later") \/ Continue
                 \/ plan' = "now" /\ handling' = "CUSTOM_AT" /\ UNCHANGED <<running, receiving>>
            BY <1>28, <2>3 DEF CustomCommandResponse
        <3>2. Flags
            BY <1>4, <2>1, <3>1, <1>1 DEF TaskTyped, Events
        <3> QED
            BY <1>1, <3>1, <3>2 DEF TaskTyped, States
    <2> QED
        BY <2>2, <2>3
<1>29. CASE NoRoom
    <2>1. PICK s : In(s)
        BY <1>29 DEF NoRoom
    <2>2. Goto("ERROR") /\ Continue
        BY <1>29 DEF NoRoom, Fails
    <2> QED
        BY <1>5, <1>6, <1>18, <2>1, <2>2
<1>30. CASE HandlerReturns
    <2>1. /\ handling' = "none" /\ UNCHANGED Counters /\ UNCHANGED receiving
          /\ state' \in {"INITIALIZE", "READY", "IDLE"} \/ state' = state
          /\ plan' = plan \/ plan' = "later"
        BY <1>30 DEF HandlerReturns
    <2>2. running' \in BOOLEAN
        BY <1>30 DEF HandlerReturns
    <2>3. Flags
        BY <1>1, <2>1, <2>2 DEF TaskTyped, Events
    <2> QED
        BY <1>3, <1>6, <2>1, <2>3
<1> QED
    BY <1>7, <1>8, <1>9, <1>10, <1>11, <1>12, <1>13, <1>14, <1>15, <1>16, <1>17, <1>19, <1>20,
       <1>21, <1>22, <1>23, <1>24, <1>25, <1>26, <1>27, <1>28, <1>29, <1>30 DEF Task

LEMMA TaskAskedTyped ==
    TypeInv /\ Task => AskedTyped' /\ faults' = faults /\ history'.haste = history.haste
<1> DEFINE Goal == AskedTyped' /\ faults' = faults /\ history'.haste = history.haste
<1> SUFFICES ASSUME TypeInv, Task PROVE Goal
    OBVIOUS
<1>1. AskedTyped /\ WireTyped
    BY DEF TypeInv
<1> DEFINE Requests == <<join_command, link_check_command, save_config_mask, config>>
           Fewer == /\ join_command' \in {join_command, FALSE}
                    /\ link_check_command' \in {link_check_command, FALSE}
                    /\ save_config_mask' \subseteq save_config_mask
                    /\ UNCHANGED <<config, calls, faults>>
                    /\ history' = history \/ history' = Forgotten
<1>2. /\ Forgotten \in [unsaved : SUBSET Items, doubtful : SUBSET Items, haste : BOOLEAN]
      /\ Forgotten.haste = history.haste
    BY <1>1 DEF Forgotten, AskedTyped
<1>3. ASSUME Fewer PROVE Goal
    BY <1>1, <1>2, <1>3 DEF AskedTyped
<1>4. \A s : In(s) => UNCHANGED <<calls, faults>>
    BY DEF In, bounds
<1>5. \A s : Goto(s) => UNCHANGED Requests
    BY DEF Goto
<1>6. ASSUME UNCHANGED <<driver, bounds, history>> PROVE Goal
    BY <1>3, <1>6 DEF driver, bounds
<1>7. ASSUME NEW s, Goto(s), UNCHANGED <<calls, faults, history>> PROVE Goal
    BY <1>3, <1>5, <1>7
<1>8. CASE TaskRuns
    BY <1>6, <1>8 DEF TaskRuns
<1>9. CASE Ready \/ Idle \/ Receive \/ InitializeAtResponse \/ InitializeCommandSend
           \/ SendMessageCommand \/ SendMessageResponse \/ LinkCheckResponseAns
           \/ CustomCommandSend
    BY <1>4, <1>7, <1>9 DEF Ready, Idle, Receive, InitializeAtResponse, InitializeCommandSend,
        SendMessageCommand, SendMessageResponse, LinkCheckResponseAns, CustomCommandSend, Ask,
        Fails
<1>10. CASE NoRoom
    BY <1>4, <1>7, <1>10 DEF NoRoom, Fails
<1>11. CASE RecoverBaudrate
    BY <1>7, <1>11 DEF RecoverBaudrate, bounds
<1>12. CASE Error \/ JoinSend \/ LinkCheckSend \/ Initialize
    <2>1. Fewer
        BY <1>4, <1>12 DEF Error, JoinSend, LinkCheckSend, Initialize
    <2> QED
        BY <1>3, <2>1
<1>13. CASE ReceiveLine
    <2>1. Fewer
        BY <1>13 DEF ReceiveLine, driver, bounds
    <2> QED
        BY <1>3, <2>1
<1>14. CASE InitializeCommandResponse
    <2>1. UNCHANGED <<calls, faults>>
        BY <1>4, <1>14 DEF InitializeCommandResponse
    <2>2. CASE ReadLine = None \/ ~ Handled(ReadLine)
        BY <1>7, <1>14, <2>1, <2>2 DEF InitializeCommandResponse, Wait, Fails
    <2>3. CASE ReadLine # None /\ Handled(ReadLine)
        <3>1. config' = Told(InitCommands[init_command_index], ReadLine)
              /\ UNCHANGED <<join_command, link_check_command, save_config_mask, history>>
            BY <1>14, <2>3 DEF InitializeCommandResponse
        <3>2. ReadLine.value \in {0, 1}
            BY <1>1, ReadTyped DEF Lines
        <3>3. config' \in [Items -> {0, 1}]
            BY <1>1, <3>1, <3>2 DEF Told, AskedTyped
        <3> QED
            BY <1>1, <2>1, <3>1, <3>3 DEF AskedTyped
    <2> QED
        BY <2>2, <2>3
<1>15. CASE ConfigSaveSend
    <2>1. UNCHANGED <<calls, faults>> /\ UNCHANGED Requests
        BY <1>4, <1>5, <1>15 DEF ConfigSaveSend
    <2>2. CASE history' = history
        BY <1>3, <2>1, <2>2
    <2>3. CASE history' # history
        <3> DEFINE i == Min(save_config_mask)
        <3>1. save_config_mask # {} /\ history' = [history EXCEPT !.doubtful = @ \union {i}]
            BY <1>15, <2>3, Zenon DEF ConfigSaveSend
        <3>2. i \in Items
            <4>1. save_config_mask \in SUBSET Nat /\ save_config_mask \subseteq Items
                BY <1>1 DEF AskedTyped, Items
            <4> QED
                BY <3>1, <4>1, LeastOf
        <3> HIDE DEF i
        <3>3. /\ history' \in [unsaved : SUBSET Items, doubtful : SUBSET Items, haste : BOOLEAN]
              /\ history'.haste = history.haste
            BY <1>1, <3>1, <3>2 DEF AskedTyped
        <3> QED
            BY <1>1, <2>1, <3>3 DEF AskedTyped
    <2> QED
        BY <2>2, <2>3
<1>16. CASE ConfigSaveResponse
    <2>1. Fewer
        BY <1>4, <1>5, <1>16 DEF ConfigSaveResponse, Fails
    <2> QED
        BY <1>3, <2>1
<1>17. CASE JoinResponse
    <2>1. UNCHANGED driver \/ \E s : Goto(s)
        BY <1>17 DEF JoinResponse, Wait, Fails
    <2>2. UNCHANGED <<calls, faults, history>>
        BY <1>4, <1>17 DEF JoinResponse, Wait
    <2> QED
        BY <1>3, <1>7, <2>1, <2>2 DEF driver
<1>18. CASE LinkCheckResponse
    <2>1. UNCHANGED driver \/ \E s : Goto(s)
        BY <1>18 DEF LinkCheckResponse, Wait, Fails
    <2>2. UNCHANGED <<calls, faults, history>>
        BY <1>4, <1>18 DEF LinkCheckResponse
    <2> QED
        BY <1>3, <1>7, <2>1, <2>2 DEF driver
<1>19. CASE CustomCommandResponse
    <2>1. UNCHANGED Requests /\ UNCHANGED <<calls, faults, history>>
        BY <1>4, <1>19 DEF CustomCommandResponse, driver
    <2> QED
        BY <1>3, <2>1
<1>20. CASE HandlerReturns
    <2>1. UNCHANGED Requests /\ UNCHANGED <<calls, faults, history>>
        BY <1>20 DEF HandlerReturns, bounds
    <2> QED
        BY <1>3, <2>1
<1> QED
    BY <1>8, <1>9, <1>10, <1>11, <1>12, <1>13, <1>14, <1>15, <1>16, <1>17, <1>18, <1>19, <1>20
       DEF Task

LEMMA ApplicationTyped == TypeInv /\ Application => TypeInv'
<1> SUFFICES ASSUME TypeInv, Application PROVE TypeInv'
    OBVIOUS
<1>1. WireTyped /\ TaskTyped /\ AskedTyped
    BY DEF TypeInv
<1>2. Call => WireTyped' /\ UNCHANGED <<running, handling, receiving, faults>>
              /\ calls' \in 0 .. MaxCalls
    BY <1>1, ModemAssumption DEF Call, WireTyped, AskedTyped, reader, wire
<1>3. ASSUME Call,
             state' \in {state, "INITIALIZE", "SEND_MESSAGE_COMMAND"},
             plan' \in {plan, "now"},
             custom_command' \in {custom_command, "CUSTOM", "FACNEW"}
                 \/ (custom_command' = "none" /\ state' = "INITIALIZE"),
             UNCHANGED <<init_command_index, save_command_index>>
      PROVE  TaskTyped'
    BY <1>1, <1>2, <1>3 DEF TaskTyped, States
<1>4. Plan => history' \in [unsaved : SUBSET Items, doubtful : SUBSET Items, haste : BOOLEAN]
    <2> SUFFICES ASSUME Plan
                 PROVE  history' \in [unsaved : SUBSET Items, doubtful : SUBSET Items, haste : BOOLEAN]
        OBVIOUS
    <2>1. PICK b \in BOOLEAN : b = (history.haste \/ Haste)
        OBVIOUS
    <2>2. history' = [history EXCEPT !.haste = b]
        BY <2>1, Zenon DEF Plan
    <2> QED
        BY <1>1, <2>2 DEF AskedTyped
<1>5. ASSUME Call, Plan, UNCHANGED <<config, save_config_mask>>,
             join_command' \in BOOLEAN, link_check_command' \in BOOLEAN
      PROVE  AskedTyped'
    BY <1>1, <1>2, <1>4, <1>5 DEF AskedTyped
<1>6. CASE SendMessage
    BY <1>1, <1>2, <1>3, <1>5, <1>6 DEF SendMessage, Goto, Plan, AskedTyped, TypeInv
<1>7. CASE Join
    BY <1>1, <1>2, <1>3, <1>5, <1>7 DEF Join, Plan, AskedTyped, TypeInv
<1>8. CASE LinkCheck
    BY <1>1, <1>2, <1>3, <1>5, <1>8 DEF LinkCheck, Plan, AskedTyped, TypeInv
<1>9. CASE CustomAt("CUSTOM") \/ CustomAt("FACNEW")
    BY <1>1, <1>2, <1>3, <1>5, <1>9 DEF CustomAt, Plan, AskedTyped, TypeInv
<1>10. CASE Reboot
    BY <1>1, <1>2, <1>3, <1>5, <1>10 DEF Reboot, Plan, AskedTyped, TypeInv
<1>11. ASSUME NEW i \in Items, NEW v \in {0, 1}, Set(i, v) PROVE TypeInv'
    <2>1. Call /\ plan' \in {plan, "now"}
          /\ UNCHANGED <<state, init_command_index, save_command_index, join_command, custom_command,
                         link_check_command>>
        BY <1>11 DEF Set
    <2>2. config' \in [Items -> {0, 1}] /\ save_config_mask' \subseteq Items
        BY <1>1, <1>11 DEF Set, AskedTyped
    <2>3. history' \in [unsaved : SUBSET Items, doubtful : SUBSET Items, haste : BOOLEAN]
        <3>1. PICK b \in BOOLEAN : b = (history.haste \/ Haste)
            OBVIOUS
        <3>2. PICK d : d = IF state = "CONFIG_SAVE_RESPONSE" /\ save_command_index = i
                           THEN history.doubtful \union {i} ELSE history.doubtful \ {i}
            OBVIOUS
        <3>3. history' = [history EXCEPT !.unsaved = @ \union {i}, !.doubtful = d, !.haste = b]
            BY <1>11, <3>1, <3>2, Zenon DEF Set
        <3>4. d \in SUBSET Items
            BY <1>1, <3>2 DEF AskedTyped
        <3> QED
            BY <1>1, <3>3, <3>4 DEF AskedTyped
    <2> QED
        BY <1>1, <1>2, <1>3, <2>1, <2>2, <2>3 DEF AskedTyped, TypeInv
<1> QED
    BY <1>6, <1>7, <1>8, <1>9, <1>10, <1>11 DEF Application

LEMMA ModemTyped == TypeInv /\ (UartEvent \/ Execute \/ Emit \/ Misbehave \/ News) => TypeInv'
<1> SUFFICES ASSUME TypeInv, UartEvent \/ Execute \/ Emit \/ Misbehave \/ News PROVE TypeInv'
    OBVIOUS
<1>1. WireTyped /\ TaskTyped /\ AskedTyped
    BY DEF TypeInv
<1>2. ModemStep => TaskTyped'
    BY <1>1 DEF ModemStep, TaskTyped, driver
<1>3. ASSUME ModemStep, UNCHANGED history, faults' \in 0 .. MaxFaults PROVE AskedTyped'
    BY <1>1, <1>3 DEF ModemStep, AskedTyped, driver
<1>4. faults < MaxFaults => faults + 1 \in 0 .. MaxFaults
    BY <1>1, ModemAssumption DEF AskedTyped
<1>5. CASE UartEvent
    <2>1. WireTyped' /\ AskedTyped'
        <3>1. /\ UNCHANGED <<response, held, rx_fifo, owed, commands, modem, calls, faults, history>>
              /\ UNCHANGED <<join_command, link_check_command, save_config_mask, config>>
            BY <1>5 DEF UartEvent, Goto, driver, reader, wire, bounds
        <3>2. arrived' \in BOOLEAN
            <4>1. arrived' = FALSE
                BY <1>5 DEF UartEvent
            <4> QED
                BY <4>1
        <3> QED
            BY <1>1, <3>1, <3>2 DEF WireTyped, AskedTyped
    <2>2. TaskTyped'
        BY <1>1, <1>5 DEF UartEvent, TaskTyped, Goto, driver, States
    <2> QED
        BY <2>1, <2>2 DEF TypeInv
<1>6. CASE Execute
    <2> DEFINE c == Head(commands)
    <2>1. c \in Commands /\ Tail(commands) \in Seq(Commands)
        BY <1>1, <1>6 DEF Execute, WireTyped
    <2>2. ModemStep /\ UNCHANGED faults /\ commands' = Tail(commands)
        BY <1>6 DEF Execute
    <2>3. CASE modem.baud # 9600
        <3>1. UNCHANGED <<owed, modem, rx_fifo, arrived, history>>
            BY <1>6, <2>3 DEF Execute
        <3> QED
            BY <1>1, <1>2, <1>3, <2>1, <2>2, <3>1 DEF WireTyped, AskedTyped, ModemStep, TypeInv
    <2>4. CASE modem.baud = 9600
        <3>0. Carries(c)
            BY <1>6, <2>4 DEF Execute
        <3>1. PICK lines \in Answers(c) :
                  rx_fifo' = Append(rx_fifo, Head(lines)) /\ owed' = owed \o Tail(lines)
            BY <3>0, Zenon DEF Carries
        <3>2. Head(lines) \in Lines /\ Tail(lines) \in Seq(Lines)
            BY <1>1, <2>1, <3>1, AnswersTyped
        <3>3. rx_fifo' \in Seq(Lines) /\ owed' \in Seq(Lines)
            BY <1>1, <3>1, <3>2 DEF WireTyped
        <3>4. arrived' = TRUE /\ modem' = [modem EXCEPT !.stored = Stored(c)]
            BY <3>0 DEF Carries
        <3>5. Stored(c) \in [Items -> {0, 1}]
            BY <1>1, <2>1 DEF Stored, Commands, AnyCommand, WireTyped
        <3>6. modem' \in [baud : {9600, 19200}, stored : [Items -> {0, 1}]]
            BY <1>1, <3>4, <3>5 DEF WireTyped
        <3>7. WireTyped'
            BY <1>1, <2>1, <2>2, <3>3, <3>4, <3>6 DEF WireTyped, ModemStep
        <3>8. AskedTyped'
            <4>1. history' = history \/ history' = [history EXCEPT !.unsaved = @ \ {c.item}]
                <5>1. history' = IF c.name = "CONFIG" /\ c.value = config[c.item]
                                 THEN [history EXCEPT !.unsaved = @ \ {c.item}] ELSE history
                    BY <3>0, Zenon DEF Carries
                <5> QED
                    BY <5>1, Zenon
            <4>2. history' \in [unsaved : SUBSET Items, doubtful : SUBSET Items, haste : BOOLEAN]
                BY <1>1, <4>1 DEF AskedTyped
            <4> QED
                BY <1>1, <2>2, <4>2 DEF AskedTyped, ModemStep, driver
        <3> QED
            BY <1>2, <2>2, <3>7, <3>8 DEF TypeInv
    <2> QED
        BY <2>3, <2>4
<1>7. CASE Emit
    <2>1. Head(owed) \in Lines /\ Tail(owed) \in Seq(Lines)
        BY <1>1, <1>7 DEF Emit, WireTyped
    <2>2. rx_fifo' \in Seq(Lines) /\ owed' \in Seq(Lines)
        BY <1>1, <1>7, <2>1 DEF Emit, WireTyped
    <2>3. ModemStep /\ UNCHANGED <<commands, modem, faults, history>> /\ arrived' = TRUE
        BY <1>7 DEF Emit
    <2>4. WireTyped'
        BY <1>1, <2>2, <2>3 DEF WireTyped, ModemStep
    <2> QED
        BY <1>1, <1>2, <1>3, <2>3, <2>4 DEF AskedTyped, TypeInv
<1>8. CASE Misbehave
    <2>1. /\ ModemStep /\ UNCHANGED <<owed, modem, history>> /\ faults < MaxFaults
          /\ faults' = faults + 1 /\ commands # <<>> /\ commands' = Tail(commands)
        BY <1>8 DEF Misbehave
    <2>2. \/ UNCHANGED <<rx_fifo, arrived>>
          \/ \E name \in {"ERR", "ERR7"} : rx_fifo' = Append(rx_fifo, Line(name)) /\ arrived' = TRUE
        BY <1>8 DEF Misbehave
    <2>3. commands' \in Seq(Commands)
        BY <1>1, <2>1 DEF WireTyped
    <2>4. Line("ERR") \in Lines /\ Line("ERR7") \in Lines
        BY LinesTyped DEF LineNames
    <2>5. rx_fifo' \in Seq(Lines)
        <3>1. \/ rx_fifo' = rx_fifo
              \/ rx_fifo' = Append(rx_fifo, Line("ERR"))
              \/ rx_fifo' = Append(rx_fifo, Line("ERR7"))
            BY <2>2
        <3>2. rx_fifo \in Seq(Lines)
            BY <1>1 DEF WireTyped
        <3>3. \A l \in Lines : Append(rx_fifo, l) \in Seq(Lines)
            BY <3>2
        <3> QED
            BY <2>4, <3>1, <3>2, <3>3
    <2>6. arrived' \in BOOLEAN
        <3>1. arrived' = arrived \/ arrived' = TRUE
            BY <2>2
        <3>2. arrived \in BOOLEAN
            BY <1>1 DEF WireTyped
        <3> QED
            BY <3>1, <3>2, Zenon
    <2>7. WireTyped'
        BY <1>1, <2>1, <2>3, <2>5, <2>6 DEF WireTyped, ModemStep
    <2> QED
        BY <1>2, <1>3, <1>4, <2>1, <2>7 DEF TypeInv
<1>9. CASE News
    <2>1. /\ ModemStep /\ UNCHANGED <<commands, modem, rx_fifo, arrived, history>>
          /\ faults < MaxFaults /\ faults' = faults + 1
        BY <1>9 DEF News
    <2>2. PICK lines \in Unasked : owed' = owed \o lines
        BY <1>9 DEF News
    <2>3. \A name \in {"RECV", "data", "head", "tail", "RESET"} : Line(name) \in Lines
        BY LinesTyped DEF LineNames, Late
    <2>4. lines \in Seq(Lines)
        BY <2>2, <2>3 DEF Unasked
    <2>5. owed' \in Seq(Lines)
        BY <1>1, <2>2, <2>4 DEF WireTyped
    <2>6. WireTyped'
        BY <1>1, <2>1, <2>5 DEF WireTyped, ModemStep
    <2> QED
        BY <1>2, <1>3, <1>4, <2>1, <2>6 DEF TypeInv
<1> QED
    BY <1>5, <1>6, <1>7, <1>8, <1>9

LEMMA InitTyped == Init => TypeInv
<1> SUFFICES ASSUME Init PROVE TypeInv
    OBVIOUS
<1>1. /\ held \in BOOLEAN /\ arrived \in BOOLEAN /\ running \in BOOLEAN /\ receiving \in BOOLEAN
      /\ join_command \in BOOLEAN /\ link_check_command \in BOOLEAN
    <2>1. /\ held = FALSE /\ arrived = FALSE /\ running = FALSE /\ receiving = FALSE
          /\ join_command = FALSE /\ link_check_command = FALSE
        BY DEF Init
    <2> QED
        BY <2>1
<1>2. WireTyped
    <2>1. <<>> \in Seq(Lines) /\ <<>> \in Seq(Commands) /\ None \in Lines
        BY LinesTyped
    <2>2. modem \in [baud : {9600, 19200}, stored : [Items -> {0, 1}]]
        BY DEF Init
    <2>3. response = None /\ rx_fifo = <<>> /\ owed = <<>> /\ commands = <<>>
        BY DEF Init
    <2> QED
        BY <1>1, <2>1, <2>2, <2>3 DEF WireTyped
<1>3. TaskTyped
    <2>1. Len(InitCommands) = 3 + ITEMS /\ ITEMS \in Nat
        BY InitCommandsTyped, ModemAssumption
    <2>2. /\ state = "INITIALIZE" /\ plan = "later" /\ handling = "none" /\ custom_command = "none"
          /\ init_command_index = 0 /\ save_command_index = 0
        BY DEF Init
    <2> QED
        BY <1>1, <2>1, <2>2 DEF TaskTyped, States, Events
<1>4. AskedTyped
    <2>1. /\ save_config_mask = {} /\ config = [i \in Items |-> 0] /\ calls = 0 /\ faults = 0
          /\ history = [unsaved |-> {}, doubtful |-> {}, haste |-> FALSE]
        BY DEF Init
    <2>2. history \in [unsaved : SUBSET Items, doubtful : SUBSET Items, haste : BOOLEAN]
        BY <2>1
    <2> QED
        BY <1>1, <2>1, <2>2, ModemAssumption DEF AskedTyped
<1> QED
    BY <1>2, <1>3, <1>4 DEF TypeInv

LEMMA NextTyped == TypeInv /\ [Next]_modemVars => TypeInv'
<1> SUFFICES ASSUME TypeInv, [Next]_modemVars PROVE TypeInv'
    OBVIOUS
<1>1. CASE Task
    BY <1>1, TaskWireTyped, TaskTaskTyped, TaskAskedTyped DEF TypeInv
<1>2. CASE Application
    BY <1>2, ApplicationTyped
<1>3. CASE UartEvent \/ Execute \/ Emit \/ Misbehave \/ News
    BY <1>3, ModemTyped
<1>4. CASE UNCHANGED modemVars
    BY <1>4 DEF modemVars, driver, reader, wire, bounds, TypeInv, WireTyped, TaskTyped, AskedTyped
<1> QED
    BY <1>1, <1>2, <1>3, <1>4 DEF Next

LEMMA TypesImplied == TypeInv => TypeOK
BY DEF TypeInv, WireTyped, TaskTyped, AskedTyped, TypeOK

\* The driver keeps to its states, its counters to their bounds and its
\* configuration to values the application or the modem gave: the index into
\* _init_commands, too, which is read without a check.
THEOREM TypeCorrect == Spec => []TypeOK
<1>1. Spec => []TypeInv
    BY InitTyped, NextTyped, PTL DEF Spec
<1> QED
    BY <1>1, TypesImplied, PTL

-----------------------------------------------------------------------------
(***************************************************************************)
(* What the modem was not given is still to be saved or in doubt.  While   *)
(* the answer to the command for an item that is neither is awaited,       *)
(* nothing else can say yes: what was received before was purged, the      *)
(* command is the only one, and what the modem says on its own is no yes.  *)
(***************************************************************************)
NoYesOwed == \A k \in 1 .. Len(owed) : owed[k].name \notin Yes

Kept == history.unsaved \subseteq save_config_mask \union history.doubtful

Awaited == state = "CONFIG_SAVE_RESPONSE" /\ save_command_index \in history.unsaved \ history.doubtful

SaveCommand ==
    [name |-> "CONFIG", item |-> save_command_index, value |-> config[save_command_index]]

YesIsItsOwn ==
    Awaited =>
        /\ \A k \in 1 .. Len(rx_fifo) : rx_fifo[k].name \notin Yes
        /\ commands = <<>> \/ commands = <<SaveCommand>>

SaveInv == TypeInv /\ NoYesOwed /\ Kept /\ YesIsItsOwn

LEMMA TaskSaves == SaveInv /\ TypeInv' /\ Task => SaveInv'
<1> SUFFICES ASSUME SaveInv, TypeInv', Task PROVE SaveInv'
    OBVIOUS
<1>1. TypeInv /\ NoYesOwed /\ Kept /\ YesIsItsOwn /\ WireTyped /\ AskedTyped
    BY DEF SaveInv, TypeInv
<1>2. UNCHANGED owed => NoYesOwed'
    BY <1>1 DEF NoYesOwed
<1>3. UNCHANGED <<history, save_config_mask>> \/ history' = Forgotten => Kept'
    BY <1>1 DEF Kept, Forgotten, AskedTyped
<1>4. ASSUME state' # "CONFIG_SAVE_RESPONSE", NoYesOwed', Kept' PROVE SaveInv'
    BY <1>4 DEF SaveInv, YesIsItsOwn, Awaited
<1>5. ASSUME NEW s, Goto(s)
      PROVE  state' = s /\ UNCHANGED <<save_config_mask, save_command_index, config>>
    BY <1>5 DEF Goto
<1> DEFINE Less == \A j \in 1 .. Len(rx_fifo') : \E k \in 1 .. Len(rx_fifo) : rx_fifo'[j] = rx_fifo[k]
<1>6. ASSUME UNCHANGED <<state, save_config_mask, save_command_index, config, history, owed, commands>>,
             Less
      PROVE  SaveInv'
    <2>1. Awaited' = Awaited /\ SaveCommand' = SaveCommand
        BY <1>6 DEF Awaited, SaveCommand
    <2>2. YesIsItsOwn'
        BY <1>1, <1>6, <2>1 DEF YesIsItsOwn
    <2> QED
        BY <1>2, <1>3, <1>6, <2>2 DEF SaveInv
<1>7. CASE TaskRuns
    <2>1. UNCHANGED <<state, save_config_mask, save_command_index, config, history, owed, commands,
                      rx_fifo>>
        BY <1>7 DEF TaskRuns, driver, reader, wire
    <2> QED
        BY <1>6, <2>1
<1>8. CASE Ready \/ Receive \/ Error
    <2>1. UNCHANGED <<owed, rx_fifo>> /\ state' # "CONFIG_SAVE_RESPONSE" /\ Kept'
        BY <1>3, <1>5, <1>8 DEF Ready, Receive, Error, In, wire, reader
    <2> QED
        BY <1>2, <1>4, <2>1
<1>9. CASE Idle
    <2>1. UNCHANGED owed /\ state' # "CONFIG_SAVE_RESPONSE" /\ Kept'
        BY <1>3, <1>5, <1>9 DEF Idle, wire
    <2> QED
        BY <1>2, <1>4, <2>1
<1>10. CASE ReceiveLine
    <2>1. UNCHANGED <<owed, commands>>
        BY <1>10 DEF ReceiveLine, wire
    <2>2. CASE ReadLine.name \in {"BOOT", "RESET"}
        <3>1. state' = "INITIALIZE" /\ history' = Forgotten
            BY <1>10, <2>2 DEF ReceiveLine
        <3> QED
            BY <1>2, <1>3, <1>4, <2>1, <3>1
    <2>3. CASE ReadLine.name \notin {"BOOT", "RESET"}
        <3>1. UNCHANGED <<state, save_config_mask, save_command_index, config, history>>
            BY <1>10, <2>3 DEF ReceiveLine, driver
        <3>2. rx_fifo' = AfterLine \/ (AfterLine # <<>> /\ rx_fifo' = Tail(AfterLine))
            BY <1>10, <2>3 DEF ReceiveLine, Read
        <3>3. Less
            <4>1. CASE rx_fifo' = AfterLine
                BY <1>1, <4>1, ReadTyped
            <4>2. CASE AfterLine # <<>> /\ rx_fifo' = Tail(AfterLine)
                <5>1. AfterLine \in Seq(Lines)
                    BY <1>1, ReadTyped
                <5>2. Len(rx_fifo') = Len(AfterLine) - 1
                      /\ \A j \in 1 .. Len(AfterLine) - 1 : rx_fifo'[j] = AfterLine[j + 1]
                    BY <4>2, <5>1
                <5>3. \A j \in 1 .. Len(AfterLine) - 1 : j + 1 \in 1 .. Len(AfterLine)
                    BY <5>1
                <5> QED
                    BY <1>1, <5>2, <5>3, ReadTyped
            <4> QED
                BY <3>2, <4>1, <4>2
        <3> QED
            BY <1>6, <2>1, <3>1, <3>3
    <2> QED
        BY <2>2, <2>3
<1>11. CASE Initialize \/ RecoverBaudrate
    <2>1. /\ state' # "CONFIG_SAVE_RESPONSE" /\ Kept'
          /\ owed' = owed \/ owed' = Append(owed, Line("BOOT"))
        BY <1>3, <1>5, <1>11 DEF Initialize, RecoverBaudrate
    <2>2. owed \in Seq(Lines) /\ Line("BOOT").name \notin Yes
        BY <1>1, LinesTyped DEF WireTyped, LineNames, Yes
    <2>3. NoYesOwed'
        <3>1. PICK boot : boot = Line("BOOT")
            OBVIOUS
        <3>2. ASSUME owed' = Append(owed, boot) PROVE NoYesOwed'
            <4>1. /\ Len(owed') = Len(owed) + 1 /\ owed'[Len(owed) + 1] = boot
                  /\ \A k \in 1 .. Len(owed) : owed'[k] = owed[k]
                BY <2>2, <3>2
            <4>2. \A k \in 1 .. Len(owed) + 1 : k \in 1 .. Len(owed) \/ k = Len(owed) + 1
                BY <2>2
            <4> QED
                BY <1>1, <2>2, <3>1, <4>1, <4>2 DEF NoYesOwed
        <3> QED
            BY <1>2, <2>1, <3>1, <3>2
    <2> QED
        BY <1>4, <2>1, <2>3
<1>12. CASE InitializeAtResponse \/ InitializeCommandSend \/ SendMessageCommand
            \/ SendMessageResponse \/ CustomCommandSend \/ LinkCheckResponseAns
    <2>1. PICK s \in States \ {"CONFIG_SAVE_RESPONSE"} : Goto(s)
        BY <1>12 DEF InitializeAtResponse, InitializeCommandSend, SendMessageCommand,
            SendMessageResponse, CustomCommandSend, LinkCheckResponseAns, Ask, Fails, States
    <2>2. UNCHANGED <<owed, history>>
        BY <1>12 DEF InitializeAtResponse, InitializeCommandSend, SendMessageCommand,
            SendMessageResponse, CustomCommandSend, LinkCheckResponseAns, Ask, Write, Unwritten, wire
    <2> QED
        BY <1>2, <1>3, <1>4, <1>5, <2>1, <2>2
<1>13. CASE NoRoom
    <2>1. Goto("ERROR") /\ UNCHANGED <<owed, history>>
        BY <1>13 DEF NoRoom, Fails, Unwritten, wire
    <2> QED
        BY <1>2, <1>3, <1>4, <1>5, <2>1
<1>14. CASE InitializeCommandResponse
    <2>1. UNCHANGED <<owed, history, save_config_mask>> /\ state' # "CONFIG_SAVE_RESPONSE"
        <3>1. UNCHANGED owed /\ state = "INITIALIZE_COMMAND_RESPONSE"
            BY <1>14 DEF InitializeCommandResponse, wire, In
        <3>2. CASE ReadLine = None
            <4>1. Wait("ERROR", Answered)
                BY <1>14, <3>2, Zenon DEF InitializeCommandResponse
            <4> QED
                BY <1>5, <3>1, <4>1 DEF Wait
        <3>4. CASE ReadLine # None /\ ~ Handled(ReadLine)
            <4>1. Fails /\ UNCHANGED history
                BY <1>14, <3>4, Zenon DEF InitializeCommandResponse
            <4> QED
                BY <1>5, <3>1, <4>1 DEF Fails
        <3>3. CASE ReadLine # None /\ Handled(ReadLine)
            <4>1. UNCHANGED <<history, save_config_mask>>
                BY <1>14, <3>3 DEF InitializeCommandResponse
            <4>2. \/ state' = "INITIALIZE_COMMAND_SEND" \/ state' = "READY"
                  \/ state' = "CONFIG_SAVE_SEND"
                BY <1>14, <3>3, Zenon DEF InitializeCommandResponse
            <4> QED
                BY <3>1, <4>1, <4>2
        <3> QED
            BY <3>2, <3>3, <3>4
    <2> QED
        BY <1>2, <1>3, <1>4, <2>1
<1>15. CASE JoinSend \/ LinkCheckSend
    <2>1. UNCHANGED <<owed, history, save_config_mask>> /\ state' # "CONFIG_SAVE_RESPONSE"
        BY <1>15 DEF JoinSend, LinkCheckSend, Write
    <2> QED
        BY <1>2, <1>3, <1>4, <2>1
<1>16. CASE JoinResponse
    <2>1. UNCHANGED <<owed, history, save_config_mask>>
        BY <1>5, <1>16 DEF JoinResponse, Wait, Fails, driver, wire
    <2>2. state' # "CONFIG_SAVE_RESPONSE"
        BY <1>5, <1>16 DEF JoinResponse, Wait, Fails, driver, In
    <2> QED
        BY <1>2, <1>3, <1>4, <2>1, <2>2
<1>17. CASE LinkCheckResponse
    <2>1. UNCHANGED <<owed, history, save_config_mask>>
        BY <1>5, <1>17 DEF LinkCheckResponse, Wait, Fails, driver, wire
    <2>2. state' # "CONFIG_SAVE_RESPONSE"
        BY <1>5, <1>17 DEF LinkCheckResponse, Wait, Fails, driver, In
    <2> QED
        BY <1>2, <1>3, <1>4, <2>1, <2>2
<1>18. CASE CustomCommandResponse
    <2>1. UNCHANGED <<owed, history, save_config_mask>>
        BY <1>18 DEF CustomCommandResponse, driver, wire
    <2>2. state' # "CONFIG_SAVE_RESPONSE"
        BY <1>18 DEF CustomCommandResponse, driver, In
    <2> QED
        BY <1>2, <1>3, <1>4, <2>1, <2>2
<1>19. CASE ConfigSaveSend
    <2>1. CASE save_config_mask = {}
        <3>1. Goto("ERROR") /\ UNCHANGED <<owed, history>>
            BY <1>19, <2>1 DEF ConfigSaveSend, wire
        <3> QED
            BY <1>2, <1>3, <1>4, <1>5, <3>1
    <2>2. CASE save_config_mask # {}
        <3> DEFINE i == Min(save_config_mask)
        <3>1. /\ save_command_index' = i /\ rx_fifo' = <<>> /\ UNCHANGED <<owed, save_config_mask, config>>
              /\ commands' = Append(commands, [name |-> "CONFIG", item |-> i, value |-> config[i]])
            BY <1>19, <2>2, Zenon DEF ConfigSaveSend, Purge, Write
        <3>2. history' = IF commands = <<>> THEN history
                         ELSE [history EXCEPT !.doubtful = @ \union {i}]
            BY <1>19, <2>2, Zenon DEF ConfigSaveSend
        <3> HIDE DEF i
        <3>3. Kept'
            BY <1>1, <3>1, <3>2 DEF Kept, AskedTyped
        <3>4. YesIsItsOwn'
            <4>1. CASE commands = <<>>
                <5>1. SaveCommand' = [name |-> "CONFIG", item |-> i, value |-> config[i]]
                    BY <3>1 DEF SaveCommand
                <5>2. commands' = Append(<<>>, SaveCommand')
                    BY <3>1, <4>1, <5>1, Zenon
                <5>3. \A c : Append(<<>>, c) = <<c>>
                    OBVIOUS
                <5>4. commands' = <<SaveCommand'>>
                    BY <5>2, <5>3, Zenon
                <5> QED
                    <6>1. \A k \in 1 .. Len(rx_fifo') : rx_fifo'[k].name \notin Yes
                        BY <3>1
                    <6> QED
                        BY <5>4, <6>1 DEF YesIsItsOwn
            <4>2. CASE commands # <<>>
                <5>1. save_command_index' \in history'.doubtful
                    BY <1>1, <3>1, <3>2, <4>2 DEF AskedTyped
                <5> QED
                    BY <5>1 DEF YesIsItsOwn, Awaited
            <4> QED
                BY <4>1, <4>2
        <3> QED
            BY <1>2, <3>1, <3>3, <3>4 DEF SaveInv
    <2> QED
        BY <2>1, <2>2
<1>20. CASE ConfigSaveResponse
    <2>1. UNCHANGED <<owed, history>> /\ state = "CONFIG_SAVE_RESPONSE"
        BY <1>20 DEF ConfigSaveResponse, wire, In
    <2>2. CASE Saved(ReadLine)
        <3>1. /\ state' = "CONFIG_SAVE_SEND"
              /\ save_config_mask' = save_config_mask \ {save_command_index}
            BY <1>20, <2>2 DEF ConfigSaveResponse
        <3>2. \E k \in 1 .. Len(rx_fifo) : rx_fifo[k].name \in Yes
            BY <1>1, <2>2, ReadTyped DEF Saved, Yes
        <3>3. save_command_index \notin history.unsaved \ history.doubtful
            BY <1>1, <2>1, <3>2 DEF YesIsItsOwn, Awaited
        <3>4. Kept'
            BY <1>1, <2>1, <3>1, <3>3 DEF Kept
        <3> QED
            BY <1>2, <1>4, <2>1, <3>1, <3>4
    <2>3. CASE ~ Saved(ReadLine)
        <3>1. Goto("ERROR")
            BY <1>20, <2>3 DEF ConfigSaveResponse, Fails
        <3> QED
            BY <1>2, <1>3, <1>4, <1>5, <2>1, <3>1
    <2> QED
        BY <2>2, <2>3
<1>21. CASE HandlerReturns
    <2>1. /\ UNCHANGED <<save_config_mask, save_command_index, config, history, owed, commands, rx_fifo>>
          /\ state' \in {"INITIALIZE", "READY", "IDLE"} \/ state' = state
        BY <1>21 DEF HandlerReturns, wire, reader
    <2> QED
        BY <1>2, <1>3, <1>4, <1>6, <2>1
<1> QED
    BY <1>7, <1>8, <1>9, <1>10, <1>11, <1>12, <1>13, <1>14, <1>15, <1>16, <1>17, <1>18, <1>19,
       <1>20, <1>21 DEF Task

LEMMA OthersSave ==
    SaveInv /\ TypeInv' /\ (Application \/ UartEvent \/ Execute \/ Emit \/ Misbehave \/ News) => SaveInv'
<1> SUFFICES ASSUME SaveInv, TypeInv',
                    Application \/ UartEvent \/ Execute \/ Emit \/ Misbehave \/ News
             PROVE  SaveInv'
    OBVIOUS
<1>1. TypeInv /\ NoYesOwed /\ Kept /\ YesIsItsOwn /\ WireTyped /\ AskedTyped
    BY DEF SaveInv, TypeInv
<1>2. rx_fifo \in Seq(Lines) /\ owed \in Seq(Lines) /\ commands \in Seq(Commands)
    BY <1>1 DEF WireTyped
<1>3. ASSUME UNCHANGED <<save_config_mask, save_command_index, config, owed, commands, rx_fifo>>,
             history'.unsaved = history.unsaved, history'.doubtful = history.doubtful,
             state' = state \/ state' # "CONFIG_SAVE_RESPONSE"
      PROVE  SaveInv'
    BY <1>1, <1>3 DEF SaveInv, NoYesOwed, Kept, YesIsItsOwn, Awaited, SaveCommand
<1>4. ASSUME Call, Plan
      PROVE  /\ UNCHANGED <<owed, commands, rx_fifo>>
             /\ history'.unsaved = history.unsaved /\ history'.doubtful = history.doubtful
    <2>1. PICK b : b = (history.haste \/ Haste)
        OBVIOUS
    <2>2. history' = [history EXCEPT !.haste = b]
        BY <1>4, <2>1, Zenon DEF Plan
    <2> QED
        BY <1>1, <1>4, <2>2 DEF Call, AskedTyped, wire, reader
<1>5. CASE SendMessage \/ Join \/ LinkCheck \/ CustomAt("CUSTOM") \/ CustomAt("FACNEW") \/ Reboot
    <2>1. /\ Call /\ Plan /\ UNCHANGED <<save_config_mask, save_command_index, config>>
          /\ state' = state \/ state' # "CONFIG_SAVE_RESPONSE"
        BY <1>5 DEF SendMessage, Join, LinkCheck, CustomAt, Reboot, Goto
    <2> QED
        BY <1>3, <1>4, <2>1
<1>6. ASSUME NEW i \in Items, NEW v \in {0, 1}, Set(i, v) PROVE SaveInv'
    <2>1. /\ UNCHANGED <<owed, commands, rx_fifo, state, save_command_index>>
          /\ config' = [config EXCEPT ![i] = v] /\ save_config_mask' = save_config_mask \union {i}
        BY <1>6 DEF Set, Call, wire, reader
    <2>2. /\ history'.unsaved = history.unsaved \union {i}
          /\ history'.doubtful = IF state = "CONFIG_SAVE_RESPONSE" /\ save_command_index = i
                                 THEN history.doubtful \union {i} ELSE history.doubtful \ {i}
        <3>1. PICK b : b = (history.haste \/ Haste)
            OBVIOUS
        <3>2. PICK d : d = IF state = "CONFIG_SAVE_RESPONSE" /\ save_command_index = i
                           THEN history.doubtful \union {i} ELSE history.doubtful \ {i}
            OBVIOUS
        <3>3. history' = [history EXCEPT !.unsaved = @ \union {i}, !.doubtful = d, !.haste = b]
            BY <1>6, <3>1, <3>2, Zenon DEF Set
        <3> QED
            BY <1>1, <3>2, <3>3 DEF AskedTyped
    <2>3. Kept'
        BY <1>1, <2>1, <2>2 DEF Kept
    <2>4. YesIsItsOwn'
        <3> SUFFICES ASSUME Awaited' PROVE YesIsItsOwn'
            BY DEF YesIsItsOwn
        <3>1. Awaited /\ save_command_index # i
            BY <1>1, <2>1, <2>2 DEF Awaited
        <3>2. SaveCommand' = SaveCommand
            <4>1. config'[save_command_index] = config[save_command_index]
                BY <1>1, <2>1, <3>1 DEF AskedTyped
            <4> QED
                BY <2>1, <4>1 DEF SaveCommand
        <3> QED
            BY <1>1, <2>1, <3>1, <3>2 DEF YesIsItsOwn
    <2>5. NoYesOwed'
        BY <1>1, <2>1 DEF NoYesOwed
    <2> QED
        BY <2>3, <2>4, <2>5 DEF SaveInv
<1>7. CASE UartEvent
    <2>1. /\ UNCHANGED <<save_config_mask, save_command_index, config, owed, commands, rx_fifo, history>>
          /\ state' = state \/ state' # "CONFIG_SAVE_RESPONSE"
        BY <1>7 DEF UartEvent, Goto, driver, reader, wire
    <2> QED
        BY <1>3, <2>1
<1> DEFINE Silent == \A k \in 1 .. Len(rx_fifo) : rx_fifo[k].name \notin Yes
           Same == UNCHANGED <<state, save_config_mask, save_command_index, config>>
<1>8. ModemStep => Same
    BY DEF ModemStep, driver
<1>9. ASSUME NEW line \in Lines, line.name \notin Yes, rx_fifo' = Append(rx_fifo, line), Silent
      PROVE  Silent'
    <2>1. /\ Len(rx_fifo') = Len(rx_fifo) + 1 /\ rx_fifo'[Len(rx_fifo) + 1] = line
          /\ \A k \in 1 .. Len(rx_fifo) : rx_fifo'[k] = rx_fifo[k]
        BY <1>2, <1>9
    <2>2. \A k \in 1 .. Len(rx_fifo) + 1 : k \in 1 .. Len(rx_fifo) \/ k = Len(rx_fifo) + 1
        BY <1>2
    <2> QED
        BY <1>9, <2>1, <2>2
<1>10. ASSUME NEW lines \in Seq(Lines), \A k \in 1 .. Len(lines) : lines[k].name \notin Yes,
              owed' = owed \o lines
       PROVE  NoYesOwed'
    <2>1. /\ Len(owed') = Len(owed) + Len(lines)
          /\ \A k \in 1 .. Len(owed) + Len(lines) :
                owed'[k] = IF k <= Len(owed) THEN owed[k] ELSE lines[k - Len(owed)]
        BY <1>2, <1>10, ConcatProperties
    <2>2. \A k \in 1 .. Len(owed) + Len(lines) :
              k \in 1 .. Len(owed) \/ (~ (k <= Len(owed)) /\ k - Len(owed) \in 1 .. Len(lines))
        BY <1>2, <1>10
    <2> QED
        BY <1>1, <1>10, <2>1, <2>2 DEF NoYesOwed
<1>11. ASSUME Same, UNCHANGED history, NoYesOwed', Silent => Silent',
              commands' = commands \/ (commands # <<>> /\ commands' = Tail(commands))
       PROVE  SaveInv'
    <2>1. Kept' /\ Awaited' = Awaited /\ SaveCommand' = SaveCommand
        BY <1>1, <1>11 DEF Kept, Awaited, SaveCommand
    <2>2. ASSUME commands = <<SaveCommand>>, commands' = Tail(commands) PROVE commands' = <<>>
        BY <2>2
    <2>3. YesIsItsOwn'
        BY <1>1, <1>11, <2>1, <2>2 DEF YesIsItsOwn
    <2> QED
        BY <1>11, <2>1, <2>3 DEF SaveInv
<1>12. CASE Execute
    <2> DEFINE c == Head(commands)
    <2>1. Same /\ commands # <<>> /\ commands' = Tail(commands) /\ c \in Commands
        BY <1>2, <1>8, <1>12 DEF Execute
    <2>2. CASE modem.baud # 9600
        <3>1. UNCHANGED <<owed, rx_fifo, history>>
            BY <1>12, <2>2 DEF Execute
        <3> QED
            BY <1>1, <1>11, <2>1, <3>1 DEF NoYesOwed
    <2>3. CASE modem.baud = 9600
        <3>1. Carries(c)
            BY <1>12, <2>3 DEF Execute
        <3>2. PICK lines \in Answers(c) :
                  rx_fifo' = Append(rx_fifo, Head(lines)) /\ owed' = owed \o Tail(lines)
            BY <3>1, Zenon DEF Carries
        <3>3. NoYesOwed'
            BY <1>1, <1>10, <2>1, <3>2, AnswersTyped
        <3>4. history' = IF c.name = "CONFIG" /\ c.value = config[c.item]
                         THEN [history EXCEPT !.unsaved = @ \ {c.item}] ELSE history
            BY <3>1, Zenon DEF Carries
        <3> HIDE DEF c
        <3>5. /\ history'.unsaved \subseteq history.unsaved
              /\ history'.doubtful = history.doubtful
            BY <1>1, <3>4 DEF AskedTyped
        <3>6. Kept'
            BY <1>1, <2>1, <3>5 DEF Kept
        <3>7. ~ Awaited'
            <4> SUFFICES ASSUME Awaited' PROVE FALSE
                OBVIOUS
            <4>1. Awaited
                BY <2>1, <3>5 DEF Awaited
            <4>2. commands = <<SaveCommand>>
                BY <1>1, <2>1, <4>1 DEF YesIsItsOwn
            <4>3. c = SaveCommand
                BY <4>2 DEF c
            <4>4. c.name = "CONFIG" /\ c.item = save_command_index
                  /\ c.value = config[save_command_index]
                BY <4>3 DEF SaveCommand
            <4>5. save_command_index \notin history'.unsaved
                BY <1>1, <3>4, <4>4 DEF AskedTyped
            <4> QED
                BY <2>1, <4>5 DEF Awaited
        <3> QED
            BY <3>3, <3>6, <3>7 DEF SaveInv, YesIsItsOwn
    <2> QED
        BY <2>2, <2>3
<1>13. CASE Emit
    <2>1. /\ Same /\ UNCHANGED <<history, commands>>
          /\ rx_fifo' = Append(rx_fifo, Head(owed)) /\ owed' = Tail(owed) /\ owed # <<>>
        BY <1>8, <1>13 DEF Emit
    <2>2. Head(owed) \in Lines /\ Head(owed).name \notin Yes
        BY <1>1, <1>2, <2>1 DEF NoYesOwed
    <2>3. NoYesOwed'
        <3>1. Len(owed') = Len(owed) - 1 /\ \A k \in 1 .. Len(owed) - 1 : owed'[k] = owed[k + 1]
            BY <1>2, <2>1
        <3>2. \A k \in 1 .. Len(owed) - 1 : k + 1 \in 1 .. Len(owed)
            BY <1>2
        <3> QED
            BY <1>1, <3>1, <3>2 DEF NoYesOwed
    <2> QED
        BY <1>9, <1>11, <2>1, <2>2, <2>3
<1>14. CASE Misbehave
    <2>1. /\ Same /\ UNCHANGED <<history, owed>> /\ commands # <<>> /\ commands' = Tail(commands)
          /\ rx_fifo' = rx_fifo \/ \E name \in {"ERR", "ERR7"} : rx_fifo' = Append(rx_fifo, Line(name))
        BY <1>8, <1>14 DEF Misbehave
    <2>2. \A name \in {"ERR", "ERR7"} : Line(name) \in Lines /\ Line(name).name \notin Yes
        BY LinesTyped DEF LineNames, Yes
    <2>3. Silent => Silent'
        <3>1. CASE rx_fifo' = rx_fifo
            BY <3>1
        <3>2. CASE \E name \in {"ERR", "ERR7"} : rx_fifo' = Append(rx_fifo, Line(name))
            BY <1>9, <2>2, <3>2
        <3> QED
            BY <2>1, <3>1, <3>2
    <2>4. NoYesOwed'
        BY <1>1, <2>1 DEF NoYesOwed
    <2> QED
        BY <1>11, <2>1, <2>3, <2>4
<1>15. CASE News
    <2>1. Same /\ UNCHANGED <<history, commands, rx_fifo>>
        BY <1>8, <1>15 DEF News
    <2>2. PICK lines \in Unasked : owed' = owed \o lines
        BY <1>15 DEF News
    <2>3. \A name \in {"RECV", "data", "head", "tail", "RESET"} :
              Line(name) \in Lines /\ Line(name).name \notin Yes
        BY LinesTyped DEF LineNames, Late, Yes
    <2>4. lines \in Seq(Lines) /\ \A k \in 1 .. Len(lines) : lines[k].name \notin Yes
        <3> DEFINE No == {l \in Lines : l.name \notin Yes}
        <3>1. \A name \in {"RECV", "data", "head", "tail", "RESET"} : Line(name) \in No
            BY <2>3
        <3>2. \A l \in No : l \in Lines /\ l.name \notin Yes
            OBVIOUS
        <3> HIDE DEF No
        <3>3. (\E l \in No, m \in No : lines = <<l, m>>) \/ (\E l \in No : lines = <<l>>)
            BY <2>2, <3>1 DEF Unasked
        <3>4. ASSUME NEW l \in No, NEW m \in No, lines = <<l, m>>
              PROVE  lines \in Seq(Lines) /\ \A k \in 1 .. Len(lines) : lines[k].name \notin Yes
            <4>1. l \in Lines /\ m \in Lines /\ l.name \notin Yes /\ m.name \notin Yes
                BY <3>2
            <4>2. Len(lines) = 2 /\ lines[1] = l /\ lines[2] = m /\ lines \in Seq(Lines)
                BY <3>4, <4>1
            <4>3. \A k \in 1 .. Len(lines) : k = 1 \/ k = 2
                BY <4>2
            <4> QED
                BY <4>1, <4>2, <4>3
        <3>5. ASSUME NEW l \in No, lines = <<l>>
              PROVE  lines \in Seq(Lines) /\ \A k \in 1 .. Len(lines) : lines[k].name \notin Yes
            <4>1. l \in Lines /\ l.name \notin Yes
                BY <3>2
            <4>2. Len(lines) = 1 /\ lines[1] = l /\ lines \in Seq(Lines)
                BY <3>5, <4>1
            <4>3. \A k \in 1 .. Len(lines) : k = 1
                BY <4>2
            <4> QED
                BY <4>1, <4>2, <4>3
        <3> QED
            BY <3>3, <3>4, <3>5
    <2>5. NoYesOwed'
        BY <1>10, <2>2, <2>4
    <2> QED
        BY <1>11, <2>1, <2>5
<1> QED
    BY <1>5, <1>6, <1>7, <1>12, <1>13, <1>14, <1>15 DEF Application

LEMMA NextSaves == SaveInv /\ [Next]_modemVars => SaveInv'
<1> SUFFICES ASSUME SaveInv, [Next]_modemVars PROVE SaveInv'
    OBVIOUS
<1>1. TypeInv'
    BY NextTyped DEF SaveInv
<1>2. CASE UNCHANGED modemVars
    BY <1>1, <1>2 DEF modemVars, driver, reader, wire, SaveInv, NoYesOwed, Kept, YesIsItsOwn,
        Awaited, SaveCommand
<1> QED
    BY <1>1, <1>2, TaskSaves, OthersSave DEF Next

\* When the application is told that the configuration is saved, the modem has
\* executed a command with the value of every item that was set, or the item
\* is to be saved again, or it is in doubt.
THEOREM SavedIsSaved == Spec => []ConfigSaved
<1>1. Init => SaveInv
    BY InitTyped DEF Init, SaveInv, NoYesOwed, Kept, YesIsItsOwn, Awaited
<1>2. SaveInv => ConfigSaved
    BY DEF SaveInv, Kept, ConfigSaved
<1> QED
    BY <1>1, <1>2, NextSaves, PTL DEF Spec

-----------------------------------------------------------------------------
(***************************************************************************)
(* While nothing fails and the application asks one thing after the other, *)
(* the driver and the modem are in step.  For each state of the driver,    *)
(* what the modem may have said and the driver not yet read is known; when *)
(* the task runs, the command is executed and its first line has come; and *)
(* there is no other request than the one that is being dealt with.        *)
(***************************************************************************)
Calm == faults = 0 /\ ~ history.haste

Said == rx_fifo \o owed

Only(name) == <<Line(name)>>
Booted == {<<>>, Only("BOOT")}
Rest == {<<>>, Only("ACK"), Only("RESET"), Only("ANS")}

\* What is left to be read of the answer to a command.
Replies(name) ==
    CASE name \in {"AT", "CONFIG"} -> {Only("OK")}
      [] name = "SET" -> {Only("OK"), Only("ERR")}
      [] name = "REBOOT" -> {Only("OK"), <<Line("OK"), Line("BOOT")>>}
      [] name = "QUERY" -> {<<line>> : line \in {l \in Lines : l.name = "VALUE"}}
      [] name = "SEND" -> {Only("OK"), <<Line("OK"), Line("ACK")>>}
      [] name = "JOIN" -> {<<Line("OK"), Line("JOINED")>>, <<Line("OK"), Line("NOJOIN")>>,
                           Only("JOINED"), Only("NOJOIN")}
      [] name = "LNCHECK" -> {<<Line("OK"), Line("MAC"), Line("ANS")>>,
                              <<Line("OK"), Line("NOMAC")>>,
                              <<Line("MAC"), Line("ANS")>>, Only("NOMAC")}
      [] name = "CUSTOM" -> {Only("VALUE"), Only("OK"), Only("ERR")}
      [] name = "FACNEW" -> {<<Line("OK"), Line("RESET")>>}

Silence(replies) == commands = <<>> /\ Said \in replies
Exchange(c) == (commands = <<c>> /\ Said = <<>>) \/ Silence(Replies(c.name))

Requested ==
    join_command \/ link_check_command \/ custom_command # "none" \/ save_config_mask # {}

Quiet == {"RECOVER_BAUDRATE_UART", "READY", "ERROR", "SEND_MESSAGE_COMMAND", "CONFIG_SAVE_SEND",
          "JOIN_SEND", "LINK_CHECK_SEND", "CUSTOM_COMMAND_SEND"}

Talk ==
    /\ state \in Quiet => Silence({<<>>})
    /\ state \in {"INITIALIZE", "INITIALIZE_COMMAND_SEND"} => Silence(Booted)
    /\ state \in {"IDLE", "RECEIVE"} => Silence(IF Requested THEN {<<>>} ELSE Rest)
    /\ state = "INITIALIZE_AT_RESPONSE" =>
           Exchange(Command("AT")) \/ (modem.baud # 9600 /\ Silence({<<>>}))
    /\ state = "INITIALIZE_COMMAND_RESPONSE" => Exchange(InitCommands[init_command_index])
    /\ state = "SEND_MESSAGE_RESPONSE" => Exchange(Command("SEND"))
    /\ state = "CONFIG_SAVE_RESPONSE" => Exchange(SaveCommand)
    /\ state = "JOIN_RESPONSE" =>
           IF handling = "none" THEN Exchange(Command("JOIN")) ELSE Silence({<<>>})
    /\ state = "LINK_CHECK_RESPONSE" => Exchange(Command("LNCHECK"))
    /\ state = "LINK_CHECK_RESPONSE_ANS" => Silence({Only("ANS")})
    /\ state = "CUSTOM_COMMAND_RESPONSE" => Exchange(Command(custom_command))

\* The other baud rate is set right before the modem says anything.
Baud ==
    /\ modem.baud # 9600 =>
           /\ state \in {"INITIALIZE", "INITIALIZE_AT_RESPONSE", "RECOVER_BAUDRATE_UART"}
           /\ response = None /\ Said = <<>>

Prompt ==
    /\ running /\ handling # "SEND_MESSAGE_START" => Answered
    /\ ~ running /\ plan = "now" => Answered

Telling ==
    /\ handling # "ERROR"
    /\ handling = "CONFIG_SAVE_DONE" <=> state = "ERROR"
    /\ handling \in {"JOIN_SUCCESS", "JOIN_ERROR"} => state = "JOIN_RESPONSE"
    /\ state = "JOIN_RESPONSE" => handling \in {"none", "JOIN_SUCCESS", "JOIN_ERROR"}
    /\ handling = "SEND_MESSAGE_START" => state = "SEND_MESSAGE_RESPONSE"
    /\ receiving =>
         /\ running /\ handling \in {"none", "MESSAGE_CONFIRMED", "MODEM_FACTORY_RESET"}
         /\ state \in {"IDLE", "SEND_MESSAGE_COMMAND", "INITIALIZE"}
         /\ state = "INITIALIZE" => Said = <<>>

OneAtATime ==
    /\ custom_command # "none" => ~ link_check_command
    /\ state \in {"SEND_MESSAGE_COMMAND", "SEND_MESSAGE_RESPONSE", "LINK_CHECK_RESPONSE",
                  "LINK_CHECK_RESPONSE_ANS"} => ~ Requested
    /\ state = "LINK_CHECK_SEND" =>
           ~ join_command /\ custom_command = "none" /\ save_config_mask = {}
    /\ state \in {"CUSTOM_COMMAND_SEND", "CUSTOM_COMMAND_RESPONSE"} =>
           custom_command # "none" /\ ~ join_command /\ save_config_mask = {}

InStep == ~ held /\ Talk /\ Baud /\ Prompt /\ Telling /\ OneAtATime

DialogInv == TypeInv /\ (Calm => InStep)

LEMMA OneLine ==
    ASSUME NEW l \in Lines, NEW said, said = <<l>>
    PROVE  said \in Seq(Lines) /\ said # <<>> /\ Head(said) = l /\ Tail(said) = <<>>
OBVIOUS

LEMMA TwoLines ==
    ASSUME NEW l \in Lines, NEW m \in Lines, NEW said, said = <<l, m>>
    PROVE  said \in Seq(Lines) /\ said # <<>> /\ Head(said) = l /\ Tail(said) = <<m>>
OBVIOUS

LEMMA ThreeLines ==
    ASSUME NEW l \in Lines, NEW m \in Lines, NEW n \in Lines, NEW said, said = <<l, m, n>>
    PROVE  said \in Seq(Lines) /\ said # <<>> /\ Head(said) = l /\ Tail(said) = <<m, n>>
OBVIOUS

\* What a reply begins with, and what is left of it.
Begins(said, names, rests) ==
    /\ said \in Seq(Lines) /\ said # <<>>
    /\ Head(said) \in Lines /\ Head(said).name \in names
    /\ Tail(said) \in rests

LEMMA RepliesAre ==
    /\ \A said \in Replies("AT") \union Replies("CONFIG") : Begins(said, {"OK"}, {<<>>})
    /\ \A said \in Replies("SET") : Begins(said, {"OK", "ERR"}, {<<>>})
    /\ \A said \in Replies("REBOOT") : Begins(said, {"OK"}, Booted)
    /\ \A said \in Replies("QUERY") : Begins(said, {"VALUE"}, {<<>>})
    /\ \A said \in Replies("SEND") : Begins(said, {"OK"}, {<<>>, Only("ACK")})
    /\ \A said \in Replies("JOIN") :
          \/ Begins(said, {"OK"}, {Only("JOINED"), Only("NOJOIN")})
          \/ Begins(said, {"JOINED", "NOJOIN"}, {<<>>})
    /\ \A said \in Replies("LNCHECK") :
          \/ Begins(said, {"OK"}, {<<Line("MAC"), Line("ANS")>>, Only("NOMAC")})
          \/ Begins(said, {"MAC"}, {Only("ANS")})
          \/ Begins(said, {"NOMAC"}, {<<>>})
    /\ \A said \in Replies("CUSTOM") : Begins(said, {"VALUE", "OK", "ERR"}, {<<>>})
    /\ \A said \in Replies("FACNEW") : Begins(said, {"OK"}, {Only("RESET")})
<1>1. \A name \in LineNames : Line(name) \in Lines /\ Line(name).name = name
    BY LinesTyped
<1>2. {"OK", "ERR", "VALUE", "BOOT", "ACK", "JOINED", "NOJOIN", "MAC", "NOMAC", "ANS", "RESET"}
          \subseteq LineNames
    BY DEF LineNames, Late
<1>3. ASSUME NEW name \in LineNames PROVE Begins(Only(name), {name}, {<<>>})
    BY <1>1, OneLine DEF Only, Begins
<1>4. ASSUME NEW name \in LineNames, NEW later \in LineNames
      PROVE  Begins(<<Line(name), Line(later)>>, {name}, {Only(later)})
    BY <1>1, TwoLines DEF Only, Begins
<1>5. Begins(<<Line("OK"), Line("MAC"), Line("ANS")>>, {"OK"}, {<<Line("MAC"), Line("ANS")>>})
    BY <1>1, <1>2, ThreeLines DEF Begins
<1>6. ASSUME NEW said, NEW names, NEW rests, NEW names2, NEW rests2, Begins(said, names, rests),
             names \subseteq names2, rests \subseteq rests2
      PROVE  Begins(said, names2, rests2)
    BY <1>6 DEF Begins
<1>7. \A said \in Replies("QUERY") : Begins(said, {"VALUE"}, {<<>>})
    <2> SUFFICES ASSUME NEW said \in Replies("QUERY") PROVE Begins(said, {"VALUE"}, {<<>>})
        OBVIOUS
    <2>1. PICK l \in Lines : l.name = "VALUE" /\ said = <<l>>
        BY DEF Replies
    <2> QED
        BY <2>1, OneLine DEF Begins
<1>8. /\ Replies("AT") \union Replies("CONFIG") = {Only("OK")}
      /\ Replies("SET") = {Only("OK"), Only("ERR")}
      /\ Replies("REBOOT") = {Only("OK"), <<Line("OK"), Line("BOOT")>>}
      /\ Replies("SEND") = {Only("OK"), <<Line("OK"), Line("ACK")>>}
      /\ Replies("CUSTOM") = {Only("VALUE"), Only("OK"), Only("ERR")}
      /\ Replies("FACNEW") = {<<Line("OK"), Line("RESET")>>}
    BY DEF Replies
<1>9. /\ Replies("JOIN") = {<<Line("OK"), Line("JOINED")>>, <<Line("OK"), Line("NOJOIN")>>,
                            Only("JOINED"), Only("NOJOIN")}
      /\ Replies("LNCHECK") = {<<Line("OK"), Line("MAC"), Line("ANS")>>,
                              <<Line("OK"), Line("NOMAC")>>,
                              <<Line("MAC"), Line("ANS")>>, Only("NOMAC")}
    BY DEF Replies
<1>10. /\ Begins(Only("OK"), {"OK"}, {<<>>}) /\ Begins(Only("ERR"), {"ERR"}, {<<>>})
       /\ Begins(Only("VALUE"), {"VALUE"}, {<<>>}) /\ Begins(Only("NOMAC"), {"NOMAC"}, {<<>>})
       /\ Begins(Only("JOINED"), {"JOINED"}, {<<>>}) /\ Begins(Only("NOJOIN"), {"NOJOIN"}, {<<>>})
    BY <1>2, <1>3
<1>11. /\ Begins(<<Line("OK"), Line("BOOT")>>, {"OK"}, {Only("BOOT")})
       /\ Begins(<<Line("OK"), Line("ACK")>>, {"OK"}, {Only("ACK")})
       /\ Begins(<<Line("OK"), Line("JOINED")>>, {"OK"}, {Only("JOINED")})
       /\ Begins(<<Line("OK"), Line("NOJOIN")>>, {"OK"}, {Only("NOJOIN")})
       /\ Begins(<<Line("OK"), Line("NOMAC")>>, {"OK"}, {Only("NOMAC")})
       /\ Begins(<<Line("OK"), Line("RESET")>>, {"OK"}, {Only("RESET")})
       /\ Begins(<<Line("MAC"), Line("ANS")>>, {"MAC"}, {Only("ANS")})
    BY <1>2, <1>4
<1>12. \A said \in Replies("SET") : Begins(said, {"OK", "ERR"}, {<<>>})
    BY <1>6, <1>8, <1>10
<1>13. \A said \in Replies("REBOOT") : Begins(said, {"OK"}, Booted)
    BY <1>6, <1>8, <1>10, <1>11 DEF Booted
<1>14. \A said \in Replies("SEND") : Begins(said, {"OK"}, {<<>>, Only("ACK")})
    BY <1>6, <1>8, <1>10, <1>11
<1>15. \A said \in Replies("CUSTOM") : Begins(said, {"VALUE", "OK", "ERR"}, {<<>>})
    BY <1>6, <1>8, <1>10
<1>16. \A said \in Replies("JOIN") :
           \/ Begins(said, {"OK"}, {Only("JOINED"), Only("NOJOIN")})
           \/ Begins(said, {"JOINED", "NOJOIN"}, {<<>>})
    BY <1>6, <1>9, <1>10, <1>11
<1>17. \A said \in Replies("LNCHECK") :
           \/ Begins(said, {"OK"}, {<<Line("MAC"), Line("ANS")>>, Only("NOMAC")})
           \/ Begins(said, {"MAC"}, {Only("ANS")})
           \/ Begins(said, {"NOMAC"}, {<<>>})
    BY <1>5, <1>6, <1>9, <1>10, <1>11
<1> QED
    BY <1>7, <1>8, <1>10, <1>11, <1>12, <1>13, <1>14, <1>15, <1>16, <1>17

\* The answer to a command is one of the replies to it.
LEMMA AnswersAreReplies ==
    ASSUME WireTyped, NEW c \in Commands
    PROVE  Answers(c) \subseteq Replies(c.name)
<1>1. c.name \in CommandNames
    BY DEF Commands, AnyCommand
<1>2. CASE c.name = "QUERY"
    <2>1. [name |-> "VALUE", value |-> modem.stored[c.item]] \in Lines
        <3>1. modem.stored[c.item] \in {0, 1}
            BY <1>2 DEF Commands, WireTyped
        <3> QED
            BY <3>1 DEF Lines, LineNames
    <2> QED
        BY <1>2, <2>1 DEF Answers, Replies
<1>3. CASE c.name \in {"AT", "CONFIG", "SET", "REBOOT", "SEND"}
    BY <1>3 DEF Answers, Replies, Only
<1>4. CASE c.name \in {"JOIN", "LNCHECK", "CUSTOM", "FACNEW"}
    BY <1>4 DEF Answers, Replies, Only
<1> QED
    BY <1>1, <1>2, <1>3, <1>4 DEF CommandNames

\* What the modem has said is what it has sent and what it has still to send.
LEMMA SaidIs ==
    ASSUME WireTyped
    PROVE  /\ Said \in Seq(Lines)
           /\ rx_fifo = <<>> => Said = owed
           /\ owed = <<>> => Said = rx_fifo
           /\ rx_fifo # <<>> => Said # <<>> /\ Head(Said) = Head(rx_fifo)
                                /\ Tail(Said) = Tail(rx_fifo) \o owed
           /\ Said = <<>> => rx_fifo = <<>> /\ owed = <<>>
<1>1. rx_fifo \in Seq(Lines) /\ owed \in Seq(Lines)
    BY DEF WireTyped
<1>2. /\ Said \in Seq(Lines) /\ Len(Said) = Len(rx_fifo) + Len(owed)
      /\ \A k \in 1 .. Len(rx_fifo) + Len(owed) :
            Said[k] = IF k <= Len(rx_fifo) THEN rx_fifo[k] ELSE owed[k - Len(rx_fifo)]
    BY <1>1, ConcatProperties DEF Said
<1>3. rx_fifo = <<>> => Said = owed
    BY <1>1 DEF Said
<1>4. owed = <<>> => Said = rx_fifo
    BY <1>1 DEF Said
<1>5. Said = <<>> => rx_fifo = <<>> /\ owed = <<>>
    BY <1>1, <1>2
<1>6. ASSUME rx_fifo # <<>>
      PROVE  Said # <<>> /\ Head(Said) = Head(rx_fifo) /\ Tail(Said) = Tail(rx_fifo) \o owed
    <2>1. Len(rx_fifo) > 0
        BY <1>1, <1>6
    <2>2. Said # <<>> /\ Head(Said) = Head(rx_fifo)
        BY <1>1, <1>2, <2>1
    <2> DEFINE rest == Tail(rx_fifo)
    <2>3. rest \in Seq(Lines) /\ Len(rest) = Len(rx_fifo) - 1
          /\ \A k \in 1 .. Len(rx_fifo) - 1 : rest[k] = rx_fifo[k + 1]
        BY <1>1, <1>6
    <2> HIDE DEF rest
    <2>4. /\ rest \o owed \in Seq(Lines) /\ Len(rest \o owed) = Len(rest) + Len(owed)
          /\ \A k \in 1 .. Len(rest) + Len(owed) :
                (rest \o owed)[k] = IF k <= Len(rest) THEN rest[k] ELSE owed[k - Len(rest)]
        BY <1>1, <2>3, ConcatProperties
    <2>5. Tail(Said) \in Seq(Lines) /\ Len(Tail(Said)) = Len(Said) - 1
          /\ \A k \in 1 .. Len(Said) - 1 : Tail(Said)[k] = Said[k + 1]
        BY <1>2, <2>2
    <2>6. Len(rest \o owed) = Len(Tail(Said))
        BY <1>1, <1>2, <2>3, <2>4, <2>5
    <2>7. ASSUME NEW k \in 1 .. Len(rest \o owed) PROVE (rest \o owed)[k] = Tail(Said)[k]
        <3>1. k \in 1 .. Len(Said) - 1 /\ k + 1 \in 1 .. Len(Said) /\ k \in Nat
            BY <1>1, <1>2, <2>3, <2>4, <2>7
        <3>2. Tail(Said)[k] = IF k + 1 <= Len(rx_fifo) THEN rx_fifo[k + 1]
                              ELSE owed[k + 1 - Len(rx_fifo)]
            BY <1>2, <2>5, <3>1
        <3>3. (rest \o owed)[k] = IF k <= Len(rest) THEN rest[k] ELSE owed[k - Len(rest)]
            BY <2>4, <2>7
        <3>4. CASE k <= Len(rest)
            <4>1. k \in 1 .. Len(rx_fifo) - 1 /\ k + 1 <= Len(rx_fifo)
                BY <1>1, <2>3, <3>1, <3>4
            <4>2. rest[k] = rx_fifo[k + 1]
                BY <2>3, <4>1
            <4> QED
                BY <3>2, <3>3, <3>4, <4>1, <4>2
        <3>5. CASE ~ (k <= Len(rest))
            <4>1. k - Len(rest) = k + 1 - Len(rx_fifo) /\ ~ (k + 1 <= Len(rx_fifo))
                BY <1>1, <2>3, <3>1, <3>5
            <4> QED
                BY <3>2, <3>3, <3>5, <4>1
        <3> QED
            BY <3>4, <3>5
    <2>8. rest \o owed = Tail(Said)
        BY <2>4, <2>5, <2>6, <2>7, SeqEqual
    <2> QED
        BY <2>2, <2>8 DEF rest
<1> QED
    BY <1>2, <1>3, <1>4, <1>5, <1>6

LEMMA EmitSaid == WireTyped /\ Emit => Said' = Said
<1> SUFFICES ASSUME WireTyped, Emit PROVE Said' = Said
    OBVIOUS
<1>1. rx_fifo \in Seq(Lines) /\ owed \in Seq(Lines) /\ owed # <<>>
    BY DEF WireTyped, Emit
<1> DEFINE l == Head(owed)
           one == <<l>>
           rest == Tail(owed)
<1>2. l \in Lines /\ rest \in Seq(Lines)
    BY <1>1
<1>3. one \in Seq(Lines) /\ owed = one \o rest
    BY <1>1
<1>4. Append(rx_fifo, l) = rx_fifo \o one
    BY <1>1, <1>2
<1>5. rx_fifo' = rx_fifo \o one /\ owed' = rest
    BY <1>4 DEF Emit
<1> HIDE DEF one, rest
<1>6. (rx_fifo \o one) \o rest = rx_fifo \o (one \o rest)
    BY <1>1, <1>2, <1>3, ConcatAssociative, SMTT(30)
<1> QED
    BY <1>3, <1>5, <1>6 DEF Said

LEMMA ExecuteSaid ==
    ASSUME WireTyped, NEW c \in Commands, Said = <<>>, Carries(c)
    PROVE  Said' \in Replies(c.name)
<1>1. rx_fifo = <<>> /\ owed = <<>>
    BY SaidIs
<1>2. PICK lines \in Answers(c) :
          rx_fifo' = Append(rx_fifo, Head(lines)) /\ owed' = owed \o Tail(lines)
    BY Zenon DEF Carries
<1>3. lines \in Seq(Lines) /\ lines # <<>> /\ Head(lines) \in Lines /\ Tail(lines) \in Seq(Lines)
    BY AnswersTyped
<1> DEFINE l == Head(lines)
           one == <<l>>
           rest == Tail(lines)
<1>4. rx_fifo' = one
    BY <1>1, <1>2
<1>5. owed' = rest
    BY <1>1, <1>2, <1>3
<1>6. one \o rest = lines
    BY <1>3
<1>7. Said' = lines
    BY <1>4, <1>5, <1>6 DEF Said
<1> QED
    BY <1>7, AnswersAreReplies

\* What the task reads as whole lines.
Pieces == {"head", "tail", "data"}

LEMMA NextLine ==
    ASSUME WireTyped, ~ held, Said # <<>> => Head(Said).name \notin Pieces
    PROVE  /\ rx_fifo = <<>> => Ends = {} /\ ReadLine = None
           /\ rx_fifo # <<>> => /\ Ends # {} /\ Said # <<>> /\ ReadLine = Head(Said)
                                /\ AfterLine = Tail(rx_fifo)
<1>1. rx_fifo \in Seq(Lines) /\ DOMAIN rx_fifo = 1 .. Len(rx_fifo) /\ held \in BOOLEAN
    BY DEF WireTyped
<1>2. ASSUME rx_fifo = <<>> PROVE Ends = {}
    BY <1>2 DEF Ends
<1>3. ASSUME rx_fifo # <<>>
      PROVE  /\ Ends # {} /\ Said # <<>> /\ ReadLine = Head(Said)
             /\ AfterLine = Tail(rx_fifo)
    <2>1. Said # <<>> /\ Head(Said) = Head(rx_fifo)
        BY <1>3, SaidIs
    <2>2. Head(rx_fifo) = rx_fifo[1] /\ 1 \in 1 .. Len(rx_fifo)
        BY <1>1, <1>3
    <2>3. rx_fifo[1].name \notin Pieces
        BY <2>1, <2>2
    <2>4. 1 \in Ends /\ Ends \in SUBSET Nat /\ \A k \in Ends : k >= 1
        BY <1>1, <2>2, <2>3 DEF Ends, Pieces
    <2>5. Min(Ends) = 1
        <3> PICK least : least = Min(Ends)
            OBVIOUS
        <3>1. Ends # {} /\ Ends \in SUBSET Nat
            BY <2>4
        <3>2. least \in Ends /\ \A y \in Ends : least <= y
            BY <3>1, LeastOf
        <3>3. least \in Nat /\ least <= 1 /\ least >= 1
            BY <2>4, <3>2
        <3> QED
            BY <3>3
    <2>6. ReadLine = Whole(rx_fifo[1], held \/ Min(Ends) > 1)
        BY <2>4, <2>5 DEF ReadLine
    <2>7. Whole(rx_fifo[1], held \/ Min(Ends) > 1) = rx_fifo[1]
        BY <2>3, <2>5 DEF Whole, Pieces
    <2>8. AfterLine = Tail(rx_fifo)
        <3>1. AfterLine = SubSeq(rx_fifo, 2, Len(rx_fifo))
            BY <2>4, <2>5 DEF AfterLine
        <3> QED
            BY <1>1, <1>3, <3>1
    <2> QED
        BY <2>1, <2>2, <2>4, <2>6, <2>7, <2>8
<1> QED
    BY <1>2, <1>3 DEF ReadLine

LEMMA ReadSaid ==
    ASSUME WireTyped, ~ held, Said # <<>> => Head(Said).name \notin Pieces, Read, UNCHANGED owed
    PROVE  /\ ~ held'
           /\ \/ /\ rx_fifo = <<>> /\ ReadLine = None
                 /\ response' = response /\ Said' = Said
              \/ /\ rx_fifo # <<>> /\ Said # <<>> /\ ReadLine = Head(Said)
                 /\ response' = ReadLine /\ Said' = Tail(Said)
<1>1. CASE rx_fifo = <<>>
    <2>1. Ends = {} /\ ReadLine = None
        BY <1>1, NextLine
    <2>2. rx_fifo' = <<>> /\ held' = FALSE /\ response' = response
        BY <1>1, <2>1 DEF Read, AfterLine
    <2>3. Said' = Said
        BY <1>1, <2>2 DEF Said
    <2> QED
        BY <1>1, <2>1, <2>2, <2>3
<1>2. CASE rx_fifo # <<>>
    <2>1. Ends # {} /\ Said # <<>> /\ ReadLine = Head(Said) /\ AfterLine = Tail(rx_fifo)
        BY <1>2, NextLine
    <2>2. rx_fifo' = Tail(rx_fifo) /\ held' = FALSE /\ response' = ReadLine
        BY <2>1 DEF Read
    <2>3. Said' = Tail(Said)
        BY <1>2, <2>2, SaidIs DEF Said
    <2> QED
        BY <1>2, <2>1, <2>2, <2>3
<1> QED
    BY <1>1, <1>2

\* An answer that is never late is there when the task runs.
LEMMA AnswerSaid ==
    ASSUME WireTyped, ~ held, Answered, Said # <<>>, Head(Said).name \notin Late,
           Read, UNCHANGED owed
    PROVE  ~ held' /\ ReadLine = Head(Said) /\ response' = ReadLine /\ Said' = Tail(Said)
<1>1. rx_fifo # <<>>
    <2> SUFFICES ASSUME rx_fifo = <<>> PROVE FALSE
        OBVIOUS
    <2>1. Said = owed /\ owed \in Seq(Lines) /\ owed # <<>>
        BY SaidIs DEF WireTyped
    <2>2. 1 \in DOMAIN owed /\ Head(Said) = owed[1]
        BY <2>1
    <2> QED
        BY <2>2 DEF Answered
<1>2. Head(Said).name \notin Pieces
    BY DEF Pieces, Late
<1> QED
    BY <1>1, <1>2, ReadSaid

LEMMA PurgeSaid ==
    ASSUME WireTyped, Answered, Said \in Booted, Purge, UNCHANGED owed
    PROVE  Said' = <<>>
<1>1. owed \in Seq(Lines) /\ rx_fifo \in Seq(Lines)
    BY DEF WireTyped
<1>2. owed = <<>>
    <2> SUFFICES ASSUME owed # <<>> PROVE FALSE
        OBVIOUS
    <2>1. Said = Only("BOOT")
        BY SaidIs DEF Booted
    <2>2. Line("BOOT") \in Lines /\ Line("BOOT").name = "BOOT"
        BY LinesTyped DEF LineNames
    <2>3. Len(Said) = 1 /\ Said[1].name = "BOOT"
        BY <2>1, <2>2 DEF Only
    <2>4. Len(Said) = Len(rx_fifo) + Len(owed) /\ Len(owed) > 0
        BY <1>1 DEF Said
    <2>5. rx_fifo = <<>>
        <3>1. Len(rx_fifo) \in Nat /\ Len(owed) \in Nat
            BY <1>1
        <3>2. \A i \in Nat, j \in Nat : i + j = 1 /\ j > 0 => i = 0
            OBVIOUS
        <3>3. Len(rx_fifo) + Len(owed) = 1 /\ Len(owed) > 0
            BY <2>3, <2>4
        <3>4. Len(rx_fifo) = 0
            BY <3>1, <3>2, <3>3
        <3> QED
            BY <1>1, <3>4
    <2>6. Said = owed
        BY <2>5, SaidIs
    <2>7. 1 \in DOMAIN owed /\ owed[1].name = "BOOT"
        BY <1>1, <2>3, <2>4, <2>6
    <2> QED
        BY <2>7 DEF Answered, Late
<1> QED
    BY <1>2 DEF Said, Purge

LEMMA TaskInStep == TypeInv /\ InStep /\ Task => InStep'
<1> SUFFICES ASSUME TypeInv, InStep, Task PROVE InStep'
    OBVIOUS
<1>1. /\ WireTyped /\ TaskTyped /\ AskedTyped
      /\ ~ held /\ Talk /\ Baud /\ Prompt /\ Telling /\ OneAtATime
    BY DEF TypeInv, InStep
<1>2. ASSUME running, handling = "none" PROVE Answered /\ commands = <<>>
    BY <1>1, <1>2 DEF Prompt, Answered
<1>3. ASSUME NEW s, In(s)
      PROVE  running /\ handling = "none" /\ ~ receiving /\ state = s /\ Answered /\ commands = <<>>
    BY <1>2, <1>3 DEF In
<1>4. ASSUME NEW s, Goto(s)
      PROVE  /\ state' = s
             /\ UNCHANGED <<init_command_index, save_config_mask, save_command_index, join_command,
                            custom_command, link_check_command, config>>
    BY <1>4 DEF Goto
<1>5. ASSUME running, handling = "none", UNCHANGED <<commands, owed>> PROVE Prompt'
    <2>1. Answered'
        BY <1>2, <1>5 DEF Answered
    <2> QED
        BY <2>1 DEF Prompt
<1>6. ASSUME ~ running', plan' # "now" PROVE Prompt'
    BY <1>6 DEF Prompt
<1>7. ASSUME handling' = "none", ~ receiving', state' # "ERROR" PROVE Telling'
    BY <1>7 DEF Telling
<1>8. ASSUME UNCHANGED modem,
             state \notin {"INITIALIZE", "INITIALIZE_AT_RESPONSE", "RECOVER_BAUDRATE_UART"}
      PROVE  modem.baud = 9600 /\ Baud'
    BY <1>1, <1>8 DEF Baud
<1>9. ASSUME UNCHANGED <<join_command, link_check_command, custom_command, save_config_mask>>
      PROVE  Requested' = Requested
    BY <1>9 DEF Requested
<1>34. ASSUME NEW c, Write(c), Purge, Return("later"), commands = <<>>, Answered, Said \in Booted,
              handling = "none", ~ receiving
       PROVE  /\ commands' = <<c>> /\ Said' = <<>> /\ ~ held' /\ UNCHANGED modem
              /\ ~ running' /\ plan' = "later" /\ handling' = "none" /\ ~ receiving'
    <2>1. commands' = <<c>> /\ UNCHANGED <<owed, modem>>
        BY <1>34 DEF Write
    <2>2. Said' = <<>>
        BY <1>1, <1>34, <2>1, PurgeSaid
    <2> QED
        BY <1>1, <1>34, <2>1, <2>2 DEF Purge, Return
<1>10. CASE TaskRuns
    <2>1. /\ ~ running /\ running' = TRUE /\ plan' = "never"
          /\ plan = "now" \/ (plan = "later" /\ Answered)
          /\ UNCHANGED <<driver, handling, receiving, reader, wire>>
        BY <1>10 DEF TaskRuns
    <2>2. /\ UNCHANGED <<state, init_command_index, save_config_mask, save_command_index,
                         join_command, custom_command, link_check_command, config>>
          /\ UNCHANGED <<response, held, rx_fifo, commands, owed, modem, handling, receiving>>
        BY <2>1 DEF driver, reader, wire
    <2>3. Said' = Said /\ Requested' = Requested /\ SaveCommand' = SaveCommand /\ Answered' = Answered
        BY <2>2 DEF Said, Requested, SaveCommand, Answered
    <2>4. Prompt'
        BY <1>1, <2>1, <2>3 DEF Prompt
    <2>5. Talk'
        BY <1>1, <2>2, <2>3 DEF Talk, Exchange, Silence
    <2>6. Telling'
        BY <1>1, <2>1, <2>2, <2>3 DEF Telling
    <2> QED
        BY <1>1, <2>2, <2>3, <2>4, <2>5, <2>6 DEF InStep, Baud, OneAtATime
<1>11. CASE Ready
    <2>1. In("READY") /\ Goto("IDLE") /\ Tell("READY") /\ UNCHANGED <<reader, wire>>
        BY <1>11 DEF Ready
    <2>2. UNCHANGED <<held, rx_fifo, commands, owed, modem, receiving>> /\ handling' = "READY"
        BY <2>1 DEF Tell, reader, wire
    <2>3. Said' = Said /\ Said = <<>>
        BY <1>1, <1>3, <2>1, <2>2 DEF Said, Talk, Quiet, Silence
    <2>4. state' = "IDLE" /\ state = "READY"
        BY <1>3, <1>4, <2>1
    <2>5. Talk'
        BY <1>3, <2>1, <2>2, <2>3, <2>4 DEF Talk, Silence, Rest, Quiet
    <2>6. Telling'
        BY <1>3, <2>1, <2>2, <2>4 DEF Telling
    <2>7. OneAtATime'
        BY <1>1, <1>4, <2>1, <2>4 DEF OneAtATime
    <2> QED
        BY <1>1, <1>3, <1>5, <1>8, <2>1, <2>2, <2>4, <2>5, <2>6, <2>7 DEF InStep
<1>12. CASE Idle
    <2>1. In("IDLE") /\ UNCHANGED <<reader, wire>>
        BY <1>12 DEF Idle
    <2>2. /\ running /\ handling = "none" /\ ~ receiving /\ state = "IDLE"
          /\ UNCHANGED <<held, rx_fifo, commands, owed, modem>>
          /\ UNCHANGED <<receiving, handling, plan, save_config_mask, join_command,
                         custom_command, link_check_command>>
        BY <1>3, <1>4, <1>12, <2>1 DEF Idle, reader, wire, Return, Continue
    <2>3. \/ state' = "IDLE"
          \/ state' = "CONFIG_SAVE_SEND" /\ save_config_mask # {}
          \/ state' = "JOIN_SEND" /\ join_command /\ save_config_mask = {}
          \/ /\ state' = "CUSTOM_COMMAND_SEND" /\ custom_command # "none"
             /\ ~ join_command /\ save_config_mask = {}
          \/ /\ state' = "LINK_CHECK_SEND" /\ link_check_command /\ custom_command = "none"
             /\ ~ join_command /\ save_config_mask = {}
        BY <1>12 DEF Idle, Goto
    <2>4. Said' = Said /\ Requested' = Requested
        BY <1>9, <2>2 DEF Said
    <2>5. Talk'
        BY <1>1, <2>2, <2>3, <2>4 DEF Talk, Silence, Quiet, Requested
    <2>6. Telling' /\ Prompt' /\ Baud'
        BY <1>5, <1>7, <1>8, <2>2, <2>3
    <2>7. OneAtATime'
        BY <1>1, <2>2, <2>3, <2>4 DEF OneAtATime
    <2> QED
        BY <1>1, <2>2, <2>5, <2>6, <2>7 DEF InStep
<1>13. CASE Receive
    <2>1. In("RECEIVE") /\ Goto("IDLE") /\ UNCHANGED <<reader, wire>>
        BY <1>13 DEF Receive
    <2>2. /\ running' = running /\ handling' = handling /\ receiving' = TRUE /\ state' = "IDLE"
          /\ UNCHANGED <<held, rx_fifo, commands, owed, modem, save_config_mask, join_command,
                         custom_command, link_check_command>>
        BY <1>4, <1>13, <2>1 DEF Receive, reader, wire
    <2>3. Said' = Said /\ Requested' = Requested
        BY <1>9, <2>2 DEF Said
    <2>4. Talk'
        BY <1>1, <1>3, <2>1, <2>2, <2>3 DEF Talk, Silence, Quiet
    <2>5. Telling'
        BY <1>3, <2>1, <2>2 DEF Telling
    <2>6. Prompt' /\ Baud'
        BY <1>3, <1>5, <1>8, <2>1, <2>2
    <2>7. OneAtATime'
        BY <1>1, <2>2 DEF OneAtATime
    <2> QED
        BY <1>1, <2>2, <2>4, <2>5, <2>6, <2>7 DEF InStep
<1>14. CASE ReceiveLine
    <2> DEFINE line == ReadLine.name
    <2>1. /\ running /\ handling = "none" /\ receiving /\ Answered /\ commands = <<>>
          /\ UNCHANGED <<commands, owed, modem>>
        BY <1>2, <1>14 DEF ReceiveLine, wire
    <2>2. /\ state \in {"IDLE", "SEND_MESSAGE_COMMAND", "INITIALIZE"}
          /\ state # "IDLE" => Said = <<>>
          /\ state = "IDLE" => Said \in Rest /\ (Requested => Said = <<>>)
        BY <1>1, <2>1 DEF Telling, Talk, Silence, Quiet, Rest
    <2>3. Said \in Rest
        BY <2>2 DEF Rest
    <2>4. Said # <<>> => Begins(Said, {"ACK", "RESET", "ANS"}, {<<>>})
        <3>1. \A name \in {"ACK", "RESET", "ANS"} : Line(name) \in Lines /\ Line(name).name = name
            BY LinesTyped DEF LineNames, Late
        <3> QED
            BY <2>3, <3>1, OneLine DEF Rest, Only, Begins
    <2>5. Said # <<>> => Head(Said).name \notin Pieces \union {"RECV"}
        BY <2>4 DEF Begins, Pieces
    <2>6. line # "RECV"
        <3>1. ReadLine = None \/ (Said # <<>> /\ ReadLine = Head(Said))
            BY <1>1, <2>5, NextLine
        <3> QED
            BY <2>5, <3>1, LinesTyped
    <2>7. Read
        BY <1>14, <2>6 DEF ReceiveLine
    <2>8. /\ ~ held'
          /\ \/ ReadLine = None /\ Said' = Said /\ response' = response
             \/ Said # <<>> /\ line \in {"ACK", "RESET", "ANS"} /\ Said' = <<>>
        BY <1>1, <2>1, <2>4, <2>5, <2>7, ReadSaid DEF Begins
    <2>9. CASE ReadLine = None /\ Said' = Said /\ response' = response
        <3>1. line = "none"
            BY <2>9, LinesTyped
        <3>2. receiving' = FALSE /\ UNCHANGED <<plan, running, handling, driver>>
            BY <1>14, <3>1 DEF ReceiveLine
        <3>3. UNCHANGED <<state, save_config_mask, join_command, custom_command, link_check_command>>
            BY <3>2 DEF driver
        <3>4. Requested' = Requested
            BY <1>9, <3>3
        <3>5. Talk'
            BY <1>1, <2>1, <2>2, <2>9, <3>3, <3>4 DEF Talk, Silence, Quiet
        <3>6. Telling' /\ OneAtATime'
            BY <1>1, <2>1, <2>2, <3>2, <3>3, <3>4 DEF Telling, OneAtATime
        <3>7. Baud'
            BY <1>1, <2>1, <2>9, <3>3 DEF Baud
        <3> QED
            BY <1>5, <2>1, <2>8, <3>5, <3>6, <3>7 DEF InStep
    <2>10. CASE Said # <<>> /\ line \in {"ACK", "RESET", "ANS"} /\ Said' = <<>>
        <3>1. state = "IDLE" /\ modem.baud = 9600 /\ ~ Requested
            BY <1>1, <2>2, <2>10 DEF Baud
        <3>2. CASE line = "RESET"
            <4>1. /\ state' = "INITIALIZE" /\ handling' = "MODEM_FACTORY_RESET"
                  /\ UNCHANGED <<running, receiving, custom_command, link_check_command>>
                BY <1>14, <3>2, Zenon DEF ReceiveLine, Tell
            <4>2. Talk' /\ Baud'
                BY <2>1, <2>10, <3>1, <4>1 DEF Talk, Silence, Booted, Quiet, Baud
            <4>3. Telling' /\ OneAtATime'
                BY <1>1, <2>1, <2>10, <4>1 DEF Telling, OneAtATime
            <4> QED
                BY <1>5, <2>1, <2>8, <4>2, <4>3 DEF InStep
        <3>3. CASE line # "RESET"
            <4>1. UNCHANGED <<driver, running, receiving, plan>>
                BY <1>14, <2>10, <3>3 DEF ReceiveLine, Tell, Continue
            <4>2. handling' \in {"none", "MESSAGE_CONFIRMED"}
                BY <1>14, <2>1, <2>10, <3>3 DEF ReceiveLine, Tell, Continue
            <4>3. UNCHANGED <<state, save_config_mask, join_command, custom_command,
                              link_check_command>>
                BY <4>1 DEF driver
            <4>4. Talk' /\ Baud'
                BY <1>9, <2>1, <2>10, <3>1, <4>3 DEF Talk, Silence, Quiet, Baud, Rest
            <4>5. Telling' /\ OneAtATime'
                BY <1>1, <2>1, <3>1, <4>1, <4>2, <4>3 DEF Telling, OneAtATime
            <4> QED
                BY <1>5, <2>1, <2>8, <4>4, <4>5 DEF InStep
        <3> QED
            BY <3>2, <3>3
    <2> QED
        BY <2>8, <2>9, <2>10
<1>15. CASE Error
    <2>1. In("ERROR")
        BY <1>15 DEF Error
    <2> QED
        BY <1>1, <1>3, <2>1 DEF Telling
<1>16. CASE Initialize
    <2>1. /\ In("INITIALIZE") /\ Purge /\ Return("later")
          /\ commands' \in {Append(commands, Command("AT")), <<Command("AT")>>}
          /\ state' = "INITIALIZE_AT_RESPONSE"
          /\ UNCHANGED <<save_config_mask, join_command, custom_command, link_check_command,
                         owed, modem>>
        BY <1>16 DEF Initialize
    <2>2. /\ running /\ handling = "none" /\ ~ receiving /\ state = "INITIALIZE" /\ Answered
          /\ commands = <<>>
        BY <1>3, <2>1
    <2>3. commands' = <<Command("AT")>>
        BY <2>1, <2>2
    <2>4. Said \in Booted /\ Said' = <<>>
        BY <1>1, <2>1, <2>2, PurgeSaid DEF Talk, Silence
    <2>5. /\ ~ running' /\ plan' = "later" /\ handling' = "none" /\ ~ receiving'
          /\ response' = response /\ ~ held'
        BY <1>1, <2>1, <2>2 DEF Return, Purge
    <2>6. Talk'
        BY <2>1, <2>3, <2>4 DEF Talk, Exchange, Quiet, Command
    <2>7. Baud'
        BY <1>1, <2>1, <2>4, <2>5 DEF Baud
    <2>8. OneAtATime'
        BY <1>1, <2>1 DEF OneAtATime
    <2> QED
        BY <1>6, <1>7, <2>1, <2>5, <2>6, <2>7, <2>8 DEF InStep
<1>17. CASE InitializeAtResponse
    <2>1. /\ In("INITIALIZE_AT_RESPONSE") /\ Read /\ Continue /\ UNCHANGED wire
          /\ Goto(IF response'.name = "OK" THEN "INITIALIZE_COMMAND_SEND"
                  ELSE "RECOVER_BAUDRATE_UART")
        BY <1>17, Zenon DEF InitializeAtResponse
    <2>2. /\ running /\ handling = "none" /\ ~ receiving /\ state = "INITIALIZE_AT_RESPONSE"
          /\ Answered /\ commands = <<>>
        BY <1>3, <2>1
    <2>3. /\ UNCHANGED <<commands, owed, modem, save_config_mask, join_command, custom_command,
                         link_check_command>>
          /\ handling' = "none" /\ ~ receiving'
          /\ state' = IF response'.name = "OK" THEN "INITIALIZE_COMMAND_SEND"
                      ELSE "RECOVER_BAUDRATE_UART"
        BY <1>4, <2>1, <2>2 DEF wire, Continue
    <2>4. Said \in Replies("AT") \/ (modem.baud # 9600 /\ Said = <<>>)
        BY <1>1, <2>2 DEF Talk, Exchange, Silence, Command
    <2>5. CASE Said \in Replies("AT")
        <3>1. Begins(Said, {"OK"}, {<<>>})
            BY <2>5, RepliesAre
        <3>2. ~ held' /\ response'.name = "OK" /\ Said' = <<>>
            BY <1>1, <2>1, <2>2, <2>3, <3>1, AnswerSaid DEF Begins, Late
        <3>3. modem.baud = 9600
            BY <1>1, <3>1 DEF Baud, Begins
        <3>4. Talk' /\ Baud'
            BY <2>2, <2>3, <3>2, <3>3 DEF Talk, Baud, Silence, Booted, Quiet
        <3>5. OneAtATime'
            BY <1>1, <2>3, <3>2 DEF OneAtATime
        <3> QED
            BY <1>5, <1>7, <2>2, <2>3, <3>2, <3>4, <3>5 DEF InStep
    <2>6. CASE modem.baud # 9600 /\ Said = <<>>
        <3>1. ~ held' /\ response' = response /\ Said' = <<>>
            BY <1>1, <2>1, <2>3, <2>6, ReadSaid
        <3>2. response = None /\ None.name # "OK"
            BY <1>1, <2>6 DEF Baud, None, Line
        <3>3. state' = "RECOVER_BAUDRATE_UART"
            BY <2>3, <3>1, <3>2
        <3>4. Talk' /\ Baud'
            BY <2>2, <2>3, <3>1, <3>2, <3>3 DEF Talk, Baud, Silence, Booted, Quiet
        <3>5. OneAtATime'
            BY <1>1, <2>3, <3>3 DEF OneAtATime
        <3> QED
            BY <1>5, <1>7, <2>2, <2>3, <3>1, <3>3, <3>4, <3>5 DEF InStep
    <2> QED
        BY <2>4, <2>5, <2>6
<1>18. CASE RecoverBaudrate
    <2>1. /\ running /\ handling = "none" /\ ~ receiving /\ state = "RECOVER_BAUDRATE_UART"
          /\ Goto("INITIALIZE") /\ Return("later") /\ Purge
          /\ commands' = <<>> /\ modem' = [modem EXCEPT !.baud = 9600]
          /\ owed' = owed \/ owed' = Append(owed, Line("BOOT"))
        BY <1>18 DEF RecoverBaudrate
    <2>2. /\ ~ running' /\ plan' = "later" /\ handling' = "none" /\ ~ receiving' /\ ~ held'
          /\ state' = "INITIALIZE" /\ rx_fifo' = <<>>
          /\ UNCHANGED <<save_config_mask, join_command, custom_command, link_check_command>>
        BY <1>1, <1>4, <2>1 DEF Return, Purge
    <2>3. modem'.baud = 9600
        BY <1>1, <2>1 DEF WireTyped
    <2>4. owed = <<>>
        BY <1>1, <2>1, SaidIs DEF Talk, Quiet, Silence
    <2>5. owed' \in Booted
        BY <2>1, <2>4 DEF Booted, Only
    <2>6. Said' \in Booted
        <3>1. Line("BOOT") \in Lines
            BY LinesTyped DEF LineNames
        <3>2. Only("BOOT") \in Seq(Lines)
            BY <3>1 DEF Only
        <3>3. owed' \in Seq(Lines)
            <4>1. <<>> \in Seq(Lines)
                OBVIOUS
            <4> QED
                BY <2>5, <3>2, <4>1, Zenon DEF Booted
        <3>4. \A t \in Seq(Lines) : <<>> \o t = t
            OBVIOUS
        <3>5. Said' = owed'
            BY <2>2, <3>3, <3>4 DEF Said
        <3> QED
            BY <2>5, <3>5
    <2>7. Talk' /\ Baud'
        BY <2>1, <2>2, <2>3, <2>6 DEF Talk, Baud, Silence, Quiet
    <2>8. OneAtATime'
        BY <1>1, <2>2 DEF OneAtATime
    <2> QED
        BY <1>6, <1>7, <2>2, <2>7, <2>8 DEF InStep
<1>19. CASE InitializeCommandSend
    <2> DEFINE c == InitCommands[init_command_index]
    <2>1. /\ In("INITIALIZE_COMMAND_SEND") /\ Write(c) /\ Purge /\ Return("later")
          /\ Goto("INITIALIZE_COMMAND_RESPONSE")
        BY <1>19 DEF InitializeCommandSend, Ask
    <2>2. Said \in Booted
        BY <1>1, <1>3, <2>1 DEF Talk, Silence
    <2>3. /\ commands' = <<c>> /\ Said' = <<>> /\ ~ held' /\ UNCHANGED modem
          /\ ~ running' /\ plan' = "later" /\ handling' = "none" /\ ~ receiving'
        BY <1>3, <1>34, <2>1, <2>2
    <2>4. state' = "INITIALIZE_COMMAND_RESPONSE" /\ InitCommands[init_command_index'] = c
        BY <1>4, <2>1
    <2>5. Talk'
        BY <2>3, <2>4 DEF Talk, Exchange, Quiet
    <2>6. OneAtATime'
        BY <1>1, <1>4, <2>1, <2>4 DEF OneAtATime
    <2> QED
        BY <1>3, <1>6, <1>7, <1>8, <2>1, <2>3, <2>4, <2>5, <2>6 DEF InStep
<1>20. CASE InitializeCommandResponse
    <2> DEFINE c == InitCommands[init_command_index]
               last == init_command_index = Len(InitCommands)
    <2>1. In("INITIALIZE_COMMAND_RESPONSE") /\ Read /\ UNCHANGED wire
        BY <1>20 DEF InitializeCommandResponse
    <2>2. /\ running /\ handling = "none" /\ ~ receiving /\ Answered /\ commands = <<>>
          /\ state = "INITIALIZE_COMMAND_RESPONSE" /\ UNCHANGED <<commands, owed, modem>>
        BY <1>3, <2>1 DEF wire
    <2>3. Said \in Replies(c.name)
        BY <1>1, <2>2 DEF Talk, Exchange, Silence
    <2>4. /\ c = Command("REBOOT") \/ c = Command("AT") \/ c = Command("SET") \/ c.name = "QUERY"
          /\ last => c.name = "QUERY"
        <3>1. init_command_index \in 1 .. 3 + ITEMS
            BY <1>1, <2>2, InitCommandsTyped DEF TaskTyped
        <3> QED
            BY <3>1, InitCommandsTyped, ModemAssumption
    <2>5. c.name \in {"REBOOT", "AT", "SET", "QUERY"}
        BY <2>4 DEF Command
    <2> HIDE DEF c, last
    <2>6. /\ Said # <<>> /\ Head(Said).name \in {"OK", "ERR", "VALUE"} /\ Tail(Said) \in Booted
          /\ Head(Said).name = "ERR" => c.name = "SET"
          /\ last => Tail(Said) = <<>>
        BY <2>3, <2>4, <2>5, RepliesAre DEF Begins, Booted
    <2>7. ~ held' /\ ReadLine = Head(Said) /\ Said' = Tail(Said)
        BY <1>1, <2>1, <2>2, <2>6, AnswerSaid DEF Late
    <2>8. ReadLine # None /\ Handled(ReadLine)
        BY <2>6, <2>7 DEF None, Line, Handled, c
    <2>9. /\ Continue
          /\ UNCHANGED <<save_config_mask, join_command, custom_command, link_check_command>>
        BY <1>20, <2>8 DEF InitializeCommandResponse
    <2>10. \/ state' = "INITIALIZE_COMMAND_SEND"
           \/ last /\ state' \in {"READY", "CONFIG_SAVE_SEND"}
        BY <1>20, <2>8, Zenon DEF InitializeCommandResponse, last
    <2>11. handling' = "none" /\ ~ receiving'
        BY <2>2, <2>9 DEF Continue
    <2>12. Talk'
        BY <2>2, <2>6, <2>7, <2>10 DEF Talk, Silence, Booted, Quiet
    <2>13. OneAtATime'
        BY <1>1, <2>9, <2>10 DEF OneAtATime
    <2> QED
        BY <1>5, <1>7, <1>8, <2>2, <2>7, <2>10, <2>11, <2>12, <2>13 DEF InStep
<1>21. CASE NoRoom
    <2>1. PICK s : In(s)
        BY <1>21 DEF NoRoom
    <2>2. commands # <<>>
        BY <1>21 DEF NoRoom, Unwritten
    <2> QED
        BY <1>3, <2>1, <2>2
<1>22. CASE SendMessageCommand
    <2>1. In("SEND_MESSAGE_COMMAND") /\ UNCHANGED reader
        BY <1>22 DEF SendMessageCommand
    <2>2. commands = <<>> /\ running /\ ~ receiving /\ state = "SEND_MESSAGE_COMMAND"
        BY <1>3, <2>1
    <2>3. /\ Write(Command("SEND")) /\ Goto("SEND_MESSAGE_RESPONSE") /\ Tell("SEND_MESSAGE_START")
        BY <1>22, <2>2 DEF SendMessageCommand, Unwritten
    <2>4. /\ commands' = <<Command("SEND")>> /\ UNCHANGED <<owed, modem, rx_fifo, held>>
          /\ handling' = "SEND_MESSAGE_START" /\ running' /\ ~ receiving'
        BY <2>1, <2>2, <2>3 DEF Write, Tell, reader
    <2>5. /\ state' = "SEND_MESSAGE_RESPONSE"
          /\ UNCHANGED <<save_config_mask, join_command, custom_command, link_check_command>>
        BY <1>4, <2>3
    <2>6. Said' = <<>>
        BY <1>1, <2>2, <2>4 DEF Said, Talk, Silence, Quiet
    <2>7. Talk'
        BY <2>4, <2>5, <2>6 DEF Talk, Exchange, Quiet, Command
    <2>8. OneAtATime'
        BY <1>1, <1>9, <2>2, <2>5 DEF OneAtATime
    <2>9. Telling' /\ Prompt'
        BY <2>4, <2>5 DEF Telling, Prompt
    <2> QED
        BY <1>1, <1>8, <2>2, <2>4, <2>7, <2>8, <2>9 DEF InStep
<1>23. CASE SendMessageResponse
    <2>1. In("SEND_MESSAGE_RESPONSE") /\ Read /\ UNCHANGED wire
        BY <1>23 DEF SendMessageResponse
    <2>2. /\ running /\ handling = "none" /\ ~ receiving /\ Answered /\ commands = <<>>
          /\ state = "SEND_MESSAGE_RESPONSE" /\ UNCHANGED <<commands, owed, modem>>
        BY <1>3, <2>1 DEF wire
    <2>3. Begins(Said, {"OK"}, {<<>>, Only("ACK")})
        <3>1. Said \in Replies("SEND")
            BY <1>1, <2>2 DEF Talk, Exchange, Silence, Command
        <3> QED
            BY <3>1, RepliesAre
    <2>4. ~ held' /\ ReadLine.name = "OK" /\ Said' \in {<<>>, Only("ACK")}
        BY <1>1, <2>1, <2>2, <2>3, AnswerSaid DEF Late, Begins
    <2>5. Goto("IDLE") /\ Tell("SEND_MESSAGE_DONE")
        BY <1>23, <2>4 DEF SendMessageResponse
    <2>6. /\ state' = "IDLE" /\ handling' = "SEND_MESSAGE_DONE" /\ ~ receiving'
          /\ ~ Requested' /\ UNCHANGED <<custom_command, link_check_command>>
        BY <1>1, <1>4, <1>9, <2>2, <2>5 DEF Tell, OneAtATime
    <2>7. Talk'
        BY <2>2, <2>4, <2>6 DEF Talk, Silence, Rest, Quiet
    <2>8. OneAtATime' /\ Telling'
        BY <1>1, <2>6 DEF OneAtATime, Telling
    <2> QED
        BY <1>5, <1>8, <2>2, <2>4, <2>7, <2>8 DEF InStep
<1>24. CASE ConfigSaveSend
    <2>1. /\ In("CONFIG_SAVE_SEND") /\ running /\ handling = "none" /\ ~ receiving
          /\ state = "CONFIG_SAVE_SEND" /\ Answered /\ commands = <<>>
        BY <1>3, <1>24 DEF ConfigSaveSend
    <2>2. Said = <<>> /\ modem.baud = 9600
        BY <1>1, <2>1 DEF Talk, Silence, Quiet, Baud
    <2>3. CASE save_config_mask = {}
        <3>1. Goto("ERROR") /\ Tell("CONFIG_SAVE_DONE") /\ UNCHANGED <<reader, wire>>
            BY <1>24, <2>3 DEF ConfigSaveSend
        <3>2. /\ UNCHANGED <<held, rx_fifo, commands, owed, modem>>
              /\ handling' = "CONFIG_SAVE_DONE" /\ ~ receiving'
            BY <2>1, <3>1 DEF Tell, reader, wire
        <3>3. /\ state' = "ERROR"
              /\ UNCHANGED <<save_config_mask, join_command, custom_command, link_check_command>>
            BY <1>4, <3>1
        <3>4. Said' = <<>>
            BY <2>2, <3>2 DEF Said
        <3>5. Talk'
            BY <2>1, <3>2, <3>3, <3>4 DEF Talk, Silence, Quiet
        <3>6. OneAtATime' /\ Telling'
            BY <1>1, <3>2, <3>3 DEF OneAtATime, Telling
        <3> QED
            BY <1>1, <1>5, <1>8, <2>1, <3>2, <3>5, <3>6 DEF InStep
    <2>4. CASE save_config_mask # {}
        <3> DEFINE i == Min(save_config_mask)
                   c == [name |-> "CONFIG", item |-> i, value |-> config[i]]
        <3>1. /\ Write(c) /\ Purge /\ Return("later") /\ save_command_index' = i
              /\ state' = "CONFIG_SAVE_RESPONSE"
              /\ UNCHANGED <<save_config_mask, join_command, custom_command, link_check_command,
                             config>>
            BY <1>24, <2>4 DEF ConfigSaveSend
        <3>2. SaveCommand' = c
            BY <3>1 DEF SaveCommand
        <3>3. c.name = "CONFIG"
            OBVIOUS
        <3> HIDE DEF c
        <3>4. /\ commands' = <<c>> /\ Said' = <<>> /\ ~ held' /\ UNCHANGED modem
              /\ ~ running' /\ plan' = "later" /\ handling' = "none" /\ ~ receiving'
            BY <1>34, <2>1, <2>2, <3>1 DEF Booted
        <3>5. Talk'
            BY <3>1, <3>2, <3>4 DEF Talk, Exchange, Quiet
        <3>6. OneAtATime'
            BY <1>1, <3>1 DEF OneAtATime
        <3> QED
            BY <1>6, <1>7, <1>8, <2>1, <3>1, <3>4, <3>5, <3>6 DEF InStep
    <2> QED
        BY <2>3, <2>4
<1>25. CASE ConfigSaveResponse
    <2>1. In("CONFIG_SAVE_RESPONSE") /\ Read /\ UNCHANGED wire
        BY <1>25 DEF ConfigSaveResponse
    <2>2. /\ running /\ handling = "none" /\ ~ receiving /\ Answered /\ commands = <<>>
          /\ state = "CONFIG_SAVE_RESPONSE" /\ UNCHANGED <<commands, owed, modem>>
        BY <1>3, <2>1 DEF wire
    <2>3. SaveCommand.name = "CONFIG"
        BY DEF SaveCommand
    <2>4. Begins(Said, {"OK"}, {<<>>})
        BY <1>1, <2>2, <2>3, RepliesAre DEF Talk, Exchange, Silence
    <2>5. ~ held' /\ ReadLine.name = "OK" /\ Said' = <<>>
        BY <1>1, <2>1, <2>2, <2>4, AnswerSaid DEF Late, Begins
    <2>6. Saved(ReadLine)
        BY <2>5 DEF Saved
    <2>7. /\ state' = "CONFIG_SAVE_SEND" /\ Continue
          /\ UNCHANGED <<join_command, custom_command, link_check_command>>
        BY <1>25, <2>6 DEF ConfigSaveResponse
    <2>8. handling' = "none" /\ ~ receiving'
        BY <2>2, <2>7 DEF Continue
    <2>9. Talk'
        BY <2>2, <2>5, <2>7 DEF Talk, Silence, Quiet
    <2>10. OneAtATime'
        BY <1>1, <2>7 DEF OneAtATime
    <2> QED
        BY <1>5, <1>7, <1>8, <2>2, <2>5, <2>7, <2>8, <2>9, <2>10 DEF InStep
<1>26. CASE JoinSend
    <2>1. /\ In("JOIN_SEND") /\ Write(Command("JOIN")) /\ Purge /\ Return("later")
          /\ state' = "JOIN_RESPONSE"
          /\ UNCHANGED <<save_config_mask, custom_command, link_check_command>>
        BY <1>26 DEF JoinSend
    <2>2. /\ handling = "none" /\ ~ receiving /\ state = "JOIN_SEND" /\ Answered /\ commands = <<>>
          /\ Said \in Booted
        BY <1>1, <1>3, <2>1 DEF Talk, Silence, Quiet, Booted
    <2>3. /\ commands' = <<Command("JOIN")>> /\ Said' = <<>> /\ ~ held' /\ UNCHANGED modem
          /\ ~ running' /\ plan' = "later" /\ handling' = "none" /\ ~ receiving'
        BY <1>34, <2>1, <2>2
    <2>4. Talk'
        BY <2>1, <2>3 DEF Talk, Exchange, Quiet, Command
    <2>5. OneAtATime'
        BY <1>1, <2>1 DEF OneAtATime
    <2> QED
        BY <1>6, <1>7, <1>8, <2>1, <2>2, <2>3, <2>4, <2>5 DEF InStep
<1>27. CASE JoinResponse
    <2>1. In("JOIN_RESPONSE") /\ Read /\ UNCHANGED wire
        BY <1>27 DEF JoinResponse
    <2>2. /\ running /\ handling = "none" /\ ~ receiving /\ Answered /\ commands = <<>>
          /\ state = "JOIN_RESPONSE" /\ UNCHANGED <<commands, owed, modem>>
        BY <1>3, <2>1 DEF wire
    <2>3. Said \in Replies("JOIN")
        BY <1>1, <2>2 DEF Talk, Exchange, Silence, Command
    <2>4. Answered'
        BY <2>2 DEF Answered
    <2>5. CASE Begins(Said, {"OK"}, {Only("JOINED"), Only("NOJOIN")})
        <3>1. ~ held' /\ ReadLine.name = "OK" /\ Said' \in {Only("JOINED"), Only("NOJOIN")}
            BY <1>1, <2>1, <2>2, <2>5, AnswerSaid DEF Late, Begins
        <3>2. Return("now") /\ UNCHANGED driver
            BY <1>27, <3>1, Zenon DEF JoinResponse
        <3>3. /\ state' = "JOIN_RESPONSE" /\ ~ running' /\ handling' = "none" /\ ~ receiving'
              /\ UNCHANGED <<save_config_mask, join_command, custom_command, link_check_command>>
            BY <2>2, <3>2 DEF Return, driver
        <3>4. Said' \in Replies("JOIN")
            BY <3>1 DEF Replies
        <3>5. Talk'
            BY <2>2, <3>3, <3>4 DEF Talk, Exchange, Silence, Quiet, Command
        <3>6. OneAtATime' /\ Prompt'
            BY <1>1, <2>4, <3>3 DEF OneAtATime, Prompt
        <3> QED
            BY <1>7, <1>8, <2>2, <3>1, <3>3, <3>5, <3>6 DEF InStep
    <2>6. CASE Begins(Said, {"JOINED", "NOJOIN"}, {<<>>})
        <3>1. /\ ~ held'
              /\ \/ rx_fifo = <<>> /\ ReadLine = None /\ Said' = Said
                 \/ ReadLine.name \in {"JOINED", "NOJOIN"} /\ Said' = <<>>
            BY <1>1, <2>1, <2>2, <2>6, ReadSaid DEF Pieces, Begins
        <3>2. CASE rx_fifo = <<>> /\ ReadLine = None /\ Said' = Said
            <4>1. ~ SaidAll
                BY <1>1, <2>6, <3>2, SaidIs DEF SaidAll, Begins
            <4>2. Wait("ERROR", SaidAll)
                BY <1>27, <3>2, LinesTyped, Zenon DEF JoinResponse
            <4>3. state' = "JOIN_RESPONSE"
                  /\ UNCHANGED <<save_config_mask, join_command, custom_command, link_check_command>>
                BY <1>4, <2>2, <4>1, <4>2 DEF Wait
            <4>4. ~ running' /\ plan' = "later" /\ handling' = "none" /\ ~ receiving'
                BY <2>2, <4>2 DEF Wait, Return
            <4>5. Talk'
                BY <2>2, <2>3, <3>2, <4>3, <4>4 DEF Talk, Exchange, Silence, Quiet, Command
            <4>6. OneAtATime'
                BY <1>1, <4>3 DEF OneAtATime
            <4> QED
                BY <1>6, <1>7, <1>8, <2>2, <3>1, <4>3, <4>4, <4>5, <4>6 DEF InStep
        <3>3. CASE ReadLine.name \in {"JOINED", "NOJOIN"} /\ Said' = <<>>
            <4>1. /\ handling' \in {"JOIN_SUCCESS", "JOIN_ERROR"}
                  /\ UNCHANGED <<plan, running, receiving, driver>>
                BY <1>27, <3>3 DEF JoinResponse, Tell
            <4>2. /\ state' = "JOIN_RESPONSE"
                  /\ UNCHANGED <<save_config_mask, join_command, custom_command, link_check_command>>
                BY <2>2, <4>1 DEF driver
            <4>3. Talk'
                BY <2>2, <3>3, <4>1, <4>2 DEF Talk, Silence, Quiet
            <4>4. OneAtATime' /\ Telling'
                BY <1>1, <2>2, <4>1, <4>2 DEF OneAtATime, Telling
            <4> QED
                BY <1>5, <1>8, <2>2, <3>1, <4>3, <4>4 DEF InStep
        <3> QED
            BY <3>1, <3>2, <3>3
    <2> QED
        BY <2>3, <2>5, <2>6, RepliesAre
<1>28. CASE LinkCheckSend
    <2>1. /\ In("LINK_CHECK_SEND") /\ Write(Command("LNCHECK")) /\ Purge /\ Return("later")
          /\ state' = "LINK_CHECK_RESPONSE" /\ link_check_command' = FALSE
          /\ UNCHANGED <<save_config_mask, custom_command, join_command>>
        BY <1>28 DEF LinkCheckSend
    <2>2. /\ handling = "none" /\ ~ receiving /\ state = "LINK_CHECK_SEND" /\ Answered
          /\ commands = <<>> /\ Said \in Booted
        BY <1>1, <1>3, <2>1 DEF Talk, Silence, Quiet, Booted
    <2>3. /\ commands' = <<Command("LNCHECK")>> /\ Said' = <<>> /\ ~ held' /\ UNCHANGED modem
          /\ ~ running' /\ plan' = "later" /\ handling' = "none" /\ ~ receiving'
        BY <1>34, <2>1, <2>2
    <2>4. Talk'
        BY <2>1, <2>3 DEF Talk, Exchange, Quiet, Command
    <2>5. OneAtATime'
        BY <1>1, <2>1, <2>2 DEF OneAtATime, Requested
    <2> QED
        BY <1>6, <1>7, <1>8, <2>1, <2>2, <2>3, <2>4, <2>5 DEF InStep
<1>29. CASE LinkCheckResponse
    <2>1. In("LINK_CHECK_RESPONSE") /\ Read /\ UNCHANGED wire
        BY <1>29 DEF LinkCheckResponse
    <2>2. /\ running /\ handling = "none" /\ ~ receiving /\ Answered /\ commands = <<>>
          /\ state = "LINK_CHECK_RESPONSE" /\ UNCHANGED <<commands, owed, modem>>
        BY <1>3, <2>1 DEF wire
    <2>3. Said \in Replies("LNCHECK") /\ ~ Requested
        BY <1>1, <2>2 DEF Talk, Exchange, Silence, Command, OneAtATime
    <2>4. Answered'
        BY <2>2 DEF Answered
    <2>5. CASE Begins(Said, {"OK"}, {<<Line("MAC"), Line("ANS")>>, Only("NOMAC")})
        <3>1. /\ ~ held' /\ ReadLine.name = "OK"
              /\ Said' \in {<<Line("MAC"), Line("ANS")>>, Only("NOMAC")}
            BY <1>1, <2>1, <2>2, <2>5, AnswerSaid DEF Late, Begins
        <3>2. Return("now") /\ UNCHANGED driver
            BY <1>29, <3>1, Zenon DEF LinkCheckResponse
        <3>3. /\ state' = "LINK_CHECK_RESPONSE" /\ ~ running' /\ handling' = "none" /\ ~ receiving'
              /\ UNCHANGED <<save_config_mask, join_command, custom_command, link_check_command>>
            BY <2>2, <3>2 DEF Return, driver
        <3>4. Said' \in Replies("LNCHECK")
            BY <3>1 DEF Replies
        <3>5. Talk'
            BY <2>2, <3>3, <3>4 DEF Talk, Exchange, Silence, Quiet, Command
        <3>6. OneAtATime' /\ Prompt'
            BY <1>1, <1>9, <2>3, <2>4, <3>3 DEF OneAtATime, Prompt
        <3> QED
            BY <1>7, <1>8, <2>2, <3>1, <3>3, <3>5, <3>6 DEF InStep
    <2>6. CASE Begins(Said, {"MAC"}, {Only("ANS")}) \/ Begins(Said, {"NOMAC"}, {<<>>})
        <3>1. /\ ~ held'
              /\ \/ rx_fifo = <<>> /\ ReadLine = None /\ Said' = Said
                 \/ ReadLine.name = "MAC" /\ Said' = Only("ANS")
                 \/ ReadLine.name = "NOMAC" /\ Said' = <<>>
            BY <1>1, <2>1, <2>2, <2>6, ReadSaid DEF Pieces, Begins
        <3>2. CASE rx_fifo = <<>> /\ ReadLine = None /\ Said' = Said
            <4>1. ~ SaidAll
                BY <1>1, <2>6, <3>2, SaidIs DEF SaidAll, Begins
            <4>2. Wait("ERROR", SaidAll)
                BY <1>29, <3>2, LinesTyped, Zenon DEF LinkCheckResponse
            <4>3. state' = "LINK_CHECK_RESPONSE"
                  /\ UNCHANGED <<save_config_mask, join_command, custom_command, link_check_command>>
                BY <1>4, <2>2, <4>1, <4>2 DEF Wait
            <4>4. ~ running' /\ plan' = "later" /\ handling' = "none" /\ ~ receiving'
                BY <2>2, <4>2 DEF Wait, Return
            <4>5. Talk'
                BY <2>2, <2>3, <3>2, <4>3, <4>4 DEF Talk, Exchange, Silence, Quiet, Command
            <4>6. OneAtATime'
                BY <1>1, <1>9, <2>3, <4>3 DEF OneAtATime
            <4> QED
                BY <1>6, <1>7, <1>8, <2>2, <3>1, <4>3, <4>4, <4>5, <4>6 DEF InStep
        <3>3. CASE ReadLine.name = "MAC" /\ Said' = Only("ANS")
            <4>1. Goto("LINK_CHECK_RESPONSE_ANS") /\ Return("later")
                BY <1>29, <3>3, Zenon DEF LinkCheckResponse
            <4>2. /\ state' = "LINK_CHECK_RESPONSE_ANS" /\ ~ running' /\ plan' = "later"
                  /\ handling' = "none" /\ ~ receiving'
                  /\ UNCHANGED <<save_config_mask, join_command, custom_command, link_check_command>>
                BY <1>4, <2>2, <4>1 DEF Return
            <4>3. Talk'
                BY <2>2, <3>3, <4>2 DEF Talk, Silence, Quiet
            <4>4. OneAtATime'
                BY <1>1, <1>9, <2>3, <4>2 DEF OneAtATime
            <4> QED
                BY <1>6, <1>7, <1>8, <2>2, <3>1, <4>2, <4>3, <4>4 DEF InStep
        <3>4. CASE ReadLine.name = "NOMAC" /\ Said' = <<>>
            <4>1. Goto("IDLE") /\ Tell("LINK_CHECK_NOK")
                BY <1>29, <3>4, Zenon DEF LinkCheckResponse
            <4>2. /\ state' = "IDLE" /\ handling' = "LINK_CHECK_NOK" /\ ~ receiving'
                  /\ UNCHANGED <<save_config_mask, join_command, custom_command, link_check_command>>
                BY <1>4, <2>2, <4>1 DEF Tell
            <4>3. Talk'
                BY <2>2, <3>4, <4>2 DEF Talk, Silence, Rest, Quiet
            <4>4. OneAtATime' /\ Telling'
                BY <1>1, <4>2 DEF OneAtATime, Telling
            <4> QED
                BY <1>5, <1>8, <2>2, <3>1, <4>3, <4>4 DEF InStep
        <3> QED
            BY <3>1, <3>2, <3>3, <3>4
    <2> QED
        BY <2>3, <2>5, <2>6, RepliesAre
<1>30. CASE LinkCheckResponseAns
    <2>1. /\ In("LINK_CHECK_RESPONSE_ANS") /\ Read /\ UNCHANGED wire
          /\ Goto("IDLE") /\ Tell("LINK_CHECK_OK")
        BY <1>30 DEF LinkCheckResponseAns
    <2>2. /\ running /\ handling = "none" /\ ~ receiving /\ commands = <<>>
          /\ state = "LINK_CHECK_RESPONSE_ANS" /\ UNCHANGED <<commands, owed, modem>>
        BY <1>3, <2>1 DEF wire
    <2>3. Said = Only("ANS") /\ ~ Requested
        BY <1>1, <2>2 DEF Talk, Silence, OneAtATime
    <2>4. Head(Said).name = "ANS" /\ Tail(Said) = <<>>
        BY <2>3, OneLine, LinesTyped DEF Only, LineNames, Late
    <2>5. ~ held' /\ Said' \in {Only("ANS"), <<>>}
        BY <1>1, <2>1, <2>2, <2>3, <2>4, ReadSaid DEF Pieces
    <2>6. /\ state' = "IDLE" /\ handling' = "LINK_CHECK_OK" /\ ~ receiving'
          /\ ~ Requested' /\ UNCHANGED <<custom_command, link_check_command>>
        BY <1>4, <1>9, <2>1, <2>2, <2>3 DEF Tell
    <2>7. Talk'
        BY <2>2, <2>5, <2>6 DEF Talk, Silence, Rest, Quiet
    <2>8. OneAtATime' /\ Telling'
        BY <1>1, <2>6 DEF OneAtATime, Telling
    <2> QED
        BY <1>5, <1>8, <2>2, <2>5, <2>7, <2>8 DEF InStep
<1>31. CASE CustomCommandSend
    <2>1. /\ In("CUSTOM_COMMAND_SEND") /\ Write(Command(custom_command)) /\ Purge
          /\ Return("later") /\ Goto("CUSTOM_COMMAND_RESPONSE")
        BY <1>31 DEF CustomCommandSend, Ask
    <2>2. /\ handling = "none" /\ ~ receiving /\ state = "CUSTOM_COMMAND_SEND" /\ Answered
          /\ commands = <<>> /\ Said \in Booted
        BY <1>1, <1>3, <2>1 DEF Talk, Silence, Quiet, Booted
    <2>3. /\ commands' = <<Command(custom_command)>> /\ Said' = <<>> /\ ~ held' /\ UNCHANGED modem
          /\ ~ running' /\ plan' = "later" /\ handling' = "none" /\ ~ receiving'
        BY <1>34, <2>1, <2>2
    <2>4. /\ state' = "CUSTOM_COMMAND_RESPONSE"
          /\ UNCHANGED <<save_config_mask, join_command, custom_command, link_check_command>>
        BY <1>4, <2>1
    <2>5. Talk'
        BY <2>3, <2>4 DEF Talk, Exchange, Quiet, Command
    <2>6. OneAtATime'
        BY <1>1, <2>2, <2>4 DEF OneAtATime
    <2> QED
        BY <1>6, <1>7, <1>8, <2>2, <2>3, <2>4, <2>5, <2>6 DEF InStep
<1>32. CASE CustomCommandResponse
    <2>1. In("CUSTOM_COMMAND_RESPONSE") /\ Read /\ UNCHANGED wire
        BY <1>32 DEF CustomCommandResponse
    <2>2. /\ running /\ handling = "none" /\ ~ receiving /\ Answered /\ commands = <<>>
          /\ state = "CUSTOM_COMMAND_RESPONSE" /\ UNCHANGED <<commands, owed, modem>>
        BY <1>3, <2>1 DEF wire
    <2>3. /\ Said \in Replies(custom_command) /\ custom_command \in {"CUSTOM", "FACNEW"}
          /\ ~ link_check_command /\ ~ join_command /\ save_config_mask = {}
        BY <1>1, <2>2 DEF Talk, Exchange, Silence, Command, OneAtATime, TaskTyped
    <2>4. Begins(Said, {"VALUE", "OK", "ERR"}, {<<>>}) \/ Begins(Said, {"OK"}, {Only("RESET")})
        BY <2>3, RepliesAre
    <2>5. /\ ~ held' /\ ReadLine.name \in {"VALUE", "OK", "ERR"}
          /\ Said' \in {<<>>, Only("RESET")}
        BY <1>1, <2>1, <2>2, <2>4, AnswerSaid DEF Late, Begins
    <2>6. /\ state' = "IDLE" /\ custom_command' = "none" /\ receiving' = receiving
          /\ UNCHANGED <<save_config_mask, join_command, link_check_command>>
          /\ handling' \in {"none", "CUSTOM_AT"}
        BY <1>32, <2>2, <2>5 DEF CustomCommandResponse, Continue
    <2>7. ~ Requested'
        BY <2>3, <2>6 DEF Requested
    <2>8. Talk'
        BY <2>2, <2>5, <2>6, <2>7 DEF Talk, Silence, Rest, Quiet
    <2>9. OneAtATime' /\ Telling'
        BY <2>2, <2>6 DEF OneAtATime, Telling
    <2> QED
        BY <1>5, <1>8, <2>2, <2>5, <2>8, <2>9 DEF InStep
<1>33. CASE HandlerReturns
    <2>1. /\ handling # "none" /\ handling' = "none" /\ running
          /\ UNCHANGED <<receiving, reader, wire, save_config_mask, join_command, custom_command,
                         link_check_command>>
          /\ init_command_index' = init_command_index
        BY <1>1, <1>33 DEF HandlerReturns, TaskTyped
    <2>2. UNCHANGED <<response, held, rx_fifo, commands, owed, modem, receiving>>
        BY <2>1 DEF reader, wire
    <2>3. Said' = Said /\ Requested' = Requested
        BY <1>9, <2>1, <2>2 DEF Said
    <2>4. \/ handling = "CONFIG_SAVE_DONE" /\ state' = "READY"
          \/ handling \in {"JOIN_SUCCESS", "JOIN_ERROR"} /\ state' = "IDLE"
          \/ handling \notin {"CONFIG_SAVE_DONE", "JOIN_SUCCESS", "JOIN_ERROR"} /\ state' = state
        BY <1>1, <1>33 DEF HandlerReturns, Telling
    <2>5. /\ running' = (handling \notin {"ERROR", "SEND_MESSAGE_START", "LINK_CHECK_OK",
                                          "LINK_CHECK_NOK", "CUSTOM_AT"})
          /\ plan' = IF running' \/ handling = "CUSTOM_AT" THEN plan ELSE "later"
        BY <1>33 DEF HandlerReturns
    <2>6. UNCHANGED <<save_command_index, config>>
        BY <1>33 DEF HandlerReturns
    <2>7. Prompt'
        <3>1. Answered' = Answered
            BY <2>2 DEF Answered
        <3> QED
            BY <1>1, <2>1, <2>5, <3>1 DEF Prompt
    <2>8. Telling'
        <3>1. receiving => /\ handling \notin {"SEND_MESSAGE_START", "LINK_CHECK_OK",
                                               "LINK_CHECK_NOK", "CUSTOM_AT"}
            BY <1>1 DEF Telling
        <3>2. receiving => running'
            BY <1>1, <2>5, <3>1 DEF Telling
        <3>3. receiving => state' = state
            BY <1>1, <2>4 DEF Telling
        <3>4. state' # "ERROR"
            BY <1>1, <2>4 DEF Telling
        <3> QED
            BY <1>1, <2>1, <2>2, <2>3, <3>2, <3>3, <3>4 DEF Telling
    <2>9. Talk' /\ Baud' /\ OneAtATime'
        <3>1. CASE handling = "CONFIG_SAVE_DONE" /\ state' = "READY"
            <4>1. state = "ERROR"
                BY <1>1, <3>1 DEF Telling
            <4>2. Said = <<>> /\ commands = <<>> /\ modem.baud = 9600
                BY <1>1, <4>1 DEF Talk, Silence, Quiet, Baud
            <4> QED
                BY <1>1, <2>1, <2>2, <2>3, <3>1, <4>2 DEF Talk, Silence, Quiet, Baud, OneAtATime
        <3>2. CASE handling \in {"JOIN_SUCCESS", "JOIN_ERROR"} /\ state' = "IDLE"
            <4>1. state = "JOIN_RESPONSE"
                BY <1>1, <3>2 DEF Telling
            <4>2. Said = <<>> /\ commands = <<>> /\ modem.baud = 9600
                BY <1>1, <3>2, <4>1 DEF Talk, Silence, Quiet, Baud
            <4> QED
                BY <1>1, <2>1, <2>2, <2>3, <3>2, <4>2
                   DEF Talk, Silence, Quiet, Rest, Baud, OneAtATime
        <3>3. CASE /\ handling \notin {"CONFIG_SAVE_DONE", "JOIN_SUCCESS", "JOIN_ERROR"}
                   /\ state' = state
            <4>1. state # "JOIN_RESPONSE"
                BY <1>1, <2>1, <3>3 DEF Telling
            <4>2. SaveCommand' = SaveCommand
                BY <2>6 DEF SaveCommand
            <4>3. Talk'
                BY <1>1, <2>1, <2>2, <2>3, <3>3, <4>1, <4>2 DEF Talk, Exchange, Silence
            <4> QED
                BY <1>1, <2>1, <2>2, <2>3, <3>3, <4>3 DEF Baud, OneAtATime
        <3> QED
            BY <2>4, <3>1, <3>2, <3>3
    <2> QED
        BY <1>1, <2>2, <2>7, <2>8, <2>9 DEF InStep
<1> QED
    BY <1>10, <1>11, <1>12, <1>13, <1>14, <1>15, <1>16, <1>17, <1>18, <1>19, <1>20, <1>21, <1>22,
       <1>23, <1>24, <1>25, <1>26, <1>27, <1>28, <1>29, <1>30, <1>31, <1>32, <1>33 DEF Task

\* A request is made when everything before it is over, or Calm no longer holds.
LEMMA ApplicationInStep == TypeInv /\ InStep /\ Application /\ Calm' => InStep'
<1> SUFFICES ASSUME TypeInv, InStep, Application, Calm' PROVE InStep'
    OBVIOUS
<1>1. /\ WireTyped /\ TaskTyped /\ AskedTyped
      /\ ~ held /\ Talk /\ Baud /\ Prompt /\ Telling /\ OneAtATime
    BY DEF TypeInv, InStep
<1>2. Call
    BY DEF Application, SendMessage, Join, LinkCheck, CustomAt, Reboot, Set
<1>3. UNCHANGED <<running, handling, receiving, response, held, rx_fifo, commands, owed, modem>>
    BY <1>2 DEF Call, reader, wire
<1>4. ~ Haste
    <2>1. history'.haste = FALSE
        BY <1>1, NextTyped DEF Calm, TypeInv, AskedTyped, Next
    <2>2. CASE Plan
        <3>1. history' = [history EXCEPT !.haste = @ \/ Haste]
            BY <2>2 DEF Plan
        <3>2. history'.haste = (history.haste \/ Haste)
            BY <1>1, <3>1 DEF AskedTyped
        <3> QED
            BY <2>1, <3>2
    <2>3. CASE \E i \in Items, v \in {0, 1} : Set(i, v)
        <3>1. PICK i \in Items, v \in {0, 1} : Set(i, v)
            BY <2>3
        <3>2. PICK doubtful : history' = [history EXCEPT !.unsaved = @ \union {i},
                                                         !.doubtful = doubtful,
                                                         !.haste = @ \/ Haste]
            BY <3>1 DEF Set
        <3>3. history'.haste = (history.haste \/ Haste)
            BY <1>1, <3>2 DEF AskedTyped
        <3> QED
            BY <2>1, <3>3
    <2> QED
        BY <2>2, <2>3 DEF Application, SendMessage, Join, LinkCheck, CustomAt, Reboot
<1>5. /\ state = "IDLE" /\ rx_fifo = <<>> /\ commands = <<>> /\ owed = <<>>
      /\ ~ Requested
    BY <1>4 DEF Haste, SaidAll, Requested
<1>6. Said = <<>> /\ Said' = <<>>
    BY <1>3, <1>5 DEF Said
<1>7. modem.baud = 9600 /\ Baud'
    BY <1>1, <1>3, <1>5 DEF Baud
<1>8. Answered'
    BY <1>3, <1>5 DEF Answered
<1>9. state' \in {"IDLE", "SEND_MESSAGE_COMMAND", "INITIALIZE"}
    BY <1>5 DEF Application, SendMessage, Join, LinkCheck, CustomAt, Reboot, Set, Goto
<1>10. Talk'
    BY <1>3, <1>5, <1>6, <1>9 DEF Talk, Silence, Booted, Rest, Quiet
<1>11. Prompt' /\ Telling'
    BY <1>1, <1>3, <1>5, <1>6, <1>8, <1>9 DEF Prompt, Telling
<1>12. OneAtATime'
    <2>1. CASE SendMessage
        <3>1. UNCHANGED <<save_config_mask, join_command, custom_command, link_check_command>>
            BY <2>1 DEF SendMessage, Goto
        <3> QED
            BY <1>5, <1>9, <3>1 DEF OneAtATime, Requested
    <2>2. CASE Join \/ LinkCheck \/ Reboot \/ CustomAt("CUSTOM") \/ CustomAt("FACNEW")
        <3>1. state' # "SEND_MESSAGE_COMMAND" /\ (custom_command' # "none" => ~ link_check_command')
            BY <1>5, <2>2 DEF Join, LinkCheck, Reboot, CustomAt, Requested
        <3> QED
            BY <1>9, <3>1 DEF OneAtATime
    <2>3. CASE \E i \in Items, v \in {0, 1} : Set(i, v)
        <3>1. state' # "SEND_MESSAGE_COMMAND" /\ UNCHANGED <<custom_command, link_check_command>>
            BY <1>5, <2>3 DEF Set
        <3> QED
            BY <1>5, <1>9, <3>1 DEF OneAtATime, Requested
    <2> QED
        BY <2>1, <2>2, <2>3 DEF Application
<1> QED
    BY <1>1, <1>3, <1>7, <1>10, <1>11, <1>12 DEF InStep

\* The modem says no more than the task expects.
LEMMA ModemInStep == TypeInv /\ InStep /\ (UartEvent \/ Execute \/ Emit) => InStep'
<1> SUFFICES ASSUME TypeInv, InStep, UartEvent \/ Execute \/ Emit PROVE InStep'
    OBVIOUS
<1>1. /\ WireTyped /\ TaskTyped /\ AskedTyped
      /\ ~ held /\ Talk /\ Baud /\ Prompt /\ Telling /\ OneAtATime
    BY DEF TypeInv, InStep
<1> DEFINE Same == /\ UNCHANGED <<state, init_command_index, save_config_mask, save_command_index,
                                  join_command, custom_command, link_check_command, config>>
                   /\ UNCHANGED <<plan, running, handling, receiving, response, held>>
<1>2. ModemStep => Same
    BY DEF ModemStep, driver
<1>3. ASSUME Same
      PROVE  Requested' = Requested /\ SaveCommand' = SaveCommand /\ OneAtATime'
    BY <1>1, <1>3 DEF Requested, SaveCommand, OneAtATime
<1>4. CASE UartEvent
    <2>1. /\ ~ running /\ UNCHANGED <<running, handling, receiving, response, held, rx_fifo, commands,
                                      owed, modem>>
        BY <1>4 DEF UartEvent, reader, wire
    <2>2. Said' = Said
        BY <2>1 DEF Said
    <2>3. CASE rx_fifo # <<>> /\ state = "IDLE"
        <3>1. Goto("RECEIVE") /\ plan' = "later"
            BY <1>4, <2>3 DEF UartEvent
        <3>2. /\ state' = "RECEIVE"
              /\ UNCHANGED <<save_config_mask, join_command, custom_command, link_check_command>>
            BY <3>1 DEF Goto
        <3>3. Requested' = Requested
            BY <3>2 DEF Requested
        <3>4. Talk' /\ Baud'
            BY <1>1, <2>1, <2>2, <2>3, <3>2, <3>3 DEF Talk, Baud, Silence, Quiet
        <3>5. Prompt' /\ Telling' /\ OneAtATime'
            BY <1>1, <2>1, <2>2, <2>3, <3>1, <3>2 DEF Prompt, Telling, OneAtATime
        <3> QED
            BY <1>1, <2>1, <3>4, <3>5 DEF InStep
    <2>4. CASE ~ (rx_fifo # <<>> /\ state = "IDLE")
        <3>1. Same
            BY <1>4, <2>1, <2>4 DEF UartEvent, driver
        <3>2. Requested' = Requested /\ SaveCommand' = SaveCommand /\ OneAtATime'
            BY <1>3, <3>1
        <3>3. Talk' /\ Baud'
            BY <1>1, <2>1, <2>2, <3>1, <3>2 DEF Talk, Exchange, Silence, Baud
        <3>4. Prompt' /\ Telling'
            BY <1>1, <2>1, <2>2, <3>1 DEF Prompt, Answered, Telling
        <3> QED
            BY <1>1, <2>1, <3>2, <3>3, <3>4 DEF InStep
    <2> QED
        BY <2>3, <2>4
<1>5. CASE Emit
    <2>1. Same /\ UNCHANGED <<commands, modem>> /\ owed' = Tail(owed) /\ owed # <<>>
        BY <1>2, <1>5 DEF Emit
    <2>2. Said' = Said
        BY <1>1, <1>5, EmitSaid
    <2>3. Requested' = Requested /\ SaveCommand' = SaveCommand /\ OneAtATime'
        BY <1>3, <2>1
    <2>4. Talk' /\ Baud'
        BY <1>1, <2>1, <2>2, <2>3 DEF Talk, Exchange, Silence, Baud
    <2>5. Answered => Answered'
        <3>1. Len(owed') = Len(owed) - 1 /\ \A k \in 1 .. Len(owed) - 1 : owed'[k] = owed[k + 1]
            BY <1>1, <2>1 DEF WireTyped
        <3>2. /\ DOMAIN owed = 1 .. Len(owed) /\ DOMAIN owed' = 1 .. Len(owed')
              /\ \A k \in 1 .. Len(owed) - 1 : k + 1 \in 1 .. Len(owed)
            BY <1>1, <2>1 DEF WireTyped
        <3> QED
            BY <2>1, <3>1, <3>2 DEF Answered
    <2>6. Prompt' /\ Telling'
        BY <1>1, <2>1, <2>2, <2>5 DEF Prompt, Telling
    <2> QED
        BY <1>1, <2>1, <2>3, <2>4, <2>6 DEF InStep
<1>6. CASE Execute
    <2> DEFINE c == Head(commands)
    <2>1. Same /\ commands # <<>> /\ commands' = Tail(commands) /\ c \in Commands
        BY <1>1, <1>2, <1>6 DEF Execute, WireTyped
    <2>2. ~ Answered
        BY <2>1 DEF Answered
    <2>3. Said = <<>> /\ commands = <<c>> /\ commands' = <<>>
        <3>1. Said = <<>> /\ \E d : commands = <<d>>
            BY <1>1, <2>1 DEF Talk, Exchange, Silence, Quiet, TaskTyped, States
        <3> QED
            BY <2>1, <3>1
    <2>4. /\ state = "INITIALIZE_AT_RESPONSE" => c = Command("AT")
          /\ state = "INITIALIZE_COMMAND_RESPONSE" => c = InitCommands[init_command_index]
          /\ state = "SEND_MESSAGE_RESPONSE" => c = Command("SEND")
          /\ state = "CONFIG_SAVE_RESPONSE" => c = SaveCommand
          /\ state = "JOIN_RESPONSE" => handling = "none" /\ c = Command("JOIN")
          /\ state = "LINK_CHECK_RESPONSE" => c = Command("LNCHECK")
          /\ state = "CUSTOM_COMMAND_RESPONSE" => c = Command(custom_command)
          /\ state \in {"INITIALIZE_AT_RESPONSE", "INITIALIZE_COMMAND_RESPONSE",
                        "SEND_MESSAGE_RESPONSE", "CONFIG_SAVE_RESPONSE", "JOIN_RESPONSE",
                        "LINK_CHECK_RESPONSE", "CUSTOM_COMMAND_RESPONSE"}
        BY <1>1, <2>1, <2>3 DEF Talk, Exchange, Silence, Quiet, TaskTyped, States
    <2>5. Requested' = Requested /\ SaveCommand' = SaveCommand /\ OneAtATime'
        BY <1>3, <2>1
    <2>6. Prompt'
        BY <1>1, <2>1, <2>2 DEF Prompt
    <2> HIDE DEF c
    <2>7. Telling'
        BY <1>1, <2>1, <2>4 DEF Telling
    <2>8. CASE modem.baud # 9600
        <3>1. UNCHANGED <<owed, rx_fifo, modem>>
            BY <1>6, <2>8 DEF Execute
        <3>2. Said' = <<>>
            BY <2>3, <3>1 DEF Said
        <3>3. state = "INITIALIZE_AT_RESPONSE"
            BY <1>1, <2>4, <2>8 DEF Baud
        <3>4. Talk' /\ Baud'
            BY <1>1, <2>1, <2>3, <2>8, <3>1, <3>2, <3>3 DEF Talk, Exchange, Silence, Quiet, Baud
        <3> QED
            BY <1>1, <2>1, <2>5, <2>6, <2>7, <3>4 DEF InStep
    <2>9. CASE modem.baud = 9600
        <3>1. Carries(c)
            BY <1>6, <2>9 DEF Execute, c
        <3>2. Said' \in Replies(c.name)
            BY <1>1, <2>1, <2>3, <3>1, ExecuteSaid
        <3>3. modem'.baud = 9600
            BY <1>1, <2>9, <3>1 DEF Carries, WireTyped
        <3>4. Talk'
            BY <2>1, <2>3, <2>4, <2>5, <3>2 DEF Talk, Exchange, Silence, Quiet
        <3>5. Baud'
            BY <3>3 DEF Baud
        <3> QED
            BY <1>1, <2>1, <2>5, <2>6, <2>7, <3>4, <3>5 DEF InStep
    <2> QED
        BY <2>8, <2>9
<1> QED
    BY <1>4, <1>5, <1>6

LEMMA NextInStep == DialogInv /\ [Next]_modemVars => DialogInv'
<1> SUFFICES ASSUME DialogInv, [Next]_modemVars PROVE DialogInv'
    OBVIOUS
<1>1. TypeInv /\ TypeInv' /\ (Calm => InStep)
    BY NextTyped DEF DialogInv
<1>2. SUFFICES ASSUME Calm' PROVE InStep'
    BY <1>1 DEF DialogInv
<1>3. CASE Task
    <2>1. Calm
        BY <1>1, <1>2, <1>3, TaskAskedTyped DEF Calm
    <2> QED
        BY <1>1, <1>3, <2>1, TaskInStep
<1>4. CASE Application
    <2>1. Calm
        <3>1. faults' = faults
            BY <1>4 DEF Application, SendMessage, Join, LinkCheck, CustomAt, Reboot, Set, Call
        <3>2. history.haste => history'.haste
            BY <1>1, <1>4 DEF Application, SendMessage, Join, LinkCheck, CustomAt, Reboot, Set, Plan,
                TypeInv, AskedTyped
        <3> QED
            BY <1>2, <3>1, <3>2 DEF Calm
    <2> QED
        BY <1>1, <1>2, <1>4, <2>1, ApplicationInStep
<1>5. CASE UartEvent \/ Execute \/ Emit
    <2>1. Calm
        <3>1. faults' = faults
            BY <1>5 DEF UartEvent, Execute, Emit, bounds
        <3>2. history'.haste = history.haste
            <4>1. CASE UartEvent \/ Emit
                BY <4>1 DEF UartEvent, Emit
            <4>2. CASE Execute
                BY <1>1, <4>2 DEF Execute, Carries, TypeInv, AskedTyped
            <4> QED
                BY <1>5, <4>1, <4>2
        <3> QED
            BY <1>2, <3>1, <3>2 DEF Calm
    <2> QED
        BY <1>1, <1>5, <2>1, ModemInStep
<1>6. CASE Misbehave \/ News
    <2>1. faults' = faults + 1 /\ faults \in Nat
        BY <1>1, <1>6 DEF Misbehave, News, TypeInv, AskedTyped
    <2> QED
        BY <1>2, <2>1 DEF Calm
<1>7. CASE UNCHANGED modemVars
    <2>1. Calm' = Calm /\ InStep' = InStep
        BY <1>7 DEF modemVars, driver, reader, wire, bounds, Calm, InStep, Talk, Baud, Prompt, Telling,
            OneAtATime, Exchange, Silence, Said, Requested, SaveCommand, Answered
    <2> QED
        BY <1>1, <1>2, <2>1
<1> QED
    BY <1>3, <1>4, <1>5, <1>6, <1>7 DEF Next

\* As long as the modem answers and the application asks one thing after the
\* other, the task never fails: what one exchange leaves in the FIFO is not
\* taken for the answer of the next.
THEOREM NoErrorArises == Spec => []NoErrorOfItsOwn
<1>1. Init => DialogInv
    <2> SUFFICES ASSUME Init PROVE DialogInv
        OBVIOUS
    <2>1. Said = <<>>
        BY DEF Init, Said
    <2>2. InStep
        BY <2>1 DEF Init, InStep, Talk, Silence, Booted, Quiet, Baud, Prompt, Telling, OneAtATime
    <2> QED
        BY <2>2, InitTyped DEF DialogInv
<1>2. DialogInv => NoErrorOfItsOwn
    BY DEF DialogInv, TypeInv, AskedTyped, Calm, InStep, Telling, NoErrorOfItsOwn
<1> QED
    BY <1>1, <1>2, NextInStep, PTL DEF Spec

\* What the application is told of its settings, and of errors, is true.
THEOREM WhatIsToldIsTrue == Spec => []ToldIsTrue
<1>1. ConfigSaved /\ NoErrorOfItsOwn => ToldIsTrue
    BY DEF ToldIsTrue
<1> QED
    BY <1>1, SavedIsSaved, NoErrorArises, PTL

=============================================================================
