------------------------------- MODULE Modem --------------------------------
(***************************************************************************)
(* The driver of the LoRa modem, twr_cmwx1zzabz.c: one task that talks AT  *)
(* commands over a UART, whose lines may be answers or news of the modem's *)
(* own, and the requests of the application, which may come at any time    *)
(* and from the event handler.                                             *)
(*                                                                         *)
(* A line is a name, with a value where the driver keeps it.  The data of  *)
(* a received message follow its line and are an item of their own, "data";*)
(* a line that arrives in two pieces is two items, "head" and "tail".      *)
(***************************************************************************)
EXTENDS Integers, Sequences, FiniteSetsExt

CONSTANTS
    ITEMS,          \* the number of items of the configuration
    MaxCalls,       \* bound: requests of the application
    MaxFaults       \* bound: commands lost or refused and unasked lines

ASSUME ModemAssumption == ITEMS \in Nat \ {0} /\ MaxCalls \in Nat /\ MaxFaults \in Nat

VARIABLES
    state,
    plan,           \* the task is planned: "never", "later" or "now"
    running,        \* the task is running
    handling,       \* the event the handler is being told of
    receiving,      \* the task is in the loop of TWR_CMWX1ZZABZ_STATE_RECEIVE
    init_command_index, save_config_mask, save_command_index,
    join_command, custom_command, link_check_command,
    config,         \* the values the application set or the modem told
    response,       \* the last line read
    held,           \* _response holds a piece of a line
    rx_fifo,
    arrived,        \* the UART's read task is planned
    commands,       \* written and not yet executed by the modem
    owed,           \* lines the modem has still to send
    modem,          \* its baud rate and its configuration
    calls, faults,
    history         \* what the properties have to know of the past

driver == <<state, init_command_index, save_config_mask, save_command_index, join_command,
            custom_command, link_check_command, config>>
reader == <<response, held, rx_fifo>>
wire == <<commands, owed, modem>>
bounds == <<calls, faults>>
modemVars == <<driver, plan, running, handling, receiving, reader, arrived, wire, bounds, history>>

Items == 1 .. ITEMS
Command(name) == [name |-> name, item |-> 0, value |-> 0]
Line(name) == [name |-> name, value |-> 0]
None == Line("none")

\* _init_commands: some that set something, which a modem may refuse in ways
\* the driver accepts, and one question for each item.
InitCommands ==
    <<Command("REBOOT"), Command("AT"), Command("SET")>>
    \o [i \in Items |-> [Command("QUERY") EXCEPT !.item = i]]

-----------------------------------------------------------------------------
(***************************************************************************)
(* _twr_cmwx1zzabz_read_response reads up to the end of a line.  What is   *)
(* left of a line that was cut in two makes a line that means nothing.     *)
(***************************************************************************)
Ends == {k \in DOMAIN rx_fifo : rx_fifo[k].name # "head"}

Whole(item, begun) ==
    IF begun THEN IF item.name = "tail" THEN Line("ACK") ELSE Line("garbled")
    ELSE IF item.name \in {"tail", "data"} THEN Line("garbled")
    ELSE item

ReadLine == IF Ends = {} THEN None ELSE Whole(rx_fifo[Min(Ends)], held \/ Min(Ends) > 1)
AfterLine == IF Ends = {} THEN <<>> ELSE SubSeq(rx_fifo, Min(Ends) + 1, Len(rx_fifo))

Read ==
    /\ rx_fifo' = AfterLine
    /\ held' = (Ends = {} /\ (held \/ rx_fifo # <<>>))
    /\ response' = IF Ends = {} THEN response ELSE ReadLine

Continue == UNCHANGED <<plan, running, handling, receiving>>
Return(p) == plan' = p /\ running' = FALSE /\ UNCHANGED <<handling, receiving>>
Tell(event) == handling' = event /\ UNCHANGED <<plan, running, receiving>>
Goto(s) ==
    /\ state' = s
    /\ UNCHANGED <<init_command_index, save_config_mask, save_command_index, join_command,
                   custom_command, link_check_command, config>>
Fails == Goto("ERROR") /\ Continue

(***************************************************************************)
(* _twr_cmwx1zzabz_async_write: a command may not fit in the FIFO behind   *)
(* one that is still there.                                                *)
(***************************************************************************)
Write(c) == commands' = Append(commands, c) /\ UNCHANGED <<owed, modem>>
Unwritten == commands # <<>> /\ UNCHANGED wire

Purge == rx_fifo' = <<>> /\ UNCHANGED <<response, held>>

(***************************************************************************)
(* The task, _twr_cmwx1zzabz_task: one action for each case of its switch, *)
(* up to the call of the event handler if there is one.                    *)
(***************************************************************************)
In(s) ==
    /\ running /\ handling = "none" /\ ~ receiving
    /\ state = s
    /\ UNCHANGED <<arrived, bounds>>

(***************************************************************************)
(* The delays are longer than an answer takes.  The other lines come when  *)
(* the network or the modem has something to say.                          *)
(***************************************************************************)
Late == {"JOINED", "NOJOIN", "MAC", "NOMAC", "ANS", "ACK", "RESET", "RECV", "data", "head", "tail"}
Answered == commands = <<>> /\ \A k \in DOMAIN owed : owed[k].name \in Late
SaidAll == commands = <<>> /\ owed = <<>>

TaskRuns ==
    /\ ~ running
    /\ plan = "now" \/ (plan = "later" /\ Answered)
    /\ running' = TRUE /\ plan' = "never"
    /\ UNCHANGED <<driver, handling, receiving, reader, arrived, wire, bounds, history>>

Ready == In("READY") /\ Goto("IDLE") /\ Tell("READY") /\ UNCHANGED <<reader, wire, history>>

Idle ==
    /\ In("IDLE")
    /\ LET next == IF save_config_mask # {} THEN "CONFIG_SAVE_SEND"
                   ELSE IF join_command THEN "JOIN_SEND"
                   ELSE IF custom_command # "none" THEN "CUSTOM_COMMAND_SEND"
                   ELSE IF link_check_command THEN "LINK_CHECK_SEND"
                   ELSE "IDLE"
       IN /\ Goto(next)
          /\ IF next = "IDLE" THEN Return(plan) ELSE Continue
    /\ UNCHANGED <<reader, wire, history>>

Receive ==
    /\ In("RECEIVE")
    /\ Goto("IDLE") /\ receiving' = TRUE
    /\ UNCHANGED <<plan, running, handling, reader, wire, history>>

Forgotten == [history EXCEPT !.unsaved = {}, !.doubtful = {}]

(***************************************************************************)
(* One line of the loop of that state.  The data of a message are read if  *)
(* they are there; the handler may have made another state of IDLE.        *)
(***************************************************************************)
ReceiveLine ==
    /\ running /\ handling = "none" /\ receiving
    /\ LET line == ReadLine.name IN
       CASE line = "none" ->
              /\ Read /\ receiving' = FALSE
              /\ UNCHANGED <<plan, running, handling, driver, history>>
         [] line = "RECV" ->
              LET rest == AfterLine
                  whole == rest # <<>> /\ Head(rest).name = "data" IN
              /\ rx_fifo' = IF whole THEN Tail(rest) ELSE rest
              /\ response' = ReadLine /\ held' = FALSE
              /\ IF whole THEN Tell("MESSAGE_RECEIVED") ELSE Continue
              /\ UNCHANGED <<driver, history>>
         [] line = "ACK" -> Read /\ Tell("MESSAGE_CONFIRMED") /\ UNCHANGED <<driver, history>>
         [] line \in {"BOOT", "RESET"} ->
              /\ Read /\ Tell("MODEM_FACTORY_RESET")
              /\ state' = "INITIALIZE" /\ save_config_mask' = {}
              /\ history' = Forgotten
              /\ UNCHANGED <<init_command_index, save_command_index, join_command,
                             custom_command, link_check_command, config>>
         [] OTHER -> Read /\ Continue /\ UNCHANGED <<driver, history>>
    /\ UNCHANGED <<wire, arrived, bounds>>

Error ==
    /\ In("ERROR")
    /\ save_config_mask' = {} /\ history' = Forgotten
    /\ Tell("ERROR")
    /\ UNCHANGED <<state, init_command_index, save_command_index, join_command, custom_command,
                   link_check_command, config, reader, wire>>

(***************************************************************************)
(* What is written meanwhile is purged, unless the modem had it already.   *)
(***************************************************************************)
Initialize ==
    /\ In("INITIALIZE")
    /\ state' = "INITIALIZE_AT_RESPONSE" /\ init_command_index' = 1
    /\ Purge
    /\ commands' \in {Append(commands, Command("AT")), <<Command("AT")>>}
    /\ Return("later")
    /\ UNCHANGED <<save_config_mask, save_command_index, join_command, custom_command,
                   link_check_command, config, owed, modem, history>>

\* With no answer, _response is what it was.
InitializeAtResponse ==
    /\ In("INITIALIZE_AT_RESPONSE")
    /\ Read
    /\ Goto(IF response'.name = "OK" THEN "INITIALIZE_COMMAND_SEND" ELSE "RECOVER_BAUDRATE_UART")
    /\ Continue /\ UNCHANGED <<wire, history>>

\* At 19200 baud: AT, AT+UART=9600, AT+REBOOT; and the UART is initialized anew.
RecoverBaudrate ==
    /\ running /\ handling = "none" /\ ~ receiving /\ state = "RECOVER_BAUDRATE_UART"
    /\ Goto("INITIALIZE") /\ Return("later")
    /\ Purge /\ arrived' = FALSE
    /\ commands' = <<>> /\ modem' = [modem EXCEPT !.baud = 9600]
    /\ \/ owed' = owed
       \/ modem.baud = 19200 /\ owed' = Append(owed, Line("BOOT"))
    /\ UNCHANGED <<bounds, history>>

\* The states that purge what was received, write a command and wait for the answer.
Ask(c, next) == Write(c) /\ Purge /\ Goto(next) /\ Return("later") /\ UNCHANGED history

NoRoom ==
    /\ \E s \in {"INITIALIZE_COMMAND_SEND", "CONFIG_SAVE_SEND", "JOIN_SEND", "LINK_CHECK_SEND",
                 "CUSTOM_COMMAND_SEND"} :
         In(s) /\ (s = "CONFIG_SAVE_SEND" => save_config_mask # {})
    /\ Unwritten /\ Purge /\ Fails /\ UNCHANGED history

InitializeCommandSend ==
    /\ In("INITIALIZE_COMMAND_SEND")
    /\ Ask(InitCommands[init_command_index], "INITIALIZE_COMMAND_RESPONSE")

\* No line yet: the task waits for it, and the state changes when it has waited too long.
Wait(s, over) ==
    /\ Goto(IF over THEN s ELSE state)
    /\ Return("later") /\ UNCHANGED history

\* An item that is still to be saved is not overwritten.
\* Mutant: the character is not made a number.
MutTold(c, line) ==
    IF c.name = "QUERY" /\ line.name = "VALUE" /\ c.item \notin save_config_mask
    THEN [config EXCEPT ![c.item] = line.value + 48] ELSE config
Told(c, line) ==
    IF c.name = "QUERY" /\ line.name = "VALUE" /\ c.item \notin save_config_mask
    THEN [config EXCEPT ![c.item] = line.value] ELSE config

Handled(line) ==
    \/ line.name \in {"OK", "VALUE"}
    \/ line.name = "ERR" /\ InitCommands[init_command_index].name = "SET"

InitializeCommandResponse ==
    /\ In("INITIALIZE_COMMAND_RESPONSE")
    /\ Read /\ UNCHANGED wire
    /\ LET line == ReadLine
           last == init_command_index = Len(InitCommands) IN
       CASE line = None -> Wait("ERROR", Answered)
         [] line # None /\ ~ Handled(line) -> Fails /\ UNCHANGED history
         [] line # None /\ Handled(line) ->
              /\ state' = IF ~ last THEN "INITIALIZE_COMMAND_SEND"
                          ELSE IF save_config_mask = {} THEN "READY" ELSE "CONFIG_SAVE_SEND"
              /\ init_command_index' = init_command_index + 1
              /\ config' = Told(InitCommands[init_command_index], line)
              /\ save_command_index' = IF state' = "CONFIG_SAVE_SEND" THEN 0 ELSE save_command_index
              /\ Continue
              /\ UNCHANGED <<save_config_mask, join_command, custom_command, link_check_command,
                             history>>

-----------------------------------------------------------------------------
\* The only command that is written behind what was received before.
SendMessageCommand ==
    /\ In("SEND_MESSAGE_COMMAND")
    /\ \/ /\ Write(Command("SEND"))
          /\ Goto("SEND_MESSAGE_RESPONSE") /\ Tell("SEND_MESSAGE_START")
       \/ Unwritten /\ Fails
    /\ UNCHANGED <<reader, history>>

\* Mutant: an answer that has not come is waited for.
MutSendMessageResponse ==
    /\ In("SEND_MESSAGE_RESPONSE")
    /\ Read
    /\ CASE ReadLine.name = "OK" -> Goto("IDLE") /\ Tell("SEND_MESSAGE_DONE")
         [] ReadLine = None -> Return("later") /\ UNCHANGED driver
         [] OTHER -> Fails
    /\ UNCHANGED <<wire, history>>

SendMessageResponse ==
    /\ In("SEND_MESSAGE_RESPONSE")
    /\ Read
    /\ IF ReadLine.name = "OK" THEN Goto("IDLE") /\ Tell("SEND_MESSAGE_DONE") ELSE Fails
    /\ UNCHANGED <<wire, history>>

ConfigSaveSend ==
    /\ In("CONFIG_SAVE_SEND")
    /\ IF save_config_mask = {}
       THEN /\ Goto("ERROR") /\ Tell("CONFIG_SAVE_DONE")
            /\ UNCHANGED <<reader, wire, history>>
       ELSE LET i == Min(save_config_mask) IN
            /\ save_command_index' = i
            /\ Write([name |-> "CONFIG", item |-> i, value |-> config[i]]) /\ Purge
            /\ state' = "CONFIG_SAVE_RESPONSE" /\ Return("later")
            /\ history' = IF commands = <<>> THEN history
                          ELSE [history EXCEPT !.doubtful = @ \union {i}]
            /\ UNCHANGED <<init_command_index, save_config_mask, join_command, custom_command,
                           link_check_command, config>>

\* Mutant: any line will do.
MutSaved(line) == line # None
Saved(line) == line.name \in {"OK", "VALUE"}

ConfigSaveResponse ==
    /\ In("CONFIG_SAVE_RESPONSE")
    /\ Read
    /\ IF Saved(ReadLine)
       THEN /\ state' = "CONFIG_SAVE_SEND"
            /\ save_config_mask' = save_config_mask \ {save_command_index}
            /\ Continue
            /\ UNCHANGED <<init_command_index, save_command_index, join_command, custom_command,
                           link_check_command, config>>
       ELSE Fails
    /\ UNCHANGED <<wire, history>>

JoinSend ==
    /\ In("JOIN_SEND")
    /\ Write(Command("JOIN")) /\ Purge
    /\ join_command' = FALSE
    /\ state' = "JOIN_RESPONSE" /\ Return("later")
    /\ UNCHANGED <<init_command_index, save_config_mask, save_command_index, custom_command,
                   link_check_command, config, history>>

JoinResponse ==
    /\ In("JOIN_RESPONSE")
    /\ Read /\ UNCHANGED wire
    /\ LET line == ReadLine.name IN
       CASE line = "none" -> Wait("ERROR", SaidAll)
         [] line \in {"OK", "VALUE"} -> Return("now") /\ UNCHANGED <<driver, history>>
         [] line = "ERR7" -> Fails /\ UNCHANGED history
         [] OTHER -> /\ Tell(IF line = "JOINED" THEN "JOIN_SUCCESS" ELSE "JOIN_ERROR")
                     /\ UNCHANGED <<driver, history>>

LinkCheckSend ==
    /\ In("LINK_CHECK_SEND")
    /\ Write(Command("LNCHECK")) /\ Purge
    /\ link_check_command' = FALSE
    /\ state' = "LINK_CHECK_RESPONSE" /\ Return("later")
    /\ UNCHANGED <<init_command_index, save_config_mask, save_command_index, join_command,
                   custom_command, config, history>>

LinkCheckResponse ==
    /\ In("LINK_CHECK_RESPONSE")
    /\ Read /\ UNCHANGED <<wire, history>>
    /\ LET line == ReadLine.name IN
       CASE line = "none" -> Wait("ERROR", SaidAll)
         [] line \in {"OK", "VALUE"} -> Return("now") /\ UNCHANGED driver
         [] line = "MAC" -> Goto("LINK_CHECK_RESPONSE_ANS") /\ Return("later")
         [] line = "NOMAC" -> Goto("IDLE") /\ Tell("LINK_CHECK_NOK")
         [] OTHER -> Fails

LinkCheckResponseAns ==
    /\ In("LINK_CHECK_RESPONSE_ANS")
    /\ Read
    /\ Goto("IDLE") /\ Tell("LINK_CHECK_OK")
    /\ UNCHANGED <<wire, history>>

CustomCommandSend ==
    /\ In("CUSTOM_COMMAND_SEND")
    /\ Ask(Command(custom_command), "CUSTOM_COMMAND_RESPONSE")

CustomCommandResponse ==
    /\ In("CUSTOM_COMMAND_RESPONSE")
    /\ Read
    /\ LET line == ReadLine.name IN
       IF line = "none" /\ ~ Answered
       THEN Return("later") /\ UNCHANGED driver
       ELSE /\ custom_command' = "none"
            /\ CASE line = "none" ->
                      /\ state' = IF custom_command = "FACNEW" THEN "INITIALIZE" ELSE "ERROR"
                      /\ Return("later")
                 [] line = "VALUE" ->
                      /\ state' = "IDLE"
                      /\ plan' = "now" /\ handling' = "CUSTOM_AT"
                      /\ UNCHANGED <<running, receiving>>
                 [] OTHER -> state' = "IDLE" /\ Continue
            /\ UNCHANGED <<init_command_index, save_config_mask, save_command_index,
                           join_command, link_check_command, config>>
    /\ UNCHANGED <<wire, history>>

-----------------------------------------------------------------------------
(***************************************************************************)
(* What the task does after the event handler.                             *)
(***************************************************************************)
HandlerReturns ==
    /\ handling # "none" /\ handling' = "none"
    /\ state' = CASE handling = "ERROR" -> "INITIALIZE"
                  [] handling = "CONFIG_SAVE_DONE" -> "READY"
                  [] handling \in {"JOIN_SUCCESS", "JOIN_ERROR"} -> "IDLE"
                  [] OTHER -> state
    /\ running' = (handling \notin
         {"ERROR", "SEND_MESSAGE_START", "LINK_CHECK_OK", "LINK_CHECK_NOK", "CUSTOM_AT"})
    /\ plan' = IF running' \/ handling = "CUSTOM_AT" THEN plan ELSE "later"
    /\ UNCHANGED <<init_command_index, save_config_mask, save_command_index, join_command,
                   custom_command, link_check_command, config, receiving, reader, arrived, wire,
                   bounds, history>>

(***************************************************************************)
(* The application, between the tasks or from the event handler.           *)
(***************************************************************************)
Call ==
    /\ ~ running \/ handling # "none"
    /\ calls < MaxCalls /\ calls' = calls + 1
    /\ UNCHANGED <<running, handling, receiving, reader, arrived, wire, faults>>

\* A request is in haste if the one before is not over, or the modem has not
\* said everything, or it has not been read.
Haste ==
    \/ state # "IDLE" \/ rx_fifo # <<>> \/ ~ SaidAll
    \/ join_command \/ link_check_command \/ custom_command # "none" \/ save_config_mask # {}

\* twr_scheduler_plan_now
Plan == plan' = "now" /\ history' = [history EXCEPT !.haste = @ \/ Haste]

SendMessage == Call /\ state = "IDLE" /\ Goto("SEND_MESSAGE_COMMAND") /\ Plan

Join ==
    /\ Call /\ join_command' = TRUE /\ Plan
    /\ UNCHANGED <<state, init_command_index, save_config_mask, save_command_index,
                   custom_command, link_check_command, config>>

LinkCheck ==
    /\ Call /\ state = "IDLE" /\ link_check_command' = TRUE /\ Plan
    /\ UNCHANGED <<state, init_command_index, save_config_mask, save_command_index,
                   join_command, custom_command, config>>

\* twr_cmwx1zzabz_custom_at, _rfq and _frame_counter, and _factory_reset.
CustomAt(command) ==
    /\ Call /\ custom_command = "none" /\ custom_command' = command /\ Plan
    /\ UNCHANGED <<state, init_command_index, save_config_mask, save_command_index,
                   join_command, link_check_command, config>>

Reboot ==
    /\ Call /\ Plan
    /\ state' = "INITIALIZE"
    /\ join_command' = FALSE /\ custom_command' = "none" /\ link_check_command' = FALSE
    /\ UNCHANGED <<init_command_index, save_config_mask, save_command_index, config>>

\* One of the setters, and _twr_cmwx1zzabz_save_config.
Set(i, v) ==
    /\ Call
    /\ config' = [config EXCEPT ![i] = v]
    /\ save_config_mask' = save_config_mask \union {i}
    /\ plan' = IF state = "IDLE" THEN "now" ELSE plan
    /\ history' = [history EXCEPT
         !.unsaved = @ \union {i},
         !.doubtful = IF state = "CONFIG_SAVE_RESPONSE" /\ save_command_index = i
                      THEN @ \union {i} ELSE @ \ {i},
         !.haste = @ \/ Haste]
    /\ UNCHANGED <<state, init_command_index, save_command_index, join_command, custom_command,
                   link_check_command>>

(***************************************************************************)
(* The UART's read task, Uart!ReadTask, tells of characters that are there.*)
(***************************************************************************)
UartEvent ==
    /\ arrived /\ ~ running
    /\ arrived' = FALSE
    /\ IF rx_fifo # <<>> /\ state = "IDLE"
       THEN Goto("RECEIVE") /\ plan' = "later"
       ELSE UNCHANGED <<driver, plan>>
    /\ UNCHANGED <<running, handling, receiving, reader, wire, bounds, history>>

(***************************************************************************)
(* The modem: what it may answer to a command, and the lines that follow.  *)
(***************************************************************************)
Answers(c) ==
    CASE c.name \in {"AT", "CONFIG"} -> {<<Line("OK")>>}
      [] c.name = "SET" -> {<<Line("OK")>>, <<Line("ERR")>>}
      [] c.name = "REBOOT" -> {<<Line("OK")>>, <<Line("OK"), Line("BOOT")>>}
      [] c.name = "QUERY" -> {<<[name |-> "VALUE", value |-> modem.stored[c.item]]>>}
      [] c.name = "SEND" -> {<<Line("OK")>>, <<Line("OK"), Line("ACK")>>}
      [] c.name = "JOIN" -> {<<Line("OK"), Line("JOINED")>>, <<Line("OK"), Line("NOJOIN")>>}
      [] c.name = "LNCHECK" -> {<<Line("OK"), Line("MAC"), Line("ANS")>>,
                                <<Line("OK"), Line("NOMAC")>>}
      [] c.name = "CUSTOM" -> {<<Line("VALUE")>>, <<Line("OK")>>, <<Line("ERR")>>}
      [] c.name = "FACNEW" -> {<<Line("OK"), Line("RESET")>>}

Stored(c) ==
    CASE c.name = "CONFIG" -> [modem.stored EXCEPT ![c.item] = c.value]
      [] c.name = "FACNEW" -> [i \in Items |-> 0]
      [] OTHER -> modem.stored

MidLine == owed # <<>> /\ Head(owed).name \in {"data", "tail"}

ModemStep ==
    UNCHANGED <<driver, plan, running, handling, receiving, response, held, calls>>

Carries(c) ==
    /\ \E lines \in Answers(c) :
         rx_fifo' = Append(rx_fifo, Head(lines)) /\ owed' = owed \o Tail(lines)
    /\ arrived' = TRUE
    /\ modem' = [modem EXCEPT !.stored = Stored(c)]
    /\ history' = IF c.name = "CONFIG" /\ c.value = config[c.item]
                  THEN [history EXCEPT !.unsaved = @ \ {c.item}] ELSE history

Execute ==
    /\ commands # <<>> /\ ~ MidLine
    /\ commands' = Tail(commands)
    /\ IF modem.baud = 9600 THEN Carries(Head(commands))
       ELSE UNCHANGED <<owed, modem, rx_fifo, arrived, history>>
    /\ ModemStep /\ UNCHANGED faults

Emit ==
    /\ owed # <<>>
    /\ rx_fifo' = Append(rx_fifo, Head(owed)) /\ owed' = Tail(owed) /\ arrived' = TRUE
    /\ ModemStep /\ UNCHANGED <<commands, modem, faults, history>>

\* "LoRa Module sometimes don't answer", and it may refuse a command.
Misbehave ==
    /\ commands # <<>> /\ ~ MidLine
    /\ faults < MaxFaults /\ faults' = faults + 1
    /\ commands' = Tail(commands)
    /\ \/ UNCHANGED <<rx_fifo, arrived>>
       \/ \E name \in {"ERR", "ERR7"} : rx_fifo' = Append(rx_fifo, Line(name)) /\ arrived' = TRUE
    /\ ModemStep /\ UNCHANGED <<owed, modem, history>>

\* A message from the network, the retransmission of a line cut in two by the
\* end of a pause, a reset of the modem.
Unasked == {<<Line("RECV"), Line("data")>>, <<Line("head"), Line("tail")>>, <<Line("RESET")>>}

News ==
    /\ modem.baud = 9600
    /\ faults < MaxFaults /\ faults' = faults + 1
    /\ \E lines \in Unasked : owed' = owed \o lines
    /\ ModemStep /\ UNCHANGED <<commands, modem, rx_fifo, arrived, history>>

\* twr_cmwx1zzabz_init; the modem may have been left at 19200 baud.
Init ==
    /\ state = "INITIALIZE" /\ plan = "later"
    /\ running = FALSE /\ handling = "none" /\ receiving = FALSE
    /\ init_command_index = 0 /\ save_config_mask = {} /\ save_command_index = 0
    /\ join_command = FALSE /\ custom_command = "none" /\ link_check_command = FALSE
    /\ config = [i \in Items |-> 0]
    /\ response = None /\ held = FALSE /\ rx_fifo = <<>> /\ arrived = FALSE
    /\ commands = <<>> /\ owed = <<>>
    /\ modem \in [baud : {9600, 19200}, stored : [Items -> {0}]]
    /\ calls = 0 /\ faults = 0
    /\ history = [unsaved |-> {}, doubtful |-> {}, haste |-> FALSE]

Task ==
    \/ TaskRuns \/ Ready \/ Idle \/ Receive \/ ReceiveLine \/ Error
    \/ Initialize \/ InitializeAtResponse \/ RecoverBaudrate
    \/ InitializeCommandSend \/ InitializeCommandResponse
    \/ SendMessageCommand \/ SendMessageResponse
    \/ ConfigSaveSend \/ ConfigSaveResponse
    \/ JoinSend \/ JoinResponse
    \/ LinkCheckSend \/ LinkCheckResponse \/ LinkCheckResponseAns
    \/ CustomCommandSend \/ CustomCommandResponse
    \/ NoRoom \/ HandlerReturns

Application ==
    \/ SendMessage \/ Join \/ LinkCheck \/ Reboot
    \/ CustomAt("CUSTOM") \/ CustomAt("FACNEW")
    \/ \E i \in Items, v \in {0, 1} : Set(i, v)

Next == Task \/ UartEvent \/ Application \/ Execute \/ Emit \/ Misbehave \/ News

Spec == Init /\ [][Next]_modemVars

(***************************************************************************)
(* The scheduler runs the tasks that are due (Scheduler!DueTaskServed), the*)
(* event handler returns, and the modem goes on with what it has to do.    *)
(***************************************************************************)
FairSpec == Spec /\ WF_modemVars(Task) /\ WF_modemVars(UartEvent)
                 /\ WF_modemVars(Execute) /\ WF_modemVars(Emit)

-----------------------------------------------------------------------------
States ==
    {"READY", "ERROR", "INITIALIZE", "INITIALIZE_AT_RESPONSE", "RECOVER_BAUDRATE_UART",
     "INITIALIZE_COMMAND_SEND", "INITIALIZE_COMMAND_RESPONSE", "IDLE", "RECEIVE",
     "SEND_MESSAGE_COMMAND", "SEND_MESSAGE_RESPONSE", "CONFIG_SAVE_SEND",
     "CONFIG_SAVE_RESPONSE", "JOIN_SEND", "JOIN_RESPONSE", "LINK_CHECK_SEND",
     "LINK_CHECK_RESPONSE", "LINK_CHECK_RESPONSE_ANS", "CUSTOM_COMMAND_SEND",
     "CUSTOM_COMMAND_RESPONSE"}

TypeOK ==
    /\ state \in States /\ plan \in {"never", "later", "now"}
    /\ running \in BOOLEAN /\ receiving \in BOOLEAN /\ held \in BOOLEAN /\ arrived \in BOOLEAN
    /\ join_command \in BOOLEAN /\ link_check_command \in BOOLEAN
    /\ init_command_index \in 0 .. Len(InitCommands) + 1
    /\ save_config_mask \subseteq Items /\ save_command_index \in 0 .. ITEMS
    /\ custom_command \in {"none", "CUSTOM", "FACNEW"}
    /\ config \in [Items -> {0, 1}]
    /\ modem \in [baud : {9600, 19200}, stored : [Items -> {0, 1}]]
    /\ calls \in 0 .. MaxCalls /\ faults \in 0 .. MaxFaults
    /\ history \in [unsaved : SUBSET Items, doubtful : SUBSET Items, haste : BOOLEAN]

\* "Configuration save done" (twr_cmwx1zzabz.h): when the application is told
\* so, the modem has been given everything that was set, but for what the
\* handler sets itself, and for the items in doubt.  Their bit was cleared by
\* an answer that may not be the one to their last value: they were set anew
\* while it was awaited, or their command was written behind one that the
\* modem had not executed, after a request that made the task run too early.
ConfigSaved ==
    handling = "CONFIG_SAVE_DONE" =>
        history.unsaved \subseteq save_config_mask \union history.doubtful

\* As long as the modem answers and the application asks one thing after the
\* other, nothing goes wrong: what is left in the FIFO by one exchange is not
\* taken for the answer of the next.
NoErrorOfItsOwn == handling = "ERROR" => faults > 0 \/ history.haste

\* The driver says what became of a message it accepted, or begins anew.
SendAnswered ==
    state = "SEND_MESSAGE_COMMAND" ~>
        (handling \in {"SEND_MESSAGE_DONE", "ERROR"} \/ state = "INITIALIZE")

\* Whatever was lost, refused or misunderstood, in the end the modem is
\* ready and every request has been dealt with.
Settles ==
    <>[] (/\ state = "IDLE" /\ ~ running
          /\ save_config_mask = {} /\ ~ join_command /\ ~ link_check_command
          /\ custom_command = "none")

\* What the application is told of its settings, and of errors, is true.
ToldIsTrue == ConfigSaved /\ NoErrorOfItsOwn

\* Each message is answered for, and every request comes to its end.
EverythingAnswered == SendAnswered /\ Settles

=============================================================================
