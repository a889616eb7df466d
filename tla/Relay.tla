------------------------------- MODULE Relay --------------------------------
(***************************************************************************)
(* The relay module (twr_module_relay.c): a bistable relay whose coil is   *)
(* energized, through an I2C expander, for 20 ms in one direction or the   *)
(* other.  Commands come at any time, are kept in one place, and are       *)
(* carried out by a task that exists only while there is something to do.  *)
(* Any transfer to the expander may fail.                                  *)
(***************************************************************************)

VARIABLES
    relay,      \* the driver, and the module: what the expander's port drives,
                \* whether its outputs are enabled, where the contact is
    wanted      \* history: where the last command leaves the contact

relayVars == <<relay, wanted>>

Position == {"F", "T"}
Opposite(p) == IF p = "T" THEN "F" ELSE "T"

\* The expander drives the coil: the contact goes where the port says.
Driven(r) == IF r.outputs /\ r.port # "none" THEN [r EXCEPT !.contact = r.port] ELSE r

\* _twr_module_relay_hardware_init, called to clear an error: only whether
\* the expander answers counts, not whether the writes succeed.
HardwareInit(r) ==
    LET u == [r EXCEPT !.relay_state = "unknown"]
    IN {u} \cup {Driven([u EXCEPT !.port = p, !.outputs = o, !.error = FALSE,
                                  !.still_driven = p # "none"]) :
                    p \in {"none", r.port}, o \in {TRUE, r.outputs}}

\* _twr_module_relay_set_output
SetOutput(r, p) == {Driven([r EXCEPT !.port = p]), [r EXCEPT !.error = TRUE]}

\* _twr_module_relay_set_output_disable
SetOutputDisable(r) == {[r EXCEPT !.port = "none"], [r EXCEPT !.error = TRUE]}

\* twr_module_relay_init, in whose outcome the application trusts.
RelayInit ==
    \E contact \in Position, outputs \in BOOLEAN :
        /\ relay = [state |-> "IDLE", command |-> "none", desired_state |-> "F",
                    relay_state |-> "unknown", error |-> FALSE, task_is_active |-> FALSE,
                    port |-> "none", outputs |-> outputs, contact |-> contact,
                    still_driven |-> FALSE]
        /\ wanted = "unknown"

-----------------------------------------------------------------------------
(***************************************************************************)
(* The application's calls.                                                *)
(***************************************************************************)
Commanded(command, p) ==
    relay' = [relay EXCEPT !.command = command, !.desired_state = p, !.task_is_active = TRUE]

\* twr_module_relay_set_state
SetState(p) == Commanded("set", p) /\ wanted' = p

\* twr_module_relay_toggle
Toggle ==
    /\ relay.relay_state # "unknown"
    /\ SetState(Opposite(relay.relay_state))

\* twr_module_relay_pulse
Pulse(p) == Commanded("pulse", p) /\ wanted' = Opposite(p)

-----------------------------------------------------------------------------
(***************************************************************************)
(* The states of the task, each up to the next pause.                      *)
(***************************************************************************)
\* SET and PULSE, which IDLE goes to without a pause.
Begins(r) ==
    {[a EXCEPT !.relay_state = r.desired_state, !.command = "none",
               !.state = IF r.command = "set" THEN "SET_DEMAGNETIZE" ELSE "PULSE_DEMAGNETIZE"] :
        a \in SetOutput(r, r.desired_state)}

IdleState(r) ==
    UNION {IF a.command = "none" THEN {[a EXCEPT !.task_is_active = FALSE]} ELSE Begins(a) :
              a \in IF r.error THEN HardwareInit(r) ELSE {r}}

Reverse(r) ==
    LET p == Opposite(r.relay_state)
    IN {[a EXCEPT !.relay_state = p, !.state = "PULSE_DEMAGNETIZE_2"] : a \in SetOutput(r, p)}

\* Mutant: a command given meanwhile is dropped with the one carried out.
MutDemagnetized(r, next) == {[a EXCEPT !.state = next, !.command = "none"] : a \in SetOutputDisable(r)}

Demagnetized(r, next) == {[a EXCEPT !.state = next] : a \in SetOutputDisable(r)}

\* _twr_module_relay_task
Task ==
    /\ relay.task_is_active
    /\ relay' \in CASE relay.state = "IDLE" -> IdleState(relay)
                    [] relay.state = "SET_DEMAGNETIZE" -> Demagnetized(relay, "IDLE")
                    [] relay.state = "PULSE_DEMAGNETIZE" -> Demagnetized(relay, "PULSE_REVERSE")
                    [] relay.state = "PULSE_REVERSE" -> Reverse(relay)
                    [] relay.state = "PULSE_DEMAGNETIZE_2" -> Demagnetized(relay, "IDLE")
    /\ UNCHANGED wanted

RelayNext ==
    \/ \E p \in Position : SetState(p) \/ Pulse(p)
    \/ Toggle
    \/ Task

RelaySpec == RelayInit /\ [][RelayNext]_relayVars

-----------------------------------------------------------------------------
RelayTypeOK ==
    /\ relay \in [state : {"IDLE", "SET_DEMAGNETIZE", "PULSE_DEMAGNETIZE", "PULSE_REVERSE",
                           "PULSE_DEMAGNETIZE_2"},
                  command : {"none", "set", "pulse"}, desired_state : Position,
                  relay_state : Position \cup {"unknown"}, error : BOOLEAN,
                  task_is_active : BOOLEAN, port : Position \cup {"none"}, outputs : BOOLEAN,
                  contact : Position, still_driven : BOOLEAN]
    /\ wanted \in Position \cup {"unknown"}

\* The coil, which is made for pulses, is energized for a pulse only, unless
\* there is an error to be cleared, or the write that clears it was lost too.
CoilRests ==
    relay.port # "none" =>
        \/ relay.state \in {"SET_DEMAGNETIZE", "PULSE_DEMAGNETIZE", "PULSE_DEMAGNETIZE_2"}
        \/ relay.error \/ relay.still_driven

\* twr_module_relay_get_state tells where the contact is, or that it does not
\* know, once errors are cleared.
StateIsTrue ==
    relay.relay_state # "unknown" /\ ~ relay.error /\ relay.outputs =>
        relay.contact = relay.relay_state

\* However commands overtake each other, the contact comes to rest where the
\* last of them leaves it, or the driver knows that it may not have.
LastCommandWins ==
    ~ relay.task_is_active /\ ~ relay.error => relay.relay_state \in {"unknown", wanted}

\* The coil, the contact, what is told of it and what was commanded agree.
RelayAgrees == CoilRests /\ StateIsTrue /\ LastCommandWins

=============================================================================
