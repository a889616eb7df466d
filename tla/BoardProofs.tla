---------------------------- MODULE BoardProofs -----------------------------
(***************************************************************************)
(* Parts of a board beside the radio.  No pulse and no overflow remains    *)
(* untold, for a counter of any width and any number of edges.  The        *)
(* relay's coil, its contact, what is told of it and what was commanded    *)
(* agree, whichever commands overtake each other and whichever transfers   *)
(* fail.  A strip of LEDs of any length shows each frame as it was when    *)
(* its transfer began, whatever effects and application do meanwhile, and  *)
(* holds the PLL for as long.  The transmitter of a UART sends what its    *)
(* callers were told it would, under the clock; its receivers, by          *)
(* interrupt and by DMA, let no byte be forgotten or come out of order.    *)
(* The SPI sends under the clock and one transfer at a time; the USB       *)
(* sends what was written, in order.                                       *)
(***************************************************************************)
EXTENDS PulseCounter, Relay, LedStrip, UartWrite, UartRead, UartDma, SpiBus, SequenceTheorems,
        FiniteSetTheorems, TLAPS

-----------------------------------------------------------------------------
(***************************************************************************)
(* The pulse counter.                                                      *)
(***************************************************************************)
Ticks == {"INFINITY", "ticks"}

\* While the handler is told of an overflow, none is counted as untold: the
\* update that follows would replace its event.
ToldOnce == at = "told" => ~ wrapped

PulseInv == interval \in Ticks /\ PulsesTold /\ ToldOnce

-----------------------------------------------------------------------------
LEMMA PulseInitHolds == PulseInit => PulseInv
  BY DEF PulseInit, PulseInv, Ticks, PulsesTold, EdgeTold, OverflowTold, ToldOnce

\* The interrupt, which may come between any two steps of the task.
LEMMA EdgePreserves == PulseInv /\ Edge => PulseInv'
<1>1. SUFFICES ASSUME PulseInv, Edge PROVE PulseInv'
  OBVIOUS
<1>2. PulsesTold'
  <2>1. EdgeTold'
    BY <1>1 DEF Edge, EdgeTold
  <2>2. OverflowTold'
    BY <1>1 DEF Edge, OverflowTold, EventOf
  <2> QED
    BY <2>1, <2>2 DEF PulsesTold
<1>3. ToldOnce'
  BY <1>1 DEF Edge, ToldOnce
<1> QED
  BY <1>1, <1>2, <1>3 DEF PulseInv, Edge

\* The calls of the application.
LEMMA PulseCallPreserves ==
  ASSUME PulseInv,
         \/ \E n : SetCount(n)
         \/ \E i \in Ticks : SetUpdateInterval(i)
  PROVE  PulseInv'
<1>1. CASE \E n : SetCount(n)
  BY <1>1 DEF SetCount, PulseInv, PulsesTold, EdgeTold, OverflowTold, ToldOnce
<1>2. ASSUME NEW i \in Ticks, SetUpdateInterval(i) PROVE PulseInv'
  <2>1. EdgeTold'
    BY <1>2 DEF SetUpdateInterval, EdgeTold, PulseInv, PulsesTold
  <2>2. OverflowTold' /\ ToldOnce' /\ interval' \in Ticks
    BY <1>2 DEF SetUpdateInterval, OverflowTold, ToldOnce, PulseInv, PulsesTold
  <2> QED
    BY <2>1, <2>2 DEF PulseInv, PulsesTold
<1> QED
  BY <1>1, <1>2

\* The task, from its start to the plan of its next run.  That a plan for
\* never is one for the last tick is what keeps EdgeTold.
LEMMA PulseTaskPreserves ==
  ASSUME PulseInv, Starts \/ Tells \/ ToldOverflow \/ Plans
  PROVE  PulseInv'
<1>1. CASE Starts
  BY <1>1 DEF Starts, PulseInv, PulsesTold, EdgeTold, OverflowTold, ToldOnce
<1>2. CASE Tells
  BY <1>2 DEF Tells, PulseInv, PulsesTold, EdgeTold, OverflowTold, ToldOnce
<1>3. CASE ToldOverflow
  BY <1>3 DEF ToldOverflow, PulseInv, PulsesTold, EdgeTold, OverflowTold, ToldOnce
<1>4. CASE Plans
  <2>1. due' # "INFINITY"
    BY <1>4 DEF Plans, Relative
  <2> QED
    BY <1>4, <2>1 DEF Plans, PulseInv, PulsesTold, EdgeTold, OverflowTold, ToldOnce
<1> QED
  BY <1>1, <1>2, <1>3, <1>4

LEMMA PulseNextPreserves == PulseInv /\ [PulseNext]_pulseVars => PulseInv'
<1>1. SUFFICES ASSUME PulseInv, [PulseNext]_pulseVars PROVE PulseInv'
  OBVIOUS
<1>2. CASE Edge
  BY <1>1, <1>2, EdgePreserves
<1>3. CASE Starts \/ Tells \/ ToldOverflow \/ Plans
  BY <1>1, <1>3, PulseTaskPreserves
<1>4. CASE Set(COUNTS - 1) \/ Reset
  BY <1>1, <1>4, PulseCallPreserves DEF Set, Reset
<1>5. CASE \E i \in Ticks : SetUpdateInterval(i)
  BY <1>1, <1>5, PulseCallPreserves
<1>6. CASE UNCHANGED pulseVars
  BY <1>1, <1>6 DEF pulseVars, PulseInv, PulsesTold, EdgeTold, OverflowTold, ToldOnce
<1> QED
  BY <1>1, <1>2, <1>3, <1>4, <1>5, <1>6 DEF PulseNext, Ticks

\* Each edge and each overflow is told of or still to be told, wherever the
\* interrupt comes in the task and whatever the application sets meanwhile.
THEOREM NoPulseUntold == PulseSpec => []PulsesTold
<1>1. PulseInit => PulseInv
  BY PulseInitHolds
<1>2. PulseInv /\ [PulseNext]_pulseVars => PulseInv'
  BY PulseNextPreserves
<1>3. PulseInv => PulsesTold
  BY DEF PulseInv
<1> QED
  BY <1>1, <1>2, <1>3, PTL DEF PulseSpec

-----------------------------------------------------------------------------
(***************************************************************************)
(* The relay.                                                              *)
(***************************************************************************)
\* What is true of the record of a relay whose last command was for w.
Records == [state : {"IDLE", "SET_DEMAGNETIZE", "PULSE_DEMAGNETIZE", "PULSE_REVERSE",
                     "PULSE_DEMAGNETIZE_2"},
            command : {"none", "set", "pulse"}, desired_state : Position,
            relay_state : Position \cup {"unknown"}, error : BOOLEAN,
            task_is_active : BOOLEAN, port : Position \cup {"none"}, outputs : BOOLEAN,
            contact : Position, still_driven : BOOLEAN]

Rests(r) ==
    r.port # "none" =>
        \/ r.state \in {"SET_DEMAGNETIZE", "PULSE_DEMAGNETIZE", "PULSE_DEMAGNETIZE_2"}
        \/ r.error \/ r.still_driven

TellsTrue(r) == r.relay_state # "unknown" /\ ~ r.error /\ r.outputs => r.contact = r.relay_state

\* A command in its place leads to w; with none there, the pulse underway has
\* its way back before it, and otherwise the contact is where it should be.
Follows(r, w) ==
    /\ r.command = "set" => w = r.desired_state
    /\ r.command = "pulse" => w = Opposite(r.desired_state)
    /\ r.command = "none" =>
          IF r.state \in {"PULSE_DEMAGNETIZE", "PULSE_REVERSE"} THEN w = Opposite(r.relay_state)
          ELSE r.relay_state \in {"unknown", w}

\* The task exists while there is something to do, and in the middle of a
\* command the driver knows what it has set.
Active(r) == ~ r.task_is_active => r.command = "none" /\ r.state = "IDLE"
Known(r) == r.state # "IDLE" => r.relay_state # "unknown"

Sound(r, w) ==
    /\ r \in Records /\ w \in Position \cup {"unknown"}
    /\ Rests(r) /\ TellsTrue(r) /\ Follows(r, w) /\ Active(r) /\ Known(r)

RelayInv == Sound(relay, wanted)

-----------------------------------------------------------------------------
LEMMA OppositeInPosition == \A p \in Position : Opposite(p) \in Position
  BY DEF Position, Opposite

\* A transfer changes the port, and with it the contact, or the error.
LEMMA TransferChanges ==
  ASSUME NEW r \in Records, NEW p \in Position, NEW a \in SetOutput(r, p)
  PROVE  /\ a \in Records
         /\ a.state = r.state /\ a.command = r.command /\ a.desired_state = r.desired_state
         /\ a.task_is_active = r.task_is_active /\ a.relay_state = r.relay_state
         /\ ~ a.error /\ a.outputs => a.contact = p
<1> p # "none"
  BY DEF Position
<1>1. CASE a = Driven([r EXCEPT !.port = p])
  <2> DEFINE d == [r EXCEPT !.port = p]
  <2>1. d \in Records /\ d.port = p /\ d.outputs = r.outputs /\ d.state = r.state
        /\ d.command = r.command /\ d.desired_state = r.desired_state
        /\ d.task_is_active = r.task_is_active /\ d.relay_state = r.relay_state
    BY DEF Records
  <2>2. a = IF d.outputs THEN [d EXCEPT !.contact = p] ELSE d
    BY <1>1, <2>1 DEF Driven
  <2> HIDE DEF d
  <2> QED
    BY <2>1, <2>2 DEF Records
<1>2. CASE a = [r EXCEPT !.error = TRUE]
  BY <1>2 DEF Records
<1> QED
  BY <1>1, <1>2 DEF SetOutput

\* What _twr_module_relay_hardware_init forgets, and what its writes leave.
Forgotten(r) == [r EXCEPT !.relay_state = "unknown"]
Written(r, p, o, driven) ==
  [r EXCEPT !.port = p, !.outputs = o, !.error = FALSE, !.still_driven = driven]

\* What they do not touch.
SameTask(a, r) ==
  /\ a.state = r.state /\ a.command = r.command /\ a.desired_state = r.desired_state
  /\ a.task_is_active = r.task_is_active

LEMMA ForgottenChanges ==
  ASSUME NEW r \in Records
  PROVE  /\ Forgotten(r) \in Records /\ SameTask(Forgotten(r), r)
         /\ Forgotten(r).relay_state = "unknown" /\ Forgotten(r).error = r.error
BY DEF Records, Forgotten, SameTask

LEMMA WrittenChanges ==
  ASSUME NEW r \in Records, NEW p \in Position \cup {"none"}, NEW o \in BOOLEAN,
         NEW driven \in BOOLEAN
  PROVE  /\ Written(r, p, o, driven) \in Records /\ SameTask(Written(r, p, o, driven), r)
         /\ Written(r, p, o, driven).relay_state = r.relay_state
         /\ Written(r, p, o, driven).port = p /\ Written(r, p, o, driven).still_driven = driven
<1> DEFINE d == Written(r, p, o, driven)
<1>1. d \in Records
  BY DEF Records, Written
<1>2. d.port = p /\ d.still_driven = driven /\ d.relay_state = r.relay_state
  BY DEF Records, Written
<1>3. SameTask(d, r)
  BY DEF Records, Written, SameTask
<1> QED
  BY <1>1, <1>2, <1>3

LEMMA DrivenChanges ==
  ASSUME NEW r \in Records
  PROVE  /\ Driven(r) \in Records /\ SameTask(Driven(r), r)
         /\ Driven(r).relay_state = r.relay_state /\ Driven(r).port = r.port
         /\ Driven(r).still_driven = r.still_driven
<1>1. CASE r.port = "none"
  BY <1>1 DEF Driven, SameTask
<1>2. CASE r.port # "none"
  <2>1. Driven(r) = r \/ Driven(r) = [r EXCEPT !.contact = r.port]
    BY DEF Driven
  <2>2. r.port \in Position
    BY <1>2 DEF Records
  <2> QED
    BY <2>1, <2>2 DEF Records, SameTask
<1> QED
  BY <1>1, <1>2

LEMMA HardwareInitForgets ==
  ASSUME NEW r \in Records, r.error, NEW a \in HardwareInit(r)
  PROVE  /\ a \in Records /\ SameTask(a, r) /\ a.relay_state = "unknown"
         /\ a.port # "none" => a.error \/ a.still_driven
<1> DEFINE u == Forgotten(r)
<1>1. u \in Records /\ SameTask(u, r) /\ u.relay_state = "unknown" /\ u.error
  BY ForgottenChanges
<1>2. CASE a = u
  BY <1>1, <1>2
<1>3. ASSUME NEW p \in {"none", r.port}, NEW o \in {TRUE, r.outputs},
             a = Driven(Written(u, p, o, p # "none"))
      PROVE  /\ a \in Records /\ SameTask(a, r) /\ a.relay_state = "unknown"
             /\ a.port # "none" => a.error \/ a.still_driven
  <2>1. p \in Position \cup {"none"} /\ o \in BOOLEAN
    BY DEF Records
  <2>2. PICK v \in Records : v = u
    BY <1>1
  <2>3. ASSUME NEW driven \in BOOLEAN, driven = (p # "none")
        PROVE  /\ Driven(Written(v, p, o, driven)) \in Records
               /\ SameTask(Driven(Written(v, p, o, driven)), v)
               /\ Driven(Written(v, p, o, driven)).relay_state = v.relay_state
               /\ Driven(Written(v, p, o, driven)).port # "none" =>
                     Driven(Written(v, p, o, driven)).still_driven
    <3>1. PICK d : d = Written(v, p, o, driven)
      OBVIOUS
    <3>2. d \in Records /\ SameTask(d, v)
      BY <2>1, <3>1, WrittenChanges
    <3>3. d.relay_state = v.relay_state /\ d.port = p /\ d.still_driven = driven
      BY <2>1, <3>1, WrittenChanges
    <3> QED
      BY <2>3, <3>1, <3>2, <3>3, DrivenChanges DEF SameTask
  <2>4. /\ a \in Records /\ SameTask(a, v) /\ a.relay_state = v.relay_state
        /\ a.port # "none" => a.still_driven
    <3>1. CASE p = "none"
      BY <1>3, <2>2, <2>3, <3>1
    <3>2. CASE p # "none"
      BY <1>3, <2>2, <2>3, <3>2
    <3> QED
      BY <3>1, <3>2
  <2> HIDE DEF u
  <2> QED
    BY <1>1, <2>2, <2>4 DEF SameTask
<1>4. a = u \/ \E p \in {"none", r.port}, o \in {TRUE, r.outputs} :
                  a = Driven(Written(u, p, o, p # "none"))
  BY DEF HardwareInit, Forgotten, Written
<1> QED
  BY <1>2, <1>3, <1>4

-----------------------------------------------------------------------------
LEMMA RelayInitHolds == RelayInit => RelayInv
  BY DEF RelayInit, RelayInv, Sound, Records, Rests, TellsTrue, Follows, Active, Known, Position

\* A command replaces the one before it, if that has not begun.
LEMMA SetPreserves ==
  ASSUME RelayInv, NEW p \in Position, SetState(p)
  PROVE  RelayInv'
BY DEF SetState, Commanded, RelayInv, Sound, Records, Rests, TellsTrue, Follows, Active, Known

LEMMA PulsePreserves ==
  ASSUME RelayInv, NEW p \in Position, Pulse(p)
  PROVE  RelayInv'
BY OppositeInPosition DEF Pulse, Commanded, RelayInv, Sound, Records, Rests, TellsTrue, Follows, Active, Known

\* A command begins: the contact is where it wants it first, or there is an
\* error.
LEMMA BeginsSound ==
  ASSUME NEW r \in Records, NEW w \in Position \cup {"unknown"}, Follows(r, w), Active(r),
         r.command # "none", NEW b \in Begins(r)
  PROVE  Sound(b, w)
<1>1. PICK a \in SetOutput(r, r.desired_state) :
         b = [a EXCEPT !.relay_state = r.desired_state, !.command = "none",
                       !.state = IF r.command = "set" THEN "SET_DEMAGNETIZE"
                                 ELSE "PULSE_DEMAGNETIZE"]
  BY DEF Begins
<1>2. r.desired_state \in Position /\ r.command \in {"set", "pulse"}
  BY DEF Records
<1>3. /\ a \in Records /\ a.task_is_active = r.task_is_active
      /\ ~ a.error /\ a.outputs => a.contact = r.desired_state
  BY <1>1, <1>2, TransferChanges
<1>4. /\ b \in Records /\ b.relay_state = r.desired_state /\ b.command = "none"
      /\ b.state = IF r.command = "set" THEN "SET_DEMAGNETIZE" ELSE "PULSE_DEMAGNETIZE"
      /\ b.error = a.error /\ b.outputs = a.outputs /\ b.contact = a.contact
      /\ b.task_is_active = a.task_is_active
  BY <1>1, <1>2, <1>3 DEF Records
<1>5. Rests(b) /\ TellsTrue(b) /\ Active(b) /\ Known(b)
  BY <1>2, <1>3, <1>4 DEF Rests, TellsTrue, Active, Known, Position
<1>6. Follows(b, w)
  BY <1>2, <1>4 DEF Follows
<1> QED
  BY <1>4, <1>5, <1>6 DEF Sound

LEMMA IdleStateSound ==
  ASSUME NEW r, NEW w, Sound(r, w), r.state = "IDLE", NEW b \in IdleState(r)
  PROVE  Sound(b, w)
<1>1. PICK a \in IF r.error THEN HardwareInit(r) ELSE {r} :
         b \in IF a.command = "none" THEN {[a EXCEPT !.task_is_active = FALSE]} ELSE Begins(a)
  BY DEF IdleState
<1>2. Sound(a, w) /\ a.state = "IDLE"
  <2>1. CASE r.error
    <3>1. /\ a \in Records /\ SameTask(a, r) /\ a.relay_state = "unknown"
          /\ a.port # "none" => a.error \/ a.still_driven
      BY <1>1, <2>1, HardwareInitForgets DEF Sound
    <3> QED
      BY <3>1 DEF SameTask, Sound, Rests, TellsTrue, Follows, Active, Known
  <2>2. CASE ~ r.error
    BY <1>1, <2>2
  <2> QED
    BY <2>1, <2>2
<1>3. CASE a.command = "none"
  <2>1. b = [a EXCEPT !.task_is_active = FALSE] /\ a \in Records
    BY <1>1, <1>2, <1>3 DEF Sound
  <2>2. /\ b \in Records /\ ~ b.task_is_active /\ b.state = a.state /\ b.command = a.command
        /\ b.desired_state = a.desired_state /\ b.relay_state = a.relay_state
        /\ b.error = a.error /\ b.port = a.port /\ b.outputs = a.outputs
        /\ b.contact = a.contact /\ b.still_driven = a.still_driven
    BY <2>1 DEF Records
  <2> QED
    BY <1>2, <1>3, <2>2 DEF Sound, Rests, TellsTrue, Follows, Active, Known
<1>4. CASE a.command # "none"
  BY <1>1, <1>2, <1>4, BeginsSound DEF Sound
<1> QED
  BY <1>3, <1>4

LEMMA ReverseSound ==
  ASSUME NEW r, NEW w, Sound(r, w), r.state = "PULSE_REVERSE", r.task_is_active,
         NEW b \in Reverse(r)
  PROVE  Sound(b, w)
<1>1. r \in Records /\ r.relay_state \in Position
  BY DEF Sound, Known, Records
<1> PICK p \in Position : p = Opposite(r.relay_state)
  BY <1>1, OppositeInPosition
<1>2. PICK a \in SetOutput(r, p) : b = [a EXCEPT !.relay_state = p, !.state = "PULSE_DEMAGNETIZE_2"]
  BY DEF Reverse
<1>3. /\ a \in Records /\ a.command = r.command /\ a.desired_state = r.desired_state
      /\ a.task_is_active = r.task_is_active
      /\ ~ a.error /\ a.outputs => a.contact = p
  BY <1>1, <1>2, TransferChanges
<1>4. b \in Records /\ b.relay_state = p /\ b.state = "PULSE_DEMAGNETIZE_2"
  BY <1>2, <1>3 DEF Records
<1>5. /\ b.error = a.error /\ b.outputs = a.outputs /\ b.contact = a.contact
      /\ b.command = r.command /\ b.desired_state = r.desired_state
      /\ b.task_is_active = r.task_is_active
  BY <1>2, <1>3 DEF Records
<1>6. Rests(b) /\ TellsTrue(b) /\ Active(b) /\ Known(b)
  BY <1>3, <1>4, <1>5 DEF Rests, TellsTrue, Active, Known, Position
<1>7. Follows(b, w)
  BY <1>4, <1>5 DEF Sound, Follows
<1> QED
  BY <1>4, <1>6, <1>7 DEF Sound

\* The coil is released, unless the transfer fails.
LEMMA DemagnetizedSound ==
  ASSUME NEW r, NEW w, Sound(r, w), r.task_is_active, NEW next,
         \/ r.state \in {"SET_DEMAGNETIZE", "PULSE_DEMAGNETIZE_2"} /\ next = "IDLE"
         \/ r.state = "PULSE_DEMAGNETIZE" /\ next = "PULSE_REVERSE",
         NEW b \in Demagnetized(r, next)
  PROVE  Sound(b, w)
<1>1. \/ b = [r EXCEPT !.port = "none", !.state = next]
      \/ b = [r EXCEPT !.error = TRUE, !.state = next]
  BY DEF Demagnetized, SetOutputDisable, Sound, Records
<1>2. b \in Records /\ b.state = next
  BY <1>1 DEF Sound, Records
<1>3. /\ b.relay_state = r.relay_state /\ b.command = r.command
      /\ b.desired_state = r.desired_state /\ b.task_is_active /\ b.outputs = r.outputs
      /\ b.contact = r.contact
      /\ (b.port = "none" /\ b.error = r.error) \/ b.error
  BY <1>1 DEF Sound, Records
<1>4. Rests(b) /\ TellsTrue(b) /\ Active(b)
  BY <1>3 DEF Sound, Rests, TellsTrue, Active
<1>5. Follows(b, w) /\ Known(b)
  BY <1>2, <1>3 DEF Sound, Follows, Known
<1> QED
  BY <1>2, <1>4, <1>5 DEF Sound

LEMMA RelayTaskPreserves ==
  ASSUME RelayInv, Task
  PROVE  RelayInv'
<1>1. relay.task_is_active /\ wanted' = wanted
  BY DEF Task
<1>2. relay.state \in {"IDLE", "SET_DEMAGNETIZE", "PULSE_DEMAGNETIZE", "PULSE_REVERSE",
                       "PULSE_DEMAGNETIZE_2"}
  BY DEF RelayInv, Sound, Records
<1>3. CASE relay.state = "IDLE"
  BY <1>1, <1>3, IdleStateSound DEF Task, RelayInv
<1>4. CASE relay.state = "SET_DEMAGNETIZE"
  BY <1>1, <1>4, DemagnetizedSound DEF Task, RelayInv
<1>5. CASE relay.state = "PULSE_DEMAGNETIZE"
  BY <1>1, <1>5, DemagnetizedSound DEF Task, RelayInv
<1>6. CASE relay.state = "PULSE_REVERSE"
  BY <1>1, <1>6, ReverseSound DEF Task, RelayInv
<1>7. CASE relay.state = "PULSE_DEMAGNETIZE_2"
  BY <1>1, <1>7, DemagnetizedSound DEF Task, RelayInv
<1> QED
  BY <1>2, <1>3, <1>4, <1>5, <1>6, <1>7

LEMMA RelayNextPreserves == RelayInv /\ [RelayNext]_relayVars => RelayInv'
<1>1. SUFFICES ASSUME RelayInv, [RelayNext]_relayVars PROVE RelayInv'
  OBVIOUS
<1>2. ASSUME NEW p \in Position, SetState(p) \/ Pulse(p) PROVE RelayInv'
  BY <1>1, <1>2, SetPreserves, PulsePreserves
<1>3. CASE Toggle
  <2>1. relay.relay_state \in Position
    BY <1>1, <1>3 DEF Toggle, RelayInv, Sound, Records
  <2> QED
    BY <1>1, <1>3, <2>1, OppositeInPosition, SetPreserves DEF Toggle
<1>4. CASE Task
  BY <1>1, <1>4, RelayTaskPreserves
<1>5. CASE UNCHANGED relayVars
  BY <1>1, <1>5 DEF relayVars, RelayInv
<1> QED
  BY <1>1, <1>2, <1>3, <1>4, <1>5 DEF RelayNext

\* Whichever commands are given while others are carried out, and whichever
\* transfers fail: the coil is not left energized, the state that is told is
\* that of the contact, and the last command has the last word.
THEOREM TheRelayAgrees == RelaySpec => []RelayAgrees
<1>1. RelayInit => RelayInv
  BY RelayInitHolds
<1>2. RelayInv /\ [RelayNext]_relayVars => RelayInv'
  BY RelayNextPreserves
<1>3. RelayInv => RelayAgrees
  BY DEF RelayInv, Sound, Rests, TellsTrue, Follows, Active, RelayAgrees, CoilRests, StateIsTrue,
         LastCommandWins
<1> QED
  BY <1>1, <1>2, <1>3, PTL DEF RelaySpec

-----------------------------------------------------------------------------
(***************************************************************************)
(* The strip of LEDs.                                                      *)
(***************************************************************************)
IsFrame(f) == f = [p \in Pixel |-> f[p]]

StripTyped ==
    /\ IsFrame(strip) /\ IsFrame(frame) /\ IsFrame(shown)
    /\ sent \in 0 .. count

\* What is in the buffer is the frame that is being sent, and the pixels that
\* have been sent show it.
FrameKept ==
    phase = "dma" /\ ~ drawn =>
        strip = frame /\ \A p \in Pixel : p < sent => shown[p] = frame[p]

StripIInv == StripTyped /\ PllHeld /\ FrameKept

-----------------------------------------------------------------------------
LEMMA StripInitHolds ==
  ASSUME count \in Nat
  PROVE  StripInit => StripIInv
  BY DEF StripInit, StripIInv, StripTyped, IsFrame, PllHeld, Ready, FrameKept, Off

\* What a task leaves in the buffer is a frame, which it sends or not.
Draws(f) ==
    /\ Ready /\ IsFrame(f)
    /\ strip' = f
    /\ Write(f) \/ UNCHANGED <<phase, sent, pll, frame, drawn>>
    /\ UNCHANGED shown

LEMMA ShowsDraws ==
  ASSUME NEW f, NEW l, NEW r, Ready, IsFrame(f), Shows(f, l, r)
  PROVE  Draws(f)
  BY DEF Shows, Draws

\* Every effect draws a frame, and only when the last one has been sent.
LEMMA EffectDraws ==
  ASSUME StripTyped, EffectTask
  PROVE  \E f : Draws(f)
<1>1. CASE TestTask
  <2> DEFINE f == [strip EXCEPT ![led] = TestColor(round)]
  <2>1. IsFrame(f)
    BY DEF StripTyped, IsFrame
  <2>2. Draws(f)
    BY <1>1, <2>1, ShowsDraws DEF TestTask, Runs, Draws, Ends
  <2> QED
    BY <2>2
<1>2. CASE WipeTask
  <2> DEFINE f == [strip EXCEPT ![led] = Color]
  <2>1. IsFrame(f)
    BY DEF StripTyped, IsFrame
  <2>2. Draws(f)
    BY <1>2, <2>1, ShowsDraws DEF WipeTask, Runs, Draws, Ends
  <2> QED
    BY <2>2
<1>3. CASE RainbowTask
  BY <1>3, ShowsDraws DEF RainbowTask, Runs, IsFrame
<1>4. CASE RainbowCycleTask
  BY <1>4, ShowsDraws DEF RainbowCycleTask, Runs, IsFrame
<1>5. CASE TheaterChaseTask
  BY <1>5, ShowsDraws DEF TheaterChaseTask, Runs, Chase, IsFrame
<1>6. CASE TheaterChaseRainbowTask
  BY <1>6, ShowsDraws DEF TheaterChaseRainbowTask, Runs, Chase, IsFrame
<1>7. CASE StroboscopeTask
  BY <1>7, ShowsDraws DEF StroboscopeTask, Runs, IsFrame
<1>8. CASE IcicleTask
  BY <1>8, ShowsDraws DEF IcicleTask, Runs, IsFrame
<1>9. CASE PulseColorTask
  BY <1>9, ShowsDraws DEF PulseColorTask, Runs, IsFrame
<1> QED
  BY <1>1, <1>2, <1>3, <1>4, <1>5, <1>6, <1>7, <1>8, <1>9 DEF EffectTask

-----------------------------------------------------------------------------
LEMMA DrawsPreserves ==
  ASSUME count \in Nat, StripIInv, NEW f, Draws(f)
  PROVE  StripIInv'
<1>1. StripTyped'
  BY DEF Draws, Write, StripIInv, StripTyped
<1>2. PllHeld'
  BY DEF Draws, Write, StripIInv, PllHeld, Ready
<1>3. FrameKept'
  BY DEF Draws, Write, Ready, FrameKept, Pixel
<1> QED
  BY <1>1, <1>2, <1>3 DEF StripIInv

LEMMA StripTransferPreserves ==
  ASSUME count \in Nat, StripIInv, SendPixel \/ DmaDone \/ PauseEnds \/ TransferTask
  PROVE  StripIInv'
<1>1. CASE SendPixel
  <2>1. StripTyped'
    <3>1. IsFrame(shown')
      BY <1>1 DEF SendPixel, StripIInv, StripTyped, IsFrame
    <3>2. sent' \in 0 .. count
      BY <1>1 DEF SendPixel, StripIInv, StripTyped
    <3> QED
      BY <1>1, <3>1, <3>2 DEF SendPixel, StripIInv, StripTyped
  <2>2. FrameKept'
    <3>1. SUFFICES ASSUME ~ drawn, NEW p \in Pixel, p < sent + 1
                   PROVE  strip = frame /\ shown'[p] = frame[p]
      BY <1>1 DEF SendPixel, FrameKept, StripIInv, StripTyped
    <3>2. strip = frame
      BY <1>1, <3>1 DEF SendPixel, StripIInv, FrameKept
    <3>3. CASE p = sent
      BY <1>1, <3>1, <3>2, <3>3 DEF SendPixel, StripIInv, StripTyped, IsFrame, Pixel
    <3>4. CASE p < sent
      BY <1>1, <3>1, <3>2, <3>4 DEF SendPixel, StripIInv, StripTyped, IsFrame, FrameKept, Pixel
    <3> QED
      BY <3>1, <3>2, <3>3, <3>4 DEF Pixel, StripIInv, StripTyped
  <2> QED
    BY <1>1, <2>1, <2>2 DEF SendPixel, StripIInv, PllHeld, Ready
<1>2. CASE DmaDone \/ PauseEnds
  BY <1>2 DEF DmaDone, PauseEnds, StripIInv, StripTyped, PllHeld, Ready, FrameKept
<1>3. CASE TransferTask
  BY <1>3 DEF TransferTask, StripIInv, StripTyped, PllHeld, Ready, FrameKept
<1> QED
  BY <1>1, <1>2, <1>3

\* The application, which draws and writes whatever is being sent.
LEMMA StripCallPreserves ==
  ASSUME count \in Nat, StripIInv,
         Draw \/ AppWrite \/ EffectStop \/ \E e \in Effects : EffectStart(e)
  PROVE  StripIInv'
<1>1. CASE Draw
  BY <1>1 DEF Draw, Call, StripIInv, StripTyped, IsFrame, PllHeld, Ready, FrameKept
<1>2. CASE AppWrite
  <2>1. StripTyped'
    BY <1>2 DEF AppWrite, Write, StripIInv, StripTyped
  <2>2. PllHeld'
    BY <1>2 DEF AppWrite, Write, StripIInv, PllHeld, Ready
  <2>3. FrameKept'
    BY <1>2 DEF AppWrite, Write, Ready, StripIInv, FrameKept, Pixel
  <2> QED
    BY <2>1, <2>2, <2>3 DEF StripIInv
<1>3. CASE EffectStop
  BY <1>3 DEF EffectStop, Call, StripIInv, StripTyped, PllHeld, Ready, FrameKept
<1>4. ASSUME NEW e \in Effects, EffectStart(e)
      PROVE  StripIInv'
  BY <1>4 DEF EffectStart, Call, StripIInv, StripTyped, IsFrame, PllHeld, Ready, FrameKept
<1> QED
  BY <1>1, <1>2, <1>3, <1>4

LEMMA StripNextPreserves ==
  ASSUME count \in Nat, StripIInv, [StripNext]_stripVars
  PROVE  StripIInv'
<1>1. CASE EffectTask
  BY <1>1, EffectDraws, DrawsPreserves DEF StripIInv
<1>2. CASE SendPixel \/ DmaDone \/ PauseEnds \/ TransferTask
  BY <1>2, StripTransferPreserves
<1>3. CASE Draw \/ AppWrite \/ EffectStop \/ \E e \in Effects : EffectStart(e)
  BY <1>3, StripCallPreserves
<1>4. CASE UNCHANGED stripVars
  BY <1>4 DEF stripVars, StripIInv, StripTyped, PllHeld, Ready, FrameKept
<1> QED
  BY <1>1, <1>2, <1>3, <1>4 DEF StripNext, Works

-----------------------------------------------------------------------------
\* When the last pixel has been sent, all of them show the frame.
LEMMA WholeAtEnd ==
  ASSUME count \in Nat, StripIInv, [StripNext]_stripVars
  PROVE  [phase' = "pause" /\ phase # "pause" /\ ~ drawn => shown = frame]_stripVars
<1>1. SUFFICES ASSUME StripNext, phase' = "pause", phase # "pause", ~ drawn
               PROVE  shown = frame
  OBVIOUS
<1>2. CASE DmaDone
  <2>1. \A p \in Pixel : shown[p] = frame[p]
    BY <1>1, <1>2 DEF DmaDone, StripIInv, FrameKept, Pixel
  <2> QED
    BY <2>1 DEF StripIInv, StripTyped, IsFrame
<1>3. CASE EffectTask
  BY <1>1, <1>3, EffectDraws DEF StripIInv, Draws, Write
<1>4. CASE SendPixel \/ PauseEnds \/ TransferTask
  BY <1>1, <1>4 DEF SendPixel, PauseEnds, TransferTask
<1>5. CASE Draw \/ AppWrite \/ EffectStop \/ \E e \in Effects : EffectStart(e)
  BY <1>1, <1>5 DEF Draw, AppWrite, Write, EffectStop, EffectStart
<1> QED
  BY <1>1, <1>2, <1>3, <1>4, <1>5 DEF StripNext, Works

\* However many pixels there are, the effects' tasks never draw into a frame
\* that is being sent, and no transfer takes the PLL twice or gives it back
\* too early.
THEOREM FramesAreWhole ==
  ASSUME count \in Nat
  PROVE  StripSpec => []PllHeld /\ FrameShownWhole
<1>1. StripInit => StripIInv
  BY StripInitHolds
<1>2. StripIInv /\ [StripNext]_stripVars => StripIInv'
  BY StripNextPreserves
<1>3. StripIInv => PllHeld
  BY DEF StripIInv
<1>4. StripIInv /\ [StripNext]_stripVars
        => [phase' = "pause" /\ phase # "pause" /\ ~ drawn => shown = frame]_stripVars
  BY WholeAtEnd
<1> QED
  BY <1>1, <1>2, <1>3, <1>4, PTL DEF StripSpec, FrameShownWhole

-----------------------------------------------------------------------------
(***************************************************************************)
(* What has been shown when a finite effect says that it is over.          *)
(***************************************************************************)
\* The pixel has shown the colour, or has it in the frame that is being sent.
ShownOrSent(p, color) ==
    <<p, color>> \in seen \/ (phase = "dma" /\ sent <= p /\ strip[p] = color)

TestSeen ==
    /\ led \in Pixel /\ round \in 0 .. 4
    /\ \A p \in Pixel, r \in 0 .. 3 :
          r < round \/ (r = round /\ p < led) => ShownOrSent(p, TestColor(r))

WipeSeen ==
    /\ led \in Pixel
    /\ \A p \in Pixel : p < led => ShownOrSent(p, Color)

EndInv ==
    ~ disturbed =>
        /\ effect = "test" => TestSeen
        /\ effect = "color_wipe" => WipeSeen

\* Nothing is forgotten by a step that keeps the effect and its place.
LEMMA SeenKept ==
  ASSUME EndInv, UNCHANGED <<effect, led, round, disturbed>>,
         ~ disturbed /\ effect \in Finite =>
            \A p \in Pixel : \A color : ShownOrSent(p, color) => ShownOrSent(p, color)'
  PROVE  EndInv'
<1>1. SUFFICES ASSUME ~ disturbed PROVE (effect = "test" => TestSeen') /\ (effect = "color_wipe" => WipeSeen')
  BY DEF EndInv
<1>2. ASSUME effect = "test" PROVE TestSeen'
  BY <1>1, <1>2 DEF EndInv, TestSeen, Finite
<1>3. ASSUME effect = "color_wipe" PROVE WipeSeen'
  BY <1>1, <1>3 DEF EndInv, WipeSeen, Finite
<1> QED
  BY <1>2, <1>3

LEMMA TransferKeepsSeen ==
  ASSUME count \in Nat, StripIInv, EndInv, SendPixel \/ DmaDone \/ PauseEnds \/ TransferTask
  PROVE  EndInv'
<1>1. CASE SendPixel
  <2>1. ASSUME ~ disturbed, effect \in Finite, NEW p \in Pixel, NEW color, ShownOrSent(p, color)
        PROVE  ShownOrSent(p, color)'
    <3>1. seen' = seen \cup {<<sent, strip[sent]>>}
      BY <1>1, <2>1 DEF SendPixel
    <3>2. CASE <<p, color>> \in seen
      BY <3>1, <3>2 DEF ShownOrSent
    <3>3. CASE sent <= p /\ strip[p] = color
      <4>1. CASE p = sent
        BY <3>1, <3>3, <4>1 DEF ShownOrSent
      <4>2. CASE p # sent
        BY <1>1, <3>3, <4>2 DEF ShownOrSent, SendPixel, Pixel, StripIInv, StripTyped
      <4> QED
        BY <4>1, <4>2
    <3> QED
      BY <2>1, <3>2, <3>3 DEF ShownOrSent
  <2>2. UNCHANGED <<effect, led, round, disturbed>>
    BY <1>1 DEF SendPixel
  <2> QED
    BY <2>1, <2>2, SeenKept
<1>2. CASE DmaDone
  BY <1>2, SeenKept DEF DmaDone, ShownOrSent, Pixel
<1>3. CASE PauseEnds \/ TransferTask
  BY <1>3, SeenKept DEF PauseEnds, TransferTask, ShownOrSent
<1> QED
  BY <1>1, <1>2, <1>3

\* A task runs when nothing is being sent, so that what it has drawn before
\* has been shown; what it draws now is sent.
LEMMA TestKeepsSeen ==
  ASSUME count \in Nat \ {0}, StripIInv, EndInv, TestTask
  PROVE  EndInv'
<1>1. SUFFICES ASSUME ~ disturbed, effect' = "test" PROVE TestSeen'
  BY DEF TestTask, Runs, Shows, Ends, EndInv
<1> DEFINE last == led + 1 = count
           f == [strip EXCEPT ![led] = TestColor(round)]
           r1 == IF last THEN round + 1 ELSE round
           l1 == IF last THEN 0 ELSE led + 1
<1>2. r1 < 5 /\ Shows(f, l1, r1) /\ effect = "test" /\ Ready /\ disturbed' = disturbed
  BY <1>1 DEF TestTask, Runs, Ends, Shows
<1>3. led \in Pixel /\ round \in 0 .. 4
  BY <1>1, <1>2 DEF EndInv, TestSeen
<1>4. led' \in Pixel /\ round' \in 0 .. 4
  BY <1>2, <1>3 DEF Shows, Pixel
<1>5. phase' = "dma" /\ sent' = 0 /\ strip' = f /\ seen' = seen
  BY <1>2 DEF Shows, Write
<1>6. f[led] = TestColor(round)
  BY <1>3 DEF StripIInv, StripTyped, IsFrame
<1>7. ASSUME NEW p \in Pixel, NEW r \in 0 .. 3, r < round' \/ (r = round' /\ p < led')
      PROVE  ShownOrSent(p, TestColor(r))'
  <2>1. CASE p = led /\ r = round
    BY <1>5, <1>6, <2>1 DEF ShownOrSent, Pixel, TestColor
  <2>2. CASE ~ (p = led /\ r = round)
    <3>1. r < round \/ (r = round /\ p < led)
      BY <1>2, <1>3, <1>7, <2>2 DEF Shows, Pixel
    <3>2. ShownOrSent(p, TestColor(r))
      BY <1>1, <1>2, <3>1 DEF EndInv, TestSeen
    <3> QED
      BY <1>2, <1>5, <3>2 DEF ShownOrSent, Ready, TestColor
  <2> QED
    BY <2>1, <2>2
<1> QED
  BY <1>4, <1>7 DEF TestSeen

LEMMA WipeKeepsSeen ==
  ASSUME count \in Nat \ {0}, StripIInv, EndInv, WipeTask
  PROVE  EndInv'
<1>1. SUFFICES ASSUME ~ disturbed, effect' = "color_wipe" PROVE WipeSeen'
  BY DEF WipeTask, Runs, Shows, Ends, EndInv
<1> DEFINE f == [strip EXCEPT ![led] = Color]
<1>2. led + 1 < count /\ Shows(f, led + 1, round) /\ effect = "color_wipe" /\ Ready
  BY <1>1 DEF WipeTask, Runs, Ends, Shows
<1>3. led \in Pixel
  BY <1>1, <1>2 DEF EndInv, WipeSeen, Shows
<1>4. f[led] = Color
  BY <1>3 DEF StripIInv, StripTyped, IsFrame
<1>5. phase' = "dma" /\ sent' = 0 /\ strip' = f /\ seen' = seen /\ led' = led + 1
  BY <1>2 DEF Shows, Write
<1>6. ASSUME NEW p \in Pixel, p < led' PROVE ShownOrSent(p, Color)'
  <2>1. CASE p = led
    BY <1>4, <1>5, <2>1 DEF ShownOrSent, Pixel
  <2>2. CASE p < led
    BY <1>1, <1>2, <1>5, <2>2 DEF EndInv, WipeSeen, ShownOrSent, Ready, Shows
  <2> QED
    BY <1>3, <1>5, <1>6, <2>1, <2>2 DEF Pixel
<1> QED
  BY <1>2, <1>3, <1>5, <1>6 DEF WipeSeen, Pixel

LEMMA EndInvPreserved ==
  ASSUME count \in Nat \ {0}, StripIInv, EndInv, [StripNext]_stripVars
  PROVE  EndInv'
<1>1. CASE SendPixel \/ DmaDone \/ PauseEnds \/ TransferTask
  BY <1>1, TransferKeepsSeen
<1>2. CASE TestTask \/ WipeTask
  BY <1>2, TestKeepsSeen, WipeKeepsSeen
<1>3. CASE EffectTask /\ ~ (TestTask \/ WipeTask)
  <2>1. effect' = effect /\ effect \notin Finite
    BY <1>3 DEF EffectTask, RainbowTask, RainbowCycleTask, TheaterChaseTask,
                TheaterChaseRainbowTask, StroboscopeTask, IcicleTask, PulseColorTask, Runs, Shows,
                Finite
  <2> QED
    BY <2>1 DEF EndInv, Finite
<1>4. CASE Draw \/ EffectStop
  BY <1>4 DEF Draw, EffectStop, EndInv
<1>5. CASE AppWrite
  BY <1>5, SeenKept DEF AppWrite, Write, Ready, ShownOrSent
<1>6. ASSUME NEW e \in Effects, EffectStart(e) PROVE EndInv'
  BY <1>6 DEF EffectStart, EndInv, TestSeen, WipeSeen, Pixel
<1>7. CASE UNCHANGED stripVars
  BY <1>7, SeenKept DEF stripVars, ShownOrSent
<1> QED
  BY <1>1, <1>2, <1>3, <1>4, <1>5, <1>6, <1>7 DEF StripNext, Works

LEMMA ToldAtEnd ==
  ASSUME count \in Nat \ {0}, StripIInv, EndInv, StripNext, done = "none", done' # "none", ~ disturbed
  PROVE  \A p \in Pixel :
             IF done' = "test" THEN \A r \in 0 .. 3 : <<p, TestColor(r)>> \in seen
             ELSE p < count - 1 => <<p, Color>> \in seen
<1>1. CASE TestTask
  <2>1. done' = "test" /\ Ready /\ effect = "test" /\ led + 1 = count /\ round + 1 = 5
    <3>1. effect = "test" /\ Ready
      BY <1>1 DEF TestTask, Runs
    <3>2. round \in 0 .. 4
      BY <3>1 DEF EndInv, TestSeen
    <3> QED
      BY <1>1, <3>1, <3>2 DEF TestTask, Runs, Shows, Ends
  <2>2. ASSUME NEW p \in Pixel, NEW r \in 0 .. 3 PROVE <<p, TestColor(r)>> \in seen
    <3>1. TestSeen /\ round = 4
      BY <2>1 DEF EndInv, TestSeen
    <3>2. ShownOrSent(p, TestColor(r))
      BY <3>1 DEF TestSeen
    <3> QED
      BY <2>1, <3>2 DEF ShownOrSent, Ready
  <2> QED
    BY <2>1, <2>2
<1>2. CASE WipeTask
  <2>1. done' = "color_wipe" /\ Ready /\ effect = "color_wipe" /\ led + 1 = count
    BY <1>2 DEF WipeTask, Runs, Shows, Ends
  <2>2. ASSUME NEW p \in Pixel, p < count - 1 PROVE <<p, Color>> \in seen
    <3>1. WipeSeen /\ p < led
      BY <2>1, <2>2 DEF EndInv, WipeSeen, Pixel
    <3> QED
      BY <2>1, <3>1 DEF WipeSeen, ShownOrSent, Ready
  <2> QED
    BY <2>1, <2>2
<1>3. done' = done \/ done' = "none" \/ TestTask \/ WipeTask
  BY DEF StripNext, Works, EffectTask, RainbowTask, RainbowCycleTask, TheaterChaseTask,
         TheaterChaseRainbowTask, StroboscopeTask, IcicleTask, PulseColorTask, Shows, SendPixel,
         DmaDone, PauseEnds, TransferTask, Draw, AppWrite, EffectStop, EffectStart
<1> QED
  BY <1>1, <1>2, <1>3

\* Whatever the length of the strip, when a test or a wipe says that it is
\* over its pixels have shown its colours, all but the last of them.
THEOREM EndsAreTrue ==
  ASSUME count \in Nat \ {0}
  PROVE  StripSpec => EndIsTrue
<1>1. StripInit => StripIInv /\ EndInv
  BY StripInitHolds DEF StripInit, EndInv
<1>2. StripIInv /\ EndInv /\ [StripNext]_stripVars => (StripIInv /\ EndInv)'
  BY StripNextPreserves, EndInvPreserved
<1>3. StripIInv /\ EndInv /\ [StripNext]_stripVars
        => [done = "none" /\ done' # "none" /\ ~ disturbed =>
              \A p \in Pixel :
                  IF done' = "test" THEN \A r \in 0 .. 3 : <<p, TestColor(r)>> \in seen
                  ELSE p < count - 1 => <<p, Color>> \in seen]_stripVars
  BY ToldAtEnd
<1> QED
  BY <1>1, <1>2, <1>3, PTL DEF StripSpec, EndIsTrue

-----------------------------------------------------------------------------
(***************************************************************************)
(* The transmitter of a UART.                                              *)
(***************************************************************************)
Registers == [txeie : BOOLEAN, tcie : BOOLEAN, tc : BOOLEAN,
              tdr : Bytes \union {NONE}, shift : Bytes \union {NONE}]
SlotRecords == [owner : {"free", "write", "other"}, due : BOOLEAN]
Stretches == {"idle", "chunk", "plan", "enable", "mark"}
WriteCalls == [at : Stretches, msg : Seq(Bytes), i : Nat, written : 0 .. MaxBytes]

WriteTyped ==
    /\ fifo \in Seq(Bytes) /\ Len(fifo) <= Capacity
    /\ usart \in Registers
    /\ initialized \in BOOLEAN /\ in_progress \in BOOLEAN /\ overlapped \in BOOLEAN
    /\ task_id \in Slots \union {0}
    /\ slots \in [Slots -> SlotRecords]
    /\ clock \in Int
    /\ made \in 0 .. MaxBytes /\ deinits \in 0 .. MaxDeinits
    /\ wire \in Seq(Bytes) /\ told \in Seq(Bytes)

\* How far a call has come.
CallMade ==
    /\ call \in WriteCalls
    /\ Len(call.msg) <= MaxBytes /\ call.written <= Len(call.msg)
    /\ (call.at = "chunk" => call.written <= call.i /\ call.i < Len(call.msg))
    /\ (call.at # "idle" => initialized)

\* A write is underway from when its task is registered ...
Held == in_progress \/ call.at \in {"enable", "mark"}
Underwritten == initialized /\ Held

\* ... and while it is, its task is the last that the channel registered.
TaskRegistered ==
    /\ (Underwritten => task_id \in Slots)
    /\ \A s \in Slots : slots[s].owner = "write" <=> (Underwritten /\ s = task_id)

\* A deinit in the middle of a write leaves the clock enabled.
Leaks == clock - (IF Held THEN 1 ELSE 0)
ClockCounted == Leaks \in 0 .. (IF initialized THEN deinits ELSE deinits - 1)

\* The USART rests but for a write, and that has ended when its task is due.
Quiet == ~ usart.txeie /\ ~ usart.tcie /\ ~ Transmitting
TaskDue == slots[task_id].due
QuietWhenDone ==
    /\ (usart.tc => ~ Transmitting)
    /\ (~ initialized => Quiet)
    /\ ~ overlapped =>
          /\ (~ Underwritten => Quiet)
          /\ (call.at # "idle" => ~ in_progress)
          /\ (call.at = "enable" => Quiet /\ ~ TaskDue)
          /\ (Underwritten /\ usart.tcie => ~ usart.txeie /\ fifo = <<>>)
          /\ (Underwritten /\ TaskDue => fifo = <<>> /\ Quiet)

WriteInv == WriteTyped /\ CallMade /\ TaskRegistered /\ ClockCounted /\ QuietWhenDone

\* The steps of Next by name.
Steps ==
    \/ \E n \in Lengths : CallWrite(n)
    \/ WriteChunk \/ ReturnZero \/ RegisterTask \/ PutOffTask \/ EnableTx \/ ReturnWritten
    \/ Shift \/ Sent \/ IrqHandler \/ WriteTask \/ OtherRegisters \/ Deinit \/ Reinit

LEMMA NextSteps == Next <=> Steps
    BY DEF Next, Steps, AsyncWrite, Hardware

LEMMA WriteBegins == Init => WriteInv
<1> SUFFICES ASSUME Init PROVE WriteInv
    OBVIOUS
<1> USE BoundsAssumption DEF Init
<1>1. WriteTyped
    <2>1. usart \in Registers
        BY DEF Registers, NONE
    <2>2. slots \in [Slots -> SlotRecords]
        BY DEF SlotRecords, FreeSlot
    <2>3. fifo \in Seq(Bytes) /\ wire \in Seq(Bytes) /\ told \in Seq(Bytes) /\ Len(fifo) <= Capacity
        OBVIOUS
    <2>4. initialized \in BOOLEAN /\ in_progress \in BOOLEAN /\ overlapped \in BOOLEAN
        OBVIOUS
    <2>5. task_id \in Slots \union {0} /\ clock \in Int
        OBVIOUS
    <2>6. made \in 0 .. MaxBytes /\ deinits \in 0 .. MaxDeinits
        OBVIOUS
    <2> HIDE DEF Init
    <2> QED
        BY <2>1, <2>2, <2>3, <2>4, <2>5, <2>6 DEF WriteTyped
<1>2. CallMade
    BY DEF CallMade, WriteCalls, NoCall, Stretches
<1>3. TaskRegistered
    BY DEF TaskRegistered, Underwritten, Held, FreeSlot, NoCall
<1>4. ClockCounted
    BY DEF ClockCounted, Leaks, Held, NoCall
<1>5. QuietWhenDone
    BY DEF QuietWhenDone, Quiet, Transmitting, Underwritten, Held, NoCall
<1> QED
    BY <1>1, <1>2, <1>3, <1>4, <1>5 DEF WriteInv

LEMMA PartOf ==
    ASSUME NEW S, NEW s \in Seq(S), NEW a \in Nat, NEW b \in Nat, a <= b, b <= Len(s)
    PROVE  /\ SubSeq(s, a + 1, b) \in Seq(S) /\ Len(SubSeq(s, a + 1, b)) = b - a
           /\ \A j \in 1 .. b - a : SubSeq(s, a + 1, b)[j] = s[a + j]
<1> DEFINE from == a + 1
           part == SubSeq(s, from, b)
<1>1. from \in Int /\ b \in Int /\ from - 1 = a /\ \A i \in from .. b : i \in 1 .. Len(s)
    OBVIOUS
<1>2. \A i \in from .. b : s[i] \in S
    BY <1>1
<1> HIDE DEF from
<1>3. /\ part \in Seq(S) /\ Len(part) = IF from <= b THEN b - from + 1 ELSE 0
      /\ \A j \in 1 .. b - from + 1 : part[j] = s[from + j - 1]
    BY <1>1, <1>2, SubSeqProperties
<1> HIDE DEF part
<1>4. Len(part) = b - a
    BY <1>1, <1>3
<1>5. \A j \in 1 .. b - a : part[j] = s[a + j]
    <2> TAKE j \in 1 .. b - a
    <2>1. j \in 1 .. b - from + 1 /\ from + j - 1 = a + j
        BY <1>1
    <2> QED
        BY <1>3, <2>1
<1> QED
    BY <1>3, <1>4, <1>5 DEF part, from

\* What fits of a chunk is put into the buffer.
LEMMA ChunkWritten ==
    ASSUME WriteTyped, CallMade, WriteChunk
    PROVE  \E n \in Nat :
              /\ n <= Least(CHUNK, Len(call.msg) - call.i) /\ n <= Capacity - Len(fifo)
              /\ fifo' = fifo \o SubSeq(call.msg, call.i + 1, call.i + n)
              /\ fifo' \in Seq(Bytes) /\ Len(fifo') = Len(fifo) + n
              /\ call' = [call EXCEPT !.i = @ + CHUNK, !.written = @ + n,
                            !.at = IF call.i + CHUNK < Len(call.msg) THEN "chunk" ELSE "plan"]
<1> DEFINE msg == call.msg
           from == call.i
           to == Least(from + CHUNK, Len(msg))
           chunk == SubSeq(msg, from + 1, to)
           n == Least(Len(chunk), Room)
<1>1. msg \in Seq(Bytes) /\ Len(msg) \in Nat /\ from \in Nat /\ from < Len(msg) /\ CHUNK \in Nat \ {0}
    BY BoundsAssumption DEF CallMade, WriteCalls, WriteChunk
<1>2. Room \in Nat /\ Room = Capacity - Len(fifo) /\ fifo \in Seq(Bytes) /\ Len(fifo) \in Nat
    BY BoundsAssumption DEF WriteTyped, Room
<1>3. fifo' = fifo \o SubSeq(chunk, 1, n)
    BY DEF WriteChunk
<1>4. call' = [call EXCEPT !.i = @ + CHUNK, !.written = @ + n,
                 !.at = IF call.i + CHUNK < Len(call.msg) THEN "chunk" ELSE "plan"]
    BY DEF WriteChunk
<1> HIDE DEF msg, from
<1>5. to \in Nat /\ from < to /\ to <= Len(msg) /\ to - from = Least(CHUNK, Len(msg) - from)
    BY <1>1 DEF Least
<1> HIDE DEF to
<1>6. /\ chunk \in Seq(Bytes) /\ Len(chunk) = to - from
      /\ \A j \in 1 .. to - from : chunk[j] = msg[from + j]
    BY <1>1, <1>5, PartOf
<1> HIDE DEF chunk
<1>7. n \in Nat /\ n <= to - from /\ n <= Room
    BY <1>1, <1>2, <1>5, <1>6 DEF Least
<1> HIDE DEF n
<1>8. SubSeq(chunk, 1, n) = SubSeq(msg, from + 1, from + n)
    <2> DEFINE a == SubSeq(chunk, 1, n)
               b == SubSeq(msg, from + 1, from + n)
    <2>1. a \in Seq(Bytes) /\ Len(a) = n /\ \A j \in 1 .. n : a[j] = chunk[j]
        BY <1>1, <1>5, <1>6, <1>7
    <2>2. b \in Seq(Bytes) /\ Len(b) = n /\ \A j \in 1 .. n : b[j] = msg[from + j]
        <3> DEFINE end == from + n
        <3>1. end \in Nat /\ from <= end /\ end <= Len(msg) /\ end - from = n
            BY <1>1, <1>5, <1>7
        <3> HIDE DEF end
        <3>2. /\ SubSeq(msg, from + 1, end) \in Seq(Bytes)
              /\ Len(SubSeq(msg, from + 1, end)) = end - from
              /\ \A j \in 1 .. end - from : SubSeq(msg, from + 1, end)[j] = msg[from + j]
            BY <1>1, <3>1, PartOf
        <3> QED
            BY <3>1, <3>2 DEF end
    <2>3. \A j \in 1 .. n : j \in 1 .. to - from
        BY <1>1, <1>5, <1>7
    <2> HIDE DEF a, b
    <2>4. \A j \in 1 .. n : a[j] = b[j]
        BY <1>6, <2>1, <2>2, <2>3
    <2>5. a = b
        BY <2>1, <2>2, <2>4, SeqEqual
    <2> QED
        BY <2>5 DEF a, b
<1>9. fifo' \in Seq(Bytes) /\ Len(fifo') = Len(fifo) + n
    <2> DEFINE a == SubSeq(chunk, 1, n)
    <2>1. a \in Seq(Bytes) /\ Len(a) = n
        BY <1>1, <1>5, <1>6, <1>7
    <2>2. fifo' = fifo \o a
        BY <1>3
    <2> HIDE DEF a
    <2> QED
        BY <1>2, <2>1, <2>2, ConcatProperties
<1>10. n <= Least(CHUNK, Len(msg) - from) /\ n <= Capacity - Len(fifo)
    BY <1>2, <1>5, <1>7
<1> QED
    BY <1>3, <1>4, <1>7, <1>8, <1>9, <1>10 DEF msg, from

LEMMA MessageMade ==
    ASSUME WriteTyped, NEW n \in Lengths, CallWrite(n)
    PROVE  /\ call'.msg \in Seq(Bytes) /\ Len(call'.msg) = n /\ n \in Nat \ {0} /\ n <= MaxBytes
           /\ call' = [at |-> "chunk", msg |-> call'.msg, i |-> 0, written |-> 0]
           /\ made' \in 0 .. MaxBytes
<1> DEFINE msg == [k \in 1 .. n |-> made + k]
<1>1. n \in Nat \ {0} /\ made \in Nat /\ made + n <= MaxBytes /\ MaxBytes \in Nat
    BY LengthsAssumption, BoundsAssumption DEF CallWrite, WriteTyped
<1>2. \A k \in 1 .. n : made + k \in Bytes
    BY <1>1 DEF Bytes
<1>3. msg \in Seq(Bytes) /\ Len(msg) = n
    BY <1>1, <1>2
<1>4. call' = [at |-> "chunk", msg |-> msg, i |-> 0, written |-> 0] /\ made' = made + n
    BY DEF CallWrite
<1> HIDE DEF msg
<1> QED
    BY <1>1, <1>3, <1>4

LEMMA FreeIsSlot == FreeSlot \in SlotRecords
    BY DEF FreeSlot, SlotRecords

LEMMA WriteTypedKept ==
    ASSUME WriteTyped, CallMade, Steps
    PROVE  WriteTyped'
<1> USE DEF WriteTyped
<1>1. ASSUME NEW n \in Lengths, CallWrite(n) PROVE WriteTyped'
    <2>1. made' \in 0 .. MaxBytes
        BY <1>1, MessageMade
    <2> QED
        BY <1>1, <2>1 DEF CallWrite
<1>2. CASE WriteChunk
    <2>1. fifo' \in Seq(Bytes) /\ Len(fifo') <= Capacity
        <3>1. PICK n \in Nat : n <= Capacity - Len(fifo) /\ fifo' \in Seq(Bytes) /\ Len(fifo') = Len(fifo) + n
            BY <1>2, ChunkWritten
        <3>2. Len(fifo) \in Nat
            OBVIOUS
        <3> QED
            BY <3>1, <3>2, BoundsAssumption
    <2> QED
        BY <1>2, <2>1 DEF WriteChunk
<1>3. CASE ReturnZero
    BY <1>3 DEF ReturnZero
<1>4. CASE RegisterTask
    <2>1. slots' \in [Slots -> SlotRecords] /\ task_id' \in Slots /\ clock' \in Int
        <3>1. PICK s \in Slots : slots' = [slots EXCEPT ![s] = [owner |-> "write", due |-> FALSE]] /\ task_id' = s
            BY <1>4 DEF RegisterTask, Free
        <3>2. clock' = clock + 1
            BY <1>4 DEF RegisterTask
        <3> QED
            BY <3>1, <3>2 DEF SlotRecords
    <2> QED
        BY <1>4, <2>1 DEF RegisterTask
<1>5. CASE PutOffTask
    <2>1. slots' \in [Slots -> SlotRecords]
        <3>1. slots' = [slots EXCEPT ![task_id].due = FALSE]
            BY <1>5 DEF PutOffTask
        <3>2. CASE task_id \in Slots
            BY <3>1, <3>2 DEF SlotRecords
        <3>3. CASE task_id \notin Slots
            BY <3>1, <3>3
        <3> QED
            BY <3>2, <3>3
    <2> QED
        BY <1>5, <2>1 DEF PutOffTask
<1>6. CASE EnableTx
    BY <1>6 DEF EnableTx, Registers
<1>7. CASE ReturnWritten
    <2>1. SubSeq(call.msg, 1, call.written) \in Seq(Bytes)
        BY DEF CallMade, WriteCalls
    <2>2. told' \in Seq(Bytes)
        BY <1>7, <2>1, ConcatProperties DEF ReturnWritten
    <2> QED
        BY <1>7, <2>2 DEF ReturnWritten
<1>8. CASE Shift
    BY <1>8 DEF Shift, Registers, NONE
<1>9. CASE Sent
    <2>1. usart.shift \in Bytes
        BY <1>9 DEF Sent, Registers
    <2>2. wire' \in Seq(Bytes)
        BY <1>9, <2>1 DEF Sent
    <2>3. usart' \in Registers
        BY <1>9 DEF Sent, Registers
    <2> QED
        BY <1>9, <2>2, <2>3 DEF Sent
<1>10. CASE IrqHandler
    <2>1. fifo' \in Seq(Bytes) /\ Len(fifo') <= Capacity
        BY <1>10, BoundsAssumption DEF IrqHandler
    <2>2. LoadOrStop(usart) \in Registers
        <3>1. fifo # <<>> => Head(fifo) \in Bytes
            OBVIOUS
        <3>2. usart \in Registers
            OBVIOUS
        <3> QED
            BY <3>1, <3>2 DEF LoadOrStop, Registers, WriteTyped
    <2>3. usart' \in Registers
        BY <1>10, <2>2 DEF IrqHandler, Registers
    <2>4. slots' \in [Slots -> SlotRecords]
        <3>1. CASE UNCHANGED slots
            BY <3>1
        <3>2. CASE PlanWriteTask
            <4>1. CASE task_id \in Slots
                BY <3>2, <4>1 DEF PlanWriteTask, SlotRecords
            <4>2. CASE task_id \notin Slots
                BY <3>2, <4>2 DEF PlanWriteTask
            <4> QED
                BY <4>1, <4>2
        <3> QED
            BY <1>10, <3>1, <3>2 DEF IrqHandler
    <2> QED
        BY <1>10, <2>1, <2>3, <2>4 DEF IrqHandler
<1>11. CASE WriteTask
    <2>1. slots' = [slots EXCEPT ![task_id] = FreeSlot] /\ clock' = clock - 1 /\ in_progress' = FALSE
        BY <1>11 DEF WriteTask
    <2>2. slots' \in [Slots -> SlotRecords]
        BY <2>1, FreeIsSlot
    <2>3. clock' \in Int
        BY <2>1
    <2> QED
        BY <1>11, <2>1, <2>2, <2>3 DEF WriteTask
<1>12. CASE OtherRegisters
    <2>1. slots' \in [Slots -> SlotRecords]
        <3>1. PICK s \in Slots : slots' = [slots EXCEPT ![s] = [owner |-> "other", due |-> FALSE]]
            BY <1>12 DEF OtherRegisters, Free
        <3> QED
            BY <3>1 DEF SlotRecords
    <2> QED
        BY <1>12, <2>1 DEF OtherRegisters
<1>13. CASE Deinit
    <2>1. usart' \in Registers
        BY <1>13 DEF Deinit, Registers, NONE
    <2>2. slots' \in [Slots -> SlotRecords]
        BY <1>13, FreeIsSlot DEF Deinit
    <2>3. deinits' \in 0 .. MaxDeinits
        BY <1>13, BoundsAssumption DEF Deinit
    <2>4. initialized' = FALSE
        BY <1>13 DEF Deinit
    <2> QED
        BY <1>13, <2>1, <2>2, <2>3, <2>4 DEF Deinit
<1>14. CASE Reinit
    <2>1. usart' \in Registers
        BY <1>14 DEF Reinit, Registers
    <2>2. fifo' \in Seq(Bytes) /\ Len(fifo') <= Capacity
        <3>1. fifo' = fifo \/ fifo' = <<>>
            BY <1>14 DEF Reinit
        <3>2. <<>> \in Seq(Bytes) /\ Len(<<>>) = 0 /\ 0 <= Capacity
            BY BoundsAssumption
        <3> QED
            BY <3>1, <3>2
    <2> QED
        BY <1>14, <2>1, <2>2 DEF Reinit
<1> QED
    BY <1>1, <1>2, <1>3, <1>4, <1>5, <1>6, <1>7, <1>8, <1>9, <1>10, <1>11, <1>12, <1>13, <1>14
       DEF Steps

LEMMA CallMadeKept ==
    ASSUME WriteTyped, CallMade, Steps
    PROVE  CallMade'
<1> USE DEF CallMade
<1>1. ASSUME NEW n \in Lengths, CallWrite(n) PROVE CallMade'
    <2>1. /\ call'.msg \in Seq(Bytes) /\ Len(call'.msg) = n /\ n \in Nat \ {0} /\ n <= MaxBytes
          /\ call' = [at |-> "chunk", msg |-> call'.msg, i |-> 0, written |-> 0]
        BY <1>1, MessageMade
    <2>2. initialized'
        BY <1>1 DEF CallWrite
    <2> QED
        BY <2>1, <2>2, BoundsAssumption DEF WriteCalls, Stretches
<1>2. CASE WriteChunk
    <2>1. PICK n \in Nat :
             /\ n <= Least(CHUNK, Len(call.msg) - call.i)
             /\ call' = [call EXCEPT !.i = @ + CHUNK, !.written = @ + n,
                           !.at = IF call.i + CHUNK < Len(call.msg) THEN "chunk" ELSE "plan"]
        BY <1>2, ChunkWritten
    <2>2. call.at = "chunk" /\ initialized' = initialized
        BY <1>2 DEF WriteChunk
    <2>3. /\ call.i \in Nat /\ call.written \in Nat /\ Len(call.msg) \in Nat /\ CHUNK \in Nat
          /\ call.written <= call.i /\ call.i < Len(call.msg) /\ Len(call.msg) <= MaxBytes /\ MaxBytes \in Nat
        BY <2>2, BoundsAssumption DEF WriteCalls
    <2>4. n <= CHUNK /\ call.written + n <= Len(call.msg)
        BY <2>1, <2>3 DEF Least
    <2>5. /\ call'.i = call.i + CHUNK /\ call'.written = call.written + n /\ call'.msg = call.msg
          /\ call'.at = IF call.i + CHUNK < Len(call.msg) THEN "chunk" ELSE "plan"
        BY <2>1 DEF WriteCalls
    <2>6. call' \in WriteCalls
        <3>1. call.i + CHUNK \in Nat /\ call.written + n \in 0 .. MaxBytes
            BY <2>3, <2>4
        <3> QED
            BY <2>1, <3>1 DEF WriteCalls, Stretches
    <2> QED
        BY <2>2, <2>3, <2>4, <2>5, <2>6
<1>3. CASE ReturnZero \/ ReturnWritten
    <2>1. call' = NoCall
        BY <1>3 DEF ReturnZero, ReturnWritten
    <2>2. NoCall \in WriteCalls /\ NoCall.at = "idle" /\ NoCall.written = 0 /\ NoCall.msg = <<>>
        BY BoundsAssumption DEF NoCall, WriteCalls, Stretches
    <2>3. Len(<<>>) = 0 /\ 0 <= MaxBytes
        BY BoundsAssumption
    <2> QED
        BY <2>1, <2>2, <2>3
<1>4. CASE RegisterTask \/ PutOffTask
    BY <1>4 DEF RegisterTask, PutOffTask, WriteCalls, Stretches
<1>5. CASE EnableTx
    BY <1>5 DEF EnableTx, WriteCalls, Stretches
<1>6. CASE Shift \/ Sent \/ IrqHandler \/ WriteTask \/ OtherRegisters \/ Deinit \/ Reinit
    BY <1>6 DEF Shift, Sent, IrqHandler, WriteTask, OtherRegisters, Deinit, Reinit
<1> QED
    BY <1>1, <1>2, <1>3, <1>4, <1>5, <1>6 DEF Steps

LEMMA TaskRegisteredKept ==
    ASSUME WriteTyped, CallMade, TaskRegistered, Steps
    PROVE  TaskRegistered'
<1> USE DEF TaskRegistered
<1>0. /\ slots \in [Slots -> SlotRecords] /\ 0 \notin Slots
      /\ Underwritten \in BOOLEAN
    <2>1. 0 \notin Slots
        <3> DEFINE last == Cardinality(Slots)
        <3>1. Slots = 1 .. last
            BY SlotsAssumption
        <3> HIDE DEF last
        <3> QED
            BY <3>1
    <2> QED
        BY <2>1 DEF WriteTyped, Underwritten, Held
<1>1. ASSUME NEW n \in Lengths, CallWrite(n) PROVE TaskRegistered'
    <2>1. UNCHANGED <<slots, task_id, initialized, in_progress>> /\ call.at = "idle" /\ call'.at = "chunk"
        BY <1>1 DEF CallWrite
    <2> QED
        BY <2>1 DEF Underwritten, Held
<1>2. CASE WriteChunk
    <2>1. /\ UNCHANGED <<slots, task_id, initialized, in_progress>>
          /\ call.at \notin {"enable", "mark"} /\ call'.at \notin {"enable", "mark"}
        BY <1>2 DEF WriteChunk, CallMade, WriteCalls
    <2> QED
        BY <2>1 DEF Underwritten, Held
<1>3. CASE ReturnZero
    <2>1. /\ UNCHANGED <<slots, task_id, initialized, in_progress>>
          /\ call.at \notin {"enable", "mark"} /\ call'.at \notin {"enable", "mark"}
        BY <1>3 DEF ReturnZero, NoCall
    <2> QED
        BY <2>1 DEF Underwritten, Held
<1>4. CASE RegisterTask
    <2>1. PICK s \in Slots : /\ slots[s].owner = "free" /\ task_id' = s
                             /\ slots' = [slots EXCEPT ![s] = [owner |-> "write", due |-> FALSE]]
        BY <1>4 DEF RegisterTask, Free
    <2>2. ~ Underwritten /\ Underwritten'
        BY <1>4 DEF RegisterTask, Underwritten, Held, CallMade, WriteCalls
    <2>3. \A x \in Slots : slots[x].owner # "write"
        BY <2>2
    <2> QED
        BY <1>0, <2>1, <2>2, <2>3
<1>5. CASE PutOffTask
    <2>1. task_id' = task_id /\ slots' = [slots EXCEPT ![task_id].due = FALSE]
        BY <1>5 DEF PutOffTask
    <2>2. Underwritten /\ Underwritten'
        BY <1>5 DEF PutOffTask, Underwritten, Held, CallMade, WriteCalls
    <2>3. \A x \in Slots : slots'[x].owner = slots[x].owner
        BY <1>0, <2>1 DEF SlotRecords
    <2> QED
        BY <2>1, <2>2, <2>3
<1>6. CASE EnableTx
    <2>1. /\ UNCHANGED <<slots, task_id, initialized, in_progress>>
          /\ call.at = "enable" /\ call'.at = "mark"
        BY <1>6 DEF EnableTx, CallMade, WriteCalls
    <2> QED
        BY <2>1 DEF Underwritten, Held
<1>7. CASE ReturnWritten
    <2>1. UNCHANGED <<slots, task_id>>
        BY <1>7 DEF ReturnWritten
    <2>2. Underwritten /\ Underwritten'
        BY <1>7 DEF ReturnWritten, Underwritten, Held, CallMade
    <2> QED
        BY <2>1, <2>2
<1>8. CASE Shift \/ Sent
    BY <1>8 DEF Shift, Sent, Underwritten, Held
<1>9. CASE IrqHandler
    <2>1. /\ UNCHANGED <<task_id, initialized, in_progress, call>>
          /\ slots' = slots \/ slots' = [slots EXCEPT ![task_id].due = TRUE]
        BY <1>9 DEF IrqHandler, PlanWriteTask
    <2>2. \A x \in Slots : slots'[x].owner = slots[x].owner
        BY <1>0, <2>1 DEF SlotRecords
    <2> QED
        BY <2>1, <2>2 DEF Underwritten, Held
<1>10. CASE WriteTask
    <2>1. /\ slots' = [slots EXCEPT ![task_id] = FreeSlot] /\ UNCHANGED <<task_id, initialized, call>>
          /\ call.at = "idle" /\ in_progress' = FALSE
        BY <1>10 DEF WriteTask
    <2>2. ~ Underwritten'
        BY <2>1 DEF Underwritten, Held
    <2>3. \A x \in Slots : slots'[x].owner # "write"
        BY <1>0, <2>1 DEF FreeSlot
    <2> QED
        BY <2>2, <2>3
<1>11. CASE OtherRegisters
    <2>1. PICK s \in Slots : /\ slots[s].owner = "free"
                             /\ slots' = [slots EXCEPT ![s] = [owner |-> "other", due |-> FALSE]]
        BY <1>11 DEF OtherRegisters, Free
    <2>2. UNCHANGED <<task_id, initialized, in_progress, call>>
        BY <1>11 DEF OtherRegisters
    <2>3. \A x \in Slots : slots'[x].owner = "write" <=> slots[x].owner = "write"
        BY <1>0, <2>1
    <2> QED
        BY <2>2, <2>3 DEF Underwritten, Held
<1>12. CASE Deinit
    <2>1. /\ slots' = IF task_id # 0 THEN [slots EXCEPT ![task_id] = FreeSlot] ELSE slots
          /\ initialized' = FALSE
        BY <1>12 DEF Deinit
    <2>2. ~ Underwritten'
        BY <2>1 DEF Underwritten
    <2>3. \A x \in Slots : slots'[x].owner # "write"
        BY <1>0, <2>1 DEF FreeSlot
    <2> QED
        BY <2>2, <2>3
<1>13. CASE Reinit
    <2>1. UNCHANGED <<slots, call>> /\ ~ initialized /\ in_progress' = FALSE /\ call.at = "idle"
        BY <1>13 DEF Reinit
    <2>2. ~ Underwritten /\ ~ Underwritten'
        BY <2>1 DEF Underwritten, Held
    <2> QED
        BY <2>1, <2>2
<1> QED
    BY <1>1, <1>2, <1>3, <1>4, <1>5, <1>6, <1>7, <1>8, <1>9, <1>10, <1>11, <1>12, <1>13 DEF Steps

\* The task that runs is the channel's, and a write is in progress.
LEMMA TaskRuns ==
    ASSUME WriteTyped, TaskRegistered, WriteTask
    PROVE  Underwritten /\ in_progress /\ call.at = "idle" /\ task_id \in Slots /\ TaskDue
<1>1. PICK s \in Slots : slots[s] = [owner |-> "write", due |-> TRUE]
    BY DEF WriteTask
<1>2. slots[s].owner = "write" /\ slots[s].due
    BY <1>1
<1>3. Underwritten /\ s = task_id
    BY <1>2 DEF TaskRegistered
<1> QED
    BY <1>2, <1>3 DEF WriteTask, Underwritten, Held, TaskDue

LEMMA ClockCountedKept ==
    ASSUME WriteTyped, CallMade, TaskRegistered, ClockCounted, Steps
    PROVE  ClockCounted'
<1> USE DEF ClockCounted
<1>0. Leaks \in Int /\ clock \in Int /\ deinits \in Nat
    BY BoundsAssumption DEF Leaks, WriteTyped
<1>1. ASSUME UNCHANGED <<clock, initialized, deinits>>, Held' = Held PROVE ClockCounted'
    BY <1>1 DEF Leaks
<1>2. ASSUME NEW n \in Lengths, CallWrite(n) PROVE ClockCounted'
    BY <1>1, <1>2 DEF CallWrite, Held
<1>3. CASE WriteChunk
    BY <1>1, <1>3 DEF WriteChunk, Held, CallMade, WriteCalls
<1>4. CASE ReturnZero
    BY <1>1, <1>4 DEF ReturnZero, Held, NoCall
<1>5. CASE RegisterTask
    <2>1. ~ Held /\ Held' /\ clock' = clock + 1 /\ UNCHANGED <<initialized, deinits>>
        BY <1>5 DEF RegisterTask, Held, CallMade, WriteCalls
    <2> QED
        BY <1>0, <2>1 DEF Leaks
<1>6. CASE PutOffTask
    BY <1>1, <1>6 DEF PutOffTask, Held, CallMade, WriteCalls
<1>7. CASE EnableTx
    BY <1>1, <1>7 DEF EnableTx, Held, CallMade, WriteCalls
<1>8. CASE ReturnWritten
    BY <1>1, <1>8 DEF ReturnWritten, Held
<1>9. CASE Shift \/ Sent \/ IrqHandler \/ OtherRegisters
    BY <1>1, <1>9 DEF Shift, Sent, IrqHandler, OtherRegisters, Held
<1>10. CASE WriteTask
    <2>1. Held /\ ~ Held' /\ clock' = clock - 1 /\ UNCHANGED <<initialized, deinits>>
        BY <1>10, TaskRuns DEF WriteTask, Held
    <2> QED
        BY <1>0, <2>1 DEF Leaks
<1>11. CASE Deinit
    <2>1. Held' = Held /\ clock' = clock /\ initialized /\ initialized' = FALSE /\ deinits' = deinits + 1
        BY <1>11 DEF Deinit, Held
    <2> QED
        BY <1>0, <2>1 DEF Leaks
<1>12. CASE Reinit
    <2>1. ~ Held' /\ clock' = clock /\ ~ initialized /\ initialized' /\ deinits' = deinits
        BY <1>12 DEF Reinit, Held
    <2> QED
        BY <1>0, <2>1 DEF Leaks
<1> QED
    BY <1>2, <1>3, <1>4, <1>5, <1>6, <1>7, <1>8, <1>9, <1>10, <1>11, <1>12 DEF Steps

LEMMA QuietKept ==
    ASSUME WriteTyped, CallMade, TaskRegistered, QuietWhenDone, Steps
    PROVE  QuietWhenDone'
<1> DEFINE WriteRests == ~ overlapped =>
              /\ (~ Underwritten => Quiet)
              /\ (call.at # "idle" => ~ in_progress)
              /\ (call.at = "enable" => Quiet /\ ~ TaskDue)
              /\ (Underwritten /\ usart.tcie => ~ usart.txeie /\ fifo = <<>>)
              /\ (Underwritten /\ TaskDue => fifo = <<>> /\ Quiet)
           UsartRests == (usart.tc => ~ Transmitting) /\ (~ initialized => Quiet)
<1>0. UsartRests /\ WriteRests /\ usart \in Registers /\ overlapped \in BOOLEAN
    BY DEF QuietWhenDone, WriteTyped
<1>1. SUFFICES UsartRests' /\ (~ overlapped' => WriteRests')
    BY DEF QuietWhenDone
<1>2. ASSUME NEW n \in Lengths, CallWrite(n) PROVE UsartRests' /\ (~ overlapped' => WriteRests')
    <2>1. /\ UNCHANGED <<fifo, usart, initialized, in_progress, task_id, slots>>
          /\ call.at = "idle" /\ call'.at = "chunk" /\ overlapped' = (overlapped \/ in_progress)
        BY <1>2 DEF CallWrite
    <2> QED
        BY <1>0, <2>1 DEF Quiet, Transmitting, Underwritten, Held, TaskDue
<1>3. CASE WriteChunk
    <2>1. /\ UNCHANGED <<usart, initialized, in_progress, task_id, slots, overlapped>>
          /\ call.at = "chunk" /\ call'.at \in {"chunk", "plan"}
        BY <1>3 DEF WriteChunk, CallMade, WriteCalls
    <2> QED
        BY <1>0, <2>1 DEF Quiet, Transmitting, Underwritten, Held, TaskDue
<1>4. CASE ReturnZero
    <2>1. /\ UNCHANGED <<fifo, usart, initialized, in_progress, task_id, slots, overlapped>>
          /\ call.at = "plan" /\ call'.at = "idle"
        BY <1>4 DEF ReturnZero, NoCall
    <2> QED
        BY <1>0, <2>1 DEF Quiet, Transmitting, Underwritten, Held, TaskDue
<1>5. CASE RegisterTask
    <2>1. PICK s \in Slots : task_id' = s /\ slots' = [slots EXCEPT ![s] = [owner |-> "write", due |-> FALSE]]
        BY <1>5 DEF RegisterTask, Free
    <2>2. ~ TaskDue'
        BY <2>1 DEF TaskDue, WriteTyped
    <2>3. /\ UNCHANGED <<fifo, usart, initialized, in_progress, overlapped>>
          /\ call.at = "plan" /\ call'.at = "enable" /\ ~ in_progress
        BY <1>5 DEF RegisterTask, CallMade, WriteCalls
    <2> QED
        BY <1>0, <2>2, <2>3 DEF Quiet, Transmitting, Underwritten, Held
<1>6. CASE PutOffTask
    <2>1. /\ UNCHANGED <<usart, initialized, overlapped>> /\ call.at = "plan" /\ in_progress
        BY <1>6 DEF PutOffTask
    <2> QED
        BY <1>0, <2>1 DEF Quiet, Transmitting
<1>7. CASE EnableTx
    <2>1. /\ UNCHANGED <<fifo, initialized, in_progress, task_id, slots, overlapped>>
          /\ call.at = "enable" /\ call'.at = "mark" /\ usart' = [usart EXCEPT !.txeie = TRUE]
        BY <1>7 DEF EnableTx, CallMade, WriteCalls
    <2>2. /\ usart'.tc = usart.tc /\ usart'.tcie = usart.tcie /\ usart'.tdr = usart.tdr
          /\ usart'.shift = usart.shift /\ initialized
        BY <1>0, <2>1 DEF Registers, CallMade
    <2>3. ~ overlapped => Underwritten' /\ ~ TaskDue' /\ ~ usart'.tcie /\ ~ in_progress'
        BY <1>0, <2>1, <2>2 DEF Underwritten, Held, TaskDue, Quiet
    <2> QED
        BY <1>0, <2>1, <2>2, <2>3 DEF Quiet, Transmitting, Underwritten, Held
<1>8. CASE ReturnWritten
    <2>1. /\ UNCHANGED <<fifo, usart, initialized, task_id, slots, overlapped>>
          /\ call.at = "mark" /\ call'.at = "idle" /\ in_progress'
        BY <1>8 DEF ReturnWritten, NoCall
    <2> QED
        BY <1>0, <2>1 DEF Quiet, Transmitting, Underwritten, Held, TaskDue
<1>9. CASE Shift
    <2>1. /\ UNCHANGED <<fifo, initialized, in_progress, task_id, slots, overlapped, call>>
          /\ usart.tdr # NONE /\ usart' = [usart EXCEPT !.shift = usart.tdr, !.tdr = NONE]
        BY <1>9 DEF Shift
    <2>2. usart'.tc = usart.tc /\ usart'.tcie = usart.tcie /\ usart'.txeie = usart.txeie /\ Transmitting
        BY <1>0, <2>1 DEF Registers, Transmitting
    <2> QED
        BY <1>0, <2>1, <2>2 DEF Quiet, Underwritten, Held, TaskDue
<1>10. CASE Sent
    <2>1. /\ UNCHANGED <<fifo, initialized, in_progress, task_id, slots, overlapped, call>>
          /\ usart.shift # NONE /\ usart' = [usart EXCEPT !.shift = NONE, !.tc = (usart.tdr = NONE)]
        BY <1>10 DEF Sent
    <2>2. /\ usart'.tc = (usart.tdr = NONE) /\ usart'.tcie = usart.tcie /\ usart'.txeie = usart.txeie
          /\ usart'.tdr = usart.tdr /\ usart'.shift = NONE /\ Transmitting
        BY <1>0, <2>1 DEF Registers, Transmitting
    <2> QED
        BY <1>0, <2>1, <2>2 DEF Quiet, Transmitting, Underwritten, Held, TaskDue
<1>11. CASE IrqHandler
    <2>1. /\ UNCHANGED <<initialized, in_progress, task_id, overlapped, call>>
          /\ (TxEmpty(usart) \/ TxComplete(usart))
        BY <1>11 DEF IrqHandler
    <2>2. initialized /\ (~ overlapped => Underwritten /\ Underwritten' /\ call.at # "enable")
        BY <1>0, <2>1 DEF TxEmpty, TxComplete, Quiet, Underwritten, Held
    <2> DEFINE u == LoadOrStop(usart)
    <2>3. CASE TxEmpty(usart) /\ fifo # <<>>
        <3>1. u = [usart EXCEPT !.tdr = Head(fifo), !.tc = FALSE] /\ ~ TxComplete(u)
            BY <1>0, <2>3 DEF LoadOrStop, TxComplete, Registers
        <3>2. usart' = u /\ UNCHANGED slots
            BY <1>11, <3>1 DEF IrqHandler
        <3>3. usart'.tc = FALSE /\ usart'.tcie = usart.tcie /\ usart'.txeie = usart.txeie /\ usart.txeie
            BY <1>0, <2>3, <3>1, <3>2 DEF Registers, TxEmpty
        <3>4. ~ overlapped => ~ TaskDue /\ ~ usart.tcie
            BY <1>0, <2>2, <2>3, <3>3 DEF Quiet
        <3> QED
            BY <1>0, <2>1, <2>2, <3>2, <3>3, <3>4 DEF TaskDue, Underwritten, Held
    <2>4. CASE ~ (TxEmpty(usart) /\ fifo # <<>>)
        <3>1. /\ fifo' = fifo /\ u.tdr = usart.tdr /\ u.shift = usart.shift /\ u.tc = usart.tc
              /\ u \in Registers
            BY <1>0, <1>11, <2>4 DEF LoadOrStop, IrqHandler, Registers
        <3>2. ~ u.txeie \/ ~ TxEmpty(usart)
            BY <1>0, <2>4 DEF LoadOrStop, Registers
        <3>3. /\ ~ TxEmpty(usart) => u = usart
              /\ TxEmpty(usart) => fifo = <<>> /\ u.tcie /\ ~ u.txeie
            BY <1>0, <2>4 DEF LoadOrStop, Registers
        <3>4. ~ overlapped => (u.tcie => ~ u.txeie /\ fifo = <<>>)
            BY <1>0, <2>2, <3>3
        <3> HIDE DEF u
        <3>5. CASE TxComplete(u)
            <4>1. usart' = [u EXCEPT !.tcie = FALSE]
                BY <1>11, <3>5 DEF IrqHandler, u
            <4>2. /\ usart'.tdr = usart.tdr /\ usart'.shift = usart.shift /\ usart'.tc = usart.tc
                  /\ usart'.tcie = FALSE /\ usart'.txeie = u.txeie /\ ~ Transmitting'
                BY <1>0, <3>1, <3>5, <4>1 DEF Registers, TxComplete, Transmitting
            <4>3. ~ overlapped => ~ usart'.txeie /\ fifo' = <<>>
                BY <3>1, <3>4, <3>5, <4>2 DEF TxComplete
            <4> QED
                BY <1>0, <2>1, <2>2, <4>2, <4>3 DEF Quiet
        <3>6. CASE ~ TxComplete(u)
            <4>1. usart' = u /\ UNCHANGED slots
                BY <1>11, <3>6 DEF IrqHandler, u
            <4>2. Transmitting' = Transmitting /\ TaskDue' = TaskDue
                BY <2>1, <3>1, <4>1 DEF Transmitting, TaskDue
            <4>3. ~ overlapped => ~ TaskDue
                <5>1. TxEmpty(usart)
                    BY <2>1, <3>3, <3>6
                <5> QED
                    BY <1>0, <2>2, <5>1 DEF TxEmpty, Quiet
            <4> QED
                BY <1>0, <2>1, <2>2, <3>1, <3>4, <4>1, <4>2, <4>3 DEF Underwritten, Held
        <3> QED
            BY <3>5, <3>6
    <2> QED
        BY <2>3, <2>4
<1>12. CASE WriteTask
    <2>1. UNCHANGED <<fifo, usart, initialized, overlapped, call>> /\ in_progress' = FALSE
        BY <1>12 DEF WriteTask
    <2>2. Underwritten /\ TaskDue /\ call.at = "idle"
        BY <1>12, TaskRuns
    <2>3. ~ Underwritten'
        BY <2>1, <2>2 DEF Underwritten, Held
    <2>4. ~ overlapped => Quiet
        BY <1>0, <2>2
    <2> QED
        BY <1>0, <2>1, <2>2, <2>3, <2>4 DEF Quiet, Transmitting
<1>13. CASE OtherRegisters
    <2>1. PICK s \in Slots : /\ slots[s].owner = "free"
                             /\ slots' = [slots EXCEPT ![s] = [owner |-> "other", due |-> FALSE]]
        BY <1>13 DEF OtherRegisters, Free
    <2>2. UNCHANGED <<fifo, usart, initialized, in_progress, task_id, overlapped, call>> /\ call.at = "idle"
        BY <1>13 DEF OtherRegisters
    <2>3. Underwritten => TaskDue' = TaskDue
        BY <2>1, <2>2 DEF TaskRegistered, TaskDue, WriteTyped
    <2> QED
        BY <1>0, <2>2, <2>3 DEF Quiet, Transmitting, Underwritten, Held
<1>14. CASE Deinit
    <2>1. /\ call.at = "idle" /\ call' = call /\ initialized' = FALSE
          /\ usart' = [usart EXCEPT !.txeie = FALSE, !.tcie = FALSE, !.tc = FALSE,
                                    !.tdr = NONE, !.shift = NONE]
        BY <1>14 DEF Deinit
    <2>2. Quiet' /\ ~ usart'.tc /\ ~ Underwritten'
        BY <1>0, <2>1 DEF Registers, Quiet, Transmitting, Underwritten
    <2> QED
        BY <2>1, <2>2
<1>15. CASE Reinit
    <2>1. /\ call.at = "idle" /\ call' = call /\ ~ initialized /\ initialized' /\ in_progress' = FALSE
          /\ usart' = [usart EXCEPT !.tc = TRUE]
        BY <1>15 DEF Reinit
    <2>2. Quiet' /\ ~ Underwritten'
        BY <1>0, <2>1 DEF Registers, Quiet, Transmitting, Underwritten, Held
    <2> QED
        BY <2>1, <2>2 DEF Quiet
<1> QED
    BY <1>2, <1>3, <1>4, <1>5, <1>6, <1>7, <1>8, <1>9, <1>10, <1>11, <1>12, <1>13, <1>14, <1>15
       DEF Steps

LEMMA WriteInvKept == WriteInv /\ [Next]_vars => WriteInv'
<1> SUFFICES ASSUME WriteInv, [Next]_vars PROVE WriteInv'
    OBVIOUS
<1>1. CASE Next
    <2>1. Steps
        BY <1>1, NextSteps
    <2> QED
        BY <2>1, WriteTypedKept, CallMadeKept, TaskRegisteredKept, ClockCountedKept, QuietKept DEF WriteInv
<1>2. CASE UNCHANGED vars
    BY <1>2 DEF vars, WriteInv, WriteTyped, CallMade, TaskRegistered, ClockCounted, Leaks,
                QuietWhenDone, Quiet, Transmitting, Underwritten, Held, TaskDue
<1> QED
    BY <1>1, <1>2

\* The transmitter's state is what the code's types say, the bounds of its
\* buffer among them.
THEOREM TransmitterTyped == Spec => []TypeOK
<1>1. WriteInv => TypeOK
    <2> SUFFICES ASSUME WriteInv PROVE TypeOK
        OBVIOUS
    <2>1. WriteTyped /\ CallMade /\ ClockCounted
        BY DEF WriteInv
    <2>2. clock \in 0 .. 1 + MaxDeinits
        BY <2>1, BoundsAssumption DEF WriteTyped, ClockCounted, Leaks
    <2>3. /\ call.at \in Stretches /\ call.msg \in Seq(Bytes) /\ call.i \in Nat
          /\ call.written \in 0 .. MaxBytes
        BY <2>1 DEF CallMade, WriteCalls
    <2> QED
        BY <2>1, <2>2, <2>3 DEF WriteTyped, TypeOK, Registers, SlotRecords, Stretches
<1> QED
    BY <1>1, WriteBegins, WriteInvKept, PTL DEF Spec

\* The channel of twr_uart.c holds the clock exactly while a write is in progress,
\* and never sends without it; and WRITE_DONE, which gives it back, comes when
\* everything has left the USART, of an application that waits for it before it
\* writes again, whatever becomes of the slot of the write task.
THEOREM ClockIsHeld == Spec => []ClockHeldWhileSending /\ DoneAloneMeansSent
<1>1. WriteInv => ClockHeldWhileSending
    <2> SUFFICES ASSUME WriteInv, call.at = "idle", deinits = 0
                 PROVE  /\ clock = IF in_progress THEN 1 ELSE 0
                        /\ Transmitting /\ ~ overlapped => clock = 1
        BY DEF ClockHeldWhileSending
    <2>1. clock \in Int /\ Leaks \in 0 .. (IF initialized THEN deinits ELSE deinits - 1)
        BY DEF WriteInv, WriteTyped, ClockCounted
    <2>2. initialized /\ Leaks = 0
        BY <2>1
    <2>3. Held <=> in_progress
        BY DEF Held
    <2>4. clock = IF in_progress THEN 1 ELSE 0
        BY <2>1, <2>2, <2>3 DEF Leaks
    <2>5. Transmitting /\ ~ overlapped => in_progress
        BY <2>2, <2>3 DEF WriteInv, QuietWhenDone, Quiet, Underwritten
    <2> QED
        BY <2>4, <2>5
<1>2. WriteInv /\ [Next]_vars =>
        [(initialized /\ in_progress /\ ~ in_progress' /\ ~ overlapped) => fifo = <<>> /\ ~ Transmitting]_vars
    <2> SUFFICES ASSUME WriteInv, Next, initialized, in_progress, ~ in_progress', ~ overlapped
                 PROVE  fifo = <<>> /\ ~ Transmitting
        OBVIOUS
    <2>1. WriteTask
        BY NextSteps DEF Steps, CallWrite, WriteChunk, ReturnZero, RegisterTask, PutOffTask, EnableTx,
                         ReturnWritten, Shift, Sent, IrqHandler, OtherRegisters, Deinit, Reinit
    <2>2. Underwritten /\ TaskDue
        BY <2>1, TaskRuns DEF WriteInv
    <2> QED
        BY <2>2 DEF WriteInv, QuietWhenDone, Quiet
<1> QED
    BY <1>1, <1>2, WriteBegins, WriteInvKept, PTL DEF Spec, DoneAloneMeansSent

-----------------------------------------------------------------------------
(***************************************************************************)
(* What is underway is what the callers are told of, and, in the middle of *)
(* a call, what this one will be told.                                     *)
(***************************************************************************)
Promised ==
    IF call.at \in {"plan", "enable", "mark"}
    THEN told \o SubSeq(call.msg, 1, call.written) ELSE told

OneChunk == \A n \in Lengths : n <= CHUNK

Kept ==
    /\ (call.at = "chunk" => call.i = 0 /\ call.written = 0 /\ Len(call.msg) <= CHUNK)
    /\ (deinits = 0 => Underway = Promised)

LEMMA ByteIs ==
    ASSUME NEW b \in Bytes \union {NONE}
    PROVE  Byte(b) \in Seq(Bytes) /\ (b = NONE => Byte(b) = <<>>) /\ (b # NONE => Byte(b) = <<b>>)
    BY DEF Byte, NONE

\* A byte moves on from one place to the next: nothing is lost or overtaken.
LEMMA MovesOn ==
    ASSUME WriteTyped, Shift \/ Sent \/ IrqHandler
    PROVE  Underway' = Underway
<1>0. /\ wire \in Seq(Bytes) /\ fifo \in Seq(Bytes) /\ usart \in Registers
      /\ usart.tdr \in Bytes \union {NONE} /\ usart.shift \in Bytes \union {NONE}
    BY DEF WriteTyped, Registers
<1>1. CASE Shift
    <2>1. /\ UNCHANGED <<fifo, wire>> /\ usart.shift = NONE /\ usart'.shift = usart.tdr /\ usart'.tdr = NONE
        BY <1>0, <1>1 DEF Shift, Registers
    <2> DEFINE b == Byte(usart.tdr)
    <2>2. b \in Seq(Bytes) /\ Byte(NONE) = <<>>
        BY <1>0, ByteIs
    <2>3. Underway = ((wire \o <<>>) \o b) \o fifo /\ Underway' = ((wire \o b) \o <<>>) \o fifo
        BY <2>1, <2>2 DEF Underway
    <2> HIDE DEF b
    <2>4. wire \o <<>> = wire /\ (wire \o b) \o <<>> = wire \o b
        <3>1. wire \o b \in Seq(Bytes)
            BY <1>0, <2>2, ConcatProperties
        <3> QED
            BY <1>0, <3>1, ConcatEmptySeq
    <2> QED
        BY <2>3, <2>4
<1>2. CASE Sent
    <2> DEFINE x == usart.shift
    <2>1. /\ UNCHANGED fifo /\ x # NONE /\ wire' = Append(wire, x)
          /\ usart'.shift = NONE /\ usart'.tdr = usart.tdr
        BY <1>0, <1>2 DEF Sent, Registers
    <2>2. x \in Bytes /\ Byte(x) = <<x>> /\ Byte(NONE) = <<>>
        BY <1>0, <2>1, ByteIs
    <2>3. Underway = ((wire \o <<x>>) \o Byte(usart.tdr)) \o fifo
        BY <2>2 DEF Underway
    <2>4. Underway' = ((wire' \o <<>>) \o Byte(usart.tdr)) \o fifo
        BY <2>1, <2>2 DEF Underway
    <2> HIDE DEF x
    <2>5. wire' = wire \o <<x>> /\ wire' \in Seq(Bytes)
        BY <1>0, <2>1, <2>2, AppendIsConcat
    <2>6. wire' \o <<>> = wire'
        BY <2>5, ConcatEmptySeq
    <2> QED
        BY <2>3, <2>4, <2>5, <2>6
<1>3. CASE IrqHandler
    <2>1. wire' = wire
        BY <1>3 DEF IrqHandler
    <2>2. CASE TxEmpty(usart) /\ fifo # <<>>
        <3> DEFINE h == Head(fifo)
                   w == wire \o Byte(usart.shift)
        <3>1. LoadOrStop(usart) = [usart EXCEPT !.tdr = h, !.tc = FALSE] /\ usart.tdr = NONE
            BY <2>2 DEF LoadOrStop, TxEmpty
        <3>2. usart'.tdr = h /\ usart'.shift = usart.shift /\ fifo' = Tail(fifo)
            BY <1>0, <1>3, <2>2, <3>1 DEF IrqHandler, Registers
        <3>3. h \in Bytes /\ Byte(h) = <<h>> /\ Byte(NONE) = <<>>
            <4>1. h \in Bytes
                BY <1>0, <2>2
            <4>2. h # NONE
                BY <4>1 DEF Bytes, NONE
            <4> QED
                BY <4>1, <4>2, ByteIs
        <3>4. Underway = (w \o <<>>) \o fifo
            BY <3>1, <3>3 DEF Underway
        <3>5. Underway' = (w \o <<h>>) \o Tail(fifo)
            BY <2>1, <3>2, <3>3 DEF Underway
        <3>6. w \in Seq(Bytes)
            BY <1>0, ByteIs, ConcatProperties
        <3>7. fifo = <<h>> \o Tail(fifo) /\ Tail(fifo) \in Seq(Bytes) /\ <<h>> \in Seq(Bytes)
            <4>1. Tail(fifo) \in Seq(Bytes) /\ <<h>> \in Seq(Bytes) /\ Len(<<h>>) = 1 /\ <<h>>[1] = h
                BY <1>0, <2>2, <3>3
            <4>2. Len(Tail(fifo)) = Len(fifo) - 1 /\ \A j \in 1 .. Len(fifo) - 1 : Tail(fifo)[j] = fifo[j + 1]
                BY <1>0, <2>2
            <4>3. h = fifo[1] /\ Len(fifo) \in Nat \ {0}
                BY <1>0, <2>2
            <4> DEFINE one == <<h>>
                       more == Tail(fifo)
            <4>4. one \in Seq(Bytes) /\ Len(one) = 1 /\ one[1] = fifo[1] /\ more \in Seq(Bytes)
                BY <4>1, <4>3
            <4> HIDE DEF one, more, h
            <4> DEFINE both == one \o more
            <4>5. /\ both \in Seq(Bytes) /\ Len(both) = 1 + Len(more)
                  /\ \A j \in 1 .. 1 + Len(more) : both[j] = IF j <= 1 THEN one[j] ELSE more[j - 1]
                <5>1. /\ one \o more \in Seq(Bytes) /\ Len(one \o more) = Len(one) + Len(more)
                      /\ \A j \in 1 .. Len(one) + Len(more) :
                            (one \o more)[j] = IF j <= Len(one) THEN one[j] ELSE more[j - Len(one)]
                    BY <4>4, ConcatProperties
                <5> HIDE DEF both
                <5>2. both = one \o more
                    BY DEF both
                <5> QED
                    BY <4>4, <5>1, <5>2
            <4>6. /\ both \in Seq(Bytes) /\ Len(both) = Len(fifo)
                  /\ \A j \in 1 .. Len(fifo) : both[j] = IF j <= 1 THEN one[j] ELSE more[j - 1]
                <5>1. 1 + Len(more) = Len(fifo)
                    BY <4>2, <4>3 DEF more
                <5> QED
                    BY <4>5, <5>1
            <4> HIDE DEF both
            <4>7. \A j \in 1 .. Len(fifo) : both[j] = fifo[j]
                <5> TAKE j \in 1 .. Len(fifo)
                <5>1. CASE j = 1
                    BY <4>4, <4>6, <5>1
                <5>2. CASE j # 1
                    <6>1. ~ (j <= 1) /\ j - 1 \in 1 .. Len(fifo) - 1 /\ (j - 1) + 1 = j
                        BY <4>3, <5>2
                    <6>2. more[j - 1] = fifo[(j - 1) + 1]
                        BY <4>2, <6>1 DEF more
                    <6> QED
                        BY <4>6, <6>1, <6>2
                <5> QED
                    BY <5>1, <5>2
            <4>8. both = fifo
                BY <1>0, <4>6, <4>7, SeqEqual
            <4> QED
                BY <4>1, <4>8 DEF both, one, more
        <3> DEFINE t == Tail(fifo)
                   o == <<h>>
        <3> HIDE DEF w, h
        <3>8. w \o <<>> = w
            BY <3>6, ConcatEmptySeq
        <3>9. (w \o o) \o t = w \o (o \o t)
            <4>1. o \in Seq(Bytes) /\ t \in Seq(Bytes)
                BY <3>7
            <4> HIDE DEF o, t
            <4> QED
                BY <3>6, <4>1, ConcatAssociative
        <3> QED
            BY <3>4, <3>5, <3>7, <3>8, <3>9
    <2>3. CASE ~ (TxEmpty(usart) /\ fifo # <<>>)
        <3>1. fifo' = fifo
            BY <1>3, <2>3 DEF IrqHandler
        <3>2. /\ LoadOrStop(usart).tdr = usart.tdr /\ LoadOrStop(usart).shift = usart.shift
              /\ LoadOrStop(usart) \in Registers
            BY <1>0, <2>3 DEF LoadOrStop, Registers
        <3>3. usart'.tdr = usart.tdr /\ usart'.shift = usart.shift
            BY <1>3, <3>2 DEF IrqHandler, Registers
        <3> QED
            BY <2>1, <3>1, <3>3 DEF Underway
    <2> QED
        BY <2>2, <2>3
<1> QED
    BY <1>1, <1>2, <1>3

LEMMA KeptKept ==
    ASSUME OneChunk, WriteInv, Kept, Steps
    PROVE  Kept'
<1>0. WriteTyped /\ CallMade /\ call \in WriteCalls /\ told \in Seq(Bytes) /\ call.msg \in Seq(Bytes)
    BY DEF WriteInv, WriteTyped, CallMade, WriteCalls
<1>1. ASSUME NEW n \in Lengths, CallWrite(n) PROVE Kept'
    <2>1. /\ Len(call'.msg) = n
          /\ call' = [at |-> "chunk", msg |-> call'.msg, i |-> 0, written |-> 0]
        BY <1>0, <1>1, MessageMade
    <2>2. n <= CHUNK
        BY DEF OneChunk
    <2>3. UNCHANGED <<fifo, usart, wire, told, deinits>> /\ call.at = "idle"
        BY <1>1 DEF CallWrite
    <2>4. call'.at = "chunk" /\ call'.i = 0 /\ call'.written = 0
        BY <2>1
    <2> QED
        BY <2>1, <2>2, <2>3, <2>4 DEF Kept, Underway, Promised
<1>2. CASE WriteChunk
    <2>1. call.at = "chunk" /\ UNCHANGED <<usart, wire, told, deinits>>
        BY <1>2 DEF WriteChunk
    <2>2. call.i = 0 /\ call.written = 0 /\ Len(call.msg) <= CHUNK /\ Promised = told
        BY <2>1 DEF Kept, Promised
    <2>3. PICK n \in Nat :
             /\ n <= Least(CHUNK, Len(call.msg) - call.i)
             /\ fifo' = fifo \o SubSeq(call.msg, call.i + 1, call.i + n)
             /\ call' = [call EXCEPT !.i = @ + CHUNK, !.written = @ + n,
                           !.at = IF call.i + CHUNK < Len(call.msg) THEN "chunk" ELSE "plan"]
        BY <1>0, <1>2, ChunkWritten
    <2>4. Len(call.msg) \in Nat /\ CHUNK \in Nat
        BY <1>0, BoundsAssumption
    <2>5. n <= Len(call.msg) /\ ~ (call.i + CHUNK < Len(call.msg)) /\ call.i + 1 = 1 /\ call.i + n = n /\ call.written + n = n
        BY <2>2, <2>3, <2>4 DEF Least
    <2>6. call'.at = "plan" /\ call'.written = n /\ call'.msg = call.msg
        BY <1>0, <2>3, <2>5 DEF WriteCalls
    <2> DEFINE part == SubSeq(call.msg, 1, n)
               w == (wire \o Byte(usart.shift)) \o Byte(usart.tdr)
    <2>7. fifo' = fifo \o part
        BY <2>3, <2>5
    <2>8. Underway = w \o fifo /\ Underway' = w \o (fifo \o part) /\ Promised' = told \o part
        BY <2>1, <2>6, <2>7 DEF Underway, Promised
    <2>9. w \in Seq(Bytes) /\ fifo \in Seq(Bytes) /\ part \in Seq(Bytes)
        <3>1. wire \in Seq(Bytes) /\ Byte(usart.shift) \in Seq(Bytes) /\ Byte(usart.tdr) \in Seq(Bytes)
            BY <1>0, ByteIs DEF WriteTyped, Registers
        <3>2. w \in Seq(Bytes)
            BY <3>1, ConcatProperties
        <3>3. part \in Seq(Bytes)
            BY <1>0, <2>4, <2>5
        <3> QED
            BY <1>0, <3>2, <3>3 DEF WriteTyped
    <2> HIDE DEF w, part
    <2>10. w \o (fifo \o part) = (w \o fifo) \o part
        BY <2>9, ConcatAssociative
    <2>11. deinits' = 0 => Underway' = Promised'
        BY <2>1, <2>2, <2>8, <2>10 DEF Kept
    <2> QED
        BY <2>6, <2>11 DEF Kept
<1>3. CASE ReturnZero
    <2>1. call.at = "plan" /\ call.written = 0 /\ call'.at = "idle" /\ UNCHANGED <<fifo, usart, wire, told, deinits>>
        BY <1>3 DEF ReturnZero, NoCall
    <2>2. SubSeq(call.msg, 1, 0) = <<>> /\ told \o <<>> = told
        BY <1>0, ConcatEmptySeq
    <2>3. Promised = told /\ Promised' = told
        BY <2>1, <2>2 DEF Promised
    <2> QED
        BY <2>1, <2>3 DEF Kept, Underway
<1>4. CASE RegisterTask \/ PutOffTask \/ EnableTx
    <2>1. /\ call.at \in {"plan", "enable"} /\ call'.at \in {"enable", "mark"}
          /\ call'.msg = call.msg /\ call'.written = call.written
          /\ UNCHANGED <<fifo, wire, told, deinits>>
        BY <1>0, <1>4 DEF RegisterTask, PutOffTask, EnableTx, WriteCalls
    <2>2. usart'.tdr = usart.tdr /\ usart'.shift = usart.shift
        BY <1>0, <1>4 DEF RegisterTask, PutOffTask, EnableTx, WriteTyped, Registers
    <2> QED
        BY <2>1, <2>2 DEF Kept, Underway, Promised
<1>5. CASE ReturnWritten
    <2>1. /\ call.at = "mark" /\ call'.at = "idle" /\ UNCHANGED <<fifo, usart, wire, deinits>>
          /\ told' = told \o SubSeq(call.msg, 1, call.written)
        BY <1>5 DEF ReturnWritten, NoCall
    <2> QED
        BY <2>1 DEF Kept, Underway, Promised
<1>6. CASE Shift \/ Sent \/ IrqHandler
    <2>1. UNCHANGED <<call, told, deinits>>
        BY <1>6 DEF Shift, Sent, IrqHandler
    <2>2. Underway' = Underway
        BY <1>0, <1>6, MovesOn
    <2> QED
        BY <2>1, <2>2 DEF Kept, Promised
<1>7. CASE WriteTask \/ OtherRegisters
    BY <1>7 DEF WriteTask, OtherRegisters, Kept, Underway, Promised
<1>8. CASE Deinit
    <2>1. call.at = "idle" /\ call' = call /\ deinits' = deinits + 1 /\ deinits \in Nat
        BY <1>0, <1>8, BoundsAssumption DEF Deinit, WriteTyped
    <2>2. deinits' # 0
        BY <2>1
    <2> QED
        BY <2>1, <2>2 DEF Kept
<1>9. CASE Reinit
    <2>1. call.at = "idle" /\ call' = call /\ deinits' = deinits /\ ~ initialized
        BY <1>9 DEF Reinit
    <2>2. deinits # 0
        BY <1>0, <2>1 DEF WriteInv, WriteTyped, ClockCounted
    <2> QED
        BY <2>1, <2>2 DEF Kept
<1> QED
    BY <1>1, <1>2, <1>3, <1>4, <1>5, <1>6, <1>7, <1>8, <1>9 DEF Steps

\* What twr_uart_async_write returns is what will be sent: between calls, the bytes
\* sent and on their way are those that the callers were told of, in their order,
\* however interrupts fall between the stretches of a call.
THEOREM ToldIsWhatIsSent ==
    ASSUME OneChunk
    PROVE  Spec => []ToldIsSent
<1>1. Init => Kept
    <2> SUFFICES ASSUME Init PROVE Kept
        OBVIOUS
    <2>1. call.at = "idle" /\ Promised = <<>>
        BY DEF Init, NoCall, Promised
    <2>2. Underway = ((<<>> \o <<>>) \o <<>>) \o <<>>
        BY DEF Init, Underway, Byte
    <2>3. <<>> \o <<>> = <<>>
        BY ConcatEmptySeq
    <2> QED
        BY <2>1, <2>2, <2>3 DEF Kept
<1>2. WriteInv /\ Kept /\ [Next]_vars => Kept'
    <2>1. ASSUME WriteInv, Kept, Next PROVE Kept'
        BY <2>1, NextSteps, KeptKept
    <2>2. ASSUME Kept, UNCHANGED vars PROVE Kept'
        BY <2>2 DEF vars, Kept, Underway, Promised
    <2> QED
        BY <2>1, <2>2
<1>3. Kept => ToldIsSent
    BY DEF Kept, ToldIsSent, Promised
<1> QED
    BY <1>1, <1>2, <1>3, WriteBegins, WriteInvKept, PTL DEF Spec

-----------------------------------------------------------------------------
(***************************************************************************)
(* The receiver of a UART by interrupt (UartRead).                         *)
(***************************************************************************)
\* What is received is of the past: of the bytes that arrived.
OfThePast ==
    /\ rdr <= arrived
    /\ \A k \in DOMAIN read_fifo : read_fifo[k] <= arrived

HasNew == async_read_in_progress /\ \E k \in DOMAIN read_fifo : read_fifo[k] > before

\* A byte of this reading is announced by the task being due, or by the task
\* being about to look into the FIFO, or by a handler that has been told of
\* data.  (A handler that has been told of a timeout, or has found the FIFO
\* empty, may leave without looking again.)
AnnouncedEarly ==
    HasNew => \/ plan <= tick
              \/ read_at = "armed"
              \/ read_at = "handler" /\ event = "data"

ReadInv == ReadTypeOK /\ before \in Nat /\ OfThePast /\ AnnouncedEarly

\* Sums of ticks stop at the last tick.
LEMMA TicksAdded ==
    ASSUME NEW a \in 0 .. INFINITY, NEW b \in 0 .. INFINITY
    PROVE  AddTicks(a, b) \in 0 .. INFINITY
BY TicksAssumption DEF AddTicks

\* Nothing has arrived at first, and each step keeps the invariant.
LEMMA ReadInvInit == ReadInit => ReadInv
<1> SUFFICES ASSUME ReadInit PROVE ReadInv
  OBVIOUS
<1>1. /\ FirstTick \in FirstTick .. MaxTick /\ INFINITY \in 0 .. INFINITY
      /\ ReadCapacity \in Nat /\ 0 \in 0 .. ReadBytes /\ 0 \in 0 .. MaxStarts
  BY TicksAssumption, ReadAssumption
<1>2. read_fifo = <<>> /\ got = <<>> /\ <<>> \in Seq(Arrivals) /\ Len(<<>>) = 0
  BY DEF ReadInit
<1>3. Len(read_fifo) <= ReadCapacity
  BY <1>1, <1>2
<1>4. ReadTypeOK
  BY <1>1, <1>2, <1>3 DEF ReadInit, ReadTypeOK, EMPTY
<1>5. before \in Nat /\ OfThePast
  BY DEF ReadInit, OfThePast, EMPTY
<1>6. AnnouncedEarly
  BY DEF ReadInit, AnnouncedEarly, HasNew
<1> QED BY <1>4, <1>5, <1>6 DEF ReadInv

\* The types of the numbers.
LEMMA ReadTypes ==
    ASSUME ReadInv
    PROVE  /\ tick \in 0 .. INFINITY /\ timeout \in 0 .. INFINITY /\ plan \in Nat
           /\ arrived \in Nat /\ before \in Nat /\ rdr \in Nat
           /\ read_fifo \in Seq(Nat) /\ read_fifo \in Seq(Arrivals)
BY TicksAssumption, ReadAssumption DEF ReadInv, ReadTypeOK, Arrivals, EMPTY

LEMMA ReadInvStep ==
    ASSUME ReadInv, [ReadNext]_readVars
    PROVE  ReadInv'
<1> USE TicksAssumption, ReadAssumption
<1>1. ASSUME NEW t \in Timeouts, ReadStart(t) PROVE ReadInv'
  BY <1>1, ReadTypes DEF ReadStart, ReadInv, ReadTypeOK, OfThePast, AnnouncedEarly, HasNew
<1>2. CASE ReadCancel
  <2>1. INFINITY \in 0 .. INFINITY
    OBVIOUS
  <2>2. ReadTypeOK'
    BY <1>2, <2>1 DEF ReadCancel, ReadInv, ReadTypeOK
  <2> QED BY <1>2, <2>2 DEF ReadCancel, ReadInv, OfThePast, AnnouncedEarly, HasNew
<1>3. CASE ReadTask
  BY <1>3, ReadTypes, TicksAdded
  DEF ReadTask, ReadInv, ReadTypeOK, OfThePast, AnnouncedEarly, HasNew
<1>4. CASE TellApplication
  BY <1>4, ReadTypes DEF TellApplication, ReadInv, ReadTypeOK, OfThePast, AnnouncedEarly, HasNew
<1>5. CASE AsyncRead
  <2>1. CASE read_fifo = <<>>
    BY <1>5, <2>1, ReadTypes DEF AsyncRead, ReadInv, ReadTypeOK, OfThePast, AnnouncedEarly, HasNew
  <2>2. CASE read_fifo # <<>>
    <3>1. /\ got' \in Seq(Arrivals) /\ read_fifo' \in Seq(Arrivals)
          /\ Len(read_fifo') = Len(read_fifo) - 1 /\ Len(read_fifo) \in Nat
          /\ \A k \in DOMAIN read_fifo' :
                 k + 1 \in DOMAIN read_fifo /\ read_fifo'[k] = read_fifo[k + 1]
      <4>1. /\ read_fifo \in Seq(Arrivals) /\ got \in Seq(Arrivals)
            /\ got' = Append(got, Head(read_fifo)) /\ read_fifo' = Tail(read_fifo)
        BY <1>5, <2>2 DEF AsyncRead, ReadInv, ReadTypeOK
      <4>2. Head(read_fifo) \in Arrivals
        BY <2>2, <4>1
      <4>3. got' \in Seq(Arrivals)
        BY <4>1, <4>2
      <4> QED BY <2>2, <4>1, <4>3
    <3>2. UNCHANGED <<tick, rdr, rxneie, async_read_in_progress, timeout, plan, read_at, event,
                      arrived, starts, before>>
      BY <1>5, <2>2 DEF AsyncRead
    <3>3. ReadTypeOK'
      BY <3>1, <3>2 DEF ReadInv, ReadTypeOK
    <3>4. OfThePast'
      BY <3>1, <3>2 DEF ReadInv, OfThePast
    <3>5. HasNew' => HasNew
      BY <3>1, <3>2 DEF HasNew
    <3> QED BY <3>2, <3>3, <3>4, <3>5 DEF ReadInv, AnnouncedEarly
  <2> QED BY <2>1, <2>2
<1>6. CASE HandlerReturns
  BY <1>6, ReadTypes
  DEF HandlerReturns, MayReturn, ReadInv, ReadTypeOK, OfThePast, AnnouncedEarly, HasNew
<1>7. CASE ByteArrives
  BY <1>7, ReadTypes
  DEF ByteArrives, ReadInv, ReadTypeOK, OfThePast, AnnouncedEarly, HasNew, Arrivals
<1>8. CASE ReadIrqHandler
  <2>1. rdr \in Arrivals /\ rdr <= arrived
    BY <1>8 DEF ReadIrqHandler, ReadInv, ReadTypeOK, OfThePast
  <2>2. /\ read_fifo' \in Seq(Arrivals) /\ Len(read_fifo') <= ReadCapacity
        /\ \A k \in DOMAIN read_fifo' : read_fifo'[k] <= arrived
    <3>1. CASE Len(read_fifo) < ReadCapacity
      BY <1>8, <2>1, <3>1 DEF ReadIrqHandler, ReadInv, ReadTypeOK, OfThePast
    <3>2. CASE ~ Len(read_fifo) < ReadCapacity
      BY <1>8, <3>2 DEF ReadIrqHandler, ReadInv, ReadTypeOK, OfThePast
    <3> QED BY <3>1, <3>2
  <2>3. 0 \in 0 .. INFINITY
    OBVIOUS
  <2>4. /\ rdr' = 0 /\ plan' = 0
        /\ UNCHANGED <<tick, rxneie, async_read_in_progress, timeout, read_at, event, arrived,
                       starts, got, before>>
    BY <1>8 DEF ReadIrqHandler, EMPTY
  <2>5. ReadTypeOK'
    BY <2>2, <2>3, <2>4 DEF ReadInv, ReadTypeOK, EMPTY
  <2> QED BY <2>2, <2>4, <2>5, ReadTypes DEF ReadInv, OfThePast, AnnouncedEarly
<1>9. CASE Tick
  BY <1>9, ReadTypes DEF Tick, ReadInv, ReadTypeOK, OfThePast, AnnouncedEarly, HasNew
<1>10. CASE UNCHANGED readVars
  BY <1>10 DEF readVars, ReadInv, ReadTypeOK, OfThePast, AnnouncedEarly, HasNew
<1> QED
  BY <1>1, <1>2, <1>3, <1>4, <1>5, <1>6, <1>7, <1>8, <1>9, <1>10 DEF ReadNext

\* The receiver by interrupt never leaves its types: no byte too many in the
\* FIFO, no plan beyond the last tick although sums of ticks wrap.
THEOREM ReceiverTyped == ReadSpec => []ReadTypeOK
<1>1. ReadInv => ReadTypeOK
  BY DEF ReadInv
<1>2. ReadInv /\ [ReadNext]_readVars => ReadInv'
  BY ReadInvStep
<1> QED BY ReadInvInit, <1>1, <1>2, PTL DEF ReadSpec

\* A byte that has reached the FIFO during a read is announced, whatever the
\* timeouts, however many interrupts come between the steps of the task, and
\* wherever the ticks wrap.
THEOREM ArrivalsAreAnnounced == ReadSpec => []ArrivalAnnounced
<1>1. ReadInv => ArrivalAnnounced
  BY DEF ReadInv, AnnouncedEarly, HasNew, ArrivalAnnounced
<1>2. ReadInv /\ [ReadNext]_readVars => ReadInv'
  BY ReadInvStep
<1> QED BY ReadInvInit, <1>1, <1>2, PTL DEF ReadSpec

-----------------------------------------------------------------------------
(***************************************************************************)
(* The receiver of a UART by DMA (UartDma).                                *)
(***************************************************************************)
Fifos == [buffer : [Cells -> Received], head : Cells, tail : Cells]
DmaChannels == [en : BOOLEAN, cndtr : 1 .. DmaSize]
Readers == [in_progress : BOOLEAN, planned : {"timeout", "now"},
            at : {"idle", "timeout", "handler"}]
Lines == [rdr : Received, arrived : Received]
Histories == [received : Seq(Received), seen : Nat, read : Seq(Received), aligned : BOOLEAN,
              lapped : BOOLEAN]

DmaTyped ==
    /\ circular \in Fifos /\ channel \in DmaChannels /\ length \in 0 .. DmaSize
    /\ reader \in Readers /\ line \in Lines /\ runs \in 0 .. DmaRuns /\ history \in Histories
    /\ history.seen <= Len(history.received)

\* A place that has gone past the last cell, by no more than a lap.
Wrap(x) == IF x < DmaSize THEN x ELSE x - DmaSize

\* head is as far before tail as there are bytes that the task has seen and
\* the application has not read; the channel's next cell is as far before
\* tail as there are bytes not read; and in the cells between are these.
FollowedBy(c, cell, h) ==
    LET D == Len(h.received)
        K == Len(h.read)
    IN /\ K <= h.seen /\ h.seen <= D /\ D - K < DmaSize
       /\ c.head = Wrap(c.tail + (h.seen - K))
       /\ cell = Wrap(c.tail + (D - K))
       /\ \A j \in 1 .. K : h.read[j] = h.received[j]
       /\ \A j \in 1 .. D - K : c.buffer[Wrap(c.tail + (j - 1))] = h.received[K + j]

DmaInv ==
    /\ DmaTyped
    /\ reader.in_progress /\ history.aligned /\ ~ history.lapped =>
          FollowedBy(circular, HeadOf(channel.cndtr), history)

\* It is a cell, and the one that the code's remainder is.
LEMMA WrapIsMod ==
    ASSUME NEW x \in 0 .. 2 * DmaSize - 1
    PROVE  x % DmaSize = Wrap(x) /\ Wrap(x) \in Cells
<1>1. DmaSize \in Nat \ {0}
  BY DmaAssumption
<1>2. CASE x < DmaSize
  BY <1>1, <1>2 DEF Wrap, Cells
<1>3. CASE ~ x < DmaSize
  BY <1>1, <1>3 DEF Wrap, Cells
<1> QED BY <1>2, <1>3

\* The application reads one byte ...
LEMMA OneRead ==
    ASSUME NEW c \in Fifos, NEW cell, NEW h \in Histories, FollowedBy(c, cell, h),
           c.head # c.tail,
           NEW d \in Fifos, d.buffer = c.buffer, d.head = c.head, d.tail = Following(c.tail),
           NEW g \in Histories, g.received = h.received, g.seen = h.seen,
           g.read = Append(h.read, c.buffer[c.tail])
    PROVE  FollowedBy(d, cell, g)
<1> DEFINE D == Len(h.received)
           K == Len(h.read)
           S == h.seen
           t == c.tail
<1>1. /\ DmaSize \in Nat \ {0} /\ D \in Nat /\ K \in Nat /\ S \in Nat /\ t \in 0 .. DmaSize - 1
      /\ h.received \in Seq(Received) /\ h.read \in Seq(Received)
      /\ c.buffer \in [Cells -> Received]
  BY DmaAssumption DEF Fifos, Histories, Cells
<1>2. /\ K <= S /\ S <= D /\ D - K < DmaSize
      /\ c.head = Wrap(t + (S - K)) /\ cell = Wrap(t + (D - K))
      /\ \A j \in 1 .. K : h.read[j] = h.received[j]
      /\ \A j \in 1 .. D - K : c.buffer[Wrap(t + (j - 1))] = h.received[K + j]
  BY DEF FollowedBy
<1>3. c.head # t
  OBVIOUS
<1>4. d.tail = Wrap(t + 1)
  <2>1. d.tail = Following(t)
    OBVIOUS
  <2> QED BY <1>1, <2>1 DEF Following, Wrap
<1>5. g.read = Append(h.read, c.buffer[t])
  OBVIOUS
<1>13. g.received = h.received /\ g.seen = S /\ d.buffer = c.buffer /\ d.head = c.head
  OBVIOUS
<1> HIDE DEF D, K, S, t
<1>6. K < S
  BY <1>1, <1>2, <1>3 DEF Wrap
<1>7. c.buffer[t] = h.received[K + 1]
  <2>1. 1 \in 1 .. D - K /\ Wrap(t + (1 - 1)) = t
    BY <1>1, <1>2, <1>6 DEF Wrap
  <2> QED BY <1>2, <2>1
<1>8. c.buffer[t] \in Received
  BY <1>1 DEF Cells
<1>9. /\ Len(g.read) = K + 1
      /\ \A j \in 1 .. K + 1 : g.read[j] = IF j = K + 1 THEN c.buffer[t] ELSE h.read[j]
  BY <1>1, <1>5, <1>8 DEF K
<1>10. \A j \in 1 .. K + 1 : g.read[j] = g.received[j]
  BY <1>1, <1>2, <1>7, <1>9, <1>13
<1>11. /\ d.head = Wrap(d.tail + (S - (K + 1))) /\ cell = Wrap(d.tail + (D - (K + 1)))
  BY <1>1, <1>2, <1>4, <1>6, <1>13 DEF Wrap
<1>12. \A j \in 1 .. D - (K + 1) : d.buffer[Wrap(d.tail + (j - 1))] = g.received[K + 1 + j]
  <2> TAKE j \in 1 .. D - (K + 1)
  <2>1. j + 1 \in 1 .. D - K /\ Wrap(d.tail + (j - 1)) = Wrap(t + ((j + 1) - 1))
    <3>1. j \in Nat \ {0} /\ j < DmaSize /\ j + 1 \in 1 .. D - K
      BY <1>1, <1>2, <1>6
    <3> DEFINE u == d.tail
    <3>2. u = IF t + 1 < DmaSize THEN t + 1 ELSE t + 1 - DmaSize
      BY <1>1, <1>4 DEF Wrap
    <3> HIDE DEF u
    <3>3. Wrap(u + (j - 1)) = Wrap(t + ((j + 1) - 1))
      BY <1>1, <3>1, <3>2 DEF Wrap
    <3> QED BY <3>1, <3>3 DEF u
  <2>2. K + (j + 1) = K + 1 + j
    BY <1>1
  <2> QED BY <1>2, <1>13, <2>1, <2>2
<1>14. K + 1 <= S /\ S <= D /\ D - (K + 1) < DmaSize
  BY <1>1, <1>2, <1>6
<1> QED BY <1>9, <1>10, <1>11, <1>12, <1>13, <1>14 DEF FollowedBy, D

\* ... and the DMA brings one, which is not a lap ahead.
LEMMA OneMoved ==
    ASSUME NEW c \in Fifos, NEW cell \in Cells, NEW h \in Histories, FollowedBy(c, cell, h),
           NEW b \in Received,
           NEW d \in Fifos, d.buffer = [c.buffer EXCEPT ![cell] = b],
           d.head = c.head, d.tail = c.tail,
           NEW g \in Histories, g.received = Append(h.received, b),
           g.seen = h.seen, g.read = h.read,
           Len(h.received) + 1 - Len(h.read) < DmaSize
    PROVE  FollowedBy(d, Following(cell), g)
<1> DEFINE D == Len(h.received)
           K == Len(h.read)
           S == h.seen
           t == c.tail
<1>1. /\ DmaSize \in Nat \ {0} /\ D \in Nat /\ K \in Nat /\ S \in Nat /\ t \in 0 .. DmaSize - 1
      /\ h.received \in Seq(Received) /\ h.read \in Seq(Received)
      /\ c.buffer \in [Cells -> Received]
  BY DmaAssumption DEF Fifos, Histories, Cells
<1>2. /\ K <= S /\ S <= D /\ D - K < DmaSize
      /\ c.head = Wrap(t + (S - K)) /\ cell = Wrap(t + (D - K))
      /\ \A j \in 1 .. K : h.read[j] = h.received[j]
      /\ \A j \in 1 .. D - K : c.buffer[Wrap(t + (j - 1))] = h.received[K + j]
  BY DEF FollowedBy
<1>3. /\ d.buffer = [c.buffer EXCEPT ![cell] = b] /\ d.head = c.head /\ d.tail = t
      /\ g.received = Append(h.received, b) /\ g.seen = S /\ g.read = h.read
      /\ D + 1 - K < DmaSize
  OBVIOUS
<1> HIDE DEF t, S
<1>4. /\ Len(g.received) = D + 1
      /\ \A j \in 1 .. D + 1 : g.received[j] = IF j = D + 1 THEN b ELSE h.received[j]
  BY <1>1, <1>3
<1> HIDE DEF D, K
<1>9. Len(g.read) = K
  BY <1>3 DEF K
<1>5. Following(cell) = Wrap(t + (D + 1 - K))
  BY <1>1, <1>2, <1>3 DEF Following, Wrap
<1>6. \A j \in 1 .. K : g.read[j] = g.received[j]
  BY <1>1, <1>2, <1>3, <1>4
<1>7. \A j \in 1 .. D + 1 - K : d.buffer[Wrap(d.tail + (j - 1))] = g.received[K + j]
  <2> TAKE j \in 1 .. D + 1 - K
  <2>1. Wrap(t + (j - 1)) \in Cells
    BY <1>1, <1>3 DEF Wrap, Cells
  <2>2. CASE j = D + 1 - K
    <3>1. Wrap(t + (j - 1)) = cell /\ K + j = D + 1
      BY <1>1, <1>2, <2>2 DEF Wrap
    <3>2. d.buffer[cell] = b
      BY <1>1, <1>3
    <3>3. g.received[D + 1] = b
      BY <1>1, <1>4
    <3> QED BY <1>3, <3>1, <3>2, <3>3
  <2>3. CASE j # D + 1 - K
    <3>1. j \in 1 .. D - K /\ K + j # D + 1 /\ K + j \in 1 .. D + 1
      BY <1>1, <2>3
    <3>2. Wrap(t + (j - 1)) # cell
      BY <1>1, <1>2, <3>1 DEF Wrap
    <3>3. d.buffer[Wrap(t + (j - 1))] = c.buffer[Wrap(t + (j - 1))]
      BY <1>1, <1>3, <2>1, <3>2
    <3>4. g.received[K + j] = h.received[K + j]
      BY <1>4, <3>1
    <3> QED BY <1>2, <1>3, <3>1, <3>3, <3>4
  <2> QED BY <2>2, <2>3
<1>8. K <= S /\ S <= D + 1 /\ D + 1 - K < DmaSize
  BY <1>1, <1>2, <1>3
<1>10. /\ Len(g.received) = D + 1 /\ d.head = Wrap(d.tail + (g.seen - K))
       /\ Following(cell) = Wrap(d.tail + (D + 1 - K))
  BY <1>2, <1>3, <1>4, <1>5
<1>11. \A j \in 1 .. Len(g.read) : g.read[j] = g.received[j]
  BY <1>6, <1>9
<1>12. \A j \in 1 .. Len(g.received) - Len(g.read) :
           d.buffer[Wrap(d.tail + (j - 1))] = g.received[Len(g.read) + j]
  <2>1. Len(g.received) - Len(g.read) = D + 1 - K
    BY <1>1, <1>9, <1>10
  <2> QED BY <1>7, <1>9, <2>1
<1>13. /\ Len(g.read) <= g.seen /\ g.seen <= Len(g.received)
       /\ Len(g.received) - Len(g.read) < DmaSize
       /\ d.head = Wrap(d.tail + (g.seen - Len(g.read)))
       /\ Following(cell) = Wrap(d.tail + (Len(g.received) - Len(g.read)))
  BY <1>1, <1>3, <1>8, <1>9, <1>10
<1> QED BY <1>11, <1>12, <1>13 DEF FollowedBy

\* No reception is in progress at first.
LEMMA DmaInitInv == DmaInit => DmaInv
<1> SUFFICES ASSUME DmaInit PROVE DmaInv
  OBVIOUS
<1>1. DmaSize \in Nat \ {0} /\ DmaArrivals \in Nat /\ DmaRuns \in Nat
  BY DmaAssumption
<1>2. circular \in Fifos
  BY <1>1 DEF DmaInit, Fifos, Cells, Received, NOTHING
<1>3. channel \in DmaChannels /\ length \in 0 .. DmaSize
  BY <1>1 DEF DmaInit, DmaChannels
<1>4. reader \in Readers
  BY DEF DmaInit, Readers
<1>5. line \in Lines /\ runs \in 0 .. DmaRuns
  BY <1>1 DEF DmaInit, Lines, Received, NOTHING
<1>6. history \in Histories /\ history.seen <= Len(history.received)
  <2>1. <<>> \in Seq(Received) /\ Len(<<>>) = 0
    OBVIOUS
  <2> QED BY <2>1 DEF DmaInit, Histories
<1>7. ~ reader.in_progress
  BY DEF DmaInit
<1> QED BY <1>2, <1>3, <1>4, <1>5, <1>6, <1>7 DEF DmaInv, DmaTyped

\* A reception starts with nothing in the FIFO.
LEMMA DmaStartStep == DmaInv /\ DmaReadStart => DmaInv'
<1> SUFFICES ASSUME DmaInv, DmaReadStart PROVE DmaInv'
  OBVIOUS
<1>1. DmaTyped /\ DmaSize \in Nat \ {0} /\ DmaArrivals \in Nat /\ DmaRuns \in Nat
  BY DmaAssumption DEF DmaInv
<1>2. circular' \in Fifos /\ length' \in 0 .. DmaSize /\ line' \in Lines
  BY <1>1 DEF DmaTyped, DmaReadStart
<1>3. channel' \in DmaChannels /\ channel'.cndtr = DmaSize
  BY <1>1 DEF DmaReadStart, DmaChannels, Configured
<1>4. reader' \in Readers
  BY <1>1 DEF DmaTyped, DmaReadStart, Readers
<1>5. runs' \in 0 .. DmaRuns
  BY <1>1 DEF DmaTyped, DmaReadStart
<1>6. <<>> \in Seq(Received) /\ Len(<<>>) = 0
  OBVIOUS
<1>7. history' = [received |-> <<>>, seen |-> 0, read |-> <<>>,
                  aligned |-> circular.head = 0 /\ circular.tail = 0, lapped |-> FALSE]
  BY DEF DmaReadStart
<1>8. (circular.head = 0 /\ circular.tail = 0) \in BOOLEAN
  OBVIOUS
<1> DEFINE a == circular.head = 0 /\ circular.tail = 0
<1>9. history' = [received |-> <<>>, seen |-> 0, read |-> <<>>, aligned |-> a, lapped |-> FALSE]
      /\ a \in BOOLEAN
  BY <1>7, <1>8
<1> HIDE DEF a
<1>10. history' \in Histories
  <2>1. 0 \in Nat
    OBVIOUS
  <2> QED BY <1>6, <1>9, <2>1, Zenon DEF Histories
<1>11. history'.received = <<>> /\ history'.read = <<>> /\ history'.seen = 0
       /\ history'.aligned = a
  BY <1>9, Zenon
<1>12. DmaTyped'
  BY <1>2, <1>3, <1>4, <1>5, <1>6, <1>10, <1>11 DEF DmaTyped
<1>13. ASSUME history'.aligned PROVE FollowedBy(circular', HeadOf(channel'.cndtr), history')
  <2>1. circular'.head = 0 /\ circular'.tail = 0
    BY <1>11, <1>13 DEF a, DmaReadStart
  <2>2. HeadOf(channel'.cndtr) = 0 /\ Wrap(0) = 0
    BY <1>1, <1>3 DEF HeadOf, Wrap
  <2>3. Len(history'.received) = 0 /\ Len(history'.read) = 0
    BY <1>6, <1>11
  <2> HIDE DEF a
  <2> QED BY <1>1, <1>11, <2>1, <2>2, <2>3 DEF FollowedBy
<1> QED BY <1>12, <1>13 DEF DmaInv

\* None is after a cancel, nor when the application initializes the FIFO.
LEMMA DmaCancelStep == DmaInv /\ DmaReadCancel => DmaInv'
<1> SUFFICES ASSUME DmaInv, DmaReadCancel PROVE DmaInv'
  OBVIOUS
<1>1. DmaTyped
  BY DEF DmaInv
<1>2. reader' \in Readers /\ ~ reader'.in_progress
  BY <1>1 DEF DmaTyped, DmaReadCancel, Readers
<1>3. channel' \in DmaChannels
  BY <1>1 DEF DmaTyped, DmaReadCancel, DmaChannels
<1>4. DmaTyped'
  BY <1>1, <1>2, <1>3 DEF DmaTyped, DmaReadCancel
<1> QED BY <1>2, <1>4 DEF DmaInv

LEMMA FifoInitStep == DmaInv /\ FifoInit => DmaInv'
<1> SUFFICES ASSUME DmaInv, FifoInit PROVE DmaInv'
  OBVIOUS
<1>1. DmaTyped /\ DmaSize \in Nat \ {0}
  BY DmaAssumption DEF DmaInv
<1>2. circular' = [buffer |-> circular.buffer, head |-> 0, tail |-> 0]
  BY <1>1 DEF DmaTyped, FifoInit, Fifos
<1>3. circular' \in Fifos
  BY <1>1, <1>2 DEF DmaTyped, Fifos, Cells
<1>4. DmaTyped' /\ ~ reader'.in_progress
  BY <1>1, <1>3 DEF DmaTyped, FifoInit
<1> QED BY <1>4 DEF DmaInv

\* The task that never sleeps finds all that has been received.
LEMMA PollStep == DmaInv /\ Poll => DmaInv'
<1> SUFFICES ASSUME DmaInv, Poll PROVE DmaInv'
  OBVIOUS
<1>1. DmaTyped /\ DmaSize \in Nat \ {0}
  BY DmaAssumption DEF DmaInv
<1>2. HeadOf(channel.cndtr) \in Cells
  BY <1>1 DEF DmaTyped, DmaChannels, HeadOf, Cells
<1>3. circular' \in Fifos /\ circular'.buffer = circular.buffer /\ circular'.tail = circular.tail
      /\ circular'.head = HeadOf(channel.cndtr)
  BY <1>1, <1>2 DEF DmaTyped, Poll, Fifos
<1>4. reader' \in Readers /\ reader'.in_progress
  BY <1>1 DEF DmaTyped, Poll, Readers
<1>5. Len(history.received) \in Nat
  BY <1>1 DEF DmaTyped, Histories
<1>6. history' \in Histories /\ history'.seen = Len(history.received)
      /\ history'.received = history.received /\ history'.read = history.read
      /\ history'.aligned = history.aligned /\ history'.lapped = history.lapped
  BY <1>1, <1>5 DEF DmaTyped, Poll, Histories
<1>7. channel' = channel /\ length' = channel.cndtr /\ line' = line /\ runs' = runs
  BY DEF Poll
<1>8. length' \in 0 .. DmaSize
  BY <1>1, <1>7 DEF DmaTyped, DmaChannels
<1>9. DmaTyped'
  BY <1>1, <1>3, <1>4, <1>5, <1>6, <1>7, <1>8 DEF DmaTyped
<1>10. ASSUME history'.aligned, ~ history'.lapped
       PROVE  FollowedBy(circular', HeadOf(channel'.cndtr), history')
  <2>1. FollowedBy(circular, HeadOf(channel.cndtr), history)
    BY <1>6, <1>10 DEF DmaInv, Poll
  <2>2. Len(history.read) \in Nat
    BY <1>1 DEF DmaTyped, Histories
  <2> DEFINE D == Len(history.received)
             K == Len(history.read)
             here == HeadOf(channel.cndtr)
  <2>3. /\ K <= history.seen /\ history.seen <= D /\ D - K < DmaSize
        /\ here = Wrap(circular.tail + (D - K))
        /\ \A j \in 1 .. K : history.read[j] = history.received[j]
        /\ \A j \in 1 .. D - K :
               circular.buffer[Wrap(circular.tail + (j - 1))] = history.received[K + j]
    BY <2>1 DEF FollowedBy
  <2>4. K <= D /\ D <= D /\ history.seen \in Nat
    BY <1>1, <1>5, <2>2, <2>3 DEF DmaTyped, Histories
  <2>5. Len(history'.received) = D /\ Len(history'.read) = K /\ history'.seen = D
    BY <1>6
  <2>6. HeadOf(channel'.cndtr) = here
    BY <1>7
  <2>7. circular'.head = here
    BY <1>3
  <2> HIDE DEF D, K, here
  <2> QED BY <1>3, <1>6, <2>3, <2>4, <2>5, <2>6, <2>7 DEF FollowedBy
<1> QED BY <1>9, <1>10 DEF DmaInv

\* The read task and the return of the event handler move neither end.
LEMMA DmaTaskStep == DmaInv /\ (DmaReadTask \/ DmaHandlerReturns) => DmaInv'
<1> SUFFICES ASSUME DmaInv, DmaReadTask \/ DmaHandlerReturns PROVE DmaInv'
  OBVIOUS
<1>1. DmaTyped
  BY DEF DmaInv
<1> DEFINE next == IF circular.head = circular.tail THEN "timeout" ELSE "handler"
<1>2. next \in {"idle", "timeout", "handler"}
  OBVIOUS
<1>3. reader' \in Readers /\ reader'.in_progress = reader.in_progress
  <2>1. CASE DmaReadTask
    <3>1. reader' = [reader EXCEPT !.planned = "timeout", !.at = next]
      BY <2>1 DEF DmaReadTask
    <3> HIDE DEF next
    <3>2. reader' = [in_progress |-> reader.in_progress, planned |-> "timeout", at |-> next]
      BY <1>1, <3>1 DEF DmaTyped, Readers
    <3> QED BY <1>1, <1>2, <3>2 DEF DmaTyped, Readers
  <2>2. CASE DmaHandlerReturns
    BY <1>1, <2>2 DEF DmaHandlerReturns, DmaTyped, Readers
  <2> QED BY <2>1, <2>2
<1>4. /\ circular' = circular /\ channel' = channel /\ length' = length /\ line' = line
      /\ runs' = runs /\ history' = history
  BY DEF DmaReadTask, DmaHandlerReturns
<1>5. DmaTyped'
  BY <1>1, <1>3, <1>4 DEF DmaTyped
<1> QED BY <1>3, <1>4, <1>5 DEF DmaInv, HeadOf, FollowedBy

\* The application takes a byte, a byte arrives, and the DMA takes it.
LEMMA DmaReadStep == DmaInv /\ DmaRead => DmaInv'
<1> SUFFICES ASSUME DmaInv, DmaRead PROVE DmaInv'
  OBVIOUS
<1>1. DmaTyped /\ DmaSize \in Nat \ {0}
  BY DmaAssumption DEF DmaInv
<1>2. Following(circular.tail) \in Cells /\ circular.buffer[circular.tail] \in Received
  BY <1>1 DEF DmaTyped, Fifos, Following, Cells
<1>3. circular' \in Fifos /\ circular'.buffer = circular.buffer
      /\ circular'.head = circular.head /\ circular'.tail = Following(circular.tail)
  BY <1>1, <1>2 DEF DmaTyped, DmaRead, Fifos
<1> DEFINE after == Append(history.read, circular.buffer[circular.tail])
<1>4. after \in Seq(Received)
  BY <1>1, <1>2 DEF DmaTyped, Histories
<1>5. history' = [history EXCEPT !.read = after]
  BY DEF DmaRead
<1>6. history' \in Histories /\ history'.read = after
      /\ history'.received = history.received /\ history'.seen = history.seen
      /\ history'.aligned = history.aligned /\ history'.lapped = history.lapped
  <2> HIDE DEF after
  <2> QED BY <1>1, <1>4, <1>5 DEF DmaTyped, Histories
<1>7. channel' = channel /\ length' = length /\ line' = line /\ runs' = runs /\ reader' = reader
  BY DEF DmaRead
<1>8. DmaTyped'
  <2> HIDE DEF after
  <2> QED BY <1>1, <1>3, <1>6, <1>7 DEF DmaTyped
<1>9. ASSUME history'.aligned, ~ history'.lapped, reader'.in_progress
      PROVE  FollowedBy(circular', HeadOf(channel'.cndtr), history')
  <2>1. FollowedBy(circular, HeadOf(channel.cndtr), history)
    BY <1>6, <1>7, <1>9 DEF DmaInv
  <2>2. circular.head # circular.tail
    BY DEF DmaRead
  <2>3. circular \in Fifos /\ history \in Histories
    BY <1>1 DEF DmaTyped
  <2>4. FollowedBy(circular', HeadOf(channel.cndtr), history')
    BY <1>3, <1>6, <2>1, <2>2, <2>3, OneRead
  <2> QED BY <1>7, <2>4
<1> QED BY <1>8, <1>9 DEF DmaInv

LEMMA ArriveStep == DmaInv /\ Arrive => DmaInv'
<1> SUFFICES ASSUME DmaInv, Arrive PROVE DmaInv'
  OBVIOUS
<1>1. DmaTyped /\ DmaArrivals \in Nat
  BY DmaAssumption DEF DmaInv
<1>2. line' \in Lines
  BY <1>1 DEF DmaTyped, Arrive, Lines, Received
<1>3. /\ circular' = circular /\ channel' = channel /\ length' = length /\ reader' = reader
      /\ runs' = runs /\ history' = history
  BY DEF Arrive
<1> QED BY <1>1, <1>2, <1>3 DEF DmaInv, DmaTyped, HeadOf, FollowedBy

LEMMA DmaMoveStep == DmaInv /\ DmaMove => DmaInv'
<1> SUFFICES ASSUME DmaInv, DmaMove PROVE DmaInv'
  OBVIOUS
<1>1. DmaTyped /\ DmaSize \in Nat \ {0} /\ DmaArrivals \in Nat
  BY DmaAssumption DEF DmaInv
<1> DEFINE b == line.rdr
           cell == HeadOf(channel.cndtr)
           full == Len(history.received) + 1 - Len(history.read) >= DmaSize
<1>2. b \in Received /\ cell \in Cells /\ channel.cndtr \in 1 .. DmaSize
  BY <1>1 DEF DmaTyped, Lines, DmaChannels, HeadOf, Cells
<1>3. circular'.buffer = [circular.buffer EXCEPT ![cell] = b] /\ circular' \in Fifos
      /\ circular'.head = circular.head /\ circular'.tail = circular.tail
  <2> DEFINE cells == [circular.buffer EXCEPT ![cell] = b]
  <2>1. circular' = [circular EXCEPT !.buffer = cells]
    BY DEF DmaMove, HeadOf
  <2>2. cells \in [Cells -> Received]
    BY <1>1, <1>2 DEF DmaTyped, Fifos
  <2> HIDE DEF cells, cell, b
  <2>3. circular' \in Fifos /\ circular'.buffer = cells /\ circular'.head = circular.head
        /\ circular'.tail = circular.tail
    BY <1>1, <2>1, <2>2 DEF DmaTyped, Fifos
  <2> QED BY <2>3 DEF cells
<1>4. channel' \in DmaChannels /\ HeadOf(channel'.cndtr) = Following(cell)
  <2> DEFINE left == IF channel.cndtr = 1 THEN DmaSize ELSE channel.cndtr - 1
  <2>1. channel' = [channel EXCEPT !.cndtr = left]
    BY DEF DmaMove
  <2>2. left \in 1 .. DmaSize /\ DmaSize - left = Following(cell)
    BY <1>1, <1>2 DEF HeadOf, Following
  <2> HIDE DEF left, cell
  <2>3. channel' \in DmaChannels /\ channel'.cndtr = left
    BY <1>1, <2>1, <2>2 DEF DmaTyped, DmaChannels
  <2> QED BY <2>2, <2>3 DEF HeadOf
<1>5. line' \in Lines
  BY <1>1 DEF DmaTyped, DmaMove, Lines, Received, NOTHING
<1> DEFINE after == Append(history.received, b)
           over == history.lapped \/ full
<1>6. after \in Seq(Received) /\ Len(after) = Len(history.received) + 1 /\ over \in BOOLEAN
      /\ Len(history.received) \in Nat /\ Len(history.read) \in Nat
  <2> HIDE DEF b, full
  <2> QED BY <1>1, <1>2 DEF DmaTyped, Histories
<1>7. history' = [history EXCEPT !.received = after, !.lapped = over]
  BY DEF DmaMove
<1>8. history' \in Histories /\ history'.received = after /\ history'.read = history.read
      /\ history'.seen = history.seen /\ history'.aligned = history.aligned
      /\ history'.lapped = over
  <2> HIDE DEF after, over
  <2>1. history' = [received |-> after, seen |-> history.seen, read |-> history.read,
                    aligned |-> history.aligned, lapped |-> over]
    BY <1>1, <1>7, Zenon DEF DmaTyped, Histories
  <2> QED BY <1>1, <1>6, <2>1 DEF DmaTyped, Histories
<1>9. length' = length /\ reader' = reader /\ runs' = runs
  BY DEF DmaMove
<1>10. DmaTyped'
  <2>1. history.seen <= Len(history.received) /\ history.seen \in Nat
    BY <1>1 DEF DmaTyped, Histories
  <2> HIDE DEF after, over
  <2>2. history'.seen <= Len(history'.received)
    BY <1>6, <1>8, <2>1
  <2> QED BY <1>1, <1>3, <1>4, <1>5, <1>8, <1>9, <2>2 DEF DmaTyped
<1>11. ASSUME history'.aligned, ~ history'.lapped, reader'.in_progress
       PROVE  FollowedBy(circular', HeadOf(channel'.cndtr), history')
  <2>1. ~ history.lapped /\ ~ full
    BY <1>8, <1>11
  <2>2. FollowedBy(circular, cell, history)
    BY <1>8, <1>9, <1>11, <2>1 DEF DmaInv
  <2>3. Len(history.received) + 1 - Len(history.read) < DmaSize
    <3>1. /\ Len(history.received) \in Nat /\ Len(history.read) \in Nat /\ DmaSize \in Nat
          /\ ~ Len(history.received) + 1 - Len(history.read) >= DmaSize
      BY <1>1, <1>6, <2>1, Zenon
    <3> DEFINE x == Len(history.received)
               y == Len(history.read)
    <3>2. x \in Nat /\ y \in Nat /\ DmaSize \in Nat /\ ~ x + 1 - y >= DmaSize
      BY <3>1
    <3> HIDE DEF x, y
    <3>3. x + 1 - y < DmaSize
      BY <3>2
    <3> QED BY <3>3 DEF x, y
  <2>4. circular \in Fifos /\ history \in Histories
    BY <1>1 DEF DmaTyped
  <2>5. history'.received = Append(history.received, b)
    BY <1>8
  <2>6. FollowedBy(circular', Following(cell), history')
    <3> HIDE DEF b, cell, full, after, over
    <3> QED BY <1>2, <1>3, <1>8, <2>2, <2>3, <2>4, <2>5, OneMoved
  <2> QED BY <1>4, <2>6
<1> QED BY <1>10, <1>11 DEF DmaInv

\* All steps together.
LEMMA DmaInvStep == DmaInv /\ [DmaNext]_dmaVars => DmaInv'
<1> SUFFICES ASSUME DmaInv, [DmaNext]_dmaVars PROVE DmaInv'
  OBVIOUS
<1>1. CASE DmaReadStart
  BY <1>1, DmaStartStep
<1>2. CASE DmaReadCancel
  BY <1>2, DmaCancelStep
<1>3. CASE FifoInit
  BY <1>3, FifoInitStep
<1>4. CASE Poll
  BY <1>4, PollStep
<1>5. CASE DmaReadTask \/ DmaHandlerReturns
  BY <1>5, DmaTaskStep
<1>6. CASE DmaRead
  BY <1>6, DmaReadStep
<1>7. CASE Arrive
  BY <1>7, ArriveStep
<1>8. CASE DmaMove
  BY <1>8, DmaMoveStep
<1>9. CASE UNCHANGED dmaVars
  BY <1>9 DEF dmaVars, DmaInv, DmaTyped, HeadOf, FollowedBy
<1> QED BY <1>1, <1>2, <1>3, <1>4, <1>5, <1>6, <1>7, <1>8, <1>9 DEF DmaNext

\* What is read and what is in the FIFO, put together.
LEMMA DmaInvSays == DmaInv => InStep
<1> SUFFICES ASSUME DmaInv, reader.in_progress, history.aligned, ~ history.lapped
             PROVE  history.read \o Contents = SubSeq(history.received, 1, history.seen)
  BY DEF InStep
<1> DEFINE D == Len(history.received)
           K == Len(history.read)
           S == history.seen
           t == circular.tail
<1>1. DmaTyped /\ FollowedBy(circular, HeadOf(channel.cndtr), history)
  BY DEF DmaInv
<1>2. /\ DmaSize \in Nat \ {0} /\ D \in Nat /\ K \in Nat /\ S \in Nat /\ t \in 0 .. DmaSize - 1
      /\ history.received \in Seq(Received) /\ history.read \in Seq(Received)
      /\ circular.buffer \in [Cells -> Received] /\ circular.head \in 0 .. DmaSize - 1
  BY <1>1, DmaAssumption DEF DmaTyped, Fifos, Histories, Cells
<1>3. /\ K <= S /\ S <= D /\ D - K < DmaSize /\ circular.head = Wrap(t + (S - K))
      /\ \A j \in 1 .. K : history.read[j] = history.received[j]
      /\ \A j \in 1 .. D - K : circular.buffer[Wrap(t + (j - 1))] = history.received[K + j]
  BY <1>1 DEF FollowedBy
<1> HIDE DEF D, K, S, t
<1>4. Unread = S - K
  <2>1. Unread = IF circular.head >= t THEN circular.head - t ELSE circular.head - t + DmaSize
    BY DEF Unread, t
  <2> DEFINE h == circular.head
  <2>2. h = Wrap(t + (S - K)) /\ Unread = IF h >= t THEN h - t ELSE h - t + DmaSize
    BY <1>3, <2>1
  <2> HIDE DEF h
  <2> QED BY <1>2, <1>3, <2>2 DEF Wrap
<1>5. \A j \in 1 .. S - K : /\ circular.buffer[(t + j - 1) % DmaSize] = history.received[K + j]
                            /\ history.received[K + j] \in Received
  <2> TAKE j \in 1 .. S - K
  <2>1. t + j - 1 \in 0 .. 2 * DmaSize - 1 /\ t + j - 1 = t + (j - 1)
    BY <1>2, <1>3
  <2>2. (t + j - 1) % DmaSize = Wrap(t + (j - 1))
    BY <2>1, WrapIsMod
  <2>3. j \in 1 .. D - K /\ K + j \in 1 .. D
    BY <1>2, <1>3
  <2>4. history.received[K + j] \in Received
    BY <1>2, <2>3 DEF D
  <2> QED BY <1>3, <2>2, <2>3, <2>4
<1>6. Contents = [i \in 1 .. S - K |-> circular.buffer[(t + i - 1) % DmaSize]]
  BY <1>4 DEF Contents, t
<1>7. /\ Contents \in Seq(Received) /\ Len(Contents) = S - K
      /\ \A j \in 1 .. S - K : Contents[j] = history.received[K + j]
  <2> DEFINE F(i) == circular.buffer[(t + i - 1) % DmaSize]
  <2>1. Contents = [i \in 1 .. S - K |-> F(i)]
    BY <1>6
  <2>2. S - K \in Nat
    BY <1>2, <1>3
  <2>3. \A j \in 1 .. S - K : F(j) = history.received[K + j] /\ F(j) \in Received
    BY <1>5, Zenon
  <2> HIDE DEF F
  <2> QED BY <2>1, <2>2, <2>3
<1> DEFINE all == history.read \o Contents
           part == SubSeq(history.received, 1, S)
<1>8. all \in Seq(Received) /\ Len(all) = S
  <2>1. Len(history.read) = K /\ K \in Nat /\ S \in Nat /\ K <= S /\ history.read \in Seq(Received)
    BY <1>2, <1>3 DEF K
  <2>2. all \in Seq(Received) /\ Len(all) = Len(history.read) + Len(Contents)
    BY <1>7, <2>1, ConcatProperties
  <2>3. Len(all) = K + (S - K)
    BY <1>7, <2>1, <2>2
  <2> HIDE DEF all
  <2> QED BY <2>1, <2>2, <2>3
<1>9. part \in Seq(Received) /\ Len(part) = S
  BY <1>2, <1>3 DEF D
<1>10. \A i \in 1 .. S : all[i] = part[i]
  <2> TAKE i \in 1 .. S
  <2>1. part[i] = history.received[i]
    BY <1>2, <1>3 DEF D
  <2>2. CASE i <= K
    <3>1. all[i] = history.read[i]
      BY <1>2, <1>7, <2>2 DEF K
    <3> QED BY <1>2, <1>3, <2>1, <2>2, <3>1
  <2>3. CASE ~ i <= K
    <3>1. all[i] = Contents[i - K] /\ i - K \in 1 .. S - K /\ K + (i - K) = i
      BY <1>2, <1>3, <1>7, <2>3 DEF K
    <3> QED BY <1>7, <2>1, <3>1
  <2> QED BY <2>2, <2>3
<1>11. all = part
  <2> HIDE DEF all, part
  <2> QED BY <1>8, <1>9, <1>10, SeqEqual
<1> QED BY <1>11 DEF S

\* The receiver by DMA keeps its state in its types.
THEOREM DmaReceiverTyped == DmaSpec => []DmaTypeOK
<1>1. DmaInv => DmaTypeOK
  <2> SUFFICES ASSUME DmaInv PROVE DmaTypeOK
    OBVIOUS
  <2>1. DmaTyped
    BY DEF DmaInv
  <2>2. history.received \in Seq(Received) /\ history.read \in Seq(Received)
        /\ history.seen \in 0 .. Len(history.received)
    BY <2>1 DEF DmaTyped, Histories
  <2> QED BY <2>1, <2>2 DEF DmaTyped, DmaTypeOK, Fifos, DmaChannels, Readers, Lines
<1> QED BY <1>1, DmaInitInv, DmaInvStep, PTL DEF DmaSpec

\* While a reception goes on that started with an empty FIFO and in which the
\* DMA has not gone a whole lap ahead of the application, what the application
\* has read and finds in the FIFO is what the task has seen, in order
\* (twr_uart.c: _twr_uart_2_dma_read_task moves head after CNDTR).
THEOREM DmaReceptionInStep == DmaSpec => []InStep
BY DmaInitInv, DmaInvStep, DmaInvSays, PTL DEF DmaSpec

-----------------------------------------------------------------------------
(***************************************************************************)
(* The SPI (SpiBus), where no radio key takes the PLL from an interrupt.   *)
(***************************************************************************)
\* The interrupt handler of channel 5: a cell that it has seen free, and
\* that nobody else has taken, is still free; and the flag that it serves is
\* still set.
HandlerUnderway ==
    /\ irq \in [event : {"none", "half", "done", "error"}, room : BOOLEAN, preempted : BOOLEAN]
    /\ irq.event = "none" => irq = NoIrq
    /\ irq.room /\ ~ irq.preempted => PendingRoom
    /\ irq.event = "done" => dma.complete /\ ~ dma.en
    /\ irq.event = "half" => dma.half

\* Where the main program is tells what the flags of the SPI are.
Clocking == main.at \in {"sync", "bytes", "sent"}
FlagsFollow ==
    /\ spi.pending_event_done => spi.async
    /\ spi.pending_event_done <=> spi_planned \/ main.at = "reported"
    /\ IF Clocking THEN spi.in_progress /\ (spi.async <=> spi.pending_event_done)
       ELSE spi.in_progress <=> spi.async /\ ~ spi.pending_event_done
    /\ main.at = "async" => IsReady /\ ~ spi.async /\ main.for = spi.event_handler
    /\ main.at = "reported" => main.for = spi.event_handler /\ ~ spi_planned
    /\ spi.event_handler = NULL /\ (main.at = "async" \/ spi.async) => leaked < MaxLeaks

\* The PLL's users, at each place of the main program; and the semaphore
\* that it has loaded is the one it is about to change.
PllUsers ==
    IF Clocking THEN Share(main.at # "sync") + Share(spi.pending_event_done)
    ELSE Share(~ IsReady)

ClocksHeld ==
    /\ clocks.pll = PllUsers + leaked
    /\ clocks.hsi16 = Share(clocks.pll > 0) + Share(hsi)
    /\ clocks.sleep = clocks.hsi16
    /\ clocks.clk = ClockGet(clocks)
    /\ main.at \in {"async", "sync", "sent", "reported"} => main.loaded = clocks.pll
    /\ main.at \in {"hsi enable", "hsi disable"} => main.loaded = clocks.hsi16
    /\ main.at = "hsi enable" => ~ hsi
    /\ main.at = "hsi disable" => hsi

\* The end of a transfer is to come at most once; and it does come, unless
\* the DMA failed.
EndsToCome ==
    LET underway == spi.async /\ spi.in_progress /\ ~ spi.pending_event_done
    IN /\ dma.en \/ dma.complete \/ EndEvents # {} => underway
       /\ dma.en \/ dma.complete => EndEvents = {}
       /\ \A j, k \in EndEvents : j = k
       /\ underway /\ ~ dma.error => dma.en \/ dma.complete \/ EndEvents # {}

\* The display's chip select is active from the call to the end of its
\* transfer, and at no other time.
SelectedFor ==
    selected <=> \/ main.at = "async" /\ main.for = "display"
                 \/ spi.async /\ spi.event_handler = "display" /\ main.at # "reported"
                 \/ Clocking /\ main.for = "display"

DisplayAsksFirst == Clocking /\ main.for = "display" => ~ spi.pending_event_done

SpiInv ==
    /\ SpiTypeOK
    /\ ~ ook
    /\ dma.error => ~ dma.en
    /\ HandlerUnderway
    /\ ~ lost => FlagsFollow /\ ClocksHeld /\ EndsToCome /\ SelectedFor /\ DisplayAsksFirst

Mains == [at : {"idle", "async", "sync", "bytes", "sent", "events", "reported", "hsi enable",
                "hsi disable", "reset"},
          loaded : Int, for : {"display", "app", NULL}]
Spis == [in_progress : BOOLEAN, pending_event_done : BOOLEAN,
         event_handler : {"display", "app", NULL}, async : BOOLEAN]
Dmas == [en : BOOLEAN, left : {"all", "half", "none"}, half : BOOLEAN, complete : BOOLEAN,
         error : BOOLEAN]
Irqs == [event : {"none", "half", "done", "error"}, room : BOOLEAN, preempted : BOOLEAN]

\* A user of HSI16 more, and a user less.
LEMMA HsiEnabled ==
    ASSUME NEW c \in Clocks, NEW n \in Int
    PROVE  LET d == HsiEnable(c, n)
           IN d \in Clocks /\ d.pll = c.pll /\ d.hsi16 = n /\ d.sleep = c.sleep + 1
              /\ d.clk = IF n = 1 THEN "HSI" ELSE c.clk
<1> DEFINE e == [c EXCEPT !.hsi16 = n]
           f == [e EXCEPT !.sleep = @ + 1]
           g == [f EXCEPT !.clk = IF n = 1 THEN "HSI" ELSE @]
<1>1. e \in Clocks /\ e.hsi16 = n /\ e.pll = c.pll /\ e.sleep = c.sleep /\ e.clk = c.clk
  BY DEF Clocks
<1>2. HsiEnable(c, n) = g
  BY DEF HsiEnable
<1> HIDE DEF e
<1>3. f \in Clocks /\ f.hsi16 = n /\ f.pll = c.pll /\ f.sleep = c.sleep + 1 /\ f.clk = c.clk
  BY <1>1 DEF Clocks
<1> HIDE DEF f
<1>4. g \in Clocks /\ g.hsi16 = n /\ g.pll = c.pll /\ g.sleep = c.sleep + 1
      /\ g.clk = IF n = 1 THEN "HSI" ELSE c.clk
  BY <1>3 DEF Clocks
<1> QED BY <1>2, <1>4

LEMMA HsiDisabled ==
    ASSUME NEW c \in Clocks, NEW n \in Int
    PROVE  LET d == HsiDisable(c, n)
           IN d \in Clocks /\ d.pll = c.pll /\ d.hsi16 = n /\ d.sleep = c.sleep - 1
              /\ d.clk = IF n = 0 THEN "MSI" ELSE c.clk
<1> DEFINE e == [c EXCEPT !.hsi16 = n]
           f == [e EXCEPT !.sleep = @ - 1]
           g == [f EXCEPT !.clk = IF n = 0 THEN "MSI" ELSE @]
<1>1. e \in Clocks /\ e.hsi16 = n /\ e.pll = c.pll /\ e.sleep = c.sleep /\ e.clk = c.clk
  BY DEF Clocks
<1>2. HsiDisable(c, n) = g
  BY DEF HsiDisable
<1> HIDE DEF e
<1>3. f \in Clocks /\ f.hsi16 = n /\ f.pll = c.pll /\ f.sleep = c.sleep - 1 /\ f.clk = c.clk
  BY <1>1 DEF Clocks
<1> HIDE DEF f
<1>4. g \in Clocks /\ g.hsi16 = n /\ g.pll = c.pll /\ g.sleep = c.sleep - 1
      /\ g.clk = IF n = 0 THEN "MSI" ELSE c.clk
  BY <1>3 DEF Clocks
<1> QED BY <1>2, <1>4

\* A user of the PLL more, and a user less.
LEMMA PllEnabled ==
    ASSUME NEW c \in Clocks, NEW n \in Int
    PROVE  LET d == PllEnable(c, n)
           IN /\ d \in Clocks /\ d.pll = n
              /\ d.hsi16 = IF n = 1 THEN c.hsi16 + 1 ELSE c.hsi16
              /\ d.sleep = IF n = 1 THEN c.sleep + 1 ELSE c.sleep
              /\ d.clk = IF n = 1 THEN "PLL" ELSE c.clk
<1> DEFINE e == [c EXCEPT !.pll = n]
           m == c.hsi16 + 1
           f == HsiEnable(e, m)
           g == [f EXCEPT !.clk = "PLL"]
<1>1. e \in Clocks /\ e.pll = n /\ e.hsi16 = c.hsi16 /\ e.sleep = c.sleep /\ e.clk = c.clk
  BY DEF Clocks
<1>2. PllEnable(c, n) = IF n = 1 THEN g ELSE e
  BY DEF PllEnable
<1>3. m \in Int
  BY DEF Clocks
<1> HIDE DEF e
<1> HIDE DEF m
<1>4. f \in Clocks /\ f.hsi16 = m /\ f.pll = n /\ f.sleep = c.sleep + 1
  <2>1. f \in Clocks /\ f.pll = e.pll /\ f.hsi16 = m /\ f.sleep = e.sleep + 1
    BY <1>1, <1>3, HsiEnabled
  <2> QED BY <2>1, <1>1
<1> HIDE DEF f
<1>5. g \in Clocks /\ g.hsi16 = m /\ g.pll = n /\ g.sleep = c.sleep + 1 /\ g.clk = "PLL"
  BY <1>4 DEF Clocks
<1> HIDE DEF g
<1>6. CASE n = 1
  BY <1>2, <1>5, <1>6 DEF m
<1>7. CASE n # 1
  BY <1>1, <1>2, <1>7
<1> QED BY <1>6, <1>7

LEMMA PllDisabled ==
    ASSUME NEW c \in Clocks, NEW n \in Int
    PROVE  LET d == PllDisable(c, n)
           IN /\ d \in Clocks /\ d.pll = n
              /\ d.hsi16 = IF n = 0 THEN c.hsi16 - 1 ELSE c.hsi16
              /\ d.sleep = IF n = 0 THEN c.sleep - 1 ELSE c.sleep
              /\ d.clk = IF n # 0 THEN c.clk ELSE IF c.hsi16 = 1 THEN "MSI" ELSE "HSI"
<1> DEFINE e == [c EXCEPT !.pll = n]
           h == [e EXCEPT !.clk = "HSI"]
           m == c.hsi16 - 1
           f == HsiDisable(h, m)
<1>1. e \in Clocks /\ e.pll = n /\ e.hsi16 = c.hsi16 /\ e.sleep = c.sleep /\ e.clk = c.clk
  BY DEF Clocks
<1>2. PllDisable(c, n) = IF n = 0 THEN f ELSE e
  BY DEF PllDisable
<1>3. m \in Int /\ (m = 0 <=> c.hsi16 = 1)
  BY DEF Clocks
<1> HIDE DEF e
<1>4. h \in Clocks /\ h.pll = n /\ h.hsi16 = c.hsi16 /\ h.sleep = c.sleep /\ h.clk = "HSI"
  BY <1>1 DEF Clocks
<1> HIDE DEF h
<1> HIDE DEF m
<1>5. f \in Clocks /\ f.hsi16 = m /\ f.pll = n /\ f.sleep = c.sleep - 1
      /\ f.clk = IF m = 0 THEN "MSI" ELSE "HSI"
  <2>1. /\ f \in Clocks /\ f.pll = h.pll /\ f.hsi16 = m /\ f.sleep = h.sleep - 1
        /\ f.clk = IF m = 0 THEN "MSI" ELSE h.clk
    BY <1>3, <1>4, HsiDisabled
  <2> QED BY <2>1, <1>4
<1> HIDE DEF f
<1>6. CASE n = 0
  BY <1>2, <1>3, <1>5, <1>6 DEF m
<1>7. CASE n # 0
  BY <1>1, <1>2, <1>7
<1> QED BY <1>6, <1>7

\* What the records of the model are after a change of some of their fields.
IsSpi(t, busy, finished, client, async) ==
    /\ t \in Spis /\ t.in_progress = busy /\ t.pending_event_done = finished
    /\ t.event_handler = client /\ t.async = async

IsDma(t, en, half, complete, error) ==
    /\ t \in Dmas /\ t.en = en /\ t.half = half /\ t.complete = complete /\ t.error = error

IsMain(t, place, loaded, client) ==
    /\ t \in Mains /\ t.at = place /\ t.loaded = loaded /\ t.for = client

\* What the assignments to the SPI make of its fields ...
LEMMA SpiChanged ==
    ASSUME NEW s \in Spis, NEW client \in {"display", "app", NULL}
    PROVE  /\ IsSpi([s EXCEPT !.event_handler = client],
                    s.in_progress, s.pending_event_done, client, s.async)
           /\ IsSpi([s EXCEPT !.in_progress = TRUE],
                    TRUE, s.pending_event_done, s.event_handler, s.async)
           /\ IsSpi([s EXCEPT !.in_progress = FALSE],
                    FALSE, s.pending_event_done, s.event_handler, s.async)
           /\ IsSpi([s EXCEPT !.in_progress = TRUE, !.async = TRUE],
                    TRUE, s.pending_event_done, s.event_handler, TRUE)
           /\ IsSpi([s EXCEPT !.in_progress = FALSE, !.pending_event_done = TRUE],
                    FALSE, TRUE, s.event_handler, s.async)
           /\ IsSpi(Reported(s), s.in_progress, FALSE, s.event_handler, FALSE)
<1> DEFINE on == [s EXCEPT !.in_progress = TRUE]
           off == [s EXCEPT !.in_progress = FALSE]
           over == [s EXCEPT !.pending_event_done = FALSE]
<1>1. IsSpi([s EXCEPT !.event_handler = client],
            s.in_progress, s.pending_event_done, client, s.async)
  BY DEF IsSpi, Spis, NULL
<1>2. IsSpi(on, TRUE, s.pending_event_done, s.event_handler, s.async)
  BY DEF IsSpi, Spis, NULL
<1>3. IsSpi(off, FALSE, s.pending_event_done, s.event_handler, s.async)
  BY DEF IsSpi, Spis, NULL
<1>4. IsSpi(over, s.in_progress, FALSE, s.event_handler, s.async)
  BY DEF IsSpi, Spis, NULL
<1>5. /\ [s EXCEPT !.in_progress = TRUE, !.async = TRUE] = [on EXCEPT !.async = TRUE]
      /\ [s EXCEPT !.in_progress = FALSE, !.pending_event_done = TRUE]
            = [off EXCEPT !.pending_event_done = TRUE]
      /\ Reported(s) = [over EXCEPT !.async = FALSE]
  BY DEF Reported
<1>6. \A t \in Spis :
          /\ IsSpi([t EXCEPT !.async = TRUE], t.in_progress, t.pending_event_done,
                   t.event_handler, TRUE)
          /\ IsSpi([t EXCEPT !.async = FALSE], t.in_progress, t.pending_event_done,
                   t.event_handler, FALSE)
          /\ IsSpi([t EXCEPT !.pending_event_done = TRUE], t.in_progress, TRUE,
                   t.event_handler, t.async)
  BY DEF IsSpi, Spis, NULL
<1> HIDE DEF on, off, over
<1>7. IsSpi([on EXCEPT !.async = TRUE], TRUE, s.pending_event_done, s.event_handler, TRUE)
  BY <1>2, <1>6 DEF IsSpi
<1>8. IsSpi([off EXCEPT !.pending_event_done = TRUE], FALSE, TRUE, s.event_handler, s.async)
  BY <1>3, <1>6 DEF IsSpi
<1>9. IsSpi([over EXCEPT !.async = FALSE], s.in_progress, FALSE, s.event_handler, FALSE)
  BY <1>4, <1>6 DEF IsSpi
<1> QED BY <1>1, <1>2, <1>3, <1>5, <1>7, <1>8, <1>9 DEF on, off

\* ... those to the channel of the DMA ...
LEMMA DmaChanged ==
    ASSUME NEW d \in Dmas, NEW b \in BOOLEAN, NEW c \in BOOLEAN
    PROVE  /\ IsDma([d EXCEPT !.en = TRUE, !.left = "all"], TRUE, d.half, d.complete, d.error)
           /\ IsDma([d EXCEPT !.left = "half", !.half = TRUE], d.en, TRUE, d.complete, d.error)
           /\ IsDma([d EXCEPT !.left = "none", !.complete = TRUE], d.en, d.half, TRUE, d.error)
           /\ IsDma([d EXCEPT !.en = FALSE, !.error = TRUE], FALSE, d.half, d.complete, TRUE)
           /\ IsDma([d EXCEPT !.en = FALSE], FALSE, d.half, d.complete, d.error)
           /\ IsDma([d EXCEPT !.half = b, !.complete = c], d.en, b, c, d.error)
<1> DEFINE e1 == [d EXCEPT !.en = TRUE]
           e2 == [d EXCEPT !.left = "half"]
           e3 == [d EXCEPT !.left = "none"]
           e4 == [d EXCEPT !.en = FALSE]
           e5 == [d EXCEPT !.half = b]
<1>1. /\ IsDma(e1, TRUE, d.half, d.complete, d.error)
      /\ IsDma(e2, d.en, d.half, d.complete, d.error)
      /\ IsDma(e3, d.en, d.half, d.complete, d.error)
      /\ IsDma(e4, FALSE, d.half, d.complete, d.error)
      /\ IsDma(e5, d.en, b, d.complete, d.error)
  BY DEF IsDma, Dmas
<1>2. /\ [d EXCEPT !.en = TRUE, !.left = "all"] = [e1 EXCEPT !.left = "all"]
      /\ [d EXCEPT !.left = "half", !.half = TRUE] = [e2 EXCEPT !.half = TRUE]
      /\ [d EXCEPT !.left = "none", !.complete = TRUE] = [e3 EXCEPT !.complete = TRUE]
      /\ [d EXCEPT !.en = FALSE, !.error = TRUE] = [e4 EXCEPT !.error = TRUE]
      /\ [d EXCEPT !.half = b, !.complete = c] = [e5 EXCEPT !.complete = c]
  OBVIOUS
<1>3. \A e \in Dmas :
          /\ IsDma([e EXCEPT !.left = "all"], e.en, e.half, e.complete, e.error)
          /\ IsDma([e EXCEPT !.half = TRUE], e.en, TRUE, e.complete, e.error)
          /\ IsDma([e EXCEPT !.complete = TRUE], e.en, e.half, TRUE, e.error)
          /\ IsDma([e EXCEPT !.error = TRUE], e.en, e.half, e.complete, TRUE)
          /\ IsDma([e EXCEPT !.complete = c], e.en, e.half, c, e.error)
  BY DEF IsDma, Dmas
<1> HIDE DEF e1, e2, e3, e4, e5
<1>4. IsDma([e1 EXCEPT !.left = "all"], TRUE, d.half, d.complete, d.error)
  BY <1>1, <1>3 DEF IsDma
<1>5. IsDma([e2 EXCEPT !.half = TRUE], d.en, TRUE, d.complete, d.error)
  BY <1>1, <1>3 DEF IsDma
<1>6. IsDma([e3 EXCEPT !.complete = TRUE], d.en, d.half, TRUE, d.error)
  BY <1>1, <1>3 DEF IsDma
<1>7. IsDma([e4 EXCEPT !.error = TRUE], FALSE, d.half, d.complete, TRUE)
  BY <1>1, <1>3 DEF IsDma
<1>8. IsDma([e5 EXCEPT !.complete = c], d.en, b, c, d.error)
  BY <1>1, <1>3 DEF IsDma
<1> QED BY <1>1, <1>2, <1>4, <1>5, <1>6, <1>7, <1>8 DEF e4

\* ... and those of the main program.
LEMMA MainChanged ==
    ASSUME NEW m \in Mains, NEW n \in Int
    PROVE  /\ IsMain([m EXCEPT !.at = "bytes"], "bytes", m.loaded, m.for)
           /\ IsMain([m EXCEPT !.at = "sent", !.loaded = n], "sent", n, m.for)
           /\ IsMain([m EXCEPT !.at = "reset"], "reset", m.loaded, m.for)
           /\ IsMain([m EXCEPT !.at = "events"], "events", m.loaded, m.for)
<1> DEFINE e == [m EXCEPT !.at = "sent"]
<1>1. /\ IsMain([m EXCEPT !.at = "bytes"], "bytes", m.loaded, m.for)
      /\ IsMain(e, "sent", m.loaded, m.for)
      /\ IsMain([m EXCEPT !.at = "reset"], "reset", m.loaded, m.for)
      /\ IsMain([m EXCEPT !.at = "events"], "events", m.loaded, m.for)
  BY DEF IsMain, Mains, NULL
<1>2. [m EXCEPT !.at = "sent", !.loaded = n] = [e EXCEPT !.loaded = n]
  OBVIOUS
<1>3. \A f \in Mains : IsMain([f EXCEPT !.loaded = n], f.at, n, f.for)
  BY DEF IsMain, Mains, NULL
<1> HIDE DEF e
<1>4. IsMain([e EXCEPT !.loaded = n], "sent", n, m.for)
  BY <1>1, <1>3 DEF IsMain
<1> QED BY <1>1, <1>2, <1>4

Events == {"other", "half", "done", "error"}

\* The types of the variables, one by one.
LEMMA SpiTypes ==
    ASSUME SpiInv
    PROVE  /\ clocks \in Clocks /\ main \in Mains /\ spi \in Spis /\ dma \in Dmas /\ irq \in Irqs
           /\ fifo_pending \in Seq(Events) /\ leaked \in 0 .. MaxLeaks
           /\ selected \in BOOLEAN /\ dma_planned \in BOOLEAN /\ spi_planned \in BOOLEAN
           /\ ook \in BOOLEAN /\ hsi \in BOOLEAN /\ lost \in BOOLEAN
BY DEF SpiInv, SpiTypeOK, HandlerUnderway, Mains, Spis, Dmas, Irqs, Events

\* What a step does not touch stays as it was.
LEMMA EndsStay ==
    ASSUME EndsToCome, UNCHANGED <<spi, dma, fifo_pending>>
    PROVE  EndsToCome'
<1>1. EndEvents' = EndEvents
  BY DEF EndEvents
<1> QED BY <1>1 DEF EndsToCome

LEMMA HandlerStays ==
    ASSUME HandlerUnderway, UNCHANGED <<irq, dma, fifo_pending>>
    PROVE  HandlerUnderway'
BY DEF HandlerUnderway, PendingRoom

LEMMA ClocksStay ==
    ASSUME ClocksHeld, UNCHANGED <<clocks, main, spi, hsi, leaked>>
    PROVE  ClocksHeld'
BY DEF ClocksHeld, PllUsers, Clocking, IsReady

LEMMA FlagsStay ==
    ASSUME FlagsFollow, UNCHANGED <<main, spi, spi_planned, leaked>>
    PROVE  FlagsFollow'
BY DEF FlagsFollow, Clocking, IsReady

LEMMA SelectedStays ==
    ASSUME SelectedFor, DisplayAsksFirst, UNCHANGED <<main, spi, selected>>
    PROVE  SelectedFor' /\ DisplayAsksFirst'
BY DEF SelectedFor, DisplayAsksFirst, Clocking

\* What the PLL's semaphore, set to n, makes of the clocks.
PllOn(c, n) ==
    /\ c \in Clocks /\ c.pll = n
    /\ c.hsi16 = clocks.hsi16 + Share(n = 1) /\ c.sleep = clocks.sleep + Share(n = 1)
    /\ c.clk = IF n = 1 THEN "PLL" ELSE clocks.clk
PllOff(c, n) ==
    /\ c \in Clocks /\ c.pll = n
    /\ c.hsi16 = clocks.hsi16 - Share(n = 0) /\ c.sleep = clocks.sleep - Share(n = 0)
    /\ c.clk = IF n # 0 THEN clocks.clk ELSE IF clocks.hsi16 = 1 THEN "MSI" ELSE "HSI"

\* ... and put together again.
LEMMA TypesAgree ==
    ASSUME leaked' \in 0 .. MaxLeaks, Len(fifo_pending') <= PendingCapacity,
           clocks' \in Clocks, main' \in Mains, spi' \in Spis, dma' \in Dmas, irq' \in Irqs,
           fifo_pending' \in Seq(Events), selected' \in BOOLEAN, dma_planned' \in BOOLEAN,
           spi_planned' \in BOOLEAN, ook' \in BOOLEAN, hsi' \in BOOLEAN, lost' \in BOOLEAN
    PROVE  SpiTypeOK'
BY DEF SpiTypeOK, Mains, Spis, Dmas, Irqs, Events

\* Where the main program is between two calls.
LEMMA Places ==
    /\ IsMain(Idle, "idle", 0, NULL)
    /\ IsMain([Idle EXCEPT !.at = "events"], "events", 0, NULL)
<1>1. IsMain(Idle, "idle", 0, NULL)
  BY DEF IsMain, Idle, Mains, NULL
<1>2. Idle \in Mains /\ Idle.loaded = 0 /\ Idle.for = NULL
  BY <1>1 DEF IsMain
<1>3. \A m \in Mains : IsMain([m EXCEPT !.at = "events"], "events", m.loaded, m.for)
  BY DEF IsMain, Mains, NULL
<1> QED BY <1>1, <1>2, <1>3 DEF IsMain

\* A user more, or less, of the PLL as it was when it was loaded.
LEMMA Switched ==
    ASSUME SpiInv
    PROVE  /\ clocks.pll \in Int /\ clocks.hsi16 \in Int /\ clocks.sleep \in Int
           /\ main.loaded \in Int
           /\ PllOn(PllEnable(clocks, main.loaded + 1), main.loaded + 1)
           /\ PllOff(PllDisable(clocks, main.loaded - 1), main.loaded - 1)
<1> DEFINE n == main.loaded + 1
           k == main.loaded - 1
<1>1. clocks.pll \in Int /\ clocks.hsi16 \in Int /\ clocks.sleep \in Int
  BY SpiTypes DEF Clocks
<1>2. main.loaded \in Int
  BY SpiTypes DEF Mains
<1>3. n \in Int /\ k \in Int
  BY <1>2
<1>4. clocks \in Clocks
  BY SpiTypes
<1> HIDE DEF n, k
<1>5. PllOn(PllEnable(clocks, n), n)
  <2> DEFINE d == PllEnable(clocks, n)
  <2>1. /\ d \in Clocks /\ d.pll = n
        /\ d.hsi16 = IF n = 1 THEN clocks.hsi16 + 1 ELSE clocks.hsi16
        /\ d.sleep = IF n = 1 THEN clocks.sleep + 1 ELSE clocks.sleep
        /\ d.clk = IF n = 1 THEN "PLL" ELSE clocks.clk
    BY <1>3, <1>4, PllEnabled
  <2> HIDE DEF d
  <2>2. PllOn(d, n)
    BY <1>1, <2>1 DEF PllOn, Share
  <2> QED BY <2>2 DEF d
<1>6. PllOff(PllDisable(clocks, k), k)
  <2> DEFINE d == PllDisable(clocks, k)
  <2>1. /\ d \in Clocks /\ d.pll = k
        /\ d.hsi16 = IF k = 0 THEN clocks.hsi16 - 1 ELSE clocks.hsi16
        /\ d.sleep = IF k = 0 THEN clocks.sleep - 1 ELSE clocks.sleep
        /\ d.clk = IF k # 0 THEN clocks.clk ELSE IF clocks.hsi16 = 1 THEN "MSI" ELSE "HSI"
    BY <1>3, <1>4, PllDisabled
  <2> HIDE DEF d
  <2>2. PllOff(d, k)
    BY <1>1, <2>1 DEF PllOff, Share
  <2> QED BY <2>2 DEF d
<1> QED BY <1>1, <1>2, <1>5, <1>6 DEF n, k

\* The beginning of a transfer by DMA, of one that waits, and of others.
LEMMA AsyncBeginKeeps ==
    ASSUME SpiInv, NEW client \in {"display", "app", NULL}, AsyncBegin(client)
    PROVE  SpiInv'
<1>1. /\ main.at = "idle" /\ IsReady
      /\ client = NULL => leaked < MaxLeaks /\ ~ lost
      /\ selected' = (selected \/ client = "display")
      /\ UNCHANGED <<clocks, dma, irq, fifo_pending, dma_planned, spi_planned, ook, hsi, leaked,
           lost>>
  BY DEF AsyncBegin, MainAt, Goto, IsReady
<1>2. IsSpi(spi', spi.in_progress, spi.pending_event_done, client, spi.async)
  BY SpiChanged, SpiTypes DEF AsyncBegin
<1>3. IsMain(main', "async", clocks.pll, client)
  BY SpiTypes DEF AsyncBegin, Goto, IsMain, Mains, Clocks
<1>4. SpiTypeOK'
  BY <1>1, <1>2, <1>3, SpiBounds, SpiTypes, TypesAgree
  DEF SpiInv, SpiTypeOK, IsSpi, IsDma, IsMain, PllOn, PllOff, Share
<1>5. HandlerUnderway'
  BY <1>1, HandlerStays DEF SpiInv
<1>6. ASSUME ~ lost' PROVE FlagsFollow'
  BY <1>1, <1>2, <1>3, <1>6, SpiTypes
  DEF SpiInv, FlagsFollow, EndsToCome, ClocksHeld, IsReady, Clocking, NULL, IsSpi, IsDma, IsMain,
    PllOn, PllOff, Share
<1>7. ASSUME ~ lost' PROVE ClocksHeld'
  BY <1>1, <1>2, <1>3, <1>7, SpiTypes
  DEF SpiInv, FlagsFollow, ClocksHeld, PllUsers, IsReady, Clocking, ClockGet, Clocks, NULL, IsSpi,
    IsDma, IsMain, PllOn, PllOff, Share
<1>8. ASSUME ~ lost' PROVE EndsToCome'
  BY <1>1, <1>2, <1>3, <1>8, SpiTypes
  DEF SpiInv, FlagsFollow, EndsToCome, HandlerUnderway, IsReady, Clocking, EndEvents, IsSpi, IsDma,
    IsMain, PllOn, PllOff, Share
<1>9. ASSUME ~ lost' PROVE SelectedFor' /\ DisplayAsksFirst'
  BY <1>1, <1>2, <1>3, <1>9, SpiTypes
  DEF SpiInv, FlagsFollow, SelectedFor, DisplayAsksFirst, IsReady, Clocking, NULL, IsSpi, IsDma,
    IsMain, PllOn, PllOff, Share
<1> QED
  BY <1>1, <1>4, <1>5, <1>6, <1>7, <1>8, <1>9, <1>2, <1>3 DEF SpiInv, IsDma

LEMMA SyncBeginKeeps ==
    ASSUME SpiInv, NEW client \in {"display", "app"}, SyncBegin(client)
    PROVE  SpiInv'
<1>1. /\ main.at = "idle" /\ ~ spi.in_progress
      /\ client = "display" => IsReady
      /\ selected' = (selected \/ client = "display")
      /\ UNCHANGED <<clocks, dma, irq, fifo_pending, dma_planned, spi_planned, ook, hsi, leaked,
           lost>>
  BY DEF SyncBegin, MainAt, Goto, IsReady
<1>2. IsSpi(spi', TRUE, spi.pending_event_done, spi.event_handler, spi.async)
  BY SpiChanged, SpiTypes DEF SyncBegin
<1>3. IsMain(main', "sync", clocks.pll, client)
  BY SpiTypes DEF SyncBegin, Goto, IsMain, Mains, Clocks
<1>4. SpiTypeOK'
  BY <1>1, <1>2, <1>3, SpiBounds, SpiTypes, TypesAgree
  DEF SpiInv, SpiTypeOK, IsSpi, IsDma, IsMain, PllOn, PllOff, Share
<1>5. HandlerUnderway'
  BY <1>1, HandlerStays DEF SpiInv
<1>6. ASSUME ~ lost' PROVE FlagsFollow'
  BY <1>1, <1>2, <1>3, <1>6, SpiTypes
  DEF SpiInv, FlagsFollow, EndsToCome, ClocksHeld, IsReady, Clocking, NULL, IsSpi, IsDma, IsMain,
    PllOn, PllOff, Share
<1>7. ASSUME ~ lost' PROVE ClocksHeld'
  BY <1>1, <1>2, <1>3, <1>7, SpiTypes
  DEF SpiInv, FlagsFollow, ClocksHeld, PllUsers, IsReady, Clocking, ClockGet, Clocks, NULL, IsSpi,
    IsDma, IsMain, PllOn, PllOff, Share
<1>8. ASSUME ~ lost' PROVE EndsToCome'
  BY <1>1, <1>2, <1>3, <1>8, SpiTypes
  DEF SpiInv, FlagsFollow, EndsToCome, HandlerUnderway, IsReady, Clocking, EndEvents, IsSpi, IsDma,
    IsMain, PllOn, PllOff, Share
<1>9. ASSUME ~ lost' PROVE SelectedFor' /\ DisplayAsksFirst'
  BY <1>1, <1>2, <1>3, <1>9, SpiTypes
  DEF SpiInv, FlagsFollow, SelectedFor, DisplayAsksFirst, IsReady, Clocking, NULL, IsSpi, IsDma,
    IsMain, PllOn, PllOff, Share
<1> QED
  BY <1>1, <1>4, <1>5, <1>6, <1>7, <1>8, <1>9, <1>2, <1>3 DEF SpiInv, IsDma

LEMMA AsyncRefusedKeeps ==
    ASSUME SpiInv, AsyncRefused
    PROVE  SpiInv'
<1>1. /\ main.at = "idle" /\ IsReady
      /\ UNCHANGED <<clocks, main, selected, dma, irq, fifo_pending, dma_planned, spi_planned,
           ook, hsi, leaked, lost>>
  BY DEF AsyncRefused, MainAt, Goto, IsReady
<1>2. IsSpi(spi', spi.in_progress, spi.pending_event_done, "app", spi.async)
  BY SpiChanged, SpiTypes DEF AsyncRefused
<1>3. SpiTypeOK'
  BY <1>1, <1>2, SpiBounds, SpiTypes, TypesAgree
  DEF SpiInv, SpiTypeOK, IsSpi, IsDma, IsMain, PllOn, PllOff, Share
<1>4. HandlerUnderway'
  BY <1>1, HandlerStays DEF SpiInv
<1>5. ASSUME ~ lost' PROVE FlagsFollow'
  BY <1>1, <1>2, <1>5, SpiTypes
  DEF SpiInv, FlagsFollow, EndsToCome, ClocksHeld, IsReady, Clocking, NULL, IsSpi, IsDma, IsMain,
    PllOn, PllOff, Share
<1>6. ASSUME ~ lost' PROVE ClocksHeld'
  BY <1>1, <1>2, <1>6, SpiTypes
  DEF SpiInv, FlagsFollow, ClocksHeld, PllUsers, IsReady, Clocking, ClockGet, Clocks, NULL, IsSpi,
    IsDma, IsMain, PllOn, PllOff, Share
<1>7. ASSUME ~ lost' PROVE EndsToCome'
  BY <1>1, <1>2, <1>7, SpiTypes
  DEF SpiInv, FlagsFollow, EndsToCome, HandlerUnderway, IsReady, Clocking, EndEvents, IsSpi, IsDma,
    IsMain, PllOn, PllOff, Share
<1>8. ASSUME ~ lost' PROVE SelectedFor' /\ DisplayAsksFirst'
  BY <1>1, <1>2, <1>8, SpiTypes
  DEF SpiInv, FlagsFollow, SelectedFor, DisplayAsksFirst, IsReady, Clocking, NULL, IsSpi, IsDma,
    IsMain, PllOn, PllOff, Share
<1> QED
  BY <1>1, <1>3, <1>4, <1>5, <1>6, <1>7, <1>8, <1>2 DEF SpiInv, IsDma

LEMMA HsiBeginKeeps ==
    ASSUME SpiInv, HsiBegin
    PROVE  SpiInv'
<1>1. /\ main.at = "idle"
      /\ UNCHANGED <<clocks, spi, selected, dma, irq, fifo_pending, dma_planned, spi_planned,
           ook, hsi, leaked, lost>>
  BY DEF HsiBegin, MainAt, Goto, IsReady
<1>2. IsMain(main', IF hsi THEN "hsi disable" ELSE "hsi enable", clocks.hsi16, NULL)
  BY SpiTypes DEF HsiBegin, Goto, IsMain, Mains, Clocks, NULL
<1>3. SpiTypeOK'
  BY <1>1, <1>2, SpiBounds, SpiTypes, TypesAgree
  DEF SpiInv, SpiTypeOK, IsSpi, IsDma, IsMain, PllOn, PllOff, Share
<1>4. HandlerUnderway'
  BY <1>1, HandlerStays DEF SpiInv
<1>5. ASSUME ~ lost' PROVE FlagsFollow'
  BY <1>1, <1>2, <1>5, SpiTypes
  DEF SpiInv, FlagsFollow, EndsToCome, ClocksHeld, IsReady, Clocking, NULL, IsSpi, IsDma, IsMain,
    PllOn, PllOff, Share
<1>6. ASSUME ~ lost' PROVE ClocksHeld'
  BY <1>1, <1>2, <1>6, SpiTypes
  DEF SpiInv, FlagsFollow, ClocksHeld, PllUsers, IsReady, Clocking, ClockGet, Clocks, NULL, IsSpi,
    IsDma, IsMain, PllOn, PllOff, Share
<1>7. ASSUME ~ lost' PROVE EndsToCome'
  BY <1>1, <1>7, EndsStay DEF SpiInv
<1>8. ASSUME ~ lost' PROVE SelectedFor' /\ DisplayAsksFirst'
  BY <1>1, <1>2, <1>8, SpiTypes
  DEF SpiInv, FlagsFollow, SelectedFor, DisplayAsksFirst, IsReady, Clocking, NULL, IsSpi, IsDma,
    IsMain, PllOn, PllOff, Share
<1> QED
  BY <1>1, <1>3, <1>4, <1>5, <1>6, <1>7, <1>8, <1>2 DEF SpiInv, IsDma

\* The steps that follow.
LEMMA AsyncRunKeeps ==
    ASSUME SpiInv, AsyncRun
    PROVE  SpiInv'
<1>1. /\ main.at = "async"
      /\ irq = NoIrq /\ ~ dma.half /\ ~ dma.complete /\ ~ dma.error
      /\ clocks' = PllEnable(clocks, main.loaded + 1)
      /\ UNCHANGED <<selected, irq, fifo_pending, dma_planned, spi_planned, ook, hsi, leaked,
           lost>>
  BY DEF AsyncRun, MainAt, Goto, IsReady
<1>2. IsSpi(spi', TRUE, spi.pending_event_done, spi.event_handler, TRUE)
  BY SpiChanged, SpiTypes DEF AsyncRun
<1>3. IsDma(dma', TRUE, dma.half, dma.complete, dma.error)
  BY DmaChanged, SpiTypes DEF AsyncRun
<1>4. IsMain(main', "idle", 0, NULL)
  BY Places DEF AsyncRun
<1>5. PllOn(clocks', main.loaded + 1)
  BY Switched DEF AsyncRun
<1>6. SpiTypeOK'
  BY <1>1, <1>2, <1>3, <1>4, <1>5, SpiBounds, SpiTypes, TypesAgree
  DEF SpiInv, SpiTypeOK, IsSpi, IsDma, IsMain, PllOn, PllOff, Share
<1>7. HandlerUnderway'
  BY <1>1, <1>2, <1>3, <1>4, <1>5, SpiTypes
  DEF SpiInv, HandlerUnderway, PendingRoom, NoIrq, Irqs, IsSpi, IsDma, IsMain, PllOn, PllOff, Share
<1>8. ASSUME ~ lost' PROVE FlagsFollow'
  BY <1>1, <1>2, <1>3, <1>4, <1>5, <1>8, SpiTypes
  DEF SpiInv, FlagsFollow, EndsToCome, ClocksHeld, IsReady, Clocking, NULL, IsSpi, IsDma, IsMain,
    PllOn, PllOff, Share
<1>9. ASSUME ~ lost' PROVE ClocksHeld'
  BY <1>1, <1>2, <1>3, <1>4, <1>5, <1>9, SpiTypes
  DEF SpiInv, FlagsFollow, ClocksHeld, PllUsers, IsReady, Clocking, ClockGet, Clocks, NULL, IsSpi,
    IsDma, IsMain, PllOn, PllOff, Share
<1>10. ASSUME ~ lost' PROVE EndsToCome'
  BY <1>1, <1>2, <1>3, <1>4, <1>5, <1>10, SpiTypes
  DEF SpiInv, FlagsFollow, EndsToCome, HandlerUnderway, IsReady, Clocking, EndEvents, IsSpi, IsDma,
    IsMain, PllOn, PllOff, Share
<1>11. ASSUME ~ lost' PROVE SelectedFor' /\ DisplayAsksFirst'
  BY <1>1, <1>2, <1>3, <1>4, <1>5, <1>11, SpiTypes
  DEF SpiInv, FlagsFollow, SelectedFor, DisplayAsksFirst, IsReady, Clocking, NULL, IsSpi, IsDma,
    IsMain, PllOn, PllOff, Share
<1> QED
  BY <1>1, <1>6, <1>7, <1>8, <1>9, <1>10, <1>11, <1>2, <1>3, <1>4, <1>5 DEF SpiInv, IsDma

LEMMA SyncBytesKeeps ==
    ASSUME SpiInv, SyncBytes
    PROVE  SpiInv'
<1>1. /\ main.at = "sync"
      /\ UNCHANGED <<spi, selected, dma, irq, fifo_pending, dma_planned, spi_planned, ook, hsi,
           leaked, lost>>
  BY DEF SyncBytes, MainAt, Goto, IsReady
<1>2. IsMain(main', "bytes", main.loaded, main.for)
  BY MainChanged, SpiTypes, Switched DEF SyncBytes
<1>3. PllOn(clocks', main.loaded + 1)
  BY Switched DEF SyncBytes
<1>4. SpiTypeOK'
  BY <1>1, <1>2, <1>3, SpiBounds, SpiTypes, TypesAgree
  DEF SpiInv, SpiTypeOK, IsSpi, IsDma, IsMain, PllOn, PllOff, Share
<1>5. HandlerUnderway'
  BY <1>1, HandlerStays DEF SpiInv
<1>6. ASSUME ~ lost' PROVE FlagsFollow'
  BY <1>1, <1>2, <1>3, <1>6, SpiTypes
  DEF SpiInv, FlagsFollow, EndsToCome, ClocksHeld, IsReady, Clocking, NULL, IsSpi, IsDma, IsMain,
    PllOn, PllOff, Share
<1>7. ASSUME ~ lost' PROVE ClocksHeld'
  BY <1>1, <1>2, <1>3, <1>7, SpiTypes
  DEF SpiInv, FlagsFollow, ClocksHeld, PllUsers, IsReady, Clocking, ClockGet, Clocks, NULL, IsSpi,
    IsDma, IsMain, PllOn, PllOff, Share
<1>8. ASSUME ~ lost' PROVE EndsToCome'
  BY <1>1, <1>8, EndsStay DEF SpiInv
<1>9. ASSUME ~ lost' PROVE SelectedFor' /\ DisplayAsksFirst'
  BY <1>1, <1>2, <1>3, <1>9, SpiTypes
  DEF SpiInv, FlagsFollow, SelectedFor, DisplayAsksFirst, IsReady, Clocking, NULL, IsSpi, IsDma,
    IsMain, PllOn, PllOff, Share
<1> QED
  BY <1>1, <1>4, <1>5, <1>6, <1>7, <1>8, <1>9, <1>2, <1>3 DEF SpiInv, IsDma

LEMMA SyncLoadKeeps ==
    ASSUME SpiInv, SyncLoad
    PROVE  SpiInv'
<1>1. /\ main.at = "bytes"
      /\ UNCHANGED <<clocks, spi, selected, dma, irq, fifo_pending, dma_planned, spi_planned,
           ook, hsi, leaked, lost>>
  BY DEF SyncLoad, MainAt, Goto, IsReady
<1>2. IsMain(main', "sent", clocks.pll, main.for)
  BY MainChanged, SpiTypes, Switched DEF SyncLoad
<1>3. SpiTypeOK'
  BY <1>1, <1>2, SpiBounds, SpiTypes, TypesAgree
  DEF SpiInv, SpiTypeOK, IsSpi, IsDma, IsMain, PllOn, PllOff, Share
<1>4. HandlerUnderway'
  BY <1>1, HandlerStays DEF SpiInv
<1>5. ASSUME ~ lost' PROVE FlagsFollow'
  BY <1>1, <1>2, <1>5, SpiTypes
  DEF SpiInv, FlagsFollow, EndsToCome, ClocksHeld, IsReady, Clocking, NULL, IsSpi, IsDma, IsMain,
    PllOn, PllOff, Share
<1>6. ASSUME ~ lost' PROVE ClocksHeld'
  BY <1>1, <1>2, <1>6, SpiTypes
  DEF SpiInv, FlagsFollow, ClocksHeld, PllUsers, IsReady, Clocking, ClockGet, Clocks, NULL, IsSpi,
    IsDma, IsMain, PllOn, PllOff, Share
<1>7. ASSUME ~ lost' PROVE EndsToCome'
  BY <1>1, <1>7, EndsStay DEF SpiInv
<1>8. ASSUME ~ lost' PROVE SelectedFor' /\ DisplayAsksFirst'
  BY <1>1, <1>2, <1>8, SpiTypes
  DEF SpiInv, FlagsFollow, SelectedFor, DisplayAsksFirst, IsReady, Clocking, NULL, IsSpi, IsDma,
    IsMain, PllOn, PllOff, Share
<1> QED
  BY <1>1, <1>3, <1>4, <1>5, <1>6, <1>7, <1>8, <1>2 DEF SpiInv, IsDma

LEMMA SyncEndKeeps ==
    ASSUME SpiInv, SyncEnd
    PROVE  SpiInv'
<1>1. /\ main.at = "sent"
      /\ selected' = (selected /\ main.for # "display")
      /\ UNCHANGED <<dma, irq, fifo_pending, dma_planned, spi_planned, ook, hsi, leaked, lost>>
  BY DEF SyncEnd, MainAt, Goto, IsReady
<1>2. IsSpi(spi', FALSE, spi.pending_event_done, spi.event_handler, spi.async)
  BY SpiChanged, SpiTypes DEF SyncEnd
<1>3. IsMain(main', "idle", 0, NULL)
  BY Places DEF SyncEnd
<1>4. PllOff(clocks', main.loaded - 1)
  BY Switched DEF SyncEnd
<1>5. SpiTypeOK'
  BY <1>1, <1>2, <1>3, <1>4, SpiBounds, SpiTypes, TypesAgree
  DEF SpiInv, SpiTypeOK, IsSpi, IsDma, IsMain, PllOn, PllOff, Share
<1>6. HandlerUnderway'
  BY <1>1, HandlerStays DEF SpiInv
<1>7. ASSUME ~ lost' PROVE FlagsFollow'
  BY <1>1, <1>2, <1>3, <1>4, <1>7, SpiTypes
  DEF SpiInv, FlagsFollow, EndsToCome, ClocksHeld, IsReady, Clocking, NULL, IsSpi, IsDma, IsMain,
    PllOn, PllOff, Share
<1>8. ASSUME ~ lost' PROVE ClocksHeld'
  <2>1. /\ clocks.pll = 1 + Share(spi.pending_event_done) + leaked /\ main.loaded = clocks.pll
        /\ clocks.hsi16 = 1 + Share(hsi) /\ clocks.sleep = clocks.hsi16 /\ clocks.clk = "PLL"
    BY <1>1, <1>8, SpiTypes DEF SpiInv, ClocksHeld, PllUsers, Clocking, Share, ClockGet
  <2>2. clocks'.pll = Share(spi.pending_event_done) + leaked /\ clocks'.pll = main.loaded - 1
        /\ clocks'.pll \in Nat
    BY <2>1, <1>1, <1>2, <1>3, <1>4, SpiTypes, Switched DEF PllOff, Share
  <2>3. CASE clocks'.pll = 0
    <3>1. main.loaded - 1 = 0
      BY <2>2, <2>3
    <3>2. /\ clocks'.hsi16 = clocks.hsi16 - 1 /\ clocks'.sleep = clocks.sleep - 1
          /\ clocks'.clk = IF clocks.hsi16 = 1 THEN "MSI" ELSE "HSI"
      BY <3>1, <1>1, <1>2, <1>3, <1>4 DEF PllOff, Share
    <3>3. clocks'.hsi16 = Share(hsi) /\ clocks'.sleep = clocks'.hsi16
      BY <2>1, <3>2, SpiTypes DEF Share
    <3>4. clocks'.clk = ClockGet(clocks')
      BY <2>1, <2>3, <3>2, <3>3, SpiTypes DEF Share, ClockGet
    <3>5. PllUsers' + leaked' = 0
      BY <2>2, <2>3, <1>1, <1>2, <1>3, <1>4, <1>8, SpiTypes
      DEF SpiInv, FlagsFollow, PllUsers, IsReady, Clocking, IsSpi, IsMain, Share
    <3> QED
      BY <2>3, <3>3, <3>4, <3>5, <1>1, <1>2, <1>3, <1>4 DEF ClocksHeld, IsMain, Share
  <2>4. CASE clocks'.pll # 0
    <3>1. main.loaded - 1 # 0 /\ clocks'.pll > 0 /\ clocks'.pll \in Nat
      BY <2>2, <2>4
    <3>2. /\ clocks'.hsi16 = clocks.hsi16 - 0 /\ clocks'.sleep = clocks.sleep - 0
          /\ clocks'.clk = "PLL"
      BY <2>1, <3>1, <1>1, <1>2, <1>3, <1>4 DEF PllOff, Share
    <3>3. clocks'.hsi16 = 1 + Share(hsi) /\ clocks'.sleep = clocks'.hsi16
      BY <2>1, <3>2, SpiTypes DEF Share
    <3>4. clocks'.clk = ClockGet(clocks')
      BY <2>4, <3>2 DEF ClockGet
    <3>5. PllUsers' = Share(spi.pending_event_done)
      BY <1>1, <1>2, <1>3, <1>4, <1>8, SpiTypes
      DEF SpiInv, FlagsFollow, PllUsers, IsReady, Clocking, IsSpi, IsMain, Share
    <3> QED
      BY <1>1, <2>2, <3>1, <3>3, <3>4, <3>5, <1>1, <1>2, <1>3, <1>4 DEF ClocksHeld, IsMain, Share
  <2> QED
    BY <2>3, <2>4
<1>9. ASSUME ~ lost' PROVE EndsToCome'
  BY <1>1, <1>2, <1>3, <1>4, <1>9, SpiTypes
  DEF SpiInv, FlagsFollow, EndsToCome, HandlerUnderway, IsReady, Clocking, EndEvents, IsSpi, IsDma,
    IsMain, PllOn, PllOff, Share
<1>10. ASSUME ~ lost' PROVE SelectedFor' /\ DisplayAsksFirst'
  BY <1>1, <1>2, <1>3, <1>4, <1>10, SpiTypes
  DEF SpiInv, FlagsFollow, SelectedFor, DisplayAsksFirst, IsReady, Clocking, NULL, IsSpi, IsDma,
    IsMain, PllOn, PllOff, Share
<1> QED
  BY <1>1, <1>5, <1>6, <1>7, <1>8, <1>9, <1>10, <1>2, <1>3, <1>4 DEF SpiInv, IsDma

\* The tasks, but for what they do with an event.
LEMMA DmaTaskKeeps ==
    ASSUME SpiInv, DmaTask
    PROVE  SpiInv'
<1>1. /\ main.at = "idle"
      /\ dma_planned' = FALSE
      /\ UNCHANGED <<clocks, spi, selected, dma, irq, fifo_pending, spi_planned, ook, hsi,
           leaked, lost>>
  BY DEF DmaTask, MainAt, Goto, IsReady
<1>2. IsMain(main', "events", 0, NULL)
  BY Places DEF DmaTask
<1>3. SpiTypeOK'
  BY <1>1, <1>2, SpiBounds, SpiTypes, TypesAgree
  DEF SpiInv, SpiTypeOK, IsSpi, IsDma, IsMain, PllOn, PllOff, Share
<1>4. HandlerUnderway'
  BY <1>1, HandlerStays DEF SpiInv
<1>5. ASSUME ~ lost' PROVE FlagsFollow'
  BY <1>1, <1>2, <1>5, SpiTypes
  DEF SpiInv, FlagsFollow, EndsToCome, ClocksHeld, IsReady, Clocking, NULL, IsSpi, IsDma, IsMain,
    PllOn, PllOff, Share
<1>6. ASSUME ~ lost' PROVE ClocksHeld'
  BY <1>1, <1>2, <1>6, SpiTypes
  DEF SpiInv, FlagsFollow, ClocksHeld, PllUsers, IsReady, Clocking, ClockGet, Clocks, NULL, IsSpi,
    IsDma, IsMain, PllOn, PllOff, Share
<1>7. ASSUME ~ lost' PROVE EndsToCome'
  BY <1>1, <1>7, EndsStay DEF SpiInv
<1>8. ASSUME ~ lost' PROVE SelectedFor' /\ DisplayAsksFirst'
  BY <1>1, <1>2, <1>8, SpiTypes
  DEF SpiInv, FlagsFollow, SelectedFor, DisplayAsksFirst, IsReady, Clocking, NULL, IsSpi, IsDma,
    IsMain, PllOn, PllOff, Share
<1> QED
  BY <1>1, <1>3, <1>4, <1>5, <1>6, <1>7, <1>8, <1>2 DEF SpiInv, IsDma

LEMMA DmaTaskEndsKeeps ==
    ASSUME SpiInv, DmaTaskEnds
    PROVE  SpiInv'
<1>1. /\ main.at = "events"
      /\ UNCHANGED <<clocks, spi, selected, dma, irq, fifo_pending, dma_planned, spi_planned,
           ook, hsi, leaked, lost>>
  BY DEF DmaTaskEnds, MainAt, Goto, IsReady
<1>2. IsMain(main', "idle", 0, NULL)
  BY Places DEF DmaTaskEnds
<1>3. SpiTypeOK'
  BY <1>1, <1>2, SpiBounds, SpiTypes, TypesAgree
  DEF SpiInv, SpiTypeOK, IsSpi, IsDma, IsMain, PllOn, PllOff, Share
<1>4. HandlerUnderway'
  BY <1>1, HandlerStays DEF SpiInv
<1>5. ASSUME ~ lost' PROVE FlagsFollow'
  BY <1>1, <1>2, <1>5, SpiTypes
  DEF SpiInv, FlagsFollow, EndsToCome, ClocksHeld, IsReady, Clocking, NULL, IsSpi, IsDma, IsMain,
    PllOn, PllOff, Share
<1>6. ASSUME ~ lost' PROVE ClocksHeld'
  BY <1>1, <1>2, <1>6, SpiTypes
  DEF SpiInv, FlagsFollow, ClocksHeld, PllUsers, IsReady, Clocking, ClockGet, Clocks, NULL, IsSpi,
    IsDma, IsMain, PllOn, PllOff, Share
<1>7. ASSUME ~ lost' PROVE EndsToCome'
  BY <1>1, <1>7, EndsStay DEF SpiInv
<1>8. ASSUME ~ lost' PROVE SelectedFor' /\ DisplayAsksFirst'
  BY <1>1, <1>2, <1>8, SpiTypes
  DEF SpiInv, FlagsFollow, SelectedFor, DisplayAsksFirst, IsReady, Clocking, NULL, IsSpi, IsDma,
    IsMain, PllOn, PllOff, Share
<1> QED
  BY <1>1, <1>3, <1>4, <1>5, <1>6, <1>7, <1>8, <1>2 DEF SpiInv, IsDma

LEMMA SpiTaskKeeps ==
    ASSUME SpiInv, SpiTask
    PROVE  SpiInv'
<1>1. /\ main.at = "idle" /\ spi_planned /\ spi.event_handler # NULL
      /\ spi_planned' = FALSE
      /\ selected' = (selected /\ spi.event_handler # "display")
      /\ UNCHANGED <<clocks, spi, dma, irq, fifo_pending, dma_planned, ook, hsi, leaked, lost>>
  BY DEF SpiTask, MainAt, Goto, IsReady
<1>2. IsMain(main', "reported", clocks.pll, spi.event_handler)
  BY SpiTypes DEF SpiTask, Goto, IsMain, Mains, Clocks, Spis
<1>3. SpiTypeOK'
  BY <1>1, <1>2, SpiBounds, SpiTypes, TypesAgree
  DEF SpiInv, SpiTypeOK, IsSpi, IsDma, IsMain, PllOn, PllOff, Share
<1>4. HandlerUnderway'
  BY <1>1, HandlerStays DEF SpiInv
<1>5. ASSUME ~ lost' PROVE FlagsFollow'
  BY <1>1, <1>2, <1>5, SpiTypes
  DEF SpiInv, FlagsFollow, EndsToCome, ClocksHeld, IsReady, Clocking, NULL, IsSpi, IsDma, IsMain,
    PllOn, PllOff, Share
<1>6. ASSUME ~ lost' PROVE ClocksHeld'
  BY <1>1, <1>2, <1>6, SpiTypes
  DEF SpiInv, FlagsFollow, ClocksHeld, PllUsers, IsReady, Clocking, ClockGet, Clocks, NULL, IsSpi,
    IsDma, IsMain, PllOn, PllOff, Share
<1>7. ASSUME ~ lost' PROVE EndsToCome'
  BY <1>1, <1>7, EndsStay DEF SpiInv
<1>8. ASSUME ~ lost' PROVE SelectedFor' /\ DisplayAsksFirst'
  BY <1>1, <1>2, <1>8, SpiTypes
  DEF SpiInv, FlagsFollow, SelectedFor, DisplayAsksFirst, IsReady, Clocking, NULL, IsSpi, IsDma,
    IsMain, PllOn, PllOff, Share
<1> QED
  BY <1>1, <1>3, <1>4, <1>5, <1>6, <1>7, <1>8, <1>2 DEF SpiInv, IsDma

LEMMA SpiTaskEndsKeeps ==
    ASSUME SpiInv, SpiTaskEnds
    PROVE  SpiInv'
<1>1. /\ main.at = "reported"
      /\ UNCHANGED <<selected, dma, irq, fifo_pending, dma_planned, spi_planned, ook, hsi,
           leaked, lost>>
  BY DEF SpiTaskEnds, MainAt, Goto, IsReady
<1>2. IsSpi(spi', spi.in_progress, FALSE, spi.event_handler, FALSE)
  BY SpiChanged, SpiTypes DEF SpiTaskEnds
<1>3. IsMain(main', "idle", 0, NULL)
  BY Places DEF SpiTaskEnds
<1>4. PllOff(clocks', main.loaded - 1)
  BY Switched DEF SpiTaskEnds
<1>5. SpiTypeOK'
  BY <1>1, <1>2, <1>3, <1>4, SpiBounds, SpiTypes, TypesAgree
  DEF SpiInv, SpiTypeOK, IsSpi, IsDma, IsMain, PllOn, PllOff, Share
<1>6. HandlerUnderway'
  BY <1>1, HandlerStays DEF SpiInv
<1>7. ASSUME ~ lost' PROVE FlagsFollow'
  BY <1>1, <1>2, <1>3, <1>4, <1>7, SpiTypes
  DEF SpiInv, FlagsFollow, EndsToCome, ClocksHeld, IsReady, Clocking, NULL, IsSpi, IsDma, IsMain,
    PllOn, PllOff, Share
<1>8. ASSUME ~ lost' PROVE ClocksHeld'
  BY <1>1, <1>2, <1>3, <1>4, <1>8, SpiTypes
  DEF SpiInv, FlagsFollow, ClocksHeld, PllUsers, IsReady, Clocking, ClockGet, Clocks, NULL, IsSpi,
    IsDma, IsMain, PllOn, PllOff, Share
<1>9. ASSUME ~ lost' PROVE EndsToCome'
  BY <1>1, <1>2, <1>3, <1>4, <1>9, SpiTypes
  DEF SpiInv, FlagsFollow, EndsToCome, HandlerUnderway, IsReady, Clocking, EndEvents, IsSpi, IsDma,
    IsMain, PllOn, PllOff, Share
<1>10. ASSUME ~ lost' PROVE SelectedFor' /\ DisplayAsksFirst'
  BY <1>1, <1>2, <1>3, <1>4, <1>10, SpiTypes
  DEF SpiInv, FlagsFollow, SelectedFor, DisplayAsksFirst, IsReady, Clocking, NULL, IsSpi, IsDma,
    IsMain, PllOn, PllOff, Share
<1> QED
  BY <1>1, <1>5, <1>6, <1>7, <1>8, <1>9, <1>10, <1>2, <1>3, <1>4 DEF SpiInv, IsDma

LEMMA SpiTaskNoHandlerKeeps ==
    ASSUME SpiInv, SpiTaskNoHandler
    PROVE  SpiInv'
<1>1. /\ main.at = "idle" /\ spi_planned /\ spi.event_handler = NULL
      /\ spi_planned' = FALSE
      /\ leaked' = IF lost THEN leaked ELSE leaked + 1
      /\ UNCHANGED <<clocks, main, selected, dma, irq, fifo_pending, dma_planned, ook, hsi,
           lost>>
  BY DEF SpiTaskNoHandler, MainAt, Goto, IsReady
<1>2. IsSpi(spi', spi.in_progress, FALSE, spi.event_handler, FALSE)
  BY SpiChanged, SpiTypes DEF SpiTaskNoHandler
<1>3. SpiTypeOK'
  <2>1. leaked' \in 0 .. MaxLeaks
    BY <1>1, SpiTypes, SpiBounds DEF SpiInv, FlagsFollow
  <2>2. Len(fifo_pending') <= PendingCapacity
    BY <1>1 DEF SpiInv, SpiTypeOK
  <2> QED
    BY <2>1, <2>2, <1>1, <1>2, SpiTypes, TypesAgree DEF IsSpi
<1>4. HandlerUnderway'
  BY <1>1, HandlerStays DEF SpiInv
<1>5. ASSUME ~ lost' PROVE FlagsFollow'
  BY <1>1, <1>2, <1>5, SpiTypes
  DEF SpiInv, FlagsFollow, EndsToCome, ClocksHeld, IsReady, Clocking, NULL, IsSpi, IsDma, IsMain,
    PllOn, PllOff, Share
<1>6. ASSUME ~ lost' PROVE ClocksHeld'
  <2>1. ~ spi.in_progress /\ spi.pending_event_done
    BY <1>1, <1>6 DEF SpiInv, FlagsFollow, Clocking
  <2>2. clocks.pll = 1 + leaked
    BY <1>1, <1>6, <2>1, SpiTypes DEF SpiInv, ClocksHeld, PllUsers, IsReady, Clocking, Share
  <2>3. PllUsers' = 0
    BY <2>1, <1>1, <1>2, SpiTypes DEF PllUsers, IsReady, Clocking, IsSpi, Share
  <2>4. leaked' = leaked + 1 /\ ClocksHeld
    BY <1>1, <1>6 DEF SpiInv
  <2>5. clocks.pll = PllUsers' + leaked' /\ UNCHANGED <<clocks, main, hsi>>
    BY <1>1, <2>2, <2>3, <2>4, SpiTypes
  <2> QED
    BY <2>4, <2>5 DEF ClocksHeld, ClockGet, Share
<1>7. ASSUME ~ lost' PROVE EndsToCome'
  BY <1>1, <1>2, <1>7, SpiTypes
  DEF SpiInv, FlagsFollow, EndsToCome, HandlerUnderway, IsReady, Clocking, EndEvents, IsSpi, IsDma,
    IsMain, PllOn, PllOff, Share
<1>8. ASSUME ~ lost' PROVE SelectedFor' /\ DisplayAsksFirst'
  BY <1>1, <1>2, <1>8, SpiTypes
  DEF SpiInv, FlagsFollow, SelectedFor, DisplayAsksFirst, IsReady, Clocking, NULL, IsSpi, IsDma,
    IsMain, PllOn, PllOff, Share
<1> QED
  BY <1>1, <1>3, <1>4, <1>5, <1>6, <1>7, <1>8, <1>2 DEF SpiInv, IsDma

\* The hardware, and the clock of the LPUART.
LEMMA TransferErrorKeeps ==
    ASSUME SpiInv, TransferError
    PROVE  SpiInv'
<1>1. /\ dma.en
      /\ UNCHANGED <<clocks, main, spi, selected, irq, fifo_pending, dma_planned, spi_planned,
           ook, hsi, leaked, lost>>
  BY DEF TransferError, MainAt, Goto, IsReady
<1>2. IsDma(dma', FALSE, dma.half, dma.complete, TRUE)
  BY DmaChanged, SpiTypes DEF TransferError
<1>3. SpiTypeOK'
  BY <1>1, <1>2, SpiBounds, SpiTypes, TypesAgree
  DEF SpiInv, SpiTypeOK, IsSpi, IsDma, IsMain, PllOn, PllOff, Share
<1>4. HandlerUnderway'
  BY <1>1, <1>2, SpiTypes
  DEF SpiInv, HandlerUnderway, PendingRoom, NoIrq, Irqs, IsSpi, IsDma, IsMain, PllOn, PllOff, Share
<1>5. ASSUME ~ lost' PROVE FlagsFollow'
  BY <1>1, <1>5, FlagsStay DEF SpiInv
<1>6. ASSUME ~ lost' PROVE ClocksHeld'
  BY <1>1, <1>6, ClocksStay DEF SpiInv
<1>7. ASSUME ~ lost' PROVE EndsToCome'
  BY <1>1, <1>2, <1>7, SpiTypes
  DEF SpiInv, FlagsFollow, EndsToCome, HandlerUnderway, IsReady, Clocking, EndEvents, IsSpi, IsDma,
    IsMain, PllOn, PllOff, Share
<1>8. ASSUME ~ lost' PROVE SelectedFor' /\ DisplayAsksFirst'
  BY <1>1, <1>8, SelectedStays DEF SpiInv
<1> QED
  BY <1>1, <1>3, <1>4, <1>5, <1>6, <1>7, <1>8, <1>2 DEF SpiInv, IsDma

LEMMA HsiStoreKeeps ==
    ASSUME SpiInv, HsiStore
    PROVE  SpiInv'
<1> DEFINE on == main.at = "hsi enable"
           m == main.loaded
           n == IF on THEN m + 1 ELSE m - 1
<1>1. /\ main.at \in {"hsi enable", "hsi disable"} /\ hsi' = ~ hsi
      /\ clocks' = IF on THEN HsiEnable(clocks, n) ELSE HsiDisable(clocks, n)
      /\ UNCHANGED <<spi, selected, dma, irq, fifo_pending, dma_planned, spi_planned, ook, leaked,
                     lost>>
  BY DEF HsiStore, MainAt
<1>2. IsMain(main', "idle", 0, NULL)
  BY Places DEF HsiStore
<1>3. m \in Int /\ clocks \in Clocks /\ hsi \in BOOLEAN
  BY Switched, SpiTypes
<1>11. on \in BOOLEAN
  OBVIOUS
<1> HIDE DEF on, m
<1>12. n \in Int
  BY <1>3
<1> HIDE DEF n
<1>4. /\ clocks' \in Clocks /\ clocks'.pll = clocks.pll /\ clocks'.hsi16 = n
      /\ clocks'.sleep = IF on THEN clocks.sleep + 1 ELSE clocks.sleep - 1
      /\ clocks'.clk = IF on THEN IF n = 1 THEN "HSI" ELSE clocks.clk
                       ELSE IF n = 0 THEN "MSI" ELSE clocks.clk
  <2>1. CASE on
    BY <1>1, <1>3, <1>12, <2>1, HsiEnabled
  <2>2. CASE ~ on
    BY <1>1, <1>3, <1>12, <2>2, HsiDisabled
  <2> QED BY <2>1, <2>2
<1>5. SpiTypeOK'
  BY <1>1, <1>2, <1>4, SpiTypes, TypesAgree DEF SpiInv, SpiTypeOK, IsMain
<1>6. HandlerUnderway'
  BY <1>1, HandlerStays DEF SpiInv
<1>7. ASSUME ~ lost' PROVE FlagsFollow'
  BY <1>1, <1>2, <1>7, SpiTypes DEF SpiInv, FlagsFollow, IsReady, Clocking, IsMain
<1>8. ASSUME ~ lost' PROVE ClocksHeld'
  <2>1. /\ clocks.pll = PllUsers + leaked /\ clocks.hsi16 = Share(clocks.pll > 0) + Share(hsi)
        /\ clocks.sleep = clocks.hsi16 /\ clocks.clk = ClockGet(clocks)
        /\ m = clocks.hsi16 /\ (on <=> ~ hsi)
    BY <1>1, <1>8 DEF SpiInv, ClocksHeld, on, m
  <2>2. clocks.pll \in Int
    BY Switched
  <2>3. clocks.pll >= 0
    <3>1. leaked \in Nat /\ PllUsers \in Nat
      BY SpiTypes, SpiBounds DEF PllUsers, Share
    <3> QED BY <2>1, <3>1
  <2> DEFINE p == Share(clocks.pll > 0)
  <2>5. p \in {0, 1} /\ (p = 1 <=> clocks.pll # 0)
    BY <2>2, <2>3 DEF Share
  <2> HIDE DEF p
  <2>6. /\ n = p + Share(hsi') /\ (on => n = p + 1) /\ (~ on => n = p)
        /\ clocks.hsi16 = p + Share(hsi) /\ clocks.hsi16 = IF on THEN p ELSE p + 1
    <3>1. clocks.hsi16 = m /\ m = p + Share(hsi) /\ (on <=> ~ hsi) /\ hsi' = ~ hsi
      BY <1>1, <2>1 DEF p
    <3>2. CASE hsi
      <4>1. Share(hsi) = 1 /\ Share(hsi') = 0 /\ ~ on
        BY <3>1, <3>2 DEF Share
      <4>2. m = p + 1 /\ n = m - 1
        BY <3>1, <4>1 DEF n
      <4>3. n = p
        BY <1>3, <2>5, <4>2
      <4> QED BY <2>5, <3>1, <4>1, <4>2, <4>3
    <3>3. CASE ~ hsi
      <4>1. Share(hsi) = 0 /\ Share(hsi') = 1 /\ on
        BY <3>1, <3>3 DEF Share
      <4>2. m = p + 0 /\ n = m + 1
        BY <3>1, <4>1 DEF n
      <4>3. n = p + 1 /\ m = p
        BY <1>3, <2>5, <4>2
      <4> QED BY <2>5, <3>1, <4>1, <4>2, <4>3
    <3> QED BY <3>2, <3>3
  <2>7. clocks'.sleep = n
    BY <1>3, <1>4, <1>11, <2>1, <2>5, <2>6
  <2>8. clocks'.clk = IF clocks.pll # 0 THEN "PLL" ELSE IF n # 0 THEN "HSI" ELSE "MSI"
    BY <1>4, <1>11, <2>1, <2>5, <2>6 DEF ClockGet
  <2>4. PllUsers' = PllUsers
    BY <1>1, <1>2, SpiTypes DEF PllUsers, Clocking, IsMain, IsReady, Share
  <2> QED
    BY <1>1, <1>2, <1>4, <2>1, <2>6, <2>7, <2>8, <2>4 DEF ClocksHeld, ClockGet, IsMain, p
<1>9. ASSUME ~ lost' PROVE EndsToCome'
  BY <1>1, <1>9, EndsStay DEF SpiInv
<1>10. ASSUME ~ lost' PROVE SelectedFor' /\ DisplayAsksFirst'
  BY <1>1, <1>2, <1>10, SpiTypes DEF SpiInv, SelectedFor, DisplayAsksFirst, Clocking, IsMain, NULL
<1> QED
  BY <1>1, <1>5, <1>6, <1>7, <1>8, <1>9, <1>10 DEF SpiInv

LEMMA ProgressKeeps ==
    ASSUME SpiInv, Progress
    PROVE  SpiInv'
<1>1. /\ dma.en
      /\ UNCHANGED <<clocks, main, spi, selected, irq, fifo_pending, dma_planned, spi_planned, ook,
                     hsi, leaked, lost>>
  BY DEF Progress
<1>2. \/ IsDma(dma', dma.en, TRUE, dma.complete, dma.error)
      \/ IsDma(dma', dma.en, dma.half, TRUE, dma.error)
  BY DmaChanged, SpiTypes DEF Progress
<1>3. SpiTypeOK'
  BY <1>1, <1>2, SpiTypes, TypesAgree DEF SpiInv, SpiTypeOK, IsDma
<1>4. HandlerUnderway'
  BY <1>1, <1>2, SpiTypes DEF SpiInv, HandlerUnderway, PendingRoom, IsDma
<1>5. ASSUME ~ lost' PROVE EndsToCome'
  BY <1>1, <1>2, <1>5, SpiTypes DEF SpiInv, EndsToCome, EndEvents, IsDma
<1>6. ASSUME ~ lost' PROVE FlagsFollow' /\ ClocksHeld' /\ SelectedFor' /\ DisplayAsksFirst'
  BY <1>1, <1>6, FlagsStay, ClocksStay, SelectedStays DEF SpiInv
<1> QED
  BY <1>1, <1>2, <1>3, <1>4, <1>5, <1>6 DEF SpiInv, IsDma

\* The interrupt handler of channel 5 finds a flag.
LEMMA IrqWriteKeeps ==
    ASSUME SpiInv, IrqWrite
    PROVE  SpiInv'
<1>1. /\ Flagged \in {"half", "done", "error"}
      /\ irq' = [event |-> Flagged, room |-> PendingRoom, preempted |-> FALSE]
      /\ UNCHANGED <<clocks, main, spi, selected, fifo_pending, dma_planned, spi_planned, ook, hsi,
                     leaked, lost>>
  BY DEF IrqWrite, Flagged
<1>2. IsDma(dma', dma.en /\ Flagged # "done", dma.half, dma.complete, dma.error)
  <2>1. CASE Flagged = "done"
    <3>1. dma' = [dma EXCEPT !.en = FALSE]
      BY <2>1 DEF IrqWrite
    <3>2. IsDma(dma', FALSE, dma.half, dma.complete, dma.error)
      BY <3>1, DmaChanged, SpiTypes
    <3> QED BY <2>1, <3>2
  <2>2. CASE Flagged # "done"
    BY <2>2, SpiTypes DEF IrqWrite, IsDma, Dmas
  <2> QED BY <2>1, <2>2
<1>3. (Flagged = "done" => dma.complete) /\ (Flagged = "half" => dma.half)
  BY DEF Flagged
<1>4. PendingRoom \in BOOLEAN
  BY DEF PendingRoom
<1> DEFINE e == Flagged
           b == PendingRoom
<1>5. /\ e \in {"half", "done", "error"} /\ irq' = [event |-> e, room |-> b, preempted |-> FALSE]
      /\ IsDma(dma', dma.en /\ e # "done", dma.half, dma.complete, dma.error)
      /\ (e = "done" => dma.complete) /\ (e = "half" => dma.half) /\ b \in BOOLEAN
      /\ (b <=> PendingRoom) /\ (b <=> PendingRoom')
  BY <1>1, <1>2, <1>3, <1>4 DEF PendingRoom
<1> HIDE DEF e, b
<1>6. irq' \in Irqs /\ irq'.event = e /\ irq'.room = b
  BY <1>5 DEF Irqs
<1>7. SpiTypeOK'
  BY <1>1, <1>5, <1>6, SpiTypes, TypesAgree DEF SpiInv, SpiTypeOK, IsDma
<1>8. HandlerUnderway'
  BY <1>5, <1>6, SpiTypes DEF HandlerUnderway, IsDma, Irqs
<1>9. ASSUME ~ lost' PROVE EndsToCome'
  <2>1. EndEvents' = EndEvents /\ spi' = spi /\ EndsToCome
    BY <1>1, <1>9 DEF SpiInv, EndEvents
  <2>2. /\ dma'.en \/ dma'.complete <=> dma.en \/ dma.complete
        /\ dma'.error = dma.error
    BY <1>5, SpiTypes DEF IsDma
  <2> QED BY <2>1, <2>2 DEF EndsToCome
<1>10. ASSUME ~ lost' PROVE FlagsFollow' /\ ClocksHeld' /\ SelectedFor' /\ DisplayAsksFirst'
  BY <1>1, <1>10, FlagsStay, ClocksStay, SelectedStays DEF SpiInv
<1> QED
  BY <1>1, <1>5, <1>7, <1>8, <1>9, <1>10 DEF SpiInv, IsDma

\* The ends that are in the FIFO when an event joins it, and when one leaves it.
LEMMA AppendEnds ==
    ASSUME fifo_pending \in Seq(Events), NEW e \in Events, fifo_pending' = Append(fifo_pending, e)
    PROVE  /\ fifo_pending' \in Seq(Events) /\ Len(fifo_pending') = Len(fifo_pending) + 1
           /\ e = "done" => EndEvents' = EndEvents \cup {Len(fifo_pending) + 1}
           /\ e # "done" => EndEvents' = EndEvents
BY DEF EndEvents, Events

LEMMA TailEnds ==
    ASSUME fifo_pending \in Seq(Events), fifo_pending # <<>>, fifo_pending' = Tail(fifo_pending)
    PROVE  /\ fifo_pending' \in Seq(Events) /\ Len(fifo_pending') = Len(fifo_pending) - 1
           /\ Head(fifo_pending) \in Events
           /\ EndEvents' = {k \in 1 .. Len(fifo_pending) - 1 : k + 1 \in EndEvents}
           /\ Head(fifo_pending) = "done" <=> 1 \in EndEvents
BY DEF EndEvents, Events

\* The FIFO after the interrupt handler of channel 5, and after another one.
LEMMA FifoTyped ==
    ASSUME SpiInv, \/ fifo_pending' \in Advanced
                   \/ fifo_pending' = IF PendingRoom THEN Append(fifo_pending, "other")
                                      ELSE fifo_pending
    PROVE  fifo_pending' \in Seq(Events) /\ Len(fifo_pending') <= PendingCapacity
<1>1. /\ fifo_pending \in Seq(Events) /\ Len(fifo_pending) <= PendingCapacity
      /\ PendingCapacity \in Nat /\ irq \in Irqs
  BY SpiTypes, SpiBounds DEF SpiInv, SpiTypeOK
<1>2. ASSUME NEW e \in Events, PendingRoom, fifo_pending' = Append(fifo_pending, e)
      PROVE  fifo_pending' \in Seq(Events) /\ Len(fifo_pending') <= PendingCapacity
  BY <1>1, <1>2 DEF PendingRoom
<1>3. irq.room /\ ~ irq.preempted => PendingRoom
  BY DEF SpiInv, HandlerUnderway
<1>4. /\ irq.event \in {"none", "half", "done", "error"}
      /\ (irq.event = "none" => ~ irq.room)
  BY <1>1 DEF SpiInv, HandlerUnderway, NoIrq, Irqs
<1>5. ASSUME fifo_pending' \in Advanced
      PROVE  \/ fifo_pending' = fifo_pending \/ fifo_pending' = <<>>
             \/ PendingRoom /\ \E e \in Events : fifo_pending' = Append(fifo_pending, e)
  <2>1. CASE ~ irq.room
    BY <1>5, <2>1 DEF Advanced
  <2>2. CASE irq.room /\ ~ irq.preempted
    <3>1. irq.event \in Events
      BY <1>4, <2>2 DEF Events
    <3>2. fifo_pending' = Append(fifo_pending, irq.event)
      BY <1>5, <2>2 DEF Advanced
    <3> QED BY <1>3, <2>2, <3>1, <3>2
  <2>3. CASE irq.room /\ irq.preempted
    BY <1>5, <2>3 DEF Advanced, Events
  <2> QED BY <2>1, <2>2, <2>3
<1>6. "other" \in Events /\ <<>> \in Seq(Events) /\ Len(<<>>) = 0
  BY DEF Events
<1>7. \/ fifo_pending' = fifo_pending \/ fifo_pending' = <<>>
      \/ PendingRoom /\ \E e \in Events : fifo_pending' = Append(fifo_pending, e)
  BY <1>5, <1>6
<1>8. fifo_pending' = <<>> => fifo_pending' \in Seq(Events) /\ Len(fifo_pending') <= PendingCapacity
  BY <1>1, <1>6
<1>9. fifo_pending' = fifo_pending =>
          fifo_pending' \in Seq(Events) /\ Len(fifo_pending') <= PendingCapacity
  BY <1>1
<1> QED BY <1>2, <1>7, <1>8, <1>9

\* The interrupt handlers put their events into the FIFO.
LEMMA IrqAdvanceKeeps ==
    ASSUME SpiInv, IrqAdvance
    PROVE  SpiInv'
<1>1. /\ irq # NoIrq /\ irq' = NoIrq /\ dma_planned' = TRUE
      /\ lost' = (lost \/ irq.preempted \/ ~ irq.room)
      /\ UNCHANGED <<clocks, main, spi, selected, spi_planned, ook, hsi, leaked>>
  BY DEF IrqAdvance
<1>2. IsDma(dma', dma.en, dma.half /\ irq.event # "half", dma.complete /\ irq.event # "done",
            dma.error)
  <2>1. /\ dma' = [dma EXCEPT !.half = dma.half /\ irq.event # "half",
                              !.complete = dma.complete /\ irq.event # "done"]
        /\ (dma.half /\ irq.event # "half") \in BOOLEAN
        /\ (dma.complete /\ irq.event # "done") \in BOOLEAN
    BY DEF IrqAdvance, Cleared
  <2> QED BY <2>1, DmaChanged, SpiTypes
<1>3. /\ fifo_pending' \in Seq(Events) /\ Len(fifo_pending') <= PendingCapacity
  BY FifoTyped DEF IrqAdvance
<1>4. irq' \in Irqs /\ irq'.event = "none" /\ ~ irq'.room
  BY <1>1 DEF NoIrq, Irqs
<1>5. SpiTypeOK'
  BY <1>1, <1>2, <1>3, <1>4, SpiTypes, TypesAgree DEF IsDma
<1>6. HandlerUnderway'
  BY <1>1, <1>4 DEF HandlerUnderway, NoIrq, Irqs
<1>7. irq.event \in {"half", "done", "error"} /\ (irq.event = "done" => dma.complete /\ ~ dma.en)
  BY <1>1, SpiTypes DEF SpiInv, HandlerUnderway, Irqs
<1>8. ASSUME ~ lost' PROVE EndsToCome'
  <2>1. ~ lost /\ irq.room /\ ~ irq.preempted /\ EndsToCome
    BY <1>1, <1>8 DEF SpiInv
  <2>2. fifo_pending' = Append(fifo_pending, irq.event)
    BY <2>1 DEF IrqAdvance, Advanced
  <2>3. /\ irq.event = "done" => EndEvents' = EndEvents \cup {Len(fifo_pending) + 1}
        /\ irq.event # "done" => EndEvents' = EndEvents
    <3>1. irq.event \in Events
      BY <1>7 DEF Events
    <3> QED BY <2>2, <3>1, AppendEnds, SpiTypes
  <2>4. CASE irq.event = "done"
    BY <1>1, <1>2, <1>7, <2>1, <2>3, <2>4, SpiTypes DEF EndsToCome, IsDma
  <2>5. CASE irq.event # "done"
    BY <1>1, <1>2, <1>7, <2>1, <2>3, <2>5, SpiTypes DEF EndsToCome, IsDma
  <2> QED BY <2>4, <2>5
<1>9. ASSUME ~ lost' PROVE FlagsFollow' /\ ClocksHeld' /\ SelectedFor' /\ DisplayAsksFirst'
  BY <1>1, <1>9, FlagsStay, ClocksStay, SelectedStays DEF SpiInv
<1> QED
  BY <1>1, <1>2, <1>5, <1>6, <1>8, <1>9 DEF SpiInv, IsDma

LEMMA OtherChannelIrqKeeps ==
    ASSUME SpiInv, OtherChannelIrq
    PROVE  SpiInv'
<1>1. /\ fifo_pending' = IF PendingRoom THEN Append(fifo_pending, "other") ELSE fifo_pending
      /\ irq' = IF irq = NoIrq THEN irq ELSE [irq EXCEPT !.preempted = irq.room]
      /\ dma_planned' = TRUE
      /\ UNCHANGED <<clocks, main, spi, selected, dma, spi_planned, ook, hsi, leaked, lost>>
  BY DEF OtherChannelIrq
<1>2. fifo_pending' \in Seq(Events) /\ Len(fifo_pending') <= PendingCapacity
  BY <1>1, FifoTyped
<1>3. /\ irq' \in Irqs /\ irq'.event = irq.event /\ irq'.room = irq.room
      /\ irq = NoIrq => irq' = NoIrq
      /\ irq # NoIrq => irq'.preempted = irq.room
  <2>1. CASE irq = NoIrq
    BY <1>1, <2>1, SpiTypes
  <2>2. CASE irq # NoIrq
    <3>1. irq' = [irq EXCEPT !.preempted = irq.room] /\ irq \in Irqs
      BY <1>1, <2>2, SpiTypes
    <3>2. \A r \in Irqs : LET s == [r EXCEPT !.preempted = r.room]
                          IN /\ s \in Irqs /\ s.event = r.event /\ s.room = r.room
                             /\ s.preempted = r.room
      BY DEF Irqs
    <3> QED BY <2>2, <3>1, <3>2
  <2> QED BY <2>1, <2>2
<1>4. SpiTypeOK'
  BY <1>1, <1>2, <1>3, SpiTypes, TypesAgree
<1>5. HandlerUnderway'
  <2>1. /\ irq'.event = "none" => irq' = NoIrq
        /\ irq'.room => irq'.preempted
    BY <1>3 DEF SpiInv, HandlerUnderway, NoIrq
  <2> QED BY <1>1, <1>3, <2>1, SpiTypes DEF SpiInv, HandlerUnderway, Irqs
<1>6. EndEvents' = EndEvents
  <2>1. "other" \in Events /\ "other" # "done"
    BY DEF Events
  <2> QED BY <1>1, <2>1, AppendEnds, SpiTypes DEF EndEvents
<1>7. ASSUME ~ lost' PROVE EndsToCome'
  BY <1>1, <1>6, <1>7 DEF SpiInv, EndsToCome
<1>8. ASSUME ~ lost' PROVE FlagsFollow' /\ ClocksHeld' /\ SelectedFor' /\ DisplayAsksFirst'
  BY <1>1, <1>8, FlagsStay, ClocksStay, SelectedStays DEF SpiInv
<1> QED
  BY <1>1, <1>4, <1>5, <1>7, <1>8 DEF SpiInv

\* The task takes one out: an end is that of the transfer underway.
LEMMA DmaEventKeeps ==
    ASSUME SpiInv, DmaEvent
    PROVE  SpiInv'
<1> DEFINE head == Head(fifo_pending)
<1>1. /\ main.at = "events" /\ fifo_pending # <<>> /\ fifo_pending' = Tail(fifo_pending)
      /\ main' = IF head = "error" THEN [main EXCEPT !.at = "reset"] ELSE main
      /\ spi_planned' = (spi_planned \/ head = "done")
      /\ UNCHANGED <<clocks, selected, dma, irq, dma_planned, ook, hsi, leaked, lost>>
  BY SpiTypes DEF DmaEvent, MainAt, IsDone
<1>2. IF head = "done" THEN IsSpi(spi', FALSE, TRUE, spi.event_handler, spi.async) ELSE spi' = spi
  BY SpiChanged, SpiTypes DEF DmaEvent, IsDone
<1>3. IsMain(main', main'.at, main.loaded, main.for) /\ main'.at \in {"events", "reset"}
  <2>1. CASE head = "error"
    BY <1>1, <2>1, MainChanged, SpiTypes, Switched DEF IsMain
  <2>2. CASE head # "error"
    BY <1>1, <2>2, SpiTypes DEF IsMain
  <2> QED BY <2>1, <2>2
<1>4. /\ fifo_pending' \in Seq(Events) /\ Len(fifo_pending') = Len(fifo_pending) - 1
      /\ EndEvents' = {k \in 1 .. Len(fifo_pending) - 1 : k + 1 \in EndEvents}
      /\ (head = "done" <=> 1 \in EndEvents)
  BY <1>1, TailEnds, SpiTypes
<1> HIDE DEF head
<1>5. Len(fifo_pending') <= PendingCapacity
  <2>1. Len(fifo_pending) <= PendingCapacity /\ PendingCapacity \in Nat
    BY SpiBounds DEF SpiInv, SpiTypeOK
  <2>2. Len(fifo_pending) \in Nat
    BY SpiTypes
  <2> QED BY <1>4, <2>1, <2>2
<1>6. spi' \in Spis
  BY <1>2, SpiTypes DEF IsSpi
<1>7. SpiTypeOK'
  BY <1>1, <1>3, <1>4, <1>5, <1>6, SpiTypes, TypesAgree DEF IsMain
<1>8. HandlerUnderway'
  BY <1>1, <1>4, SpiTypes, SpiBounds DEF SpiInv, HandlerUnderway, PendingRoom, NoIrq
<1>9. ASSUME ~ lost' PROVE head = "done" => /\ spi.async /\ spi.in_progress
                                            /\ ~ spi.pending_event_done /\ EndEvents' = {}
                                            /\ ~ dma.en /\ ~ dma.complete
  <2>1. EndsToCome
    BY <1>1, <1>9 DEF SpiInv
  <2> SUFFICES ASSUME head = "done"
               PROVE  /\ spi.async /\ spi.in_progress /\ ~ spi.pending_event_done
                                          /\ EndEvents' = {} /\ ~ dma.en /\ ~ dma.complete
    OBVIOUS
  <2>2. 1 \in EndEvents
    BY <1>4
  <2>3. EndEvents' = {}
    BY <1>4, <2>1, <2>2 DEF EndsToCome
  <2> QED BY <2>1, <2>2, <2>3 DEF EndsToCome
<1>10. ASSUME ~ lost' PROVE FlagsFollow'
  <2>1. CASE head = "done"
    BY <1>1, <1>2, <1>3, <1>9, <1>10, <2>1, SpiTypes
    DEF SpiInv, FlagsFollow, Clocking, IsReady, IsSpi, IsMain
  <2>2. CASE head # "done"
    BY <1>1, <1>2, <1>3, <1>10, <2>2, SpiTypes
    DEF SpiInv, FlagsFollow, Clocking, IsReady, IsMain
  <2> QED BY <2>1, <2>2
<1>11. ASSUME ~ lost' PROVE ClocksHeld'
  <2>1. PllUsers' = PllUsers
    <3>1. CASE head = "done"
      BY <1>1, <1>2, <1>3, <1>9, <1>11, <3>1 DEF PllUsers, Clocking, IsReady, IsSpi, Share
    <3>2. CASE head # "done"
      BY <1>1, <1>2, <1>3, <3>2 DEF PllUsers, Clocking, IsReady, Share
    <3> QED BY <3>1, <3>2
  <2> QED BY <1>1, <1>3, <1>11, <2>1 DEF SpiInv, ClocksHeld, IsMain
<1>12. ASSUME ~ lost' PROVE EndsToCome'
  <2>1. CASE head = "done"
    BY <1>1, <1>2, <1>9, <1>12, <2>1, SpiTypes DEF EndsToCome, IsSpi
  <2>2. CASE head # "done"
    <3>1. EndsToCome /\ spi' = spi
      BY <1>1, <1>2, <1>12, <2>2 DEF SpiInv
    <3>2. EndEvents # {} <=> EndEvents' # {}
      <4>1. \A k \in EndEvents : k \in 1 .. Len(fifo_pending) /\ k # 1
        BY <1>4, <2>2, SpiTypes DEF EndEvents
      <4>2. \A k \in EndEvents : k - 1 \in EndEvents'
        BY <1>4, <4>1, SpiTypes
      <4> QED BY <1>4, <4>2
    <3>3. \A j, k \in EndEvents' : j = k
      BY <1>4, <3>1 DEF EndsToCome
    <3> QED BY <1>1, <3>1, <3>2, <3>3 DEF EndsToCome
  <2> QED BY <2>1, <2>2
<1>13. ASSUME ~ lost' PROVE SelectedFor' /\ DisplayAsksFirst'
  <2>1. spi'.async = spi.async /\ spi'.event_handler = spi.event_handler
    BY <1>2 DEF IsSpi
  <2> QED BY <1>1, <1>3, <1>13, <2>1 DEF SpiInv, SelectedFor, DisplayAsksFirst, Clocking, IsMain
<1> QED
  BY <1>1, <1>7, <1>8, <1>10, <1>11, <1>12, <1>13 DEF SpiInv

\* Nothing is underway at the reset, and each step keeps the invariant.
LEMMA SpiInvInit == SpiInit => SpiInv
<1> SUFFICES ASSUME SpiInit PROVE SpiInv
  OBVIOUS
<1> USE DEF SpiInit, AtReset, Idle, NoIrq, Stopped, NULL
<1>1. SpiTypeOK
  <2>1. clocks \in Clocks /\ main \in Mains /\ fifo_pending \in Seq(Events) /\ Len(fifo_pending) = 0
    BY DEF Clocks, Mains, Events
  <2>2. spi \in Spis /\ dma \in Dmas
    BY DEF Spis, Dmas
  <2>3. irq.event = "none" /\ leaked \in 0 .. MaxLeaks /\ Len(fifo_pending) <= PendingCapacity
    BY <2>1, SpiBounds
  <2>4. selected \in BOOLEAN /\ {dma_planned, spi_planned, ook, hsi, lost} \subseteq BOOLEAN
    OBVIOUS
  <2> QED BY <2>1, <2>2, <2>3, <2>4, Zenon DEF SpiTypeOK, Mains, Spis, Dmas, Events
<1>2. HandlerUnderway
  BY DEF HandlerUnderway
<1>3. FlagsFollow /\ EndsToCome /\ SelectedFor /\ DisplayAsksFirst
  BY DEF FlagsFollow, EndsToCome, SelectedFor, DisplayAsksFirst, EndEvents, Clocking, IsReady
<1>4. ClocksHeld
  BY DEF ClocksHeld, PllUsers, Clocking, IsReady, Share, ClockGet
<1> QED BY <1>1, <1>2, <1>3, <1>4 DEF SpiInv

LEMMA SpiInvStep ==
    ASSUME ~ Ook, SpiInv, [SpiNext]_spiVars
    PROVE  SpiInv'
<1>1. CASE SpiCall
  <2>1. ~ OokSend
    BY DEF OokSend
  <2> QED BY <1>1, <2>1, AsyncBeginKeeps, SyncBeginKeeps, AsyncRefusedKeeps, HsiBeginKeeps
      DEF SpiCall
<1>2. CASE Return
  BY <1>2, AsyncRunKeeps, SyncBytesKeeps, SyncLoadKeeps, SyncEndKeeps, HsiStoreKeeps DEF Return
<1>3. CASE Tasks
  BY <1>3, DmaTaskKeeps, SpiTaskKeeps, SpiTaskNoHandlerKeeps DEF Tasks
<1>4. CASE TaskSteps
  BY <1>4, DmaEventKeeps, DmaTaskEndsKeeps, SpiTaskEndsKeeps DEF TaskSteps
<1>5. CASE SpiHardware
  BY <1>5, ProgressKeeps, TransferErrorKeeps DEF SpiHardware
<1>6. CASE Interrupts
  <2>1. ~ OokIrq
    BY DEF OokIrq, SpiInv
  <2> QED BY <1>6, <2>1, IrqWriteKeeps, IrqAdvanceKeeps, OtherChannelIrqKeeps DEF Interrupts
<1>7. CASE UNCHANGED spiVars
  <2> USE <1>7 DEF spiVars
  <2>1. SpiTypeOK' <=> SpiTypeOK
    BY DEF SpiTypeOK
  <2>2. HandlerUnderway => HandlerUnderway'
    BY HandlerStays
  <2>3. (FlagsFollow => FlagsFollow') /\ (ClocksHeld => ClocksHeld') /\ (EndsToCome => EndsToCome')
    BY FlagsStay, ClocksStay, EndsStay
  <2>4. SelectedFor /\ DisplayAsksFirst => SelectedFor' /\ DisplayAsksFirst'
    BY SelectedStays
  <2> QED BY <2>1, <2>2, <2>3, <2>4 DEF SpiInv
<1> QED BY <1>1, <1>2, <1>3, <1>4, <1>5, <1>6, <1>7 DEF SpiNext

LEMMA SpiInvAlways ==
    ASSUME ~ Ook
    PROVE  SpiSpec => []SpiInv
<1>1. SpiInv /\ [SpiNext]_spiVars => SpiInv'
  BY SpiInvStep
<1> QED BY SpiInvInit, <1>1, PTL DEF SpiSpec

\* What the invariant says to those who use the SPI.
LEMMA SpiInvSays ==
    ASSUME SpiInv
    PROVE  TransfersUndisturbed
<1>1. lost \in BOOLEAN /\ spi \in Spis /\ main \in Mains /\ dma \in Dmas
  BY SpiTypes
<1>2. CASE lost
  BY <1>2
  DEF TransfersUndisturbed, TransferClocked, ClocksAccounted, OneCompletion, DisplayAlone
<1>3. CASE ~ lost
  <2>1. FlagsFollow /\ ClocksHeld /\ EndsToCome /\ SelectedFor /\ DisplayAsksFirst /\ ~ ook
    BY <1>3 DEF SpiInv
  <2>2. dma.en => /\ ~ IsReady /\ spi.async /\ spi.in_progress /\ ~ spi.pending_event_done
                  /\ ~ Clocking
    BY <2>1 DEF EndsToCome, FlagsFollow, IsReady
  <2>3. leaked \in Nat /\ hsi \in BOOLEAN
    BY SpiTypes, SpiBounds
  <2>4. TransferClocked
    <3>1. dma.en \/ main.at = "bytes" => PllUsers \in Nat /\ PllUsers > 0
      BY <2>2 DEF PllUsers, Clocking, Share
    <3>2. SUFFICES ASSUME dma.en \/ main.at = "bytes" PROVE clocks.clk = "PLL" /\ clocks.sleep > 0
      BY DEF TransferClocked
    <3> DEFINE p == clocks.pll
    <3>3. /\ p = PllUsers + leaked /\ clocks.clk = ClockGet(clocks)
          /\ clocks.sleep = Share(p > 0) + Share(hsi)
      BY <2>1 DEF ClocksHeld
    <3>4. p \in Nat /\ p > 0
      BY <2>3, <3>1, <3>2, <3>3
    <3> HIDE DEF p
    <3>5. clocks.sleep > 0
      BY <2>3, <3>3, <3>4 DEF Share
    <3> QED BY <3>3, <3>4, <3>5 DEF ClockGet, p
  <2>5. ClocksAccounted
    BY <2>1, <2>3 DEF ClocksAccounted, ClocksHeld, PllUsers, Clocking, Share
  <2>6. OneCompletion
    <3>1. irq.event = "done" => dma.complete
      BY DEF SpiInv, HandlerUnderway
    <3>2. CASE EndEvents = {}
      <4>1. Cardinality(EndEvents) = 0
        BY <3>2, FS_EmptySet
      <4> QED BY <1>1, <2>1, <3>1, <3>2, <4>1 DEF OneCompletion, Completions, Share, EndsToCome
    <3>3. CASE EndEvents # {}
      <4>1. PICK k \in EndEvents : EndEvents = {k}
        BY <2>1, <3>3 DEF EndsToCome
      <4>2. Cardinality(EndEvents) = 1
        BY <4>1, FS_Singleton
      <4> QED BY <1>1, <2>1, <3>1, <3>3, <4>2 DEF OneCompletion, Completions, Share, EndsToCome
    <3> QED BY <3>2, <3>3
  <2>7. DisplayAlone
    BY <1>1, <2>1, <2>2
    DEF DisplayAlone, SelectedFor, FlagsFollow, DisplayAsksFirst, Clocking, IsReady
  <2> QED BY <2>4, <2>5, <2>6, <2>7 DEF TransfersUndisturbed
<1> QED BY <1>1, <1>2, <1>3

\* The SPI keeps to its types: the queue of the DMA's events to its size, and
\* each semaphore to a number of users.
THEOREM SpiTyped ==
    ASSUME ~ Ook
    PROVE  SpiSpec => []SpiTypeOK
<1>1. SpiInv => SpiTypeOK
  BY DEF SpiInv
<1> QED BY SpiInvAlways, <1>1, PTL

\* However the main program, its tasks, the DMA and the interrupts of its
\* channels interleave (twr_spi.c, twr_dma.c, twr_system.c), and until an event
\* of the DMA is lost, a transfer is clocked and its end comes once, the clocks
\* are accounted to their users, and the display's frame is not disturbed.
\* The 433 MHz transmitter counts the PLL's users in an interrupt: with it the
\* clocks are not held (run clock_race), and Ook is assumed to be FALSE.
THEOREM TransfersAreUndisturbed ==
    ASSUME ~ Ook
    PROVE  SpiSpec => []TransfersUndisturbed
<1>1. SpiInv => TransfersUndisturbed
  BY SpiInvSays
<1> QED BY SpiInvAlways, <1>1, PTL

-----------------------------------------------------------------------------
(***************************************************************************)
(* The transmitter of the USB (UsbCdc): the host is sent what was written. *)
(***************************************************************************)
CONSTANTS UsbSize, Packet, UsbLengths, UsbBytes

VARIABLES
    usb_buffer, usb_length, usb_task, configured, usb_transfer, usb_delivered, usb_accepted,
    overwritten

USB == INSTANCE UsbCdc WITH
    transmit_buffer <- usb_buffer, transmit_length <- usb_length, transfer <- usb_transfer,
    delivered <- usb_delivered, accepted <- usb_accepted

\* What the model assumes of them.
UsbSizes == {UsbSize, Packet} \subseteq Nat \ {0} /\ UsbLengths \subseteq Nat \ {0}

UsbTypes ==
    /\ usb_buffer \in [0 .. UsbSize - 1 -> Nat] /\ usb_length \in 0 .. UsbSize
    /\ usb_transfer \in [next : 0 .. UsbSize, length : 0 .. UsbSize]
    /\ usb_transfer.next <= usb_transfer.length
    /\ usb_delivered \in Seq(Nat) /\ usb_accepted \in Nat /\ overwritten \in BOOLEAN

Left == usb_transfer.length - usb_transfer.next

\* What was accepted has been copied, is left of the transfer, or waits in the
\* buffer, in this order; and where some is left of the transfer, the buffer
\* has not reached it.
UsbInStep ==
    ~ overwritten =>
        /\ \A k \in 1 .. Len(usb_delivered) : usb_delivered[k] = k
        /\ \A i \in usb_transfer.next .. usb_transfer.length - 1 :
               usb_buffer[i] = Len(usb_delivered) + 1 + i - usb_transfer.next
        /\ \A i \in 0 .. usb_length - 1 : usb_buffer[i] = Len(usb_delivered) + Left + 1 + i
        /\ usb_accepted = Len(usb_delivered) + Left + usb_length
        /\ Left > 0 => usb_length <= usb_transfer.next

UsbInv == UsbTypes /\ UsbInStep

LEMMA TheLesser ==
    ASSUME NEW a \in Nat, NEW b \in Nat
    PROVE  USB!Min({a, b}) = IF a <= b THEN a ELSE b
<1> DEFINE m == IF a <= b THEN a ELSE b
<1>1. m \in {a, b} /\ \A y \in {a, b} : m <= y
  OBVIOUS
<1>2. \A x \in {a, b} : (\A y \in {a, b} : x <= y) => x = m
  OBVIOUS
<1> QED BY <1>1, <1>2 DEF USB!Min

LEMMA Joined ==
    ASSUME NEW s \in Seq(Nat), NEW t \in Seq(Nat)
    PROVE  /\ s \o t \in Seq(Nat) /\ Len(s \o t) = Len(s) + Len(t)
           /\ \A k \in 1 .. Len(s) : (s \o t)[k] = s[k]
           /\ \A k \in 1 .. Len(t) : (s \o t)[Len(s) + k] = t[k]
OBVIOUS

LEMMA UsbNumbers ==
    ASSUME UsbSizes, UsbInv
    PROVE  /\ UsbSize \in Nat \ {0} /\ usb_length \in Nat /\ usb_length <= UsbSize
           /\ usb_accepted \in Nat /\ Len(usb_delivered) \in Nat
           /\ usb_transfer.next \in Nat /\ usb_transfer.length \in Nat
           /\ usb_transfer.next <= usb_transfer.length /\ usb_transfer.length <= UsbSize
           /\ Left \in Nat /\ Left = usb_transfer.length - usb_transfer.next
<1>1. UsbSize \in Nat \ {0}
  BY DEF UsbSizes
<1>2. usb_transfer.next \in 0 .. UsbSize /\ usb_transfer.length \in 0 .. UsbSize
      /\ usb_transfer.next <= usb_transfer.length
  BY DEF UsbInv, UsbTypes
<1>3. usb_length \in 0 .. UsbSize /\ usb_accepted \in Nat /\ usb_delivered \in Seq(Nat)
  BY DEF UsbInv, UsbTypes
<1> QED BY <1>1, <1>2, <1>3 DEF Left

LEMMA UsbWrites ==
    ASSUME UsbSizes, UsbInv, NEW n \in UsbLengths, USB!Write(n)
    PROVE  UsbInv'
<1>0. n \in Nat \ {0}
  BY DEF UsbSizes
<1>1. n \in Nat \ {0} /\ UsbSize \in Nat /\ usb_length + n \in 0 .. UsbSize
      /\ usb_length' = usb_length + n /\ usb_accepted' = usb_accepted + n
      /\ UNCHANGED <<usb_transfer, usb_delivered>>
  BY <1>0, UsbNumbers DEF USB!Write
<1>2. DOMAIN usb_buffer = 0 .. UsbSize - 1
  BY DEF UsbInv, UsbTypes
<1>3. usb_buffer' = [i \in 0 .. UsbSize - 1 |->
          IF i \in usb_length .. usb_length + n - 1 THEN usb_accepted + 1 + i - usb_length
          ELSE usb_buffer[i]]
  BY <1>2 DEF USB!Write
<1>4. \A i \in 0 .. UsbSize - 1 :
          usb_buffer'[i] = IF i \in usb_length .. usb_length + n - 1
                           THEN usb_accepted + 1 + i - usb_length ELSE usb_buffer[i]
  BY <1>3
<1>5. UsbTypes'
  <2>1. \A i \in 0 .. UsbSize - 1 : usb_buffer'[i] \in Nat
    <3> SUFFICES ASSUME NEW i \in 0 .. UsbSize - 1 PROVE usb_buffer'[i] \in Nat
      OBVIOUS
    <3>1. CASE i \in usb_length .. usb_length + n - 1
      <4>1. usb_accepted + 1 + i - usb_length \in Nat
        <5>1. usb_accepted \in Nat /\ usb_length \in Nat /\ i \in Nat /\ i >= usb_length
          BY <1>0, <3>1, UsbNumbers
        <5> QED BY <5>1
      <4> QED BY <1>4, <3>1, <4>1
    <3>2. CASE i \notin usb_length .. usb_length + n - 1
      BY <1>4, <3>2 DEF UsbInv, UsbTypes
    <3> QED BY <3>1, <3>2
  <2>2. usb_buffer' \in [0 .. UsbSize - 1 -> Nat]
    BY <1>3, <2>1
  <2>3. overwritten' \in BOOLEAN
    BY DEF USB!Write
  <2> QED BY <1>1, <2>2, <2>3 DEF UsbInv, UsbTypes
<1>6. ASSUME ~ overwritten'
      PROVE  ~ overwritten /\ (Left > 0 => usb_length + n <= usb_transfer.next)
  BY <1>1, <1>6 DEF USB!Write, UsbInv, UsbTypes, Left
<1>7. UsbInStep'
  <2> SUFFICES ASSUME ~ overwritten' PROVE UsbInStep'
    BY DEF UsbInStep
  <2>1. ~ overwritten /\ (Left > 0 => usb_length + n <= usb_transfer.next)
    BY <1>6
  <2>6. usb_accepted = Len(usb_delivered) + Left + usb_length
    BY <2>1 DEF UsbInv, UsbInStep
  <2>7. Left' = Left
    BY <1>1 DEF Left
  <2>2. ASSUME NEW i \in usb_transfer.next .. usb_transfer.length - 1
        PROVE  usb_buffer'[i] = Len(usb_delivered) + 1 + i - usb_transfer.next
    <3>1. Left > 0
      BY UsbNumbers
    <3>2. i \in 0 .. UsbSize - 1 /\ i \notin usb_length .. usb_length + n - 1
      BY <1>0, <2>1, <3>1, UsbNumbers
    <3> QED BY <1>4, <2>1, <3>2 DEF UsbInv, UsbInStep
  <2>3. ASSUME NEW i \in 0 .. usb_length + n - 1
        PROVE  usb_buffer'[i] = Len(usb_delivered) + Left + 1 + i
    <3>1. i \in 0 .. UsbSize - 1
      BY <1>1, UsbNumbers
    <3>2. CASE i \in usb_length .. usb_length + n - 1
      <4>1. usb_buffer'[i] = usb_accepted + 1 + i - usb_length
        BY <1>4, <3>1, <3>2
      <4>2. {usb_length, Left, Len(usb_delivered), i} \subseteq Nat
        BY <3>1, UsbNumbers
      <4> QED BY <2>6, <4>1, <4>2
    <3>3. CASE i \in 0 .. usb_length - 1
      <4>1. i \notin usb_length .. usb_length + n - 1
        BY <1>1, <3>3, UsbNumbers
      <4> QED BY <1>4, <2>1, <3>1, <3>3, <4>1 DEF UsbInv, UsbInStep
    <3> QED BY <1>1, <3>2, <3>3, UsbNumbers
  <2>4. usb_accepted + n = Len(usb_delivered) + Left + (usb_length + n)
    BY <1>0, <2>6, UsbNumbers
  <2>5. \A k \in 1 .. Len(usb_delivered) : usb_delivered[k] = k
    BY <2>1 DEF UsbInv, UsbInStep
  <2> HIDE DEF UsbInv
  <2>8. /\ \A k \in 1 .. Len(usb_delivered') : usb_delivered'[k] = k
        /\ \A i \in usb_transfer'.next .. usb_transfer'.length - 1 :
               usb_buffer'[i] = Len(usb_delivered') + 1 + i - usb_transfer'.next
    BY <1>1, <2>2, <2>5
  <2>9. \A i \in 0 .. usb_length' - 1 : usb_buffer'[i] = Len(usb_delivered') + Left' + 1 + i
    <3>1. usb_length' = usb_length + n /\ usb_delivered' = usb_delivered
      BY <1>1
    <3>2. \A i \in 0 .. usb_length + n - 1 : usb_buffer'[i] = Len(usb_delivered) + Left + 1 + i
      BY <2>3
    <3>3. Len(usb_delivered') + Left' = Len(usb_delivered) + Left
      BY <2>7, <3>1
    <3>4. 0 .. usb_length' - 1 = 0 .. usb_length + n - 1
      BY <1>0, <3>1, UsbNumbers
    <3> QED BY <3>2, <3>3, <3>4
  <2>10. /\ usb_accepted' = Len(usb_delivered') + Left' + usb_length'
         /\ Left' > 0 => usb_length' <= usb_transfer'.next
    BY <1>1, <2>1, <2>4, <2>7
  <2> QED BY <2>8, <2>9, <2>10 DEF UsbInStep
<1> QED BY <1>5, <1>7 DEF UsbInv

\* A packet that is copied from the buffer goes on with the bytes that were
\* copied before.
LEMMA UsbCopies ==
    ASSUME UsbSizes, UsbInv, NEW from \in Nat, NEW last \in 0 .. UsbSize, from < last,
           USB!Copy(from, last),
           NEW waiting \in 0 .. UsbSize,
           UNCHANGED <<usb_buffer, usb_accepted, overwritten>>, usb_length' = waiting,
           ~ overwritten =>
               /\ waiting = 0 \/ waiting <= from
               /\ usb_accepted = Len(usb_delivered) + (last - from) + waiting
               /\ \A i \in from .. last - 1 : usb_buffer[i] = Len(usb_delivered) + 1 + i - from
               /\ \A i \in 0 .. waiting - 1 :
                      usb_buffer[i] = Len(usb_delivered) + (last - from) + 1 + i
    PROVE  UsbInv'
<1> DEFINE to == USB!Min({from + Packet, last})
<1> DEFINE copied == [k \in 1 .. to - from |-> usb_buffer[from + k - 1]]
<1>1. UsbSize \in Nat /\ Packet \in Nat \ {0} /\ last \in Nat /\ waiting \in Nat
  BY DEF UsbSizes
<1>2. to \in from + 1 .. last
  BY <1>1, TheLesser
<1> HIDE DEF to
<1>3. copied \in Seq(Nat) /\ Len(copied) = to - from
      /\ \A k \in 1 .. to - from : copied[k] = usb_buffer[from + k - 1]
  <2>1. \A k \in 1 .. to - from : usb_buffer[from + k - 1] \in Nat
    BY <1>1, <1>2 DEF UsbInv, UsbTypes
  <2> QED BY <1>1, <1>2, <2>1
<1>4. usb_delivered' = usb_delivered \o copied
      /\ usb_transfer' = [next |-> to, length |-> last]
  BY DEF USB!Copy, to
<1> HIDE DEF copied
<1>5. /\ usb_delivered' \in Seq(Nat)
      /\ Len(usb_delivered') = Len(usb_delivered) + (to - from)
      /\ \A k \in 1 .. Len(usb_delivered) : usb_delivered'[k] = usb_delivered[k]
      /\ \A k \in 1 .. to - from : usb_delivered'[Len(usb_delivered) + k] = usb_buffer[from + k - 1]
  <2>1. usb_delivered \in Seq(Nat)
    BY DEF UsbInv, UsbTypes
  <2>2. /\ usb_delivered' \in Seq(Nat) /\ Len(usb_delivered') = Len(usb_delivered) + Len(copied)
        /\ \A k \in 1 .. Len(usb_delivered) : usb_delivered'[k] = usb_delivered[k]
        /\ \A k \in 1 .. Len(copied) : usb_delivered'[Len(usb_delivered) + k] = copied[k]
    BY <1>3, <1>4, <2>1, Joined
  <2> QED BY <1>3, <2>2
<1>6. Left' = last - to /\ usb_transfer'.next = to /\ usb_transfer'.length = last
  BY <1>4 DEF Left
<1>7. UsbTypes'
  <2>1. usb_transfer' \in [next : 0 .. UsbSize, length : 0 .. UsbSize]
    BY <1>1, <1>2, <1>4
  <2>2. usb_length' \in 0 .. UsbSize
    BY <1>1
  <2> QED BY <1>1, <1>2, <1>5, <1>6, <2>1, <2>2 DEF UsbInv, UsbTypes
<1>8. UsbInStep'
  <2> SUFFICES ASSUME ~ overwritten PROVE UsbInStep'
    BY DEF UsbInStep
  <2> DEFINE L == Len(usb_delivered)
  <2>1. L \in Nat
    BY DEF UsbInv, UsbTypes
  <2>2. ASSUME NEW k \in 1 .. L + (to - from)
        PROVE  usb_delivered'[k] = k
    <3>1. CASE k \in 1 .. L
      BY <1>5, <3>1 DEF UsbInv, UsbInStep
    <3>2. CASE k \notin 1 .. L
      <4>1. k - L \in 1 .. to - from /\ L + (k - L) = k
        BY <1>1, <1>2, <2>1, <3>2
      <4>2. usb_delivered'[k] = usb_buffer[from + (k - L) - 1]
        BY <1>5, <4>1
      <4>3. from + (k - L) - 1 \in from .. last - 1
        BY <1>1, <1>2, <4>1
      <4> QED BY <1>1, <1>2, <2>1, <4>1, <4>2, <4>3
    <3> QED BY <3>1, <3>2
  <2>3. ASSUME NEW i \in to .. last - 1
        PROVE  usb_buffer'[i] = L + (to - from) + 1 + i - to
    <3>1. usb_buffer[i] = L + 1 + i - from
      BY <1>1, <1>2
    <3> QED BY <1>1, <1>2, <2>1, <3>1
  <2>4. ASSUME NEW i \in 0 .. waiting - 1
        PROVE  usb_buffer'[i] = (L + (to - from)) + (last - to) + 1 + i
    <3>1. usb_buffer[i] = L + (last - from) + 1 + i
      OBVIOUS
    <3> QED BY <1>1, <1>2, <2>1, <3>1
  <2>5. usb_accepted' = (L + (to - from)) + (last - to) + waiting
    BY <1>1, <1>2, <2>1
  <2>6. last - to > 0 => waiting <= to
    BY <1>1, <1>2
  <2> HIDE DEF L
  <2>7. Len(usb_delivered') = L + (to - from)
    BY <1>5 DEF L
  <2> QED BY <1>6, <2>2, <2>3, <2>4, <2>5, <2>6, <2>7 DEF UsbInStep
<1> QED BY <1>7, <1>8 DEF UsbInv

LEMMA UsbHandsOver ==
    ASSUME UsbSizes, UsbInv, USB!Task
    PROVE  UsbInv'
<1>1. CASE usb_length = 0
  BY <1>1 DEF USB!Task, UsbInv, UsbTypes, UsbInStep, Left
<1>2. CASE usb_length # 0
  <2>1. usb_transfer.next = 0 /\ usb_transfer.length = 0 /\ Left = 0
        /\ USB!Copy(0, usb_length) /\ usb_length' = 0
        /\ UNCHANGED <<usb_buffer, usb_accepted, overwritten>>
    BY <1>2 DEF USB!Task, USB!InProgress, USB!NoTransfer, Left
  <2>2. usb_length \in 0 .. UsbSize /\ 0 < usb_length /\ 0 \in Nat /\ 0 \in 0 .. UsbSize
    BY <1>2, UsbNumbers
  <2>3. ~ overwritten =>
          /\ 0 = 0 \/ 0 <= 0
          /\ usb_accepted = Len(usb_delivered) + (usb_length - 0) + 0
          /\ \A i \in 0 .. usb_length - 1 : usb_buffer[i] = Len(usb_delivered) + 1 + i - 0
          /\ \A i \in 0 .. 0 - 1 : usb_buffer[i] = Len(usb_delivered) + (usb_length - 0) + 1 + i
    BY <2>1, UsbNumbers DEF UsbInv, UsbInStep
  <2> QED BY <2>1, <2>2, <2>3, UsbCopies, Zenon
<1> QED BY <1>1, <1>2

LEMMA UsbGoesOn ==
    ASSUME UsbSizes, UsbInv, USB!PacketTaken
    PROVE  UsbInv'
<1> DEFINE from == usb_transfer.next
           last == usb_transfer.length
<1>1. UNCHANGED <<usb_buffer, usb_length, usb_accepted, overwritten>>
  BY DEF USB!PacketTaken
<1>2. {from, last} \subseteq 0 .. UsbSize /\ {from, last, usb_length} \subseteq Nat
      /\ Len(usb_delivered) \in Nat
  BY DEF UsbSizes, UsbInv, UsbTypes
<1>3. CASE from < last /\ USB!Copy(from, last)
  <2>1. from \in Nat /\ last \in 0 .. UsbSize /\ usb_length \in 0 .. UsbSize
    BY UsbNumbers
  <2>2. ~ overwritten =>
          /\ usb_length = 0 \/ usb_length <= from
          /\ usb_accepted = Len(usb_delivered) + (last - from) + usb_length
          /\ \A i \in from .. last - 1 : usb_buffer[i] = Len(usb_delivered) + 1 + i - from
          /\ \A i \in 0 .. usb_length - 1 :
                 usb_buffer[i] = Len(usb_delivered) + (last - from) + 1 + i
    BY <1>3, UsbNumbers DEF UsbInv, UsbInStep, Left
  <2> QED BY <1>1, <1>3, <2>1, <2>2, UsbCopies, Zenon
<1>4. CASE from = last /\ usb_transfer' = USB!NoTransfer /\ UNCHANGED usb_delivered
  <2>1. usb_transfer'.next = 0 /\ usb_transfer'.length = 0
        /\ usb_transfer' \in [next : 0 .. UsbSize, length : 0 .. UsbSize]
    BY <1>4 DEF UsbSizes, USB!NoTransfer
  <2>2. Left = 0 /\ Left' = 0
    BY <1>2, <1>4, <2>1 DEF Left
  <2>3. UsbTypes'
    BY <1>1, <1>4, <2>1 DEF UsbInv, UsbTypes
  <2>4. UsbInStep'
    BY <1>1, <1>2, <1>4, <2>1, <2>2 DEF UsbInv, UsbInStep
  <2> QED BY <2>3, <2>4 DEF UsbInv
<1> QED BY <1>3, <1>4 DEF USB!PacketTaken

\* Whatever the sizes of the buffer, the packets and the writes, and whenever
\* the host takes a packet: it is sent the accepted bytes in order, each of
\* them once, unless a write reached bytes that were not copied yet.
THEOREM UsbSendsInOrder ==
    ASSUME UsbSizes
    PROVE  USB!UsbSpec => []USB!SentInOrder
<1>1. USB!UsbInit => UsbInv
  <2> SUFFICES ASSUME USB!UsbInit PROVE UsbInv
    OBVIOUS
  <2>1. UsbSize \in Nat /\ usb_transfer.next = 0 /\ usb_transfer.length = 0 /\ Left = 0
    BY DEF UsbSizes, USB!UsbInit, USB!NoTransfer, Left
  <2>2. UsbTypes
    <3>1. usb_transfer \in [next : 0 .. UsbSize, length : 0 .. UsbSize]
      BY <2>1 DEF USB!UsbInit, USB!NoTransfer
    <3>2. usb_buffer \in [0 .. UsbSize - 1 -> Nat] /\ usb_delivered \in Seq(Nat)
      BY DEF USB!UsbInit
    <3>3. usb_length \in 0 .. UsbSize /\ usb_accepted \in Nat /\ overwritten \in BOOLEAN
          /\ usb_transfer.next <= usb_transfer.length
      <4>1. usb_length = 0 /\ usb_accepted = 0
        BY DEF USB!UsbInit
      <4>2. overwritten \in BOOLEAN
        BY DEF USB!UsbInit
      <4> QED BY <2>1, <4>1, <4>2
    <3> QED BY <3>1, <3>2, <3>3 DEF UsbTypes
  <2>3. UsbInStep
    BY <2>1 DEF USB!UsbInit, UsbInStep
  <2> QED BY <2>2, <2>3 DEF UsbInv
<1>2. UsbInv /\ [USB!UsbNext]_(USB!usbVars) => UsbInv'
  <2> SUFFICES ASSUME UsbInv, [USB!UsbNext]_(USB!usbVars) PROVE UsbInv'
    OBVIOUS
  <2>1. CASE USB!StartTask \/ USB!Configure
    BY <2>1 DEF USB!StartTask, USB!Configure, UsbInv, UsbTypes, UsbInStep, Left
  <2>2. CASE UNCHANGED USB!usbVars
    BY <2>2 DEF USB!usbVars, UsbInv, UsbTypes, UsbInStep, Left
  <2> QED BY <2>1, <2>2, UsbWrites, UsbHandsOver, UsbGoesOn DEF USB!UsbNext, USB!UsbWorks
<1>3. UsbInv => USB!SentInOrder
  <2> SUFFICES ASSUME UsbInv, ~ overwritten
               PROVE  usb_delivered = [k \in 1 .. Len(usb_delivered) |-> k]
    BY DEF USB!SentInOrder
  <2>1. usb_delivered \in Seq(Nat) /\ \A k \in 1 .. Len(usb_delivered) : usb_delivered[k] = k
    BY DEF UsbInv, UsbTypes, UsbInStep
  <2>2. DOMAIN usb_delivered = 1 .. Len(usb_delivered)
    BY <2>1
  <2>3. usb_delivered = [k \in 1 .. Len(usb_delivered) |-> usb_delivered[k]]
    BY <2>1, <2>2
  <2> QED BY <2>1, <2>3, Zenon
<1> QED BY <1>1, <1>2, <1>3, PTL DEF USB!UsbSpec

=============================================================================
