--------------------------- MODULE RadioMessages ----------------------------
(***************************************************************************)
(* The messages of twr_radio_pub.c and twr_radio_node.c: what one device   *)
(* writes into a buffer, and what another one, which decodes the buffer    *)
(* with code of its own, tells its application.                            *)
(*                                                                         *)
(* A cell of the buffer is the k-th byte of a value.  A value is told      *)
(* apart from the one that stands for no value ("null": INT32_MIN,         *)
(* UINT16_MAX, NaN ...); a text and a block of data are their lengths.     *)
(***************************************************************************)
EXTENDS Naturals, Sequences, SequencesExt

CONSTANTS
    MAX_BUFFER_SIZE,    \* of a message: the packet without the radio's head
    ID_SIZE             \* the bytes of an identifier

MAX_TOPIC_LEN == MAX_BUFFER_SIZE - 1 - 4 - 1
NODE_MAX_BUFFER_SIZE == MAX_BUFFER_SIZE - ID_SIZE - 1

VARIABLES
    message,    \* what the application sends
    wire,       \* the buffer, none before it is written
    told        \* what the other application is told

messageVars == <<message, wire, told>>

Plain == {"value"}
Nullable == {"value", "null"}

\* The messages of fixed length: the sizes of the fields that are written, in
\* their order, and whether a field may have no value.
Writes == [
    event_count |-> <<1, 2>>, temperature |-> <<1, 4>>, humidity |-> <<1, 4>>,
    lux_meter |-> <<1, 4>>, barometer |-> <<1, 4, 4>>, co2 |-> <<4>>, battery |-> <<4>>,
    acceleration |-> <<4, 4, 4>>, state |-> <<1, 1>>, value_int |-> <<1, 4>>,
    node_state_set |-> <<ID_SIZE, 1, 1>>, node_state_get |-> <<ID_SIZE, 1>>,
    led_strip_color_set |-> <<ID_SIZE, 4>>, led_strip_brightness_set |-> <<ID_SIZE, 1>>,
    led_strip_effect_set |-> <<ID_SIZE, 1, 1, 1, 4>>,
    led_strip_thermometer_set |-> <<ID_SIZE, 4, 1, 1, 1>>,
    led_strip_thermometer_set_point |-> <<ID_SIZE, 4, 1, 1, 1, 4, 4>>]
MayBeNull == [
    event_count |-> {2}, temperature |-> {2}, humidity |-> {2}, lux_meter |-> {2},
    barometer |-> {2, 3}, co2 |-> {1}, battery |-> {1}, acceleration |-> {1, 2, 3},
    state |-> {2}, value_int |-> {2}, node_state_set |-> {3}, node_state_get |-> {},
    led_strip_color_set |-> {}, led_strip_brightness_set |-> {},
    led_strip_effect_set |-> {4},   \* the high byte of the wait: 0 or not
    led_strip_thermometer_set |-> {2}, led_strip_thermometer_set_point |-> {2}]

\* The offsets and sizes that are read.
Reads == [
    event_count |-> <<<<1, 1>>, <<2, 2>>>>, temperature |-> <<<<1, 1>>, <<2, 4>>>>,
    humidity |-> <<<<1, 1>>, <<2, 4>>>>, lux_meter |-> <<<<1, 1>>, <<2, 4>>>>,
    barometer |-> <<<<1, 1>>, <<2, 4>>, <<6, 4>>>>, co2 |-> <<<<1, 4>>>>,
    battery |-> <<<<1, 4>>>>, acceleration |-> <<<<1, 4>>, <<5, 4>>, <<9, 4>>>>,
    state |-> <<<<1, 1>>, <<2, 1>>>>, value_int |-> <<<<1, 1>>, <<2, 4>>>>,
    node_state_set |-> <<<<1, ID_SIZE>>, <<ID_SIZE + 1, 1>>, <<ID_SIZE + 2, 1>>>>,
    node_state_get |-> <<<<1, ID_SIZE>>, <<ID_SIZE + 1, 1>>>>,
    led_strip_color_set |-> <<<<1, ID_SIZE>>, <<ID_SIZE + 1, 4>>>>,
    led_strip_brightness_set |-> <<<<1, ID_SIZE>>, <<ID_SIZE + 1, 1>>>>,
    led_strip_effect_set |->
        <<<<1, ID_SIZE>>, <<ID_SIZE + 1, 1>>, <<ID_SIZE + 2, 1>>, <<ID_SIZE + 3, 1>>,
          <<ID_SIZE + 4, 4>>>>,
    led_strip_thermometer_set |->
        <<<<1, ID_SIZE>>, <<ID_SIZE + 1, 4>>, <<ID_SIZE + 5, 1>>, <<ID_SIZE + 6, 1>>,
          <<ID_SIZE + 7, 1>>>>,
    led_strip_thermometer_set_point |->
        <<<<1, ID_SIZE>>, <<ID_SIZE + 1, 4>>, <<ID_SIZE + 5, 1>>, <<ID_SIZE + 6, 1>>,
          <<ID_SIZE + 7, 1>>, <<ID_SIZE + 8, 4>>, <<ID_SIZE + 12, 4>>>>]

\* The lengths that twr_radio_pub_decode asks for; 0 is any.  A thermometer
\* with a set point is told from one without by its length.
Length == [kind \in DOMAIN Writes |->
    CASE kind \in {"temperature", "humidity", "lux_meter", "value_int"} -> 6
      [] kind = "event_count" -> 4
      [] kind = "barometer" -> 10
      [] kind \in {"co2", "battery"} -> 5
      [] kind = "acceleration" -> 13
      [] kind = "state" -> 3
      [] OTHER -> 0]

\* The messages that end with a text, or with two, or with data.
TopicSize == [topic_bool |-> 1, topic_int |-> 4, topic_uint32 |-> 4, topic_float |-> 4]
DataHead == [buffer |-> 0, node_buffer |-> ID_SIZE, led_strip_compound_set |-> ID_SIZE,
             sub_data |-> ID_SIZE + 1]

Kinds == DOMAIN Writes \cup DOMAIN TopicSize \cup DOMAIN DataHead \cup {"topic_string"}

Lengths(max) == {0, 1, 5, max - 1, max, max + 1}

Messages ==
    UNION {{[kind |-> kind, args |-> args] : args \in
            {a \in [DOMAIN Writes[kind] -> Nullable] :
                \A k \in DOMAIN a : k \notin MayBeNull[kind] => a[k] = "value"}} :
           kind \in DOMAIN Writes}
    \cup [kind : DOMAIN TopicSize, value : Nullable, topic : Lengths(MAX_TOPIC_LEN)]
    \cup [kind : {"topic_string"}, topic : Lengths(MAX_TOPIC_LEN), text : Lengths(5)]
    \cup [kind : DOMAIN DataHead,
           data : Lengths(NODE_MAX_BUFFER_SIZE) \cup Lengths(MAX_BUFFER_SIZE - 1)]

Shortest == [kind |-> "buffer", data |-> 0]
None == [kind |-> "none"]
Init == message \in Messages /\ wire = <<>> /\ told = None

-----------------------------------------------------------------------------
(***************************************************************************)
(* Writing.                                                                *)
(***************************************************************************)
\* twr_radio_..._to_buffer
Bytes(value, size) == [k \in 1 .. size |-> <<value, k>>]
Header(kind) == Bytes(IF kind = "led_strip_thermometer_set_point"
                      THEN "led_strip_thermometer_set" ELSE kind, 1)
NUL == <<"nul", 1>>
Text(n) == [k \in 1 .. n |-> <<"text", 1>>] \o <<NUL>>
Data(n) == [k \in 1 .. n |-> <<"data", k>>]

\* The calls that are refused: a topic, or data, that do not fit.
Refused(m) ==
    \/ m.kind \in DOMAIN TopicSize /\ m.topic > MAX_TOPIC_LEN
    \/ m.kind = "topic_string" /\ m.topic + m.text > MAX_BUFFER_SIZE - 3
    \/ m.kind = "buffer" /\ m.data > MAX_BUFFER_SIZE - 1
    \/ m.kind \in {"node_buffer", "led_strip_compound_set"} /\ m.data > NODE_MAX_BUFFER_SIZE
    \/ m.kind = "led_strip_compound_set" /\ m.data % 5 # 0
    \/ m.kind = "sub_data" /\ m.data > NODE_MAX_BUFFER_SIZE - 1

\* twr_radio_pub_..., twr_radio_node_... and twr_radio_send_sub_data
Written(m) ==
    Header(m.kind) \o
    CASE m.kind \in DOMAIN Writes ->
            FlattenSeq([k \in DOMAIN m.args |-> Bytes(m.args[k], Writes[m.kind][k])])
      [] m.kind \in DOMAIN TopicSize -> Bytes(m.value, TopicSize[m.kind]) \o Text(m.topic)
      [] m.kind = "topic_string" -> Text(m.topic) \o Text(m.text)
      [] OTHER -> Bytes("value", DataHead[m.kind]) \o Data(m.data)

Publish ==
    /\ wire = <<>> /\ told = None
    /\ IF Refused(message) THEN told' = [kind |-> "refused"] /\ UNCHANGED wire
       ELSE wire' = Written(message) /\ UNCHANGED told
    /\ UNCHANGED message

-----------------------------------------------------------------------------
(***************************************************************************)
(* Reading.                                                                *)
(***************************************************************************)
\* twr_radio_..._from_buffer
Value(buffer, offset, size) ==
    LET bytes == SubSeq(buffer, offset + 1, offset + size)
    IN  IF \E v \in Nullable : bytes = Bytes(v, size)
        THEN CHOOSE v \in Nullable : bytes = Bytes(v, size) ELSE "mixed"

\* The decoder ends the message with a 0 at the offset; beyond the message
\* there is what earlier ones left.
EndedAt(offset) ==
    [i \in 1 .. IF offset < Len(wire) THEN Len(wire) ELSE offset + 1 |->
        IF i = offset + 1 THEN NUL ELSE IF i <= Len(wire) THEN wire[i] ELSE <<"text", 1>>]

\* strlen of the text at the offset.
Strlen(buffer, offset) ==
    (CHOOSE i \in offset + 1 .. Len(buffer) :
        buffer[i] = NUL /\ \A j \in offset + 1 .. i - 1 : buffer[j] # NUL) - offset - 1

\* The kind of a message of fixed length.
FixedKind ==
    IF wire[1][1] = "led_strip_thermometer_set" /\ Len(wire) = 1 + ID_SIZE + 15
    THEN "led_strip_thermometer_set_point" ELSE wire[1][1]

\* The fields of a fixed message.  The high byte of an effect's wait is
\* shifted to the wrong side: it is read as 0.
Fields(kind) ==
    [k \in DOMAIN Reads[kind] |->
        IF kind = "led_strip_effect_set" /\ k = 4 THEN "null"
        ELSE Value(wire, Reads[kind][k][1], Reads[kind][k][2])]

\* twr_radio_pub_decode, twr_radio_node_decode and what the task of
\* twr_radio.c does with SUB_DATA.
DecodeFixed ==
    /\ FixedKind \in DOMAIN Writes
    /\ told' = IF Length[FixedKind] \in {0, Len(wire)}
               THEN [kind |-> FixedKind, args |-> Fields(FixedKind)] ELSE [kind |-> "ignored"]

DecodeTopic ==
    /\ wire[1][1] \in DOMAIN TopicSize
    /\ LET size == TopicSize[wire[1][1]]
       IN  told' = [kind |-> wire[1][1], value |-> Value(wire, 1, size),
                    topic |-> Strlen(EndedAt(1 + size + Len(wire) - 1), 1 + size)]

DecodeString ==
    /\ wire[1][1] = "topic_string"
    /\ LET buffer == EndedAt(Len(wire) - 1)
           len == Strlen(buffer, 1)
       IN  told' = [kind |-> "topic_string", topic |-> len, text |-> Strlen(buffer, 2 + len)]

DecodeData ==
    /\ wire[1][1] \in DOMAIN DataHead
    /\ LET head == 1 + DataHead[wire[1][1]]
       IN  told' = IF SubSeq(wire, head + 1, Len(wire)) = Data(Len(wire) - head)
                   THEN [kind |-> wire[1][1], data |-> Len(wire) - head]
                   ELSE [kind |-> "garbled"]

Decode ==
    /\ wire # <<>> /\ told = None
    /\ DecodeFixed \/ DecodeTopic \/ DecodeString \/ DecodeData
    /\ UNCHANGED <<message, wire>>

MessageNext == Publish \/ Decode

-----------------------------------------------------------------------------
TypeOK ==
    /\ {message.kind, told.kind} \subseteq Kinds \cup {"none", "refused"}
    /\ Len(wire) \in 0 .. MAX_BUFFER_SIZE

\* What an application is told is what the other one has sent, in every field
\* and for every length up to the longest, except for the high byte of an
\* effect's wait.  A message that is accepted fits into a packet; one that
\* fits is accepted, but for the parts of pixels and for the topic of a bool,
\* whose limit is that of longer values.
MessagesUnderstood ==
    /\ Len(wire) <= MAX_BUFFER_SIZE
    /\ told.kind = "refused" =>
          \/ Len(Written(message)) > MAX_BUFFER_SIZE
          \/ message.kind = "led_strip_compound_set" /\ message.data % 5 # 0
          \/ message.kind = "topic_bool" /\ message.topic > MAX_TOPIC_LEN
    /\ told.kind \notin {"none", "refused"} =>
          told = IF message.kind = "led_strip_effect_set"
                 THEN [message EXCEPT !.args[4] = "null"] ELSE message

=============================================================================
